------------------------------ MODULE FuriThread ------------------------------
(***************************************************************************)
(* The life cycle of FuriThread, furi/core/thread.c: a thread is allocated,*)
(* started, runs its callback, hands itself to the scrub thread through a  *)
(* bounded queue, and is joined, restarted or freed by its owner, which    *)
(* polls the state.  The scrub thread has the lowest priority of all       *)
(* (FuriThreadPriorityInit), so it may be preempted between any two of its *)
(* steps for as long as the others are busy.                               *)
(*                                                                         *)
(* Grain of atomicity: furi_thread_set_state writes the state in one step  *)
(* and reads and calls the state callback in the next.                     *)
(***************************************************************************)
EXTENDS Integers, Sequences

CONSTANTS Instances,  \* heap addresses available to FuriThread
          Callbacks,  \* those whose owner may set a state callback
          Waiters,    \* those whose owner goes on only after the Stopped callback
          ScrubDepth, \* the length of furi_thread_scrub_message_queue
          NULL

ASSUME FuriThreadAssumption ==
    /\ ScrubDepth \in Nat \ {0}
    /\ Callbacks \subseteq Instances
    /\ Waiters \subseteq Callbacks
    /\ NULL \notin Instances

VARIABLES
    alive,    \* allocated
    state,    \* thread->state
    callback, \* thread->state_callback is set
    owner,    \* where the thread's owner is
    task,     \* where the FreeRTOS task of the thread is
    last,     \* history: the state last given to the state callback
    queue,    \* furi_thread_scrub_message_queue
    scrub,    \* where the scrub thread is
    scrubbed  \* its local thread_to_scrub

vars == <<alive, state, callback, owner, task, last, queue, scrub, scrubbed>>

(* FuriThreadState                                                         *)
States == {"Stopped", "Starting", "Running", "Stopping"}

TaskPcs  == {"none", "created", "running_cb", "running", "stopping_cb", "put", "suspended"}
OwnerPcs == {"user", "starting_cb", "create", "join"}
ScrubPcs == {"get", "delete", "set_state", "callback"}

TypeOK ==
    /\ alive \in [Instances -> BOOLEAN]
    /\ state \in [Instances -> States]
    /\ callback \in [Instances -> BOOLEAN]
    /\ owner \in [Instances -> OwnerPcs]
    /\ task \in [Instances -> TaskPcs]
    /\ last \in [Instances -> States]
    /\ queue \in Seq(Instances) /\ Len(queue) <= ScrubDepth
    /\ scrub \in ScrubPcs
    /\ scrubbed \in Instances \cup {NULL}

Init ==
    /\ alive = [t \in Instances |-> FALSE]
    /\ state = [t \in Instances |-> "Stopped"]
    /\ callback = [t \in Instances |-> FALSE]
    /\ owner = [t \in Instances |-> "user"]
    /\ task = [t \in Instances |-> "none"]
    /\ last = [t \in Instances |-> "Stopped"]
    /\ queue = <<>> /\ scrub = "get" /\ scrubbed = NULL

(* The second half of furi_thread_set_state.                               *)
CallStateCallback(t, s) == last' = IF callback[t] THEN [last EXCEPT ![t] = s] ELSE last

-----------------------------------------------------------------------------
(* The owner of a thread.  It is in user code again after each call.       *)

(* The user code of a Waiter starts or frees the thread again only after   *)
(* the Stopped callback (loader.c:419), any other one after the state.     *)
Settled(t) == t \in Waiters => last[t] = "Stopped"

(* furi_thread_alloc, furi_thread_set_state_callback                       *)
Alloc(t) ==
    /\ ~alive[t] /\ owner[t] = "user"
    /\ alive' = [alive EXCEPT ![t] = TRUE]
    /\ state' = [state EXCEPT ![t] = "Stopped"]
    /\ \E c \in BOOLEAN :
         /\ t \in Waiters => c
         /\ c => t \in Callbacks
         /\ callback' = [callback EXCEPT ![t] = c]
    /\ last' = [last EXCEPT ![t] = "Stopped"]
    /\ UNCHANGED <<owner, task, queue, scrub, scrubbed>>

(* furi_thread_start: the state, its callback, then the task.              *)
Start(t) ==
    /\ alive[t] /\ owner[t] = "user" /\ state[t] = "Stopped" /\ Settled(t)
    /\ state' = [state EXCEPT ![t] = "Starting"]
    /\ owner' = [owner EXCEPT ![t] = "starting_cb"]
    /\ UNCHANGED <<alive, callback, task, last, queue, scrub, scrubbed>>

StartCallback(t) ==
    /\ owner[t] = "starting_cb"
    /\ CallStateCallback(t, "Starting")
    /\ owner' = [owner EXCEPT ![t] = "create"]
    /\ UNCHANGED <<alive, state, callback, task, queue, scrub, scrubbed>>

CreateTask(t) ==
    /\ owner[t] = "create"
    /\ task' = [task EXCEPT ![t] = "created"]
    /\ owner' = [owner EXCEPT ![t] = "user"]
    /\ UNCHANGED <<alive, state, callback, last, queue, scrub, scrubbed>>

(* furi_thread_join: polls until the state is Stopped, with the callback   *)
(* for that state still to come.                                           *)
Join(t) ==
    /\ alive[t] /\ owner[t] = "user" /\ state[t] # "Stopped"
    /\ owner' = [owner EXCEPT ![t] = "join"]
    /\ UNCHANGED <<alive, state, callback, task, last, queue, scrub, scrubbed>>

JoinReturns(t) ==
    /\ owner[t] = "join" /\ state[t] = "Stopped"
    /\ owner' = [owner EXCEPT ![t] = "user"]
    /\ UNCHANGED <<alive, state, callback, task, last, queue, scrub, scrubbed>>

(* furi_thread_free: the heap clears the memory, the callback with it.     *)
Free(t) ==
    /\ alive[t] /\ owner[t] = "user" /\ state[t] = "Stopped" /\ Settled(t)
    /\ alive' = [alive EXCEPT ![t] = FALSE]
    /\ callback' = [callback EXCEPT ![t] = FALSE]
    /\ last' = [last EXCEPT ![t] = "Stopped"]
    /\ UNCHANGED <<state, owner, task, queue, scrub, scrubbed>>

-----------------------------------------------------------------------------
(* furi_thread_body, on the thread's own task                              *)

Body(t, from, to) == task[t] = from /\ task' = [task EXCEPT ![t] = to]

SetRunning(t) ==
    /\ Body(t, "created", "running_cb")
    /\ state' = [state EXCEPT ![t] = "Running"]
    /\ UNCHANGED <<alive, callback, owner, last, queue, scrub, scrubbed>>

RunningCallback(t) ==
    /\ Body(t, "running_cb", "running")
    /\ CallStateCallback(t, "Running")
    /\ UNCHANGED <<alive, state, callback, owner, queue, scrub, scrubbed>>

(* The thread's callback returns.                                          *)
SetStopping(t) ==
    /\ Body(t, "running", "stopping_cb")
    /\ state' = [state EXCEPT ![t] = "Stopping"]
    /\ UNCHANGED <<alive, callback, owner, last, queue, scrub, scrubbed>>

(* Mutant: the thread reports Stopped itself, before it is scrubbed.       *)
StoppingCallback_Stopped(t) ==
    /\ Body(t, "stopping_cb", "put")
    /\ CallStateCallback(t, "Stopped")
    /\ UNCHANGED <<alive, state, callback, owner, queue, scrub, scrubbed>>

StoppingCallback(t) ==
    /\ Body(t, "stopping_cb", "put")
    /\ CallStateCallback(t, "Stopping")
    /\ UNCHANGED <<alive, state, callback, owner, queue, scrub, scrubbed>>

(* Mutant: the put does not wait for a place in the queue.                 *)
PutScrub_NoWait(t) ==
    /\ Body(t, "put", "suspended")
    /\ queue' = IF Len(queue) < ScrubDepth THEN Append(queue, t) ELSE queue
    /\ UNCHANGED <<alive, state, callback, owner, last, scrub, scrubbed>>

(* furi_message_queue_put with FuriWaitForever, then vTaskSuspend.         *)
PutScrub(t) ==
    /\ Body(t, "put", "suspended")
    /\ Len(queue) < ScrubDepth
    /\ queue' = Append(queue, t)
    /\ UNCHANGED <<alive, state, callback, owner, last, scrub, scrubbed>>

-----------------------------------------------------------------------------
(* furi_thread_scrub, forever on the InitSrv thread                        *)

ScrubGet ==
    /\ scrub = "get" /\ queue # <<>>
    /\ scrubbed' = Head(queue) /\ queue' = Tail(queue)
    /\ scrub' = "delete"
    /\ UNCHANGED <<alive, state, callback, owner, task, last>>

(* Mutant: the task is not deleted.                                        *)
ScrubDelete_Missing ==
    /\ scrub = "delete"
    /\ scrub' = "set_state"
    /\ UNCHANGED <<alive, state, callback, owner, task, last, queue, scrubbed>>

(* vTaskDelete, and the check and clearing of the local storage pointer.   *)
ScrubDelete ==
    /\ scrub = "delete"
    /\ task' = [task EXCEPT ![scrubbed] = "none"]
    /\ scrub' = "set_state"
    /\ UNCHANGED <<alive, state, callback, owner, last, queue, scrubbed>>

ScrubSetState ==
    /\ scrub = "set_state"
    /\ state' = [state EXCEPT ![scrubbed] = "Stopped"]
    /\ scrub' = "callback"
    /\ UNCHANGED <<alive, callback, owner, task, last, queue, scrubbed>>

(* Reads thread->state_callback of whatever is at that address by now.     *)
ScrubCallback ==
    /\ scrub = "callback"
    /\ CallStateCallback(scrubbed, "Stopped")
    /\ scrub' = "get" /\ scrubbed' = NULL
    /\ UNCHANGED <<alive, state, callback, owner, task, queue>>

-----------------------------------------------------------------------------
OwnerNext(t) ==
    \/ Alloc(t) \/ Start(t) \/ StartCallback(t) \/ CreateTask(t)
    \/ Join(t) \/ JoinReturns(t) \/ Free(t)

BodyNext(t) ==
    SetRunning(t) \/ RunningCallback(t) \/ SetStopping(t) \/ StoppingCallback(t) \/ PutScrub(t)

ScrubNext == ScrubGet \/ ScrubDelete \/ ScrubSetState \/ ScrubCallback

Next == ScrubNext \/ \E t \in Instances : OwnerNext(t) \/ BodyNext(t)

Spec == Init /\ [][Next]_vars

(* The kernel schedules every task, wakes the senders of a full queue in   *)
(* turn, and a joining owner polls again; thread callbacks return.         *)
Fairness ==
    /\ WF_vars(ScrubNext)
    /\ \A t \in Instances :
         /\ WF_vars(BodyNext(t)) /\ SF_vars(PutScrub(t))
         /\ WF_vars(JoinReturns(t))

FairSpec == Spec /\ Fairness

-----------------------------------------------------------------------------
(* Properties                                                              *)

(* A state and the one it may follow in a life cycle.                      *)
Predecessor(s) ==
    CASE s = "Starting" -> "Stopped" [] s = "Running" -> "Starting"
      [] s = "Stopping" -> "Running" [] s = "Stopped" -> "Stopping"

(* xTaskCreateStatic never gets the memory of a task that the kernel still *)
(* has (thread.c:403), a freed thread has no task and is not on its way    *)
(* through the scrub queue.                                                *)
TaskMemoryFree ==
    \A t \in Instances :
        /\ owner[t] = "create" => task[t] = "none"
        /\ ~alive[t] => task[t] = "none" /\ \A k \in 1..Len(queue) : queue[k] # t

(* The furi_checks of furi_thread_body on the state (thread.c:110, :145)   *)
(* and of furi_thread_scrub on the local storage of the task hold.         *)
ChecksHold ==
    /\ \A t \in Instances :
         /\ task[t] = "created" => state[t] = "Starting"
         /\ task[t] = "running" => state[t] = "Running"
    /\ scrub = "delete" => task[scrubbed] = "suspended"

(* The scrub thread and the body only touch an allocated thread, when the  *)
(* owner waits for the Stopped callback.                                   *)
TouchesAlive ==
    /\ \A t \in Instances : task[t] # "none" => alive[t]
    /\ scrub # "get" /\ scrubbed \in Waiters => alive[scrubbed]

(* The bookkeeping of a life cycle: whoever acts on a thread, its owner,   *)
(* its own task or the scrub thread, finds it as the code assumes it.      *)
ThreadsSound == TypeOK /\ TaskMemoryFree /\ ChecksHold /\ TouchesAlive

(* thread.h:102 "state identifier of the state the thread has transitioned *)
(* to": the state callback is told every state once and in the order of    *)
(* the life cycle, when the owner waits for the Stopped callback.          *)
CallbackInOrder ==
    [][\A t \in Waiters :
         last'[t] # last[t] /\ alive[t] /\ alive'[t] => last[t] = Predecessor(last'[t])]_vars

(* The owner that polls in furi_thread_join for a thread whose callback    *)
(* has returned goes on, however many others exit at the same time (the    *)
(* wait for a place in the scrub queue, thread.c:152).                     *)
JoinEnds == \A t \in Instances : owner[t] = "join" /\ state[t] = "Stopping" ~> owner[t] = "user"
=============================================================================
