------------------------------ MODULE Expansion ------------------------------
(***************************************************************************)
(* The expansion module service, applications/services/expansion: a        *)
(* control thread serves a message queue filled by API callers, by the     *)
(* detection interrupt (through the serial control thread) and by the      *)
(* worker, the thread that talks to a connected module.  The control thread*)
(* stops, joins and frees workers; a worker may end by itself at any time  *)
(* and says so through the same queue.                                     *)
(*                                                                         *)
(* Grain of atomicity: the control thread takes a message, handles it, and *)
(* waits for the end of a worker in separate steps; a worker step is one   *)
(* received frame, one taken thread flag or one put.                       *)
(***************************************************************************)
EXTENDS Integers, Sequences, FiniteSets

CONSTANTS Callers,     \* the threads that call the public API
          Serials,     \* FuriHalSerialId
          Workers,     \* heap addresses available to ExpansionWorker
          QueueSize,   \* EXPANSION_CONTROL_QUEUE_SIZE
          MaxEdges,    \* bound on the falling edges seen while detection is set
          NULL

ASSUME ExpansionAssumption ==
    /\ QueueSize \in Nat \ {0}
    /\ MaxEdges \in Nat
    /\ NULL \notin Callers /\ NULL \notin Serials /\ NULL \notin Workers

VARIABLES
    state,      \* instance->state
    serial_id,  \* instance->serial_id
    worker,     \* instance->worker
    queue,      \* instance->queue
    message,    \* the message the control thread handles
    control,    \* where the control thread is
    armed,      \* the serial whose detection callback is set, or NULL
    edges,      \* falling edges seen so far
    caller,     \* the API callers that wait for their answer
    mem,        \* the allocated workers
    wk          \* per worker: its thread and its fields

controlVars == <<state, serial_id, worker, message, control>>
detectVars  == <<armed, edges>>
vars == <<controlVars, detectVars, queue, caller, mem, wk>>

(* ExpansionState, ExpansionMessageType, ExpansionWorkerState and          *)
(* ExpansionWorkerExitReason                                               *)
States == {"Disabled", "Enabled", "Running", "ConnectionEstablished"}
ApiTypes == {"Enable", "Disable", "SetListenSerial", "IsConnected"}
MessageTypes ==
    ApiTypes \cup {"ReloadSettings", "ModuleConnected", "ModuleDisconnected",
                   "ConnectionEstablished"}
WorkerStates == {"HandShake", "Connected"}  \* RpcActive is a Connected here
ExitReasons == {"Unknown", "User", "Error", "Timeout"}

Messages == [type : MessageTypes, from : Callers \cup {NULL}, serial : Serials \cup {NULL}]
Message(type) == [type |-> type, from |-> NULL, serial |-> NULL]
NoMessage == Message("IsConnected")

WorkerPcs == {"none", "start", "receive", "put_connected", "exit", "put_exit", "stopped",
              "crashed"}
WorkerTypes == [pc : WorkerPcs, state : WorkerStates, reason : ExitReasons,
                part : BOOLEAN,   \* bytes of the frame came in the current receive call
                stop : BOOLEAN,   \* ExpansionWorkerFlagStop is set
                forgot : BOOLEAN, \* history: it was taken in the middle of a frame
                buf : BOOLEAN]    \* rx_buf is allocated
NoWorker == [pc |-> "none", state |-> "HandShake", reason |-> "Unknown",
             part |-> FALSE, stop |-> FALSE, forgot |-> FALSE, buf |-> FALSE]

TypeOK ==
    /\ state \in States
    /\ serial_id \in Serials \cup {NULL}
    /\ worker \in Workers \cup {NULL}
    /\ queue \in Seq(Messages) /\ Len(queue) <= QueueSize
    /\ message \in Messages
    /\ control \in {"get", "handle", "join", "free_join"}
    /\ armed \in Serials \cup {NULL}
    /\ edges \in 0..MaxEdges
    /\ caller \subseteq Callers
    /\ mem \subseteq Workers
    /\ wk \in [Workers -> WorkerTypes]

(* expansion_alloc; expansion_on_system_start enables through the API.     *)
Init ==
    /\ state = "Disabled" /\ serial_id = NULL /\ worker = NULL
    /\ queue = <<>> /\ message = NoMessage /\ control = "get"
    /\ armed = NULL /\ edges = 0
    /\ caller = {} /\ mem = {}
    /\ wk = [w \in Workers |-> NoWorker]

-----------------------------------------------------------------------------
(* Messages                                                                *)

Put(m) == Len(queue) < QueueSize /\ queue' = Append(queue, m)

(* expansion_enable, _disable, _set_listen_serial and _is_connected: put,  *)
(* then wait for the api_lock.                                             *)
ApiCall(c, type, serial) ==
    /\ c \notin caller
    /\ Put([type |-> type, from |-> c, serial |-> serial])
    /\ caller' = caller \cup {c}
    /\ UNCHANGED <<controlVars, detectVars, mem, wk>>

(* expansion_storage_callback, once at a time                              *)
CardMount ==
    /\ \A k \in 1..Len(queue) : queue[k].type # "ReloadSettings"
    /\ Put(Message("ReloadSettings"))
    /\ UNCHANGED <<controlVars, detectVars, caller, mem, wk>>

(* The interrupt handler and expansion_detect_callback: a message that     *)
(* does not fit is discarded.                                              *)
Detect ==
    /\ armed # NULL /\ edges < MaxEdges
    /\ edges' = edges + 1
    /\ queue' = IF Len(queue) < QueueSize THEN Append(queue, Message("ModuleConnected")) ELSE queue
    /\ UNCHANGED <<controlVars, armed, caller, mem, wk>>

-----------------------------------------------------------------------------
(* expansion_control and its handlers                                      *)

ControlGet ==
    /\ control = "get" /\ queue # <<>>
    /\ message' = Head(queue) /\ queue' = Tail(queue)
    /\ control' = "handle"
    /\ UNCHANGED <<state, serial_id, worker, detectVars, caller, mem, wk>>

Handling(type) == control = "handle" /\ message.type = type

(* The handler returns and the api_lock, if any, is unlocked.              *)
Done ==
    /\ control' = "get" /\ message' = NoMessage
    /\ caller' = caller \ {message.from}

(* furi_hal_serial_control_set_expansion_callback                          *)
Arm(serial) == armed' = serial /\ UNCHANGED edges
Disarm == armed' = NULL /\ UNCHANGED edges

Active == state \in {"Running", "ConnectionEstablished"}

(* The setting uart_index names a serial or none.                          *)
Enable ==
    /\ Handling("Enable")
    /\ Done
    /\ IF state # "Disabled"
       THEN UNCHANGED <<state, serial_id, detectVars>>
       ELSE \/ \E s \in Serials : state' = "Enabled" /\ serial_id' = s /\ Arm(s)
            \/ UNCHANGED <<state, serial_id, detectVars>>
    /\ UNCHANGED <<worker, queue, mem, wk>>

(* What is left of expansion_control_handler_disable, and of _set_listen_  *)
(* serial, once no worker runs.                                            *)
Disabled == state' = "Disabled" /\ UNCHANGED serial_id /\ Disarm
Listening == state' = "Enabled" /\ serial_id' = message.serial /\ Arm(message.serial)

SameSerial == message.type = "SetListenSerial" /\ state # "Disabled" /\ serial_id = message.serial

Reconfigure ==
    /\ Handling("Disable") \/ Handling("SetListenSerial")
    /\ ~Active \/ SameSerial
    /\ Done
    /\ IF SameSerial \/ (message.type = "Disable" /\ state = "Disabled")
       THEN UNCHANGED <<state, serial_id, detectVars>>
       ELSE IF message.type = "Disable" THEN Disabled ELSE Listening
    /\ UNCHANGED <<worker, queue, mem, wk>>

(* Mutant: the worker is freed without waiting for its end.                *)
StopWorker_NoJoin ==
    /\ Handling("Disable") \/ Handling("SetListenSerial")
    /\ Active /\ ~SameSerial
    /\ wk' = [wk EXCEPT ![worker].stop = TRUE]
    /\ mem' = mem \ {worker} /\ worker' = NULL
    /\ Done
    /\ IF message.type = "Disable" THEN Disabled ELSE Listening
    /\ UNCHANGED queue

(* Mutant: the worker is joined, but not told to stop.                     *)
StopWorker_NoFlag ==
    /\ Handling("Disable") \/ Handling("SetListenSerial")
    /\ Active /\ ~SameSerial
    /\ control' = "join"
    /\ UNCHANGED <<state, serial_id, worker, message, detectVars, queue, caller, mem, wk>>

(* With a worker, expansion_worker_stop sets the flag and joins ...        *)
StopWorker ==
    /\ Handling("Disable") \/ Handling("SetListenSerial")
    /\ Active /\ ~SameSerial
    /\ wk' = [wk EXCEPT ![worker].stop = TRUE]
    /\ control' = "join"
    /\ UNCHANGED <<state, serial_id, worker, message, detectVars, queue, caller, mem>>

(* ... expansion_worker_free frees it, and the handler goes on.            *)
WorkerJoined ==
    /\ control = "join" /\ wk[worker].pc = "stopped"
    /\ wk' = [wk EXCEPT ![worker] = NoWorker]
    /\ mem' = mem \ {worker} /\ worker' = NULL
    /\ Done
    /\ IF message.type = "Disable" THEN Disabled ELSE Listening
    /\ UNCHANGED queue

(* The settings turn a reload into a change of serial or into a disable.   *)
ReloadSettings ==
    /\ Handling("ReloadSettings")
    /\ \/ \E s \in Serials : message' = [message EXCEPT !.type = "SetListenSerial", !.serial = s]
       \/ message' = [message EXCEPT !.type = "Disable"]
    /\ UNCHANGED <<state, serial_id, worker, control, detectVars, queue, caller, mem, wk>>

ModuleConnected ==
    /\ Handling("ModuleConnected")
    /\ Done
    /\ IF state # "Enabled"
       THEN UNCHANGED <<state, worker, detectVars, mem, wk>>
       ELSE /\ Disarm
            /\ state' = "Running"
            /\ \E w \in Workers \ mem :
                 /\ worker' = w /\ mem' = mem \cup {w}
                 /\ wk' = [wk EXCEPT ![w] = [NoWorker EXCEPT !.pc = "start", !.buf = TRUE]]
    /\ UNCHANGED <<serial_id, queue>>

(* expansion_worker_free frees the receive buffer, then joins: the worker  *)
(* has ended, or is another one than the one that sent the message.        *)
ModuleDisconnected ==
    /\ Handling("ModuleDisconnected")
    /\ IF ~Active
       THEN Done /\ UNCHANGED <<state, wk>>
       ELSE /\ state' = "Enabled"
            /\ wk' = [wk EXCEPT ![worker].buf = FALSE]
            /\ control' = "free_join"
            /\ UNCHANGED <<message, caller>>
    /\ UNCHANGED <<serial_id, worker, detectVars, queue, mem>>

DisconnectedJoined ==
    /\ control = "free_join" /\ wk[worker].pc = "stopped"
    /\ wk' = [wk EXCEPT ![worker] = NoWorker]
    /\ mem' = mem \ {worker} /\ worker' = NULL
    /\ Arm(serial_id)
    /\ Done
    /\ UNCHANGED <<state, serial_id, queue>>

ConnectionEstablished ==
    /\ Handling("ConnectionEstablished")
    /\ state' = IF Active THEN "ConnectionEstablished" ELSE state
    /\ Done
    /\ UNCHANGED <<serial_id, worker, detectVars, queue, mem, wk>>

(* The answer is the state at this moment.                                 *)
IsConnected ==
    /\ Handling("IsConnected")
    /\ Done
    /\ UNCHANGED <<state, serial_id, worker, detectVars, queue, mem, wk>>

-----------------------------------------------------------------------------
(* expansion_worker, on the worker's thread                                *)

WorkerStep(w, from, new) == wk[w].pc = from /\ wk' = [wk EXCEPT ![w] = new]

(* The serial is acquired and the first heartbeat sent.                    *)
WorkerStart(w) ==
    /\ WorkerStep(w, "start", [wk[w] EXCEPT !.pc = "receive"])
    /\ UNCHANGED <<controlVars, detectVars, queue, caller, mem>>

(* A frame is complete: it is damaged or one the state has no use for, or  *)
(* it is answered.                                                         *)
FrameRejected(w) ==
    /\ WorkerStep(w, "receive", [wk[w] EXCEPT !.pc = "exit", !.part = FALSE])
    /\ UNCHANGED <<controlVars, detectVars, queue, caller, mem>>

FrameBaudRate(w) ==
    /\ wk[w].state = "HandShake"
    /\ \/ WorkerStep(w, "receive", [wk[w] EXCEPT !.part = FALSE])
       \/ WorkerStep(w, "receive",
                     [wk[w] EXCEPT !.part = FALSE, !.state = "Connected", !.pc = "put_connected"])
    /\ UNCHANGED <<controlVars, detectVars, queue, caller, mem>>

FrameControl(w) ==
    /\ wk[w].state = "Connected"
    /\ WorkerStep(w, "receive", [wk[w] EXCEPT !.part = FALSE])
    /\ UNCHANGED <<controlVars, detectVars, queue, caller, mem>>

(* expansion_worker_callback(Connected): put, then the handshake answer.   *)
PutConnected(w) ==
    /\ WorkerStep(w, "put_connected", [wk[w] EXCEPT !.pc = "receive"])
    /\ Put(Message("ConnectionEstablished"))
    /\ UNCHANGED <<controlVars, detectVars, caller, mem>>

(* Some bytes of a frame have come in.                                     *)
FramePart(w) ==
    /\ ~wk[w].part
    /\ WorkerStep(w, "receive", [wk[w] EXCEPT !.part = TRUE])
    /\ UNCHANGED <<controlVars, detectVars, queue, caller, mem>>

(* expansion_worker_receive_callback gives up, for a reason: the decoder   *)
(* takes nothing received as an error, and goes on with a part of a frame. *)
Interrupted(w, reason) ==
    [wk[w] EXCEPT !.reason = reason, !.part = FALSE,
                  !.pc = IF wk[w].part THEN "receive" ELSE "exit"]

TakeStop(w) ==
    /\ wk[w].stop
    /\ WorkerStep(w, "receive",
                  [Interrupted(w, "User") EXCEPT !.stop = FALSE, !.forgot = wk[w].part])
    /\ UNCHANGED <<controlVars, detectVars, queue, caller, mem>>

ReceiveError(w) ==
    /\ ~wk[w].stop
    /\ \E reason \in {"Error", "Timeout"} : WorkerStep(w, "receive", Interrupted(w, reason))
    /\ UNCHANGED <<controlVars, detectVars, queue, caller, mem>>

(* The serial is released; the callback is called unless the user stopped  *)
(* the worker.                                                             *)
WorkerExit(w) ==
    /\ WorkerStep(w, "exit",
                  [wk[w] EXCEPT !.pc = IF wk[w].reason = "User" THEN "stopped" ELSE "put_exit"])
    /\ UNCHANGED <<controlVars, detectVars, queue, caller, mem>>

(* The buffer is used from the receive of the first byte to the end of     *)
(* reception, by the worker and by the receive interrupt.  Without it the  *)
(* behaviour is undefined: the worker may go on, here as before, or crash. *)
UsesBuffer(w) == wk[w].pc \in {"receive", "put_connected", "exit"}

UseFreedBuffer(w) ==
    /\ UsesBuffer(w) /\ ~wk[w].buf
    /\ wk' = [wk EXCEPT ![w].pc = "crashed"]
    /\ UNCHANGED <<controlVars, detectVars, queue, caller, mem>>

(* Mutant: the put does not wait, and fails.                               *)
PutExit_Discards(w) ==
    /\ WorkerStep(w, "put_exit", [wk[w] EXCEPT !.pc = "stopped"])
    /\ UNCHANGED <<controlVars, detectVars, queue, caller, mem>>

(* expansion_worker_callback(Exit)                                         *)
PutExit(w) ==
    /\ WorkerStep(w, "put_exit", [wk[w] EXCEPT !.pc = "stopped"])
    /\ Put(Message("ModuleDisconnected"))
    /\ UNCHANGED <<controlVars, detectVars, caller, mem>>

-----------------------------------------------------------------------------
ApiNext ==
    \E c \in Callers :
        \/ \E type \in ApiTypes \ {"SetListenSerial"} : ApiCall(c, type, NULL)
        \/ \E s \in Serials : ApiCall(c, "SetListenSerial", s)

ControlNext ==
    \/ ControlGet \/ Enable \/ Reconfigure \/ StopWorker \/ WorkerJoined \/ ReloadSettings
    \/ ModuleConnected \/ ModuleDisconnected \/ DisconnectedJoined
    \/ ConnectionEstablished \/ IsConnected

WorkerNext(w) ==
    \/ WorkerStart(w) \/ FrameRejected(w) \/ FrameBaudRate(w) \/ FrameControl(w) \/ FramePart(w)
    \/ PutConnected(w) \/ TakeStop(w) \/ ReceiveError(w) \/ WorkerExit(w) \/ PutExit(w)
    \/ UseFreedBuffer(w)

Next == ApiNext \/ CardMount \/ Detect \/ ControlNext \/ \E w \in Workers : WorkerNext(w)

Spec == Init /\ [][Next]_vars

(* The threads are scheduled, a receive waits no longer than the protocol  *)
(* timeout, and the stop flag, looked at whenever a receive finds no byte, *)
(* is taken in the end.                                                    *)
Fairness ==
    /\ WF_vars(ControlNext)
    /\ \A w \in Workers : WF_vars(WorkerNext(w)) /\ SF_vars(TakeStop(w))

FairSpec == Spec /\ Fairness

-----------------------------------------------------------------------------
(* Properties                                                              *)

Live(w) == wk[w].pc \notin {"none", "stopped"}

(* The furi_checks of the serial control (furi_hal_serial_control.c:199    *)
(* and :203) hold: detection is set exactly while a module is waited for,  *)
(* on the serial the service believes in.                                  *)
DetectionMatchesState ==
    control # "free_join" => armed = IF state = "Enabled" THEN serial_id ELSE NULL

(* One module at a time: no worker runs that the control thread does not   *)
(* know, in particular none after a disable has returned.                  *)
OneWorker ==
    \A w \in Workers :
        Live(w) => w = worker /\ (Active \/ control = "free_join")

(* The control thread is freeing a worker that it was told has ended, but  *)
(* the message was an earlier worker's and this one runs.                  *)
FreesLiveWorker == control = "free_join" /\ Live(worker)

(* A worker that receives has its buffer, unless it is freed for the       *)
(* message of an earlier one (expansion_worker.c:399).                     *)
BufferOutlivesUse ==
    \A w \in Workers : UsesBuffer(w) /\ ~wk[w].buf => w = worker /\ FreesLiveWorker

(* What the control thread believes is so: the detection is armed and the  *)
(* worker is there as its state says, whatever has been queued meanwhile.  *)
ServiceSound == TypeOK /\ DetectionMatchesState /\ OneWorker /\ BufferOutlivesUse

(* expansion.c:84 "Not locking the API here to avoid a deadlock", all the  *)
(* same: the control thread, the only reader of the queue, joins a worker  *)
(* that waits for a place in it.                                           *)
JoinDeadlock ==
    /\ control = "join" /\ wk[worker].pc \in {"put_connected", "put_exit"}
    /\ Len(queue) = QueueSize

(* The worker that is joined took the stop flag in the middle of a frame,  *)
(* where the decoder asks for the rest and forgets it.                     *)
StopForgotten == control = "join" /\ wk[worker].forgot

(* An API call returns, whatever the worker, the detection and the other   *)
(* callers do, unless the control thread waits for ever in one of the      *)
(* three ways the code has: disabling does not always cease communications *)
(* (expansion.h:39).                                                       *)
CallsReturn ==
    \A c \in Callers :
        c \in caller ~> (c \notin caller \/ [](JoinDeadlock \/ StopForgotten \/ FreesLiveWorker))

(* A worker that has ended, by itself or because it was told to, is freed, *)
(* so that detection is set up again: its message is never lost.           *)
EndedIsFreed == \A w \in Workers : wk[w].pc = "stopped" ~> wk[w].pc = "none"
=============================================================================
