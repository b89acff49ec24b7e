------------------------------ MODULE EventLoop ------------------------------
(***************************************************************************)
(* The Furi event loop, furi/core/event_loop.c: one thread (the Owner)     *)
(* sleeps on a set of notification flags and runs callbacks of its user    *)
(* when a subscribed object changes, when a timer expires, when a function *)
(* was pended or when a thread flag was set.  Other threads and interrupt  *)
(* handlers change the objects and notify the loop concurrently.           *)
(*                                                                         *)
(* Grain of atomicity: a step is a critical section of the code (or a      *)
(* stretch of the owner's code that no other thread observes), so a thread *)
(* may be preempted between changing an object and notifying the loop, and *)
(* the owner between taking the flags, popping an item and running its     *)
(* callback.  Time is left out: any active timer may expire while the loop *)
(* sleeps.                                                                 *)
(***************************************************************************)
EXTENDS Integers, Sequences, FiniteSets

CONSTANTS Objects,    \* the message queues the loop may be subscribed to
          Capacity,   \* msg_count of each of them
          Items,      \* heap addresses available to FuriEventLoopItem
          Threads,    \* the threads and interrupts other than the owner's
          Owner,      \* the thread that allocated and runs the loop
          FlagSetters,\* the threads that set thread flags of the owner
          Timers,     \* the FuriEventLoopTimer instances of the loop
          Periodic,   \* those of type FuriEventLoopTimerTypePeriodic
          Events,     \* the FuriEventLoopEvent values the user subscribes with
          MaxPending, \* bound on the functions pended at a time
          MaxRuns,    \* bound on the calls of furi_event_loop_run
          NULL

Directions == {"In", "Out"}

(* FuriEventLoopEvent: a direction, FlagEdge and FlagOnce.                 *)
EventTypes == [dir : Directions, edge : BOOLEAN, once : BOOLEAN]

ASSUME EventLoopAssumption ==
    /\ Capacity \in Nat \ {0}
    /\ MaxPending \in Nat
    /\ MaxRuns \in Nat
    /\ Events \subseteq EventTypes
    /\ Periodic \subseteq Timers
    /\ Owner \notin Threads
    /\ FlagSetters \subseteq Threads \cup {Owner}
    /\ NULL \notin Objects /\ NULL \notin Items /\ NULL \notin Timers

(* FuriEventLoopFlag                                                       *)
Flags == {"Event", "Stop", "Timer", "Pending", "ThreadFlag"}

(* FuriEventLoopTimerRequest                                               *)
Requests == {"None", "Start", "Stop", "Free"}

VARIABLES
    count,         \* messages in each queue
    op,            \* per thread: the object operation it has not notified yet
    heap,          \* the allocated items
    item,          \* contents of each item (cleared when it is freed)
    tree,          \* instance->tree: the item subscribed to each object
    link,          \* FuriEventLoopLink of each object: item_in and item_out
    waiting_list,  \* instance->waiting_list
    flags,         \* the task notification value at FURI_EVENT_LOOP_FLAG_NOTIFY_INDEX
    saved,         \* the local flags of furi_event_loop_run, to be restored
    popped,        \* the local item of furi_event_loop_process_waiting_list
    current_item,  \* instance->current_item
    timer,         \* per timer: allocated, active (on timer_list), request
    fired,         \* the timer whose callback is running
    pending,       \* the length of instance->pending_queue
    subscribed,    \* instance->are_thread_flags_subscribed
    raised,        \* history: a thread flag set and not reported yet
    runs,          \* calls of furi_event_loop_run so far
    pc             \* where the owner is

objectVars == <<count, op>>
itemVars   == <<heap, item, tree, link>>
loopVars   == <<saved, popped, current_item, runs, pc>>
otherVars  == <<timer, fired, pending, subscribed, raised>>
vars == <<objectVars, itemVars, waiting_list, flags, loopVars, otherVars>>

NoOp   == [obj |-> NULL, dir |-> "In"]
NoItem == [obj |-> NULL, event |-> [dir |-> "In", edge |-> FALSE, once |-> FALSE],
           owned |-> FALSE]
NoTimer == [alloc |-> FALSE, active |-> FALSE, request |-> "None"]

(* Where the owner is: outside the loop ("idle"), asleep on the flags,     *)
(* between the wait and the pop of the Event branch, between the pop and   *)
(* the callback, in a callback, or past furi_event_loop_free.              *)
CallbackPcs == {"event_cb", "timer_cb", "pending_cb", "flag_cb"}
Pcs == {"idle", "wait", "event", "process", "crashed", "freed"} \cup CallbackPcs

OpTypes    == [obj : Objects \cup {NULL}, dir : Directions]
ItemTypes  == [obj : Objects \cup {NULL}, event : EventTypes, owned : BOOLEAN]
TimerTypes == [alloc : BOOLEAN, active : BOOLEAN, request : Requests]

TypeOK ==
    /\ count \in [Objects -> 0..Capacity]
    /\ op \in [Threads \cup {Owner} -> OpTypes]
    /\ heap \subseteq Items
    /\ item \in [Items -> ItemTypes]
    /\ tree \in [Objects -> Items \cup {NULL}]
    /\ link \in [Objects -> [Directions -> Items \cup {NULL}]]
    /\ waiting_list \in Seq(Items)
    /\ flags \subseteq Flags
    /\ saved \subseteq Flags
    /\ popped \in Items \cup {NULL}
    /\ current_item \in Items \cup {NULL}
    /\ timer \in [Timers -> TimerTypes]
    /\ fired \in Timers \cup {NULL}
    /\ pending \in 0..MaxPending
    /\ subscribed \in BOOLEAN
    /\ raised \in BOOLEAN
    /\ runs \in 0..MaxRuns
    /\ pc \in Pcs

(* furi_event_loop_alloc, with the objects empty and no thread in a call.  *)
Init ==
    /\ count = [o \in Objects |-> 0]
    /\ op = [t \in Threads \cup {Owner} |-> NoOp]
    /\ heap = {}
    /\ item = [i \in Items |-> NoItem]
    /\ tree = [o \in Objects |-> NULL]
    /\ link = [o \in Objects |-> [d \in Directions |-> NULL]]
    /\ waiting_list = <<>>
    /\ flags = {} /\ saved = {}
    /\ popped = NULL /\ current_item = NULL
    /\ timer = [t \in Timers |-> NoTimer]
    /\ fired = NULL
    /\ pending = 0
    /\ subscribed = FALSE /\ raised = FALSE
    /\ runs = 0 /\ pc = "idle"

-----------------------------------------------------------------------------
(* The items and the waiting list                                          *)

(* furi_message_queue_event_loop_get_level                                 *)
Level(o, dir) == IF dir = "In" THEN count[o] > 0 ELSE count[o] < Capacity

(* furi_event_loop_item_is_waiting                                         *)
IsWaiting(i) == \E k \in 1..Len(waiting_list) : waiting_list[k] = i

(* Mutant: the item is pushed to the front.                                *)
NotifiedList_Front(i) == IF IsWaiting(i) THEN waiting_list ELSE <<i>> \o waiting_list

(* The waiting list after furi_event_loop_item_notify(i).                  *)
NotifiedList(i) == IF IsWaiting(i) THEN waiting_list ELSE Append(waiting_list, i)

(* The waiting list after WaitingList_unlink(i), when i is waiting.        *)
UnlinkedList(i) ==
    IF ~IsWaiting(i) THEN waiting_list
    ELSE LET at == CHOOSE k \in 1..Len(waiting_list) : waiting_list[k] = i
         IN  [k \in 1..(Len(waiting_list) - 1) |->
                IF k < at THEN waiting_list[k] ELSE waiting_list[k + 1]]

(* Mutants of Detach: the item is freed under its running callback; it is  *)
(* never freed; it is disowned and left in the waiting list.               *)
Detach_FreesCurrent(o) ==
    LET i == tree[o]
    IN  /\ tree' = [tree EXCEPT ![o] = NULL]
        /\ link' = [link EXCEPT ![o] = [@ EXCEPT ![item[i].event.dir] = NULL]]
        /\ waiting_list' = UnlinkedList(i)
        /\ item' = [item EXCEPT ![i] = NoItem] /\ heap' = heap \ {i}

Detach_NeverFrees(o) ==
    LET i == tree[o]
    IN  /\ tree' = [tree EXCEPT ![o] = NULL]
        /\ link' = [link EXCEPT ![o] = [@ EXCEPT ![item[i].event.dir] = NULL]]
        /\ waiting_list' = UnlinkedList(i)
        /\ item' = [item EXCEPT ![i].owned = FALSE] /\ UNCHANGED heap

Detach_KeepsWaiting(o) ==
    LET i == tree[o]
    IN  /\ tree' = [tree EXCEPT ![o] = NULL]
        /\ link' = [link EXCEPT ![o] = [@ EXCEPT ![item[i].event.dir] = NULL]]
        /\ item' = [item EXCEPT ![i].owned = FALSE] /\ UNCHANGED <<heap, waiting_list>>

(* The effect of furi_event_loop_unsubscribe: the item leaves the tree, the*)
(* link and the waiting list, and is freed, unless its own callback is     *)
(* running: then furi_event_loop_item_free_later only disowns it.          *)
Detach(o) ==
    LET i == tree[o]
    IN  /\ tree' = [tree EXCEPT ![o] = NULL]
        /\ link' = [link EXCEPT ![o] = [@ EXCEPT ![item[i].event.dir] = NULL]]
        /\ waiting_list' = UnlinkedList(i)
        /\ IF current_item = i
           THEN item' = [item EXCEPT ![i].owned = FALSE] /\ UNCHANGED heap
           ELSE item' = [item EXCEPT ![i] = NoItem] /\ heap' = heap \ {i}

-----------------------------------------------------------------------------
(* Operations on a message queue.  Any thread calls them; the owner only   *)
(* from its own code.  The queue changes first, the link is notified in a  *)
(* later critical section.                                                 *)

UserCode == pc \in {"idle"} \cup CallbackPcs

MayCall(t) == op[t] = NoOp /\ (t = Owner => UserCode)

Change(t, o, n, dir) ==
    /\ MayCall(t)
    /\ count' = [count EXCEPT ![o] = n]
    /\ op' = [op EXCEPT ![t] = [obj |-> o, dir |-> dir]]
    /\ UNCHANGED <<itemVars, waiting_list, flags, loopVars, otherVars>>

(* Mutant: the queue accepts one message too many.                         *)
Put_OffByOne(t, o) == count[o] <= Capacity /\ Change(t, o, count[o] + 1, "In")

(* furi_message_queue_put: a full queue makes it wait or fail, no change.  *)
Put(t, o) == count[o] < Capacity /\ Change(t, o, count[o] + 1, "In")

(* furi_message_queue_get                                                  *)
Get(t, o) == count[o] > 0 /\ Change(t, o, count[o] - 1, "Out")

(* furi_message_queue_reset                                                *)
Reset(t, o) == Change(t, o, 0, "Out")

(* furi_event_loop_link_notify, the second half of the three above.        *)
LinkNotify(t) ==
    /\ op[t] # NoOp
    /\ LET i == link[op[t].obj][op[t].dir]
       IN  IF i = NULL
           THEN UNCHANGED <<waiting_list, flags>>
           ELSE waiting_list' = NotifiedList(i) /\ flags' = flags \cup {"Event"}
    /\ op' = [op EXCEPT ![t] = NoOp]
    /\ UNCHANGED <<count, itemVars, loopVars, otherVars>>

(* furi_event_loop_stop, from any thread (or the exit signal handler).     *)
Stop(t) ==
    /\ MayCall(t) /\ pc # "freed"
    /\ flags' = flags \cup {"Stop"}
    /\ UNCHANGED <<objectVars, itemVars, waiting_list, loopVars, otherVars>>

(* furi_thread_flags_set on the owner's thread.                            *)
SetThreadFlag(t) ==
    /\ MayCall(t) /\ pc # "freed" /\ t \in FlagSetters
    /\ flags' = flags \cup {"ThreadFlag"}
    /\ raised' = (raised \/ subscribed)
    /\ UNCHANGED <<objectVars, itemVars, waiting_list, loopVars,
                   timer, fired, pending, subscribed>>

-----------------------------------------------------------------------------
(* What the user's code may call on the owner's thread, before and after   *)
(* the loop runs and inside every callback.  The guards are the furi_checks*)
(* of the functions, which are the user's obligations.                     *)

(* Mutant: the level at the time of the subscription is not looked at.     *)
Subscribe_IgnoresLevel(o, e) ==
    /\ MayCall(Owner) /\ UserCode
    /\ tree[o] = NULL
    /\ \E i \in Items \ heap :
         /\ heap' = heap \cup {i}
         /\ item' = [item EXCEPT ![i] = [obj |-> o, event |-> e, owned |-> TRUE]]
         /\ tree' = [tree EXCEPT ![o] = i]
         /\ link' = [link EXCEPT ![o] = [@ EXCEPT ![e.dir] = i]]
    /\ UNCHANGED <<objectVars, waiting_list, flags, loopVars, otherVars>>

(* furi_event_loop_subscribe_message_queue                                 *)
Subscribe(o, e) ==
    /\ MayCall(Owner) /\ UserCode
    /\ tree[o] = NULL
    /\ \E i \in Items \ heap :
         /\ heap' = heap \cup {i}
         /\ item' = [item EXCEPT ![i] = [obj |-> o, event |-> e, owned |-> TRUE]]
         /\ tree' = [tree EXCEPT ![o] = i]
         /\ link' = [link EXCEPT ![o] = [@ EXCEPT ![e.dir] = i]]
         /\ IF ~e.edge /\ Level(o, e.dir)
            THEN waiting_list' = NotifiedList(i) /\ flags' = flags \cup {"Event"}
            ELSE UNCHANGED <<waiting_list, flags>>
    /\ UNCHANGED <<objectVars, loopVars, otherVars>>

(* furi_event_loop_unsubscribe                                             *)
Unsubscribe(o) ==
    /\ MayCall(Owner) /\ UserCode
    /\ tree[o] # NULL
    /\ Detach(o)
    /\ UNCHANGED <<objectVars, flags, loopVars, otherVars>>

(* furi_event_loop_subscribe_thread_flags                                  *)
SubscribeThreadFlags ==
    /\ MayCall(Owner) /\ UserCode /\ ~subscribed /\ FlagSetters # {}
    /\ subscribed' = TRUE
    /\ UNCHANGED <<objectVars, itemVars, waiting_list, flags, loopVars,
                   timer, fired, pending, raised>>

(* furi_event_loop_unsubscribe_thread_flags                                *)
UnsubscribeThreadFlags ==
    /\ MayCall(Owner) /\ UserCode /\ subscribed
    /\ subscribed' = FALSE /\ raised' = FALSE
    /\ UNCHANGED <<objectVars, itemVars, waiting_list, flags, loopVars,
                   timer, fired, pending>>

(* The timers with a queued request: instance->timer_queue.                *)
TimerQueue == {t \in Timers : timer[t].request # "None"}

(* furi_event_loop_timer_alloc                                             *)
TimerAlloc(t) ==
    /\ MayCall(Owner) /\ UserCode /\ ~timer[t].alloc
    /\ timer' = [timer EXCEPT ![t].alloc = TRUE]
    /\ UNCHANGED <<objectVars, itemVars, waiting_list, flags, loopVars,
                   fired, pending, subscribed, raised>>

(* furi_event_loop_timer_start, _restart, _stop and _free: a new request   *)
(* takes the place of a queued one.                                        *)
TimerRequest(t, r) ==
    /\ MayCall(Owner) /\ UserCode
    /\ timer[t].alloc /\ timer[t].request # "Free"
    /\ timer' = [timer EXCEPT ![t].request = r]
    /\ flags' = flags \cup {"Timer"}
    /\ UNCHANGED <<objectVars, itemVars, waiting_list, loopVars,
                   fired, pending, subscribed, raised>>

(* furi_event_loop_pend_callback                                           *)
PendCallback ==
    /\ MayCall(Owner) /\ UserCode
    /\ pending < MaxPending
    /\ pending' = pending + 1
    /\ flags' = flags \cup {"Pending"}
    /\ UNCHANGED <<objectVars, itemVars, waiting_list, loopVars,
                   timer, fired, subscribed, raised>>

-----------------------------------------------------------------------------
(* furi_event_loop_run                                                     *)

Run ==
    /\ pc = "idle" /\ MayCall(Owner) /\ runs < MaxRuns
    /\ pc' = "wait" /\ runs' = runs + 1
    /\ UNCHANGED <<objectVars, itemVars, waiting_list, flags,
                   saved, popped, current_item, otherVars>>

(* xTaskNotifyWaitIndexed returns and clears all the flags; the first set  *)
(* one in the order Stop, Event, Timer, Pending, ThreadFlag is served.     *)
TakeStop ==
    /\ pc = "wait" /\ "Stop" \in flags
    /\ flags' = {} /\ pc' = "idle"
    /\ UNCHANGED <<objectVars, itemVars, waiting_list,
                   saved, popped, current_item, runs, otherVars>>

(* Mutants of TakeEvent: the other flags are forgotten; Stop has no        *)
(* priority over Event.                                                    *)
TakeEvent_DropsFlags ==
    /\ pc = "wait" /\ "Stop" \notin flags /\ "Event" \in flags
    /\ flags' = {} /\ saved' = {} /\ pc' = "event"
    /\ UNCHANGED <<objectVars, itemVars, waiting_list,
                   popped, current_item, runs, otherVars>>

TakeEvent_BeforeStop ==
    /\ pc = "wait" /\ "Event" \in flags
    /\ flags' = {} /\ saved' = flags \ {"Event"} /\ pc' = "event"
    /\ UNCHANGED <<objectVars, itemVars, waiting_list,
                   popped, current_item, runs, otherVars>>

TakeEvent ==
    /\ pc = "wait" /\ "Stop" \notin flags /\ "Event" \in flags
    /\ flags' = {} /\ saved' = flags \ {"Event"} /\ pc' = "event"
    /\ UNCHANGED <<objectVars, itemVars, waiting_list,
                   popped, current_item, runs, otherVars>>

(* The timers after furi_event_loop_process_timer_queue.                   *)
ProcessedTimers ==
    [t \in Timers |->
       CASE timer[t].request = "None"  -> timer[t]
         [] timer[t].request = "Start" -> [timer[t] EXCEPT !.active = TRUE, !.request = "None"]
         [] timer[t].request = "Stop"  -> [timer[t] EXCEPT !.active = FALSE, !.request = "None"]
         [] timer[t].request = "Free"  -> NoTimer]

TakeTimer ==
    /\ pc = "wait" /\ flags \cap {"Stop", "Event"} = {} /\ "Timer" \in flags
    /\ timer' = ProcessedTimers
    /\ flags' = flags \ {"Timer"}
    /\ UNCHANGED <<objectVars, itemVars, waiting_list, loopVars,
                   fired, pending, subscribed, raised>>

(* Mutant: pended functions come before timer requests.                    *)
TakePending_First ==
    /\ pc = "wait" /\ flags \cap {"Stop", "Event"} = {} /\ "Pending" \in flags
    /\ flags' = flags \ {"Pending"}
    /\ pc' = IF pending = 0 THEN "wait" ELSE "pending_cb"
    /\ UNCHANGED <<objectVars, itemVars, waiting_list,
                   saved, popped, current_item, runs, otherVars>>

(* The flags taken with Pending are not restored.                          *)
TakePending ==
    /\ pc = "wait" /\ flags \cap {"Stop", "Event", "Timer"} = {} /\ "Pending" \in flags
    /\ flags' = {}
    /\ pc' = IF pending = 0 THEN "wait" ELSE "pending_cb"
    /\ UNCHANGED <<objectVars, itemVars, waiting_list,
                   saved, popped, current_item, runs, otherVars>>

TakeThreadFlag ==
    /\ pc = "wait" /\ flags = {"ThreadFlag"}
    /\ flags' = {}
    /\ raised' = FALSE
    /\ pc' = IF subscribed THEN "flag_cb" ELSE "wait"
    /\ UNCHANGED <<objectVars, itemVars, waiting_list, saved, popped, current_item,
                   runs, timer, fired, pending, subscribed>>

(* The wait times out and furi_event_loop_process_expired_timers takes an  *)
(* expired timer off the list, back on it if it is periodic.               *)
TimerExpires(t) ==
    /\ pc = "wait" /\ flags = {}
    /\ timer[t].active
    /\ timer' = [timer EXCEPT ![t].active = t \in Periodic]
    /\ fired' = t /\ pc' = "timer_cb"
    /\ UNCHANGED <<objectVars, itemVars, waiting_list, flags,
                   saved, popped, current_item, runs, pending, subscribed, raised>>

-----------------------------------------------------------------------------
(* furi_event_loop_process_waiting_list                                    *)

(* The end of the Event branch: furi_event_loop_sync_flags raises Event    *)
(* again while items are waiting, furi_event_loop_restore_flags the flags  *)
(* that were taken together with Event.                                    *)
EventDone(list) ==
    /\ waiting_list' = list
    /\ flags' = flags \cup saved \cup (IF list # <<>> THEN {"Event"} ELSE {})
    /\ saved' = {} /\ popped' = NULL /\ current_item' = NULL /\ pc' = "wait"

(* furi_event_loop_get_waiting_item                                        *)
GetWaitingItem ==
    /\ pc = "event" /\ waiting_list # <<>>
    /\ popped' = Head(waiting_list) /\ waiting_list' = Tail(waiting_list)
    /\ pc' = "process"
    /\ UNCHANGED <<objectVars, itemVars, flags, saved, current_item, runs, otherVars>>

NoWaitingItem ==
    /\ pc = "event" /\ waiting_list = <<>>
    /\ flags' = flags \cup saved
    /\ saved' = {} /\ pc' = "wait"
    /\ UNCHANGED <<objectVars, itemVars, waiting_list, popped, current_item, runs, otherVars>>

(* furi_event_loop_process_event: a FlagOnce item is unsubscribed, and so  *)
(* freed, before it becomes the current item; reading it next is undefined *)
(* behaviour (the heap clears freed memory, so its contract is NULL).      *)
ProcessOnce ==
    /\ pc = "process" /\ item[popped].event.once
    /\ Detach(item[popped].obj)
    /\ pc' = "crashed"
    /\ UNCHANGED <<objectVars, flags, saved, popped, current_item, runs, otherVars>>

(* An edge event always runs the callback, a level event if the level is   *)
(* still there.                                                            *)
ProcessEvent ==
    /\ pc = "process" /\ ~item[popped].event.once
    /\ LET i == item[popped]
       IN  i.event.edge \/ Level(i.obj, i.event.dir)
    /\ current_item' = popped /\ pc' = "event_cb"
    /\ UNCHANGED <<objectVars, itemVars, waiting_list, flags, saved, popped, runs, otherVars>>

ProcessStaleEvent ==
    /\ pc = "process" /\ ~item[popped].event.once
    /\ LET i == item[popped]
       IN  ~i.event.edge /\ ~Level(i.obj, i.event.dir)
    /\ EventDone(waiting_list)
    /\ UNCHANGED <<objectVars, itemVars, runs, otherVars>>

(* The callback returns: an item it unsubscribed is freed now, an item     *)
(* whose level is still there waits again.                                 *)
EventCallbackReturns ==
    /\ pc = "event_cb" /\ MayCall(Owner)
    /\ LET i == item[popped]
       IN  IF ~i.owned
           THEN /\ heap' = heap \ {popped} /\ item' = [item EXCEPT ![popped] = NoItem]
                /\ EventDone(waiting_list)
           ELSE /\ EventDone(IF ~i.event.edge /\ Level(i.obj, i.event.dir)
                             THEN NotifiedList(popped) ELSE waiting_list)
                /\ UNCHANGED <<heap, item>>
    /\ UNCHANGED <<objectVars, tree, link, runs, otherVars>>

(* furi_event_loop_process_pending_callbacks: functions pended meanwhile   *)
(* run in the same loop.                                                   *)
PendingCallbackReturns ==
    /\ pc = "pending_cb" /\ MayCall(Owner)
    /\ pending' = pending - 1
    /\ pc' = IF pending = 1 THEN "wait" ELSE "pending_cb"
    /\ UNCHANGED <<objectVars, itemVars, waiting_list, flags,
                   saved, popped, current_item, runs, timer, fired, subscribed, raised>>

CallbackReturns ==
    /\ pc \in {"timer_cb", "flag_cb"} /\ MayCall(Owner)
    /\ fired' = NULL /\ pc' = "wait"
    /\ UNCHANGED <<objectVars, itemVars, waiting_list, flags,
                   saved, popped, current_item, runs, timer, pending, subscribed, raised>>

(* furi_event_loop_free, by a user that has unsubscribed everything and    *)
(* freed its timers; the check that no item is waiting is left to hold.    *)
Free ==
    /\ pc = "idle" /\ MayCall(Owner)
    /\ \A t \in Timers : timer[t].alloc => timer[t].request = "Free"
    /\ \A o \in Objects : tree[o] = NULL
    /\ ~subscribed
    /\ pc' = IF waiting_list = <<>> THEN "freed" ELSE "crashed"
    /\ timer' = ProcessedTimers /\ pending' = 0 /\ flags' = {}
    /\ UNCHANGED <<objectVars, itemVars, waiting_list, saved, popped, current_item,
                   runs, fired, subscribed, raised>>

-----------------------------------------------------------------------------
ObjectNext ==
    \E t \in Threads \cup {Owner} :
        \/ \E o \in Objects : Put(t, o) \/ Get(t, o) \/ Reset(t, o)
        \/ LinkNotify(t) \/ Stop(t) \/ SetThreadFlag(t)

UserNext ==
    \/ \E o \in Objects : Unsubscribe(o) \/ \E e \in Events : Subscribe(o, e)
    \/ SubscribeThreadFlags \/ UnsubscribeThreadFlags
    \/ \E t \in Timers : TimerAlloc(t) \/ \E r \in Requests \ {"None"} : TimerRequest(t, r)
    \/ PendCallback

TakeFlags == TakeStop \/ TakeEvent \/ TakeTimer \/ TakePending \/ TakeThreadFlag

ProcessWaitingList ==
    GetWaitingItem \/ NoWaitingItem \/ ProcessOnce \/ ProcessEvent \/ ProcessStaleEvent

Returns == EventCallbackReturns \/ PendingCallbackReturns \/ CallbackReturns

Next ==
    \/ ObjectNext \/ UserNext
    \/ Run \/ Free
    \/ TakeFlags \/ (\E t \in Timers : TimerExpires(t))
    \/ ProcessWaitingList \/ Returns

Spec == Init /\ [][Next]_vars

(* The owner is scheduled, a preempted thread is scheduled again, and the  *)
(* user's callbacks return (event loop callbacks must never block).        *)
Fairness ==
    /\ WF_vars(TakeFlags) /\ WF_vars(ProcessWaitingList) /\ SF_vars(Returns)
    /\ \A t \in Threads \cup {Owner} : WF_vars(LinkNotify(t))

FairSpec == Spec /\ Fairness

-----------------------------------------------------------------------------
(* Properties                                                              *)

Running == pc \notin {"idle", "crashed", "freed"}

(* The level-triggered subscription of o has an event to report.           *)
LevelEvent(o) ==
    /\ tree[o] # NULL
    /\ ~item[tree[o]].event.edge
    /\ Level(o, item[tree[o]].event.dir)

(* Every item another thread can reach through a link or the loop through  *)
(* its waiting list is allocated, belongs to a live subscription and to    *)
(* the object it is linked from, and the item being processed stays        *)
(* allocated until its callback has returned, whatever that callback       *)
(* unsubscribes (event_loop.c:475, free_later).                            *)
NoDanglingItem ==
    /\ \A o \in Objects, d \in Directions :
         LET i == link[o][d]
         IN  i # NULL => i \in heap /\ item[i].owned /\ item[i].obj = o /\ tree[o] = i
    /\ \A k \in 1..Len(waiting_list) :
         waiting_list[k] \in heap /\ tree[item[waiting_list[k]].obj] = waiting_list[k]
    /\ popped # NULL => popped \in heap

(* No item is leaked: what is allocated is subscribed or being processed.  *)
NoLeakedItem ==
    \A i \in heap : i = popped \/ \E o \in Objects : tree[o] = i

(* While the loop sleeps on the flags every waiting item is signalled: the *)
(* sync_flags and restore_flags of each branch lose no Event flag.         *)
WaitingListSignalled == pc = "wait" /\ waiting_list # <<>> => "Event" \in flags

(* event_loop.h:78 "the event will be generated repeatedly until the level *)
(* becomes zero": the loop never sleeps on a level that is there, unless   *)
(* the thread that changed the object is still about to notify it.         *)
LevelNotLost ==
    pc = "wait" =>
        \A o \in Objects :
            LevelEvent(o) =>
                \/ IsWaiting(tree[o]) /\ "Event" \in flags
                \/ \E t \in Threads \cup {Owner} :
                      op[t] = [obj |-> o, dir |-> item[tree[o]].event.dir]

(* event_loop.h:88-93 and example_event_loop_mutex.c: a FlagOnce event is  *)
(* reported to its callback; the item must outlive its own unsubscription. *)
OnceItemAlive == popped # NULL => popped \in heap

(* No event callback starts once its object has been unsubscribed, even if *)
(* the event was waiting or had just been popped.                          *)
NoCallbackAfterUnsubscribe ==
    [][pc = "process" /\ pc' = "event_cb" => tree[item[popped].obj] = popped]_vars

(* event_loop_timer.h:84 "Stop a timer without firing its callback": no    *)
(* timer callback starts while a request made on that timer (stop, free or *)
(* a restart) is still queued.                                             *)
NoFireAfterRequest ==
    [][fired = NULL /\ fired' # NULL => timer[fired'].request = "None"]_vars

(* event_loop.h:180 "Call a function when all preceding timer commands are *)
(* processed": when the loop turns to the pended functions, no timer       *)
(* request is left.  (A function pended by a pended function runs in the   *)
(* same pass, before the requests that were made in that pass.)            *)
PendedAfterTimerCommands == [][pc = "wait" /\ pc' = "pending_cb" => TimerQueue = {}]_vars

(* event_loop.h:316 "The callback to call when a flag has been set": while *)
(* the loop sleeps, a thread flag not yet reported is still signalled.     *)
ThreadFlagNotLost == pc = "wait" /\ raised => "ThreadFlag" \in flags

(* A level that stays is eventually reported while the loop runs, however  *)
(* busy the other objects are: the waiting list is served in turn.         *)
LevelServed ==
    \A o \in Objects :
        Running /\ LevelEvent(o) ~>
            ~Running \/ ~LevelEvent(o) \/ (pc = "event_cb" /\ item[popped].obj = o)

(* A requested stop ends furi_event_loop_run, however many events come in. *)
StopReturns == Running /\ "Stop" \in flags ~> ~Running
=============================================================================
