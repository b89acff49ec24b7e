--------------------------- MODULE EventLoopProofs ---------------------------
(***************************************************************************)
(* Proofs about EventLoop, for any number of objects, items, threads and   *)
(* timers.  The inductive invariant has three parts: the type invariant,   *)
(* Bookkeeping (how tree, links, waiting list, heap and the item being     *)
(* processed relate) and NoLostLevel (where the evidence of an unreported  *)
(* level is).  Signalled adds the flags, for a loop that runs once.        *)
(***************************************************************************)
EXTENDS EventLoop, TLAPS

Has(list, x) == \E k \in 1..Len(list) : list[k] = x

NoDuplicate(list) == \A j, k \in 1..Len(list) : list[j] = list[k] => j = k

(* The item of a subscription is allocated, owned and knows its object;    *)
(* the link of an object holds exactly its subscription.                   *)
TreeInv ==
    \A o \in Objects :
        /\ tree[o] # NULL =>
             tree[o] \in heap /\ item[tree[o]].owned /\ item[tree[o]].obj = o
        /\ \A d \in Directions :
             link[o][d] = IF tree[o] # NULL /\ item[tree[o]].event.dir = d
                          THEN tree[o] ELSE NULL

(* A waiting item is subscribed and waits once.                            *)
ListInv ==
    /\ \A x \in Items : Has(waiting_list, x) =>
         item[x].obj \in Objects /\ tree[item[x].obj] = x
    /\ NoDuplicate(waiting_list)

(* The popped item is subscribed, or was unsubscribed by its own callback. *)
PoppedInv ==
    /\ pc \notin {"process", "event_cb", "crashed"} => popped = NULL
    /\ pc = "event_cb" => current_item = popped
    /\ pc # "event_cb" => current_item = NULL
    /\ pc \in {"process", "event_cb"} =>
         /\ popped \in heap
         /\ item[popped].obj \in Objects
         /\ tree[item[popped].obj] = popped \/ (pc = "event_cb" /\ ~item[popped].owned)

HeapInv == \A i \in heap : i = popped \/ \E o \in Objects : tree[o] = i

(* A thread in the middle of an operation works on an object; the pended   *)
(* function that runs is still in the queue.                               *)
CallInv ==
    /\ \A t \in Threads \cup {Owner} : op[t] # NoOp => op[t].obj \in Objects
    /\ pc = "pending_cb" => pending # 0

Bookkeeping == TreeInv /\ ListInv /\ PoppedInv /\ HeapInv /\ CallInv

(* An unreported level is known to the waiting list, to the loop or to a   *)
(* thread about to notify.                                                 *)
NoLostLevel ==
    \A o \in Objects :
        LevelEvent(o) =>
            \/ IsWaiting(tree[o])
            \/ pc \in {"process", "event_cb"} /\ popped = tree[o]
            \/ \E t \in Threads \cup {Owner} :
                 op[t] = [obj |-> o, dir |-> item[tree[o]].event.dir]

(* Before its first stop, a loop with waiting items is signalled or in the *)
(* Event branch, which signals at its end.                                 *)
Signalled ==
    /\ pc = "idle" \/ pc = "freed" \/ runs = 1 \/ pc = "crashed"
    /\ waiting_list # <<>> =>
        \/ "Event" \in flags
        \/ pc \in {"event", "process", "event_cb", "crashed", "freed"}
        \/ pc = "idle" /\ runs = 1

(* Before its first stop, a loop with queued timer requests has its Timer  *)
(* flag set, or holds it among the flags to restore.                       *)
TimerSignalled ==
    /\ pc = "idle" \/ pc = "freed" \/ runs = 1 \/ pc = "crashed"
    /\ pc \notin {"event", "process", "event_cb", "crashed"} => saved = {}
    /\ TimerQueue # {} =>
        \/ "Timer" \in flags \cup saved
        \/ pc \in {"crashed", "freed"}
        \/ pc = "idle" /\ runs = 1

(* Before its first stop, a loop whose user pends no function has the flag *)
(* of a thread flag not yet reported set, or among the flags to restore.   *)
ThreadFlagSignalled ==
    /\ pc = "idle" \/ pc = "freed" \/ runs = 1 \/ pc = "crashed"
    /\ pc \notin {"event", "process", "event_cb", "crashed"} => saved = {}
    /\ "Pending" \notin flags \cup saved
    /\ raised =>
        \/ "ThreadFlag" \in flags \cup saved
        \/ pc \in {"crashed", "freed"}
        \/ pc = "idle" /\ runs = 1

-----------------------------------------------------------------------------
(* The two ways the waiting list changes                                   *)

(* Notifying an item adds that item and no other, once.                    *)
LEMMA NotifiedListLemma ==
    ASSUME waiting_list \in Seq(Items), NoDuplicate(waiting_list), NEW i \in Items
    PROVE  /\ NotifiedList(i) \in Seq(Items)
           /\ NoDuplicate(NotifiedList(i))
           /\ NotifiedList(i) # <<>>
           /\ \A x \in Items : Has(NotifiedList(i), x) <=> x = i \/ Has(waiting_list, x)
<1>1. CASE IsWaiting(i)
  BY <1>1 DEF NotifiedList, IsWaiting, Has, NoDuplicate
<1>2. CASE ~IsWaiting(i)
  <2> DEFINE w == Append(waiting_list, i)
  <2>1. NotifiedList(i) = w
    BY <1>2 DEF NotifiedList
  <2>2. /\ w \in Seq(Items) /\ Len(w) = Len(waiting_list) + 1 /\ w # <<>>
        /\ w[Len(w)] = i
        /\ \A k \in 1..Len(waiting_list) : w[k] = waiting_list[k]
    OBVIOUS
  <2>3. NoDuplicate(w)
    BY <1>2, <2>2 DEF NoDuplicate, IsWaiting
  <2>4. ASSUME NEW x \in Items
        PROVE  Has(w, x) <=> x = i \/ Has(waiting_list, x)
    BY <2>2 DEF Has
  <2> QED BY <2>1, <2>2, <2>3, <2>4
<1> QED BY <1>1, <1>2

(* Unlinking an item removes that item and no other.                       *)
LEMMA UnlinkedListLemma ==
    ASSUME waiting_list \in Seq(Items), NoDuplicate(waiting_list), NEW i \in Items
    PROVE  /\ UnlinkedList(i) \in Seq(Items)
           /\ NoDuplicate(UnlinkedList(i))
           /\ UnlinkedList(i) # <<>> => waiting_list # <<>>
           /\ \A x \in Items : Has(UnlinkedList(i), x) <=> x # i /\ Has(waiting_list, x)
<1>1. CASE ~IsWaiting(i)
  BY <1>1 DEF UnlinkedList, IsWaiting, Has, NoDuplicate
<1>2. CASE IsWaiting(i)
  <2> DEFINE at == CHOOSE k \in 1..Len(waiting_list) : waiting_list[k] = i
             w  == [k \in 1..(Len(waiting_list) - 1) |->
                      IF k < at THEN waiting_list[k] ELSE waiting_list[k + 1]]
  <2>1. UnlinkedList(i) = w
    BY <1>2 DEF UnlinkedList
  <2>2. at \in 1..Len(waiting_list) /\ waiting_list[at] = i
    BY <1>2 DEF IsWaiting
  <2> HIDE DEF at
  <2>3. Len(waiting_list) - 1 \in Nat
    BY <2>2
  <2>4. w \in Seq(Items) /\ Len(w) = Len(waiting_list) - 1
    BY <2>2, <2>3
  <2>5. NoDuplicate(w)
    BY <2>2, <2>4 DEF NoDuplicate
  <2>6. ASSUME NEW x \in Items
        PROVE  Has(w, x) <=> x # i /\ Has(waiting_list, x)
    <3>1. ASSUME Has(w, x) PROVE x # i /\ Has(waiting_list, x)
      <4>1. PICK k \in 1..Len(w) : w[k] = x
        BY <3>1 DEF Has
      <4>2. CASE k < at
        BY <4>1, <4>2, <2>2, <2>4 DEF Has, NoDuplicate
      <4>3. CASE ~(k < at)
        BY <4>1, <4>3, <2>2, <2>4 DEF Has, NoDuplicate
      <4> QED BY <4>2, <4>3
    <3>2. ASSUME x # i, Has(waiting_list, x) PROVE Has(w, x)
      <4>1. PICK k \in 1..Len(waiting_list) : waiting_list[k] = x
        BY <3>2 DEF Has
      <4>2. CASE k < at
        BY <4>1, <4>2, <2>2, <2>4 DEF Has
      <4>3. CASE ~(k < at)
        <5>1. k > at
          BY <4>1, <4>3, <3>2, <2>2
        <5>2. (k - 1) \in 1..Len(w) /\ w[k - 1] = x
          BY <5>1, <4>1, <2>2, <2>4
        <5> QED BY <5>2 DEF Has
      <4> QED BY <4>2, <4>3
    <3> QED BY <3>1, <3>2
  <2>7. waiting_list # <<>>
    BY <2>2
  <2> QED BY <2>1, <2>4, <2>5, <2>6, <2>7
<1> QED BY <1>1, <1>2

-----------------------------------------------------------------------------
(* Type correctness                                                        *)

(* The records the actions store have their types.                         *)
LEMMA RecordTypes ==
    /\ NoOp \in OpTypes /\ NoItem \in ItemTypes /\ NoTimer \in TimerTypes
    /\ \A o \in Objects, d \in Directions : [obj |-> o, dir |-> d] \in OpTypes
    /\ \A o \in Objects, e \in EventTypes : [obj |-> o, event |-> e, owned |-> TRUE] \in ItemTypes
    /\ \A i \in ItemTypes : [i EXCEPT !.owned = FALSE] \in ItemTypes
    /\ \A t \in TimerTypes, b \in BOOLEAN : [t EXCEPT !.active = b] \in TimerTypes
    /\ \A t \in TimerTypes : [t EXCEPT !.alloc = TRUE] \in TimerTypes
    /\ \A t \in TimerTypes, r \in Requests : [t EXCEPT !.request = r] \in TimerTypes
    /\ \A t \in TimerTypes, b \in BOOLEAN :
         [t EXCEPT !.active = b, !.request = "None"] \in TimerTypes
<1>1. NoOp \in OpTypes /\ NoItem \in ItemTypes /\ NoTimer \in TimerTypes
  BY DEF NoOp, NoItem, NoTimer, OpTypes, ItemTypes, TimerTypes, EventTypes, Directions, Requests
<1>2. \A o \in Objects, d \in Directions : [obj |-> o, dir |-> d] \in OpTypes
  BY DEF OpTypes
<1>3. \A o \in Objects, e \in EventTypes : [obj |-> o, event |-> e, owned |-> TRUE] \in ItemTypes
  BY DEF ItemTypes
<1>4. \A i \in ItemTypes : [i EXCEPT !.owned = FALSE] \in ItemTypes
  BY DEF ItemTypes
<1>5. \A t \in TimerTypes, b \in BOOLEAN : [t EXCEPT !.active = b] \in TimerTypes
  BY DEF TimerTypes
<1>6. \A t \in TimerTypes : [t EXCEPT !.alloc = TRUE] \in TimerTypes
  BY DEF TimerTypes
<1>7. \A t \in TimerTypes, r \in Requests : [t EXCEPT !.request = r] \in TimerTypes
  BY DEF TimerTypes
<1>8. \A t \in TimerTypes, b \in BOOLEAN :
        [t EXCEPT !.active = b, !.request = "None"] \in TimerTypes
  BY DEF TimerTypes, Requests
<1> QED BY <1>1, <1>2, <1>3, <1>4, <1>5, <1>6, <1>7, <1>8

LEMMA InitType == Init => TypeOK
<1> SUFFICES ASSUME Init PROVE TypeOK
  OBVIOUS
<1>1. /\ count \in [Objects -> 0..Capacity] /\ op \in [Threads \cup {Owner} -> OpTypes]
      /\ item \in [Items -> ItemTypes] /\ timer \in [Timers -> TimerTypes]
  <2>1. count \in [Objects -> 0..Capacity]
    BY EventLoopAssumption DEF Init
  <2>2. NoOp \in OpTypes /\ NoItem \in ItemTypes /\ NoTimer \in TimerTypes
    BY RecordTypes
  <2> QED BY <2>1, <2>2 DEF Init
<1>2. /\ tree \in [Objects -> Items \cup {NULL}]
      /\ link \in [Objects -> [Directions -> Items \cup {NULL}]]
  BY DEF Init
<1>3. waiting_list \in Seq(Items) /\ pending \in 0..MaxPending
  BY EventLoopAssumption DEF Init
<1>4. /\ heap \subseteq Items /\ flags \subseteq Flags /\ saved \subseteq Flags
      /\ popped \in Items \cup {NULL} /\ current_item \in Items \cup {NULL}
      /\ fired \in Timers \cup {NULL} /\ pc \in Pcs
  BY DEF Init, Pcs
<1>5. runs \in 0..MaxRuns
  BY EventLoopAssumption DEF Init
<1>6. subscribed \in BOOLEAN /\ raised \in BOOLEAN
  BY DEF Init
<1> QED BY <1>1, <1>2, <1>3, <1>4, <1>5, <1>6 DEF TypeOK

LEMMA DetachType ==
    ASSUME TypeOK, Bookkeeping, NEW o \in Objects, tree[o] # NULL, Detach(o)
    PROVE  /\ heap' \subseteq Items
           /\ item' \in [Items -> ItemTypes]
           /\ tree' \in [Objects -> Items \cup {NULL}]
           /\ link' \in [Objects -> [Directions -> Items \cup {NULL}]]
           /\ waiting_list' \in Seq(Items)
<1> DEFINE i == tree[o]
<1>1. i \in Items
  BY DEF TypeOK
<1>2. waiting_list' \in Seq(Items)
  BY <1>1, UnlinkedListLemma DEF TypeOK, Bookkeeping, ListInv, Detach
<1>3. heap' \subseteq Items
  BY DEF TypeOK, Detach
<1>4. item' \in [Items -> ItemTypes]
  <2>1. [item[i] EXCEPT !.owned = FALSE] \in ItemTypes
    BY <1>1, RecordTypes DEF TypeOK
  <2> QED BY <1>1, <2>1, RecordTypes DEF TypeOK, Detach
<1>5. tree' \in [Objects -> Items \cup {NULL}]
  BY DEF TypeOK, Detach
<1>6. link' \in [Objects -> [Directions -> Items \cup {NULL}]]
  BY DEF TypeOK, Detach
<1> QED BY <1>2, <1>3, <1>4, <1>5, <1>6

LEMMA TypeStep ==
    ASSUME TypeOK, Bookkeeping, [Next]_vars
    PROVE  TypeOK'
<1> USE EventLoopAssumption DEF TypeOK
<1> USE DEF Pcs, CallbackPcs, Flags
<1>1. ASSUME NEW t \in Threads \cup {Owner}, NEW o \in Objects,
             Put(t, o) \/ Get(t, o) \/ Reset(t, o)
      PROVE  TypeOK'
  <2>1. PICK n \in 0..Capacity, d \in Directions : Change(t, o, n, d)
    BY <1>1 DEF Put, Get, Reset, Directions
  <2>2. [obj |-> o, dir |-> d] \in OpTypes
    BY RecordTypes
  <2> QED BY <2>1, <2>2 DEF Change, itemVars, loopVars, otherVars
<1>2. ASSUME NEW t \in Threads \cup {Owner}, LinkNotify(t)
      PROVE  TypeOK'
  <2>1. op[t].obj \in Objects
    BY <1>2 DEF LinkNotify, Bookkeeping, CallInv
  <2>2. waiting_list' \in Seq(Items)
    <3>1. link[op[t].obj][op[t].dir] \in Items \cup {NULL}
      BY <2>1 DEF OpTypes
    <3>2. \A i \in Items : NotifiedList(i) \in Seq(Items)
      BY NotifiedListLemma DEF Bookkeeping, ListInv
    <3> QED BY <1>2, <3>1, <3>2 DEF LinkNotify
  <2> QED BY <1>2, <2>1, <2>2, RecordTypes DEF LinkNotify, itemVars, loopVars, otherVars
<1>3. ASSUME NEW t \in Threads \cup {Owner}, Stop(t) \/ SetThreadFlag(t)
      PROVE  TypeOK'
  BY <1>3 DEF Stop, SetThreadFlag, objectVars, itemVars, loopVars, otherVars
<1>4. ASSUME NEW o \in Objects, NEW e \in Events, Subscribe(o, e)
      PROVE  TypeOK'
  <2>1. PICK i \in Items \ heap :
           /\ heap' = heap \cup {i}
           /\ item' = [item EXCEPT ![i] = [obj |-> o, event |-> e, owned |-> TRUE]]
           /\ tree' = [tree EXCEPT ![o] = i]
           /\ link' = [link EXCEPT ![o] = [@ EXCEPT ![e.dir] = i]]
           /\ IF ~e.edge /\ Level(o, e.dir)
              THEN waiting_list' = NotifiedList(i) /\ flags' = flags \cup {"Event"}
              ELSE UNCHANGED <<waiting_list, flags>>
    BY <1>4 DEF Subscribe
  <2>2. waiting_list' \in Seq(Items) /\ flags' \subseteq Flags
    <3>1. NotifiedList(i) \in Seq(Items)
      BY NotifiedListLemma DEF Bookkeeping, ListInv
    <3> QED BY <2>1, <3>1
  <2>3. item' \in [Items -> ItemTypes]
    BY <2>1, RecordTypes
  <2>4. /\ tree' \in [Objects -> Items \cup {NULL}] /\ heap' \subseteq Items
        /\ link' \in [Objects -> [Directions -> Items \cup {NULL}]]
    BY <2>1
  <2> QED BY <1>4, <2>2, <2>3, <2>4 DEF Subscribe, objectVars, loopVars, otherVars
<1>5. ASSUME NEW o \in Objects, Unsubscribe(o)
      PROVE  TypeOK'
  BY <1>5, DetachType DEF Unsubscribe, objectVars, loopVars, otherVars
<1>6. ASSUME SubscribeThreadFlags \/ UnsubscribeThreadFlags
      PROVE  TypeOK'
  BY <1>6 DEF SubscribeThreadFlags, UnsubscribeThreadFlags, objectVars, itemVars, loopVars
<1>7. ASSUME NEW t \in Timers, TimerAlloc(t)
      PROVE  TypeOK'
  BY <1>7, RecordTypes DEF TimerAlloc, objectVars, itemVars, loopVars
<1>8. ASSUME NEW t \in Timers, NEW r \in Requests \ {"None"}, TimerRequest(t, r)
      PROVE  TypeOK'
  BY <1>8, RecordTypes DEF TimerRequest, objectVars, itemVars, loopVars
<1>9. ASSUME PendCallback
      PROVE  TypeOK'
  BY <1>9, EventLoopAssumption DEF PendCallback, objectVars, itemVars, loopVars
<1>10. ASSUME Run \/ TakeStop \/ TakeEvent
       PROVE  TypeOK'
  <2>1. CASE Run
    BY <2>1 DEF Run, objectVars, itemVars, otherVars
  <2>2. CASE TakeStop \/ TakeEvent
    BY <2>2 DEF TakeStop, TakeEvent, objectVars, itemVars, otherVars
  <2> QED BY <1>10, <2>1, <2>2
<1>11. ProcessedTimers \in [Timers -> TimerTypes]
  <2>1. ASSUME NEW t \in Timers PROVE ProcessedTimers[t] \in TimerTypes
    <3>1. timer[t] \in TimerTypes /\ timer[t].request \in Requests
      BY DEF TimerTypes
    <3>2. /\ [timer[t] EXCEPT !.active = TRUE, !.request = "None"] \in TimerTypes
          /\ [timer[t] EXCEPT !.active = FALSE, !.request = "None"] \in TimerTypes
          /\ NoTimer \in TimerTypes
      BY <3>1, RecordTypes
    <3> QED BY <3>1, <3>2 DEF ProcessedTimers, Requests
  <2> QED BY <2>1 DEF ProcessedTimers
<1>12. ASSUME TakeTimer
       PROVE  TypeOK'
  BY <1>11, <1>12 DEF TakeTimer, objectVars, itemVars, loopVars
<1>13. ASSUME TakePending \/ TakeThreadFlag
       PROVE  TypeOK'
  BY <1>13 DEF TakePending, TakeThreadFlag, objectVars, itemVars, otherVars
<1>14. ASSUME NEW t \in Timers, TimerExpires(t)
       PROVE  TypeOK'
  <2>1. [timer[t] EXCEPT !.active = t \in Periodic] \in TimerTypes
    <3>1. CASE t \in Periodic
      <4>1. (t \in Periodic) = TRUE
        BY <3>1
      <4> QED BY <4>1, RecordTypes
    <3>2. CASE t \notin Periodic
      <4>1. (t \in Periodic) = FALSE
        BY <3>2
      <4> QED BY <4>1, RecordTypes
    <3> QED BY <3>1, <3>2
  <2>2. timer' \in [Timers -> TimerTypes]
    BY <1>14, <2>1 DEF TimerExpires
  <2> QED BY <1>14, <2>2 DEF TimerExpires, objectVars, itemVars
<1>15. ASSUME GetWaitingItem \/ NoWaitingItem \/ ProcessEvent
       PROVE  TypeOK'
  <2>1. CASE GetWaitingItem
    BY <2>1 DEF GetWaitingItem, objectVars, itemVars, otherVars
  <2>2. CASE NoWaitingItem \/ ProcessEvent
    BY <2>2 DEF NoWaitingItem, ProcessEvent, objectVars, itemVars, otherVars
  <2> QED BY <1>15, <2>1, <2>2
<1>16. ASSUME ProcessOnce
       PROVE  TypeOK'
  <2>1. item[popped].obj \in Objects /\ tree[item[popped].obj] # NULL
    BY <1>16 DEF ProcessOnce, Bookkeeping, PoppedInv
  <2> QED BY <1>16, <2>1, DetachType DEF ProcessOnce, objectVars, otherVars
<1>17. ASSUME ProcessStaleEvent
       PROVE  TypeOK'
  BY <1>17 DEF ProcessStaleEvent, EventDone, objectVars, itemVars, otherVars
<1>18. ASSUME EventCallbackReturns
       PROVE  TypeOK'
  <2>1. popped \in Items
    BY <1>18 DEF EventCallbackReturns, Bookkeeping, PoppedInv
  <2>2. waiting_list' \in Seq(Items)
    BY <1>18, <2>1, NotifiedListLemma DEF EventCallbackReturns, EventDone, Bookkeeping, ListInv
  <2>3. NoItem \in ItemTypes
    BY RecordTypes
  <2>4. /\ heap' \subseteq Items
        /\ item' \in [Items -> ItemTypes]
    <3>1. \/ heap' = heap \ {popped} /\ item' = [item EXCEPT ![popped] = NoItem]
          \/ heap' = heap /\ item' = item
      BY <1>18 DEF EventCallbackReturns
    <3> QED BY <2>1, <2>3, <3>1
  <2>5. /\ flags' \subseteq Flags /\ saved' = {} /\ popped' = NULL
        /\ current_item' = NULL /\ pc' = "wait"
    BY <1>18 DEF EventCallbackReturns, EventDone
  <2> QED BY <1>18, <2>2, <2>4, <2>5 DEF EventCallbackReturns, objectVars, otherVars
<1>19. ASSUME PendingCallbackReturns
       PROVE  TypeOK'
  BY <1>19, EventLoopAssumption
  DEF PendingCallbackReturns, objectVars, itemVars, Bookkeeping, CallInv
<1>20. ASSUME CallbackReturns
       PROVE  TypeOK'
  BY <1>20 DEF CallbackReturns, objectVars, itemVars
<1>21. ASSUME Free
       PROVE  TypeOK'
  BY <1>11, <1>21, EventLoopAssumption DEF Free, objectVars, itemVars
<1>22. ASSUME UNCHANGED vars
       PROVE  TypeOK'
  BY <1>22 DEF vars, objectVars, itemVars, loopVars, otherVars
<1> QED
  BY <1>1, <1>2, <1>3, <1>4, <1>5, <1>6, <1>7, <1>8, <1>9, <1>10, <1>12, <1>13, <1>14,
     <1>15, <1>16, <1>17, <1>18, <1>19, <1>20, <1>21, <1>22
  DEF Next, ObjectNext, UserNext, TakeFlags, ProcessWaitingList, Returns

-----------------------------------------------------------------------------
(* The bookkeeping of the items                                            *)

LEMMA InitBookkeeping == Init => Bookkeeping
<1> SUFFICES ASSUME Init PROVE Bookkeeping
  OBVIOUS
<1>1. TreeInv
  BY DEF Init, TreeInv
<1>2. ListInv
  BY DEF Init, ListInv, Has, NoDuplicate
<1>3. PoppedInv /\ HeapInv /\ CallInv
  BY DEF Init, PoppedInv, HeapInv, CallInv
<1> QED BY <1>1, <1>2, <1>3 DEF Bookkeeping

(* What the invariants of the items depend on.                             *)
LEMMA BookkeepingUnchanged ==
    ASSUME Bookkeeping, UNCHANGED <<itemVars, waiting_list, popped, current_item>>,
           pc \in CallbackPcs \cup {"idle", "wait"},
           pc' \in CallbackPcs \cup {"idle", "wait", "event"},
           pc = "event_cb" <=> pc' = "event_cb",
           CallInv'
    PROVE  Bookkeeping'
<1>1. TreeInv' /\ HeapInv'
  BY DEF Bookkeeping, TreeInv, HeapInv, itemVars
<1>2. ListInv'
  BY DEF Bookkeeping, ListInv, Has, NoDuplicate, itemVars
<1>3. PoppedInv'
  BY DEF Bookkeeping, PoppedInv, itemVars, CallbackPcs
<1> QED BY <1>1, <1>2, <1>3 DEF Bookkeeping

(* Unsubscribing keeps the bookkeeping of all other items.                 *)
LEMMA DetachLemma ==
    ASSUME TypeOK, Bookkeeping, NEW o \in Objects, tree[o] # NULL, Detach(o)
    PROVE  /\ TreeInv'
           /\ ListInv'
           /\ \A p \in Objects : p # o =>
                tree'[p] = tree[p] /\ (tree[p] # NULL => item'[tree[p]] = item[tree[p]])
           /\ \A x \in Items : Has(waiting_list', x) <=> x # tree[o] /\ Has(waiting_list, x)
<1> DEFINE i == tree[o]
<1>1. i \in Items /\ i \in heap /\ item[i].obj = o /\ item[i].owned
  BY DEF TypeOK, Bookkeeping, TreeInv
<1>2. /\ NoDuplicate(waiting_list')
      /\ \A x \in Items : Has(waiting_list', x) <=> x # i /\ Has(waiting_list, x)
  BY <1>1, UnlinkedListLemma DEF TypeOK, Bookkeeping, ListInv, Detach
<1>3. \A x \in Items : x # i => item'[x] = item[x] /\ (x \in heap' <=> x \in heap)
  BY <1>1 DEF TypeOK, Detach
<1>4. \A p \in Objects : p # o =>
         /\ tree'[p] = tree[p] /\ link'[p] = link[p]
         /\ tree[p] # NULL => tree[p] # i /\ tree[p] \in Items
  BY <1>1 DEF TypeOK, Detach, Bookkeeping, TreeInv
<1>5. tree'[o] = NULL /\ \A d \in Directions : link'[o][d] = NULL
  <2>1. tree'[o] = NULL
    BY DEF TypeOK, Detach
  <2>2. link[o] \in [Directions -> Items \cup {NULL}]
    BY DEF TypeOK
  <2>3. link'[o] = [link[o] EXCEPT ![item[i].event.dir] = NULL]
    BY DEF TypeOK, Detach
  <2>4. \A d \in Directions : d # item[i].event.dir => link[o][d] = NULL
    BY <1>1 DEF Bookkeeping, TreeInv
  <2> QED BY <2>1, <2>2, <2>3, <2>4
<1>6. TreeInv'
  BY <1>3, <1>4, <1>5 DEF Bookkeeping, TreeInv
<1>7. ListInv'
  <2>1. ASSUME NEW x \in Items, Has(waiting_list', x)
        PROVE  item'[x].obj \in Objects /\ tree'[item'[x].obj] = x
    <3>1. x # i /\ item[x].obj \in Objects /\ tree[item[x].obj] = x
      BY <1>2, <2>1 DEF Bookkeeping, ListInv
    <3>2. item'[x] = item[x] /\ item[x].obj # o
      BY <1>3, <3>1
    <3> QED BY <1>4, <3>1, <3>2
  <2> QED BY <1>2, <2>1 DEF ListInv
<1> QED BY <1>2, <1>3, <1>4, <1>6, <1>7

LEMMA BookkeepingStep ==
    ASSUME TypeOK, TypeOK', Bookkeeping, [Next]_vars
    PROVE  Bookkeeping'
<1> USE DEF CallbackPcs
<1>1. ASSUME NEW t \in Threads \cup {Owner}, NEW o \in Objects,
             Put(t, o) \/ Get(t, o) \/ Reset(t, o)
      PROVE  Bookkeeping'
  <2>1. PICK n, d : Change(t, o, n, d)
    BY <1>1 DEF Put, Get, Reset
  <2>2. CallInv'
    BY <2>1 DEF Change, Bookkeeping, CallInv, TypeOK, loopVars, otherVars
  <2>3. TreeInv' /\ PoppedInv' /\ HeapInv'
    BY <2>1 DEF Change, Bookkeeping, TreeInv, PoppedInv, HeapInv, itemVars, loopVars
  <2>4. ListInv'
    BY <2>1 DEF Change, Bookkeeping, ListInv, Has, NoDuplicate, itemVars, loopVars
  <2> QED BY <2>2, <2>3, <2>4 DEF Bookkeeping
<1>2. ASSUME NEW t \in Threads \cup {Owner}, LinkNotify(t)
      PROVE  Bookkeeping'
  <2> DEFINE o == op[t].obj
             i == link[o][op[t].dir]
  <2>1. o \in Objects /\ op[t].dir \in Directions
    BY <1>2 DEF LinkNotify, Bookkeeping, CallInv, TypeOK, OpTypes
  <2>2. CallInv'
    BY <1>2 DEF LinkNotify, Bookkeeping, CallInv, TypeOK, loopVars, otherVars
  <2>3. TreeInv' /\ PoppedInv' /\ HeapInv'
    BY <1>2 DEF LinkNotify, Bookkeeping, TreeInv, PoppedInv, HeapInv, itemVars, loopVars
  <2>4. CASE i = NULL
    BY <1>2, <2>2, <2>3, <2>4 DEF LinkNotify, Bookkeeping, ListInv, Has, NoDuplicate, itemVars
  <2>5. CASE i # NULL
    <3>1. i = tree[o] /\ i \in Items /\ item[i].obj = o
      BY <2>1, <2>5 DEF Bookkeeping, TreeInv, TypeOK
    <3>2. /\ NoDuplicate(waiting_list')
          /\ \A x \in Items : Has(waiting_list', x) <=> x = i \/ Has(waiting_list, x)
      <4>1. waiting_list' = NotifiedList(i)
        BY <1>2, <2>5 DEF LinkNotify
      <4>2. waiting_list \in Seq(Items) /\ NoDuplicate(waiting_list)
        BY DEF TypeOK, Bookkeeping, ListInv
      <4> QED BY <3>1, <4>1, <4>2, NotifiedListLemma
    <3>3. ListInv'
      BY <1>2, <2>1, <3>1, <3>2 DEF LinkNotify, Bookkeeping, ListInv, itemVars
    <3> QED BY <2>2, <2>3, <3>3 DEF Bookkeeping
  <2> QED BY <2>4, <2>5
<1>3. ASSUME NEW t \in Threads \cup {Owner}, Stop(t) \/ SetThreadFlag(t)
      PROVE  Bookkeeping'
  <2>1. UNCHANGED <<op, itemVars, waiting_list, popped, current_item, pc, pending>>
    BY <1>3 DEF Stop, SetThreadFlag, objectVars, loopVars, otherVars
  <2> QED BY <2>1 DEF Bookkeeping, TreeInv, ListInv, PoppedInv, HeapInv, CallInv,
                      Has, NoDuplicate, itemVars
<1>4. ASSUME NEW o \in Objects, NEW e \in Events, Subscribe(o, e)
      PROVE  Bookkeeping'
  <2>1. PICK i \in Items \ heap :
           /\ heap' = heap \cup {i}
           /\ item' = [item EXCEPT ![i] = [obj |-> o, event |-> e, owned |-> TRUE]]
           /\ tree' = [tree EXCEPT ![o] = i]
           /\ link' = [link EXCEPT ![o] = [@ EXCEPT ![e.dir] = i]]
           /\ IF ~e.edge /\ Level(o, e.dir)
              THEN waiting_list' = NotifiedList(i) /\ flags' = flags \cup {"Event"}
              ELSE UNCHANGED <<waiting_list, flags>>
    BY <1>4 DEF Subscribe
  <2>2. UNCHANGED <<op, popped, current_item, pc, pending>> /\ tree[o] = NULL /\ UserCode
    BY <1>4 DEF Subscribe, objectVars, loopVars, otherVars
  <2>3. /\ item'[i] = [obj |-> o, event |-> e, owned |-> TRUE]
        /\ \A x \in Items : x # i => item'[x] = item[x]
        /\ tree'[o] = i /\ \A p \in Objects : p # o => tree'[p] = tree[p] /\ link'[p] = link[p]
        /\ i # NULL
    BY <2>1, EventLoopAssumption DEF TypeOK
  <2>4. \A p \in Objects : p # o /\ tree[p] # NULL => tree[p] # i /\ tree[p] \in Items
    BY <2>1 DEF Bookkeeping, TreeInv, TypeOK
  <2>5. \A d \in Directions : link'[o][d] = IF d = e.dir THEN i ELSE NULL
    BY <2>1, <2>2 DEF TypeOK, Bookkeeping, TreeInv
  <2>6. TreeInv'
    <3>1. ASSUME NEW p \in Objects, p # o
          PROVE  /\ tree'[p] # NULL =>
                      tree'[p] \in heap' /\ item'[tree'[p]].owned /\ item'[tree'[p]].obj = p
                 /\ \A d \in Directions :
                      link'[p][d] = IF tree'[p] # NULL /\ item'[tree'[p]].event.dir = d
                                    THEN tree'[p] ELSE NULL
      BY <2>1, <2>3, <2>4, <3>1 DEF Bookkeeping, TreeInv
    <3>2. tree'[o] \in heap' /\ item'[tree'[o]].owned /\ item'[tree'[o]].obj = o
          /\ item'[tree'[o]].event.dir = e.dir
      BY <2>1, <2>3
    <3> QED BY <2>3, <2>5, <3>1, <3>2 DEF TreeInv
  <2>7. /\ NoDuplicate(waiting_list')
        /\ \A x \in Items : Has(waiting_list', x) => x = i \/ Has(waiting_list, x)
    <3>1. CASE waiting_list' = NotifiedList(i)
      BY <3>1, NotifiedListLemma DEF TypeOK, Bookkeeping, ListInv
    <3>2. CASE waiting_list' = waiting_list
      BY <3>2 DEF Bookkeeping, ListInv, Has, NoDuplicate
    <3> QED BY <2>1, <3>1, <3>2
  <2>8. ListInv'
    <3>1. ASSUME NEW x \in Items, Has(waiting_list', x)
          PROVE  item'[x].obj \in Objects /\ tree'[item'[x].obj] = x
      <4>1. CASE x = i
        BY <2>3, <4>1
      <4>2. CASE x # i
        <5>1. item[x].obj \in Objects /\ tree[item[x].obj] = x
          BY <2>7, <3>1, <4>2 DEF Bookkeeping, ListInv
        <5>2. item[x].obj # o
          BY <5>1, <2>2, EventLoopAssumption
        <5> QED BY <2>3, <4>2, <5>1, <5>2
      <4> QED BY <4>1, <4>2
    <3> QED BY <2>7, <3>1 DEF ListInv
  <2>9. PoppedInv'
    <3>1. pc \in {"process", "event_cb"} => popped # i /\ popped \in Items
      BY <2>1 DEF Bookkeeping, PoppedInv, TypeOK
    <3>2. pc \in {"process", "event_cb"} => item'[popped] = item[popped]
      BY <2>3, <3>1
    <3>3. pc # "process"
      BY <2>2 DEF UserCode
    <3>4. pc = "event_cb" /\ tree[item[popped].obj] = popped => item[popped].obj # o
      BY <2>2, <3>1, EventLoopAssumption
    <3> QED BY <2>1, <2>2, <2>3, <3>1, <3>2, <3>3, <3>4 DEF Bookkeeping, PoppedInv
  <2>10. HeapInv'
    <3>1. ASSUME NEW x \in heap, x # popped
          PROVE  \E p \in Objects : tree'[p] = x
      <4>1. PICK p \in Objects : tree[p] = x
        BY <3>1 DEF Bookkeeping, HeapInv
      <4>2. p # o
        BY <4>1, <2>2, EventLoopAssumption DEF TypeOK
      <4> QED BY <2>3, <4>1, <4>2
    <3> QED BY <2>1, <2>2, <2>3, <3>1 DEF HeapInv
  <2>11. CallInv'
    BY <2>2 DEF Bookkeeping, CallInv
  <2> QED BY <2>6, <2>8, <2>9, <2>10, <2>11 DEF Bookkeeping
<1>5. ASSUME NEW o \in Objects, Unsubscribe(o)
      PROVE  Bookkeeping'
  <2>1. tree[o] # NULL /\ Detach(o) /\ UserCode
        /\ UNCHANGED <<op, popped, current_item, pc, pending>>
    BY <1>5 DEF Unsubscribe, objectVars, loopVars, otherVars
  <2>2. TreeInv' /\ ListInv'
    BY <2>1, DetachLemma
  <2>3. CallInv'
    BY <2>1 DEF Bookkeeping, CallInv
  <2> DEFINE i == tree[o]
  <2>4. i \in heap /\ item[i].obj = o
    BY <2>1 DEF Bookkeeping, TreeInv
  <2>5. PoppedInv'
    <3>1. CASE pc = "event_cb"
      <4>1. current_item = popped /\ popped \in heap /\ popped \in Items
        BY <3>1 DEF Bookkeeping, PoppedInv, TypeOK
      <4>2. CASE popped = i
        <5>1. heap' = heap /\ item' = [item EXCEPT ![i].owned = FALSE]
          BY <2>1, <4>1, <4>2 DEF Detach
        <5>2. item'[i].obj = o /\ ~item'[i].owned
          BY <4>1, <4>2, <2>4, <5>1 DEF TypeOK, ItemTypes
        <5> QED BY <2>1, <3>1, <4>1, <4>2, <5>1, <5>2 DEF PoppedInv
      <4>3. CASE popped # i
        <5>1. heap' = heap \ {i} /\ item' = [item EXCEPT ![i] = NoItem]
          BY <2>1, <4>1, <4>3 DEF Detach
        <5>2. item'[popped] = item[popped] /\ popped \in heap'
          BY <4>1, <4>3, <5>1 DEF TypeOK
        <5>3. tree[item[popped].obj] = popped => tree'[item[popped].obj] = popped
          BY <2>1, <4>3, DetachLemma, <3>1 DEF Bookkeeping, PoppedInv
        <5> QED BY <2>1, <3>1, <5>2, <5>3 DEF Bookkeeping, PoppedInv
      <4> QED BY <4>2, <4>3
    <3>2. CASE pc # "event_cb"
      BY <2>1, <3>2 DEF UserCode, Bookkeeping, PoppedInv
    <3> QED BY <3>1, <3>2
  <2>6. HeapInv'
    <3>1. ASSUME NEW x \in heap', x # popped
          PROVE  \E p \in Objects : tree'[p] = x
      <4>1. x \in heap /\ (x = i => current_item = i)
        BY <2>1, <3>1 DEF Detach
      <4>2. x # i
        BY <4>1, <3>1, <2>1, EventLoopAssumption DEF Bookkeeping, PoppedInv
      <4>3. PICK p \in Objects : tree[p] = x
        BY <3>1, <4>1 DEF Bookkeeping, HeapInv
      <4> QED BY <2>1, <4>2, <4>3, DetachLemma
    <3> QED BY <2>1, <3>1 DEF HeapInv
  <2> QED BY <2>2, <2>3, <2>5, <2>6 DEF Bookkeeping
<1>6. ASSUME \/ SubscribeThreadFlags \/ UnsubscribeThreadFlags
             \/ \E t \in Timers : TimerAlloc(t) \/ \E r \in Requests : TimerRequest(t, r)
      PROVE  Bookkeeping'
  <2>1. /\ UNCHANGED <<op, itemVars, waiting_list, popped, current_item, pc>>
        /\ pending' = pending
    BY <1>6 DEF SubscribeThreadFlags, UnsubscribeThreadFlags, TimerAlloc, TimerRequest,
                objectVars, loopVars
  <2> QED BY <2>1 DEF Bookkeeping, TreeInv, ListInv, PoppedInv, HeapInv, CallInv,
                      Has, NoDuplicate, itemVars
<1>7. ASSUME PendCallback
      PROVE  Bookkeeping'
  <2>1. /\ UNCHANGED <<op, itemVars, waiting_list, popped, current_item, pc>>
        /\ pending' # 0
    BY <1>7, EventLoopAssumption DEF PendCallback, objectVars, loopVars, TypeOK
  <2> QED BY <2>1 DEF Bookkeeping, TreeInv, ListInv, PoppedInv, HeapInv, CallInv,
                      Has, NoDuplicate, itemVars
<1>8. ASSUME Run \/ TakeFlags \/ \E t \in Timers : TimerExpires(t)
      PROVE  Bookkeeping'
  <2>1. /\ UNCHANGED <<op, itemVars, waiting_list, popped, current_item>>
        /\ pc \in {"idle", "wait"}
        /\ pc' \in {"idle", "wait", "event", "pending_cb", "flag_cb", "timer_cb"}
        /\ pc' = "pending_cb" => pending # 0 /\ pending' = pending
    BY <1>8 DEF Run, TakeFlags, TakeStop, TakeEvent, TakeTimer, TakePending, TakeThreadFlag,
                TimerExpires, objectVars, loopVars, otherVars
  <2>2. CallInv'
    BY <2>1 DEF Bookkeeping, CallInv
  <2> QED BY <2>1, <2>2, BookkeepingUnchanged
<1>9. ASSUME PendingCallbackReturns \/ CallbackReturns
      PROVE  Bookkeeping'
  <2>1. /\ UNCHANGED <<op, itemVars, waiting_list, popped, current_item>>
        /\ pc \in {"pending_cb", "timer_cb", "flag_cb"} /\ pc' \in {"wait", "pending_cb"}
    BY <1>9 DEF PendingCallbackReturns, CallbackReturns, objectVars
  <2>2. pc' = "pending_cb" => pending' # 0
    <3>1. CASE PendingCallbackReturns
      BY <3>1, EventLoopAssumption DEF PendingCallbackReturns, TypeOK
    <3>2. CASE CallbackReturns
      BY <3>2 DEF CallbackReturns
    <3> QED BY <1>9, <3>1, <3>2
  <2>3. CallInv'
    BY <2>1, <2>2 DEF Bookkeeping, CallInv
  <2> QED BY <2>1, <2>3, BookkeepingUnchanged
<1>10. ASSUME Free
       PROVE  Bookkeeping'
  <2>1. /\ UNCHANGED <<op, itemVars, waiting_list, popped, current_item>>
        /\ pc = "idle" /\ pc' \in {"freed", "crashed"}
    BY <1>10 DEF Free, objectVars
  <2> QED BY <2>1 DEF Bookkeeping, TreeInv, ListInv, PoppedInv, HeapInv, CallInv,
                      Has, NoDuplicate, itemVars
<1>11. ASSUME GetWaitingItem
       PROVE  Bookkeeping'
  <2>1. /\ pc = "event" /\ waiting_list # <<>> /\ pc' = "process"
        /\ popped' = Head(waiting_list) /\ waiting_list' = Tail(waiting_list)
        /\ UNCHANGED <<op, itemVars, current_item, pending>>
    BY <1>11 DEF GetWaitingItem, objectVars, otherVars
  <2>2. waiting_list \in Seq(Items)
    BY DEF TypeOK
  <2>3. /\ Len(waiting_list') = Len(waiting_list) - 1
        /\ \A k \in 1..Len(waiting_list') : waiting_list'[k] = waiting_list[k + 1]
        /\ popped' = waiting_list[1] /\ 1 \in 1..Len(waiting_list)
    BY <2>1, <2>2
  <2>4. NoDuplicate(waiting_list')
    BY <2>2, <2>3 DEF Bookkeeping, ListInv, NoDuplicate
  <2>5. \A x \in Items : Has(waiting_list', x) => Has(waiting_list, x)
    BY <2>2, <2>3 DEF Has
  <2>6. Has(waiting_list, popped') /\ popped' \in Items
    BY <2>2, <2>3 DEF Has
  <2>7. /\ item[popped'].obj \in Objects /\ tree[item[popped'].obj] = popped'
        /\ popped' \in heap
    BY <2>6, EventLoopAssumption DEF Bookkeeping, ListInv, TreeInv
  <2>8. TreeInv' /\ ListInv'
    BY <2>1, <2>4, <2>5 DEF Bookkeeping, TreeInv, ListInv, itemVars
  <2>9. PoppedInv' /\ CallInv'
    BY <2>1, <2>7 DEF Bookkeeping, PoppedInv, CallInv, itemVars
  <2>10. popped = NULL /\ NULL \notin heap
    BY <2>1, EventLoopAssumption DEF Bookkeeping, PoppedInv, TypeOK
  <2>11. HeapInv'
    BY <2>1, <2>10 DEF Bookkeeping, HeapInv, itemVars
  <2> QED BY <2>8, <2>9, <2>11 DEF Bookkeeping
<1>12. ASSUME NoWaitingItem \/ ProcessEvent
       PROVE  Bookkeeping'
  <2>1. UNCHANGED <<op, itemVars, waiting_list, popped, pending>>
    BY <1>12 DEF NoWaitingItem, ProcessEvent, objectVars, otherVars
  <2>2. TreeInv' /\ ListInv' /\ HeapInv'
    BY <2>1 DEF Bookkeeping, TreeInv, ListInv, HeapInv, Has, NoDuplicate, itemVars
  <2>3. PoppedInv' /\ CallInv'
    BY <1>12, <2>1 DEF NoWaitingItem, ProcessEvent, Bookkeeping, PoppedInv, CallInv, itemVars
  <2> QED BY <2>2, <2>3 DEF Bookkeeping
<1>13. ASSUME ProcessOnce
       PROVE  Bookkeeping'
  <2> DEFINE o == item[popped].obj
  <2>1. /\ pc = "process" /\ pc' = "crashed" /\ Detach(o)
        /\ UNCHANGED <<op, popped, current_item, pending>>
    BY <1>13 DEF ProcessOnce, objectVars, otherVars
  <2>2. o \in Objects /\ tree[o] = popped /\ tree[o] # NULL /\ current_item = NULL
    BY <2>1, EventLoopAssumption DEF Bookkeeping, PoppedInv, TypeOK
  <2>3. TreeInv' /\ ListInv'
    BY <2>1, <2>2, DetachLemma
  <2>4. PoppedInv' /\ CallInv'
    BY <2>1, <2>2 DEF PoppedInv, Bookkeeping, CallInv
  <2>5. HeapInv'
    <3>1. heap' = heap \ {popped}
      BY <2>1, <2>2 DEF Detach
    <3>2. ASSUME NEW x \in heap' PROVE \E p \in Objects : tree'[p] = x
      <4>1. PICK p \in Objects : tree[p] = x
        BY <3>1, <3>2 DEF Bookkeeping, HeapInv
      <4>2. p # o
        BY <2>2, <3>1, <3>2, <4>1
      <4> QED BY <2>1, <2>2, <4>1, <4>2, DetachLemma
    <3> QED BY <3>2 DEF HeapInv
  <2> QED BY <2>3, <2>4, <2>5 DEF Bookkeeping
<1>14. ASSUME ProcessStaleEvent
       PROVE  Bookkeeping'
  <2>1. /\ pc = "process" /\ pc' = "wait" /\ popped' = NULL /\ current_item' = NULL
        /\ UNCHANGED <<op, itemVars, waiting_list, pending>>
    BY <1>14 DEF ProcessStaleEvent, EventDone, objectVars, otherVars
  <2>2. TreeInv' /\ ListInv' /\ PoppedInv' /\ CallInv'
    BY <2>1 DEF Bookkeeping, TreeInv, ListInv, PoppedInv, CallInv, Has, NoDuplicate, itemVars
  <2>3. HeapInv'
    BY <2>1 DEF Bookkeeping, HeapInv, PoppedInv, itemVars
  <2> QED BY <2>2, <2>3 DEF Bookkeeping
<1>15. ASSUME EventCallbackReturns
       PROVE  Bookkeeping'
  <2>1. /\ pc = "event_cb" /\ pc' = "wait" /\ popped' = NULL /\ current_item' = NULL
        /\ UNCHANGED <<op, tree, link, pending>>
    BY <1>15 DEF EventCallbackReturns, EventDone, objectVars, otherVars
  <2>2. popped \in heap /\ popped \in Items /\ item[popped].obj \in Objects
    BY <2>1 DEF Bookkeeping, PoppedInv, TypeOK
  <2>3. PoppedInv' /\ CallInv'
    BY <2>1 DEF Bookkeeping, PoppedInv, CallInv
  <2>4. CASE ~item[popped].owned
    <3>1. /\ heap' = heap \ {popped} /\ item' = [item EXCEPT ![popped] = NoItem]
          /\ waiting_list' = waiting_list
      BY <1>15, <2>4 DEF EventCallbackReturns, EventDone
    <3>2. \A p \in Objects : tree[p] # popped
      <4>1. \A p \in Objects : tree[p] # NULL => item[tree[p]].owned
        BY DEF Bookkeeping, TreeInv
      <4> QED BY <2>2, <2>4, <4>1, EventLoopAssumption
    <3>3. \A x \in Items : x # popped => item'[x] = item[x]
      BY <3>1 DEF TypeOK
    <3>4. TreeInv'
      BY <2>1, <3>1, <3>2, <3>3 DEF Bookkeeping, TreeInv, TypeOK
    <3>5. ListInv'
      BY <2>1, <2>2, <3>1, <3>2, <3>3 DEF Bookkeeping, ListInv
    <3>6. HeapInv'
      BY <2>1, <3>1 DEF Bookkeeping, HeapInv
    <3> QED BY <2>3, <3>4, <3>5, <3>6 DEF Bookkeeping
  <2>5. CASE item[popped].owned
    <3>1. /\ UNCHANGED <<heap, item>>
          /\ waiting_list' = NotifiedList(popped) \/ waiting_list' = waiting_list
      BY <1>15, <2>5 DEF EventCallbackReturns, EventDone
    <3>2. tree[item[popped].obj] = popped
      BY <2>1, <2>5 DEF Bookkeeping, PoppedInv
    <3>3. /\ NoDuplicate(waiting_list')
          /\ \A x \in Items : Has(waiting_list', x) => x = popped \/ Has(waiting_list, x)
      <4>1. CASE waiting_list' = NotifiedList(popped)
        BY <2>2, <4>1, NotifiedListLemma DEF TypeOK, Bookkeeping, ListInv
      <4>2. CASE waiting_list' = waiting_list
        BY <4>2 DEF Bookkeeping, ListInv, Has, NoDuplicate
      <4> QED BY <3>1, <4>1, <4>2
    <3>4. TreeInv' /\ ListInv'
      BY <2>1, <2>2, <3>1, <3>2, <3>3 DEF Bookkeeping, TreeInv, ListInv
    <3>5. HeapInv'
      BY <2>1, <2>2, <3>1, <3>2 DEF Bookkeeping, HeapInv
    <3> QED BY <2>3, <3>4, <3>5 DEF Bookkeeping
  <2> QED BY <2>4, <2>5
<1>16. ASSUME UNCHANGED vars
       PROVE  Bookkeeping'
  BY <1>16 DEF Bookkeeping, TreeInv, ListInv, PoppedInv, HeapInv, CallInv, Has, NoDuplicate,
               vars, objectVars, itemVars, loopVars, otherVars
<1> QED
  BY <1>1, <1>2, <1>3, <1>4, <1>5, <1>6, <1>7, <1>8, <1>9, <1>10, <1>11, <1>12, <1>13,
     <1>14, <1>15, <1>16
  DEF Next, ObjectNext, UserNext, ProcessWaitingList, Returns

-----------------------------------------------------------------------------
(* Every unreported level leaves a trace                                   *)

(* The evidence survives a step that changes neither the subscriptions nor *)
(* the queues, loses no waiting item and no notification.                  *)
LEMMA NoLostLevelKept ==
    ASSUME TypeOK, Bookkeeping, NoLostLevel, UNCHANGED <<count, op, item, tree>>,
           \A x \in Items : Has(waiting_list, x) => Has(waiting_list', x),
           pc \in {"process", "event_cb"} =>
               pc' \in {"process", "event_cb"} /\ popped' = popped
    PROVE  NoLostLevel'
<1> SUFFICES ASSUME NEW o \in Objects, LevelEvent(o)'
             PROVE  \/ IsWaiting(tree[o])'
                    \/ pc' \in {"process", "event_cb"} /\ popped' = tree'[o]
                    \/ \E t \in Threads \cup {Owner} :
                         op'[t] = [obj |-> o, dir |-> item'[tree'[o]].event.dir]
  BY DEF NoLostLevel
<1>1. LevelEvent(o) /\ tree[o] \in Items
  BY DEF LevelEvent, Level, TypeOK
<1>2. CASE IsWaiting(tree[o])
  <2>1. Has(waiting_list', tree[o])
    BY <1>1, <1>2 DEF IsWaiting, Has
  <2> QED BY <2>1 DEF IsWaiting, Has
<1>3. CASE pc \in {"process", "event_cb"} /\ popped = tree[o]
  BY <1>3
<1>4. CASE \E t \in Threads \cup {Owner} :
             op[t] = [obj |-> o, dir |-> item[tree[o]].event.dir]
  BY <1>4
<1> QED BY <1>1, <1>2, <1>3, <1>4 DEF NoLostLevel

LEMMA InitNoLostLevel == Init => NoLostLevel
  BY DEF Init, NoLostLevel, LevelEvent

(* The evidence of an unreported level of o.                               *)
Evidence(o) ==
    \/ IsWaiting(tree[o])
    \/ pc \in {"process", "event_cb"} /\ popped = tree[o]
    \/ \E t \in Threads \cup {Owner} :
         op[t] = [obj |-> o, dir |-> item[tree[o]].event.dir]

LEMMA NoLostLevelStep ==
    ASSUME TypeOK, TypeOK', Bookkeeping, NoLostLevel, [Next]_vars
    PROVE  NoLostLevel'
<1> USE DEF CallbackPcs
<1>0. /\ \A o \in Objects : LevelEvent(o) => Evidence(o)
      /\ (\A o \in Objects : LevelEvent(o)' => Evidence(o)') => NoLostLevel'
  BY DEF NoLostLevel, Evidence
<1>1. ASSUME NEW t \in Threads \cup {Owner}, NEW o \in Objects,
             Put(t, o) \/ Get(t, o) \/ Reset(t, o)
      PROVE  NoLostLevel'
  <2>1. PICK n \in 0..Capacity, d \in Directions :
            /\ Change(t, o, n, d)
            /\ d = "In"  => n = count[o] + 1
            /\ d = "Out" => n <= count[o]
    <3>1. count[o] \in 0..Capacity /\ Capacity \in Nat
      BY EventLoopAssumption DEF TypeOK
    <3>2. CASE Put(t, o)
      <4>1. Change(t, o, count[o] + 1, "In") /\ count[o] + 1 \in 0..Capacity
        BY <3>1, <3>2 DEF Put
      <4> QED BY <4>1 DEF Directions
    <3>3. CASE Get(t, o)
      <4>1. Change(t, o, count[o] - 1, "Out") /\ count[o] - 1 \in 0..Capacity
            /\ count[o] - 1 <= count[o]
        BY <3>1, <3>3 DEF Get
      <4> QED BY <4>1 DEF Directions
    <3>4. CASE Reset(t, o)
      <4>1. Change(t, o, 0, "Out") /\ 0 \in 0..Capacity /\ 0 <= count[o]
        BY <3>1, <3>4 DEF Reset
      <4> QED BY <4>1 DEF Directions
    <3> QED BY <1>1, <3>2, <3>3, <3>4
  <2>2. /\ UNCHANGED <<itemVars, waiting_list, popped, pc>>
        /\ op[t] = NoOp /\ op' = [op EXCEPT ![t] = [obj |-> o, dir |-> d]]
        /\ count' = [count EXCEPT ![o] = n]
    BY <2>1 DEF Change, MayCall, loopVars
  <2>3. ASSUME NEW p \in Objects, LevelEvent(p)'
        PROVE  Evidence(p)'
    <3> DEFINE e == item[tree[p]].event
    <3>1. tree[p] \in Items /\ e.dir \in Directions /\ tree'[p] = tree[p] /\ item' = item
      BY <2>2, <2>3 DEF LevelEvent, TypeOK, ItemTypes, EventTypes, itemVars
    <3>2. CASE p = o /\ e.dir = d
      BY <2>2, <3>1, <3>2 DEF Evidence, TypeOK
    <3>3. CASE ~(p = o /\ e.dir = d)
      <4>1. Level(p, e.dir)' => Level(p, e.dir)
        <5>1. count \in [Objects -> 0..Capacity] /\ Capacity \in Nat
          BY EventLoopAssumption DEF TypeOK
        <5>2. count'[o] = n /\ (p # o => count'[p] = count[p])
          BY <2>2, <5>1
        <5>3. CASE p # o
          BY <3>1, <5>2, <5>3 DEF Level
        <5>4. CASE p = o /\ e.dir = "In"
          BY <2>1, <3>1, <3>3, <5>1, <5>2, <5>4 DEF Level, Directions
        <5>5. CASE p = o /\ e.dir = "Out"
          BY <2>1, <3>1, <3>3, <5>1, <5>2, <5>5 DEF Level, Directions
        <5> QED BY <3>1, <5>3, <5>4, <5>5 DEF Directions
      <4>2. LevelEvent(p)
        BY <2>3, <3>1, <4>1 DEF LevelEvent
      <4>3. Evidence(p)
        BY <1>0, <4>2
      <4>4. CASE IsWaiting(tree[p]) \/ (pc \in {"process", "event_cb"} /\ popped = tree[p])
        BY <2>2, <3>1, <4>4 DEF Evidence, IsWaiting
      <4>5. CASE \E u \in Threads \cup {Owner} : op[u] = [obj |-> p, dir |-> e.dir]
        <5>1. PICK u \in Threads \cup {Owner} : op[u] = [obj |-> p, dir |-> e.dir]
          BY <4>5
        <5>2. op[u].obj = p /\ op[t].obj = NULL
          BY <5>1, <2>2 DEF NoOp
        <5>3. u # t
          BY <5>2, EventLoopAssumption
        <5>4. op'[u] = op[u]
          BY <2>2, <5>3 DEF TypeOK
        <5> QED BY <3>1, <5>1, <5>4 DEF Evidence
      <4> QED BY <4>3, <4>4, <4>5 DEF Evidence
    <3> QED BY <3>2, <3>3
  <2> QED BY <1>0, <2>3
<1>2. ASSUME NEW t \in Threads \cup {Owner}, LinkNotify(t)
      PROVE  NoLostLevel'
  <2>1. /\ UNCHANGED <<count, itemVars, popped, pc>> /\ op' = [op EXCEPT ![t] = NoOp]
        /\ op[t].obj \in Objects /\ op[t].dir \in Directions
    BY <1>2 DEF LinkNotify, Bookkeeping, CallInv, TypeOK, OpTypes, loopVars
  <2>2. ASSUME NEW p \in Objects, LevelEvent(p)'
        PROVE  Evidence(p)'
    <3>1. /\ LevelEvent(p) /\ tree[p] \in Items /\ tree[p] # NULL
          /\ tree' = tree /\ item' = item
      BY <2>1, <2>2 DEF LevelEvent, Level, TypeOK, itemVars
    <3> DEFINE e == item[tree[p]].event
               i == link[op[t].obj][op[t].dir]
    <3>2. i \in Items \cup {NULL}
      BY <2>1 DEF TypeOK
    <3>3. waiting_list \in Seq(Items) /\ NoDuplicate(waiting_list)
      BY DEF TypeOK, Bookkeeping, ListInv
    <3>4. \A x \in Items : Has(waiting_list, x) => Has(waiting_list', x)
      <4>1. CASE i = NULL
        BY <1>2, <4>1 DEF LinkNotify
      <4>2. CASE i # NULL
        <5>1. waiting_list' = NotifiedList(i)
          BY <1>2, <4>2 DEF LinkNotify
        <5> QED BY <3>2, <3>3, <4>2, <5>1, NotifiedListLemma
      <4> QED BY <4>1, <4>2
    <3>5. CASE IsWaiting(tree[p])
      BY <3>1, <3>4, <3>5 DEF Evidence, IsWaiting, Has
    <3>6. CASE pc \in {"process", "event_cb"} /\ popped = tree[p]
      BY <2>1, <3>1, <3>6 DEF Evidence
    <3>7. CASE \E u \in Threads \cup {Owner} : op[u] = [obj |-> p, dir |-> e.dir]
      <4>1. PICK u \in Threads \cup {Owner} : op[u] = [obj |-> p, dir |-> e.dir]
        BY <3>7
      <4>2. CASE u # t
        <5>1. op'[u] = op[u]
          BY <2>1, <4>2 DEF TypeOK
        <5> QED BY <3>1, <4>1, <5>1 DEF Evidence
      <4>3. CASE u = t
        <5>1. op[t].obj = p /\ op[t].dir = e.dir
          BY <4>1, <4>3
        <5>2. i = tree[p]
          BY <2>1, <3>1, <5>1 DEF Bookkeeping, TreeInv
        <5>3. waiting_list' = NotifiedList(tree[p])
          BY <1>2, <3>1, <5>2 DEF LinkNotify
        <5>4. Has(waiting_list', tree[p])
          BY <3>1, <3>3, <5>3, NotifiedListLemma
        <5> QED BY <3>1, <5>4 DEF Evidence, IsWaiting, Has
      <4> QED BY <4>2, <4>3
    <3> QED BY <1>0, <3>1, <3>5, <3>6, <3>7 DEF Evidence
  <2> QED BY <1>0, <2>2
<1>3. ASSUME NEW o \in Objects, NEW e \in Events, Subscribe(o, e)
      PROVE  NoLostLevel'
  <2>1. PICK i \in Items \ heap :
           /\ heap' = heap \cup {i}
           /\ item' = [item EXCEPT ![i] = [obj |-> o, event |-> e, owned |-> TRUE]]
           /\ tree' = [tree EXCEPT ![o] = i]
           /\ link' = [link EXCEPT ![o] = [@ EXCEPT ![e.dir] = i]]
           /\ IF ~e.edge /\ Level(o, e.dir)
              THEN waiting_list' = NotifiedList(i) /\ flags' = flags \cup {"Event"}
              ELSE UNCHANGED <<waiting_list, flags>>
    BY <1>3 DEF Subscribe
  <2>2. UNCHANGED <<count, op, popped, pc>>
    BY <1>3 DEF Subscribe, objectVars, loopVars
  <2>3. waiting_list \in Seq(Items) /\ NoDuplicate(waiting_list)
    BY DEF TypeOK, Bookkeeping, ListInv
  <2>4. \A x \in Items : Has(waiting_list, x) => Has(waiting_list', x)
    BY <2>1, <2>3, NotifiedListLemma
  <2>5. item'[i] = [obj |-> o, event |-> e, owned |-> TRUE] /\ tree'[o] = i
    BY <2>1 DEF TypeOK
  <2>6. LevelEvent(o)' => Evidence(o)'
    <3>1. LevelEvent(o)' => ~e.edge /\ Level(o, e.dir)
      BY <2>2, <2>5 DEF LevelEvent, Level
    <3>2. ~e.edge /\ Level(o, e.dir) => Has(waiting_list', i)
      BY <2>1, <2>3, NotifiedListLemma
    <3> QED BY <2>5, <3>1, <3>2 DEF Evidence, IsWaiting, Has
  <2>7. ASSUME NEW p \in Objects, p # o, LevelEvent(p)'
        PROVE  Evidence(p)'
    <3>1. tree'[p] = tree[p] /\ tree[p] \in Items /\ tree[p] \in heap
      BY <2>1, <2>7 DEF TypeOK, LevelEvent, Bookkeeping, TreeInv
    <3>2. item'[tree[p]] = item[tree[p]]
      BY <2>1, <3>1 DEF TypeOK
    <3>3. LevelEvent(p)
      BY <2>2, <2>7, <3>1, <3>2 DEF LevelEvent, Level
    <3>4. Evidence(p)
      BY <1>0, <3>3
    <3> QED BY <2>2, <2>4, <3>1, <3>2, <3>4 DEF Evidence, IsWaiting, Has
  <2> QED BY <1>0, <2>6, <2>7
<1>4. ASSUME NEW o \in Objects, tree[o] # NULL, Detach(o), UNCHANGED <<count, op, popped>>,
             pc' = pc \/ (pc = "process" /\ popped = tree[o])
      PROVE  NoLostLevel'
  <2>1. tree'[o] = NULL
    BY <1>4 DEF Detach, TypeOK
  <2>2. ASSUME NEW p \in Objects, LevelEvent(p)'
        PROVE  Evidence(p)'
    <3>1. p # o
      BY <2>1, <2>2 DEF LevelEvent
    <3>2. tree'[p] = tree[p] /\ tree[p] # NULL /\ item'[tree[p]] = item[tree[p]]
      BY <1>4, <2>2, <3>1, DetachLemma DEF LevelEvent
    <3>3. tree[p] \in Items /\ tree[p] # tree[o]
      <4>1. item[tree[p]].obj = p /\ item[tree[o]].obj = o
        BY <1>4, <3>2 DEF Bookkeeping, TreeInv
      <4>2. tree[p] \in Items
        BY <3>2 DEF TypeOK
      <4> QED BY <3>1, <4>1, <4>2
    <3>4. LevelEvent(p)
      BY <1>4, <2>2, <3>2 DEF LevelEvent, Level
    <3>5. Evidence(p)
      BY <1>0, <3>4
    <3>6. Has(waiting_list, tree[p]) => Has(waiting_list', tree[p])
      BY <1>4, <3>3, DetachLemma
    <3> QED BY <1>4, <3>2, <3>3, <3>5, <3>6 DEF Evidence, IsWaiting, Has
  <2> QED BY <1>0, <2>2
<1>5. ASSUME NEW o \in Objects, Unsubscribe(o)
      PROVE  NoLostLevel'
  BY <1>4, <1>5 DEF Unsubscribe, objectVars, loopVars
<1>6. ASSUME ProcessOnce
      PROVE  NoLostLevel'
  <2>1. /\ item[popped].obj \in Objects /\ tree[item[popped].obj] = popped
        /\ popped # NULL
    BY <1>6, EventLoopAssumption DEF ProcessOnce, Bookkeeping, PoppedInv, TypeOK
  <2> QED BY <1>4, <1>6, <2>1 DEF ProcessOnce, objectVars
<1>7. ASSUME GetWaitingItem
      PROVE  NoLostLevel'
  <2>1. /\ pc = "event" /\ waiting_list # <<>> /\ pc' = "process"
        /\ popped' = Head(waiting_list) /\ waiting_list' = Tail(waiting_list)
        /\ UNCHANGED <<count, op, itemVars>>
    BY <1>7 DEF GetWaitingItem, objectVars
  <2>2. waiting_list \in Seq(Items)
    BY DEF TypeOK
  <2>3. ASSUME NEW x \in Items, Has(waiting_list, x)
        PROVE  popped' = x \/ Has(waiting_list', x)
    <3>1. PICK k \in 1..Len(waiting_list) : waiting_list[k] = x
      BY <2>3 DEF Has
    <3>2. CASE k = 1
      BY <2>1, <2>2, <3>1, <3>2
    <3>3. CASE k # 1
      <4>1. (k - 1) \in 1..Len(waiting_list') /\ waiting_list'[k - 1] = x
        BY <2>1, <2>2, <3>1, <3>3
      <4> QED BY <4>1 DEF Has
    <3> QED BY <3>2, <3>3
  <2>4. ASSUME NEW p \in Objects, LevelEvent(p)'
        PROVE  Evidence(p)'
    <3>1. LevelEvent(p) /\ tree[p] \in Items /\ tree' = tree /\ item' = item
      BY <2>1, <2>4 DEF LevelEvent, Level, TypeOK, itemVars
    <3>2. Evidence(p)
      BY <1>0, <3>1
    <3> QED BY <2>1, <2>3, <3>1, <3>2 DEF Evidence, IsWaiting, Has
  <2> QED BY <1>0, <2>4
<1>8. ASSUME ProcessStaleEvent
      PROVE  NoLostLevel'
  <2>1. /\ pc = "process" /\ UNCHANGED <<count, op, itemVars, waiting_list>>
        /\ ~Level(item[popped].obj, item[popped].event.dir)
    BY <1>8 DEF ProcessStaleEvent, EventDone, objectVars
  <2>2. ASSUME NEW p \in Objects, LevelEvent(p)'
        PROVE  Evidence(p)'
    <3>1. LevelEvent(p) /\ tree' = tree /\ item' = item /\ waiting_list' = waiting_list /\ op' = op
      BY <2>1, <2>2 DEF LevelEvent, Level, itemVars
    <3>2. Evidence(p)
      BY <1>0, <3>1
    <3>3. popped # tree[p]
      BY <2>1, <3>1 DEF LevelEvent, Bookkeeping, TreeInv
    <3> QED BY <3>1, <3>2, <3>3 DEF Evidence, IsWaiting
  <2> QED BY <1>0, <2>2
<1>9. ASSUME EventCallbackReturns
      PROVE  NoLostLevel'
  <2>1. pc = "event_cb" /\ UNCHANGED <<count, op, tree>>
    BY <1>9 DEF EventCallbackReturns, objectVars
  <2>2. popped \in Items /\ waiting_list \in Seq(Items) /\ NoDuplicate(waiting_list)
    BY <2>1 DEF TypeOK, Bookkeeping, PoppedInv, ListInv
  <2>3. ASSUME NEW p \in Objects, LevelEvent(p)'
        PROVE  Evidence(p)'
    <3>1. tree[p] \in Items /\ tree[p] # NULL /\ item[tree[p]].owned /\ item[tree[p]].obj = p
      BY <2>1, <2>3 DEF LevelEvent, TypeOK, Bookkeeping, TreeInv
    <3>2. item'[tree[p]] = item[tree[p]]
      BY <1>9, <2>2, <3>1 DEF EventCallbackReturns, TypeOK
    <3>3. LevelEvent(p) /\ Evidence(p)
      BY <1>0, <2>1, <2>3, <3>2 DEF LevelEvent, Level
    <3>4. \A x \in Items : Has(waiting_list, x) => Has(waiting_list', x)
      <4>1. waiting_list' = waiting_list \/ waiting_list' = NotifiedList(popped)
        BY <1>9 DEF EventCallbackReturns, EventDone
      <4> QED BY <2>2, <4>1, NotifiedListLemma
    <3>5. CASE popped = tree[p]
      <4>1. waiting_list' = NotifiedList(popped)
        BY <1>9, <3>1, <3>3, <3>5 DEF EventCallbackReturns, EventDone, LevelEvent
      <4>2. Has(waiting_list', tree[p])
        BY <2>2, <3>5, <4>1, NotifiedListLemma
      <4> QED BY <2>1, <4>2 DEF Evidence, IsWaiting, Has
    <3>6. CASE popped # tree[p]
      BY <2>1, <3>1, <3>2, <3>3, <3>4, <3>6 DEF Evidence, IsWaiting, Has
    <3> QED BY <3>5, <3>6
  <2> QED BY <1>0, <2>3
<1>10. ASSUME \/ \E t \in Threads \cup {Owner} : Stop(t) \/ SetThreadFlag(t)
              \/ SubscribeThreadFlags \/ UnsubscribeThreadFlags \/ PendCallback
              \/ \E t \in Timers : TimerAlloc(t) \/ \E r \in Requests : TimerRequest(t, r)
       PROVE  NoLostLevel'
  <2>1. UNCHANGED <<count, op, item, tree, waiting_list, pc, popped>>
    BY <1>10 DEF Stop, SetThreadFlag, SubscribeThreadFlags, UnsubscribeThreadFlags, PendCallback,
                 TimerAlloc, TimerRequest, objectVars, itemVars, loopVars
  <2> QED BY <2>1, NoLostLevelKept
<1>11. ASSUME \/ Run \/ Free \/ TakeFlags \/ \E t \in Timers : TimerExpires(t)
              \/ NoWaitingItem \/ PendingCallbackReturns \/ CallbackReturns
       PROVE  NoLostLevel'
  <2>1. /\ UNCHANGED <<count, op, item, tree, waiting_list>>
        /\ pc \notin {"process", "event_cb"}
    BY <1>11 DEF Run, Free, TakeFlags, TakeStop, TakeEvent, TakeTimer, TakePending, TakeThreadFlag,
                 TimerExpires, NoWaitingItem, PendingCallbackReturns, CallbackReturns,
                 objectVars, itemVars
  <2> QED BY <2>1, NoLostLevelKept
<1>12. ASSUME ProcessEvent \/ UNCHANGED vars
       PROVE  NoLostLevel'
  <2>1. /\ UNCHANGED <<count, op, item, tree, waiting_list, popped>>
        /\ pc' = pc \/ pc' = "event_cb"
    BY <1>12 DEF ProcessEvent, vars, objectVars, itemVars, loopVars
  <2> QED BY <2>1, NoLostLevelKept
<1> QED
  BY <1>1, <1>2, <1>3, <1>5, <1>6, <1>7, <1>8, <1>9, <1>10, <1>11, <1>12
  DEF Next, ObjectNext, UserNext, ProcessWaitingList, Returns

-----------------------------------------------------------------------------
(* The Event flag of a loop that runs once                                 *)

LEMMA InitSignalled == Init => Signalled
  BY DEF Init, Signalled

LEMMA SignalledStep ==
    ASSUME MaxRuns <= 1, TypeOK, Bookkeeping, Signalled, [Next]_vars
    PROVE  Signalled'
<1> USE DEF Signalled
<1>1. ASSUME \/ \E t \in Threads \cup {Owner} :
                  \/ \E o \in Objects : Put(t, o) \/ Get(t, o) \/ Reset(t, o)
                  \/ Stop(t) \/ SetThreadFlag(t)
             \/ SubscribeThreadFlags \/ UnsubscribeThreadFlags \/ PendCallback
             \/ \E t \in Timers : TimerAlloc(t) \/ \E r \in Requests : TimerRequest(t, r)
             \/ UNCHANGED vars
      PROVE  Signalled'
  <2>1. UNCHANGED <<waiting_list, runs, pc>> /\ flags \subseteq flags'
    BY <1>1 DEF Put, Get, Reset, Change, Stop, SetThreadFlag, SubscribeThreadFlags,
                UnsubscribeThreadFlags, PendCallback, TimerAlloc, TimerRequest, vars, loopVars
  <2> QED BY <2>1
<1>2. ASSUME NEW t \in Threads \cup {Owner}, LinkNotify(t)
      PROVE  Signalled'
  BY <1>2 DEF LinkNotify, loopVars
<1>3. ASSUME NEW o \in Objects, NEW e \in Events, Subscribe(o, e)
      PROVE  Signalled'
  BY <1>3 DEF Subscribe, loopVars
<1>4. ASSUME NEW o \in Objects, Unsubscribe(o)
      PROVE  Signalled'
  <2>1. tree[o] \in Items /\ waiting_list \in Seq(Items) /\ NoDuplicate(waiting_list)
    BY <1>4 DEF Unsubscribe, TypeOK, Bookkeeping, ListInv
  <2>2. waiting_list' # <<>> => waiting_list # <<>>
    BY <1>4, <2>1, UnlinkedListLemma DEF Unsubscribe, Detach
  <2> QED BY <1>4, <2>2 DEF Unsubscribe, loopVars
<1>5. ASSUME Run
      PROVE  Signalled'
  <2>1. runs = 0 /\ runs' = 1
    BY <1>5, EventLoopAssumption DEF Run, TypeOK
  <2> QED BY <1>5, <2>1 DEF Run
<1>6. ASSUME Free \/ TakeFlags \/ \E t \in Timers : TimerExpires(t)
      PROVE  Signalled'
  BY <1>6 DEF Free, TakeFlags, TakeStop, TakeEvent, TakeTimer, TakePending, TakeThreadFlag,
              TimerExpires, loopVars
<1>7. ASSUME GetWaitingItem \/ NoWaitingItem \/ ProcessOnce \/ ProcessEvent
      PROVE  Signalled'
  BY <1>7 DEF GetWaitingItem, NoWaitingItem, ProcessOnce, ProcessEvent
<1>8. ASSUME ProcessStaleEvent
      PROVE  Signalled'
  BY <1>8 DEF ProcessStaleEvent, EventDone
<1>9. ASSUME EventCallbackReturns
      PROVE  Signalled'
  <2>1. PICK list : EventDone(list)
    BY <1>9 DEF EventCallbackReturns
  <2> QED BY <1>9, <2>1 DEF EventCallbackReturns, EventDone
<1>10. ASSUME PendingCallbackReturns \/ CallbackReturns
      PROVE  Signalled'
  BY <1>10 DEF PendingCallbackReturns, CallbackReturns
<1> QED
  BY <1>1, <1>2, <1>3, <1>4, <1>5, <1>6, <1>7, <1>8, <1>9, <1>10
  DEF Next, ObjectNext, UserNext, ProcessWaitingList, Returns

-----------------------------------------------------------------------------
(* The Timer flag of a loop that runs once                                 *)

LEMMA TimerSignalledStep ==
    ASSUME MaxRuns <= 1, TypeOK, TimerSignalled, [Next]_vars
    PROVE  TimerSignalled'
<1> USE DEF TimerSignalled
<1>1. ASSUME \/ \E t \in Threads \cup {Owner} :
                  \/ \E o \in Objects : Put(t, o) \/ Get(t, o) \/ Reset(t, o)
                  \/ LinkNotify(t) \/ Stop(t) \/ SetThreadFlag(t)
             \/ \E o \in Objects : Unsubscribe(o) \/ \E e \in Events : Subscribe(o, e)
             \/ SubscribeThreadFlags \/ UnsubscribeThreadFlags \/ PendCallback
             \/ UNCHANGED vars
      PROVE  TimerSignalled'
  <2>1. UNCHANGED <<timer, saved, runs, pc>> /\ flags \subseteq flags'
    BY <1>1 DEF Put, Get, Reset, Change, LinkNotify, Stop, SetThreadFlag, Subscribe, Unsubscribe,
                SubscribeThreadFlags, UnsubscribeThreadFlags, PendCallback, vars,
                loopVars, otherVars
  <2> QED BY <2>1 DEF TimerQueue
<1>2. ASSUME NEW t \in Timers, TimerAlloc(t)
      PROVE  TimerSignalled'
  <2>1. TimerQueue' = TimerQueue
    BY <1>2 DEF TimerAlloc, TimerQueue, TypeOK, TimerTypes
  <2> QED BY <1>2, <2>1 DEF TimerAlloc, loopVars
<1>3. ASSUME NEW t \in Timers, NEW r \in Requests, TimerRequest(t, r)
      PROVE  TimerSignalled'
  BY <1>3 DEF TimerRequest, loopVars
<1>4. ASSUME Run
      PROVE  TimerSignalled'
  <2>1. runs = 0 /\ runs' = 1
    BY <1>4, EventLoopAssumption DEF Run, TypeOK
  <2> QED BY <1>4, <2>1 DEF Run, otherVars, TimerQueue
<1>5. ASSUME TakeStop \/ TakeEvent \/ TakePending \/ TakeThreadFlag
      PROVE  TimerSignalled'
  <2>1. timer' = timer
    BY <1>5 DEF TakeStop, TakeEvent, TakePending, TakeThreadFlag, otherVars
  <2> QED BY <1>5, <2>1 DEF TakeStop, TakeEvent, TakePending, TakeThreadFlag, TimerQueue
<1>6. ASSUME TakeTimer
      PROVE  TimerSignalled'
  <2>1. TimerQueue' = {}
    <3>1. ASSUME NEW t \in Timers PROVE timer'[t].request = "None"
      <4>1. timer[t] \in TimerTypes /\ timer[t].request \in Requests
        BY DEF TypeOK, TimerTypes
      <4> QED BY <1>6, <4>1 DEF TakeTimer, ProcessedTimers, Requests, NoTimer, TimerTypes
    <3> QED BY <3>1 DEF TimerQueue
  <2> QED BY <1>6, <2>1 DEF TakeTimer, loopVars
<1>7. ASSUME NEW t \in Timers, TimerExpires(t)
      PROVE  TimerSignalled'
  <2>1. TimerQueue' = TimerQueue
    BY <1>7 DEF TimerExpires, TimerQueue, TypeOK, TimerTypes
  <2> QED BY <1>7, <2>1 DEF TimerExpires
<1>8. ASSUME GetWaitingItem \/ NoWaitingItem \/ ProcessOnce \/ ProcessEvent
      PROVE  TimerSignalled'
  BY <1>8 DEF GetWaitingItem, NoWaitingItem, ProcessOnce, ProcessEvent, otherVars, TimerQueue
<1>9. ASSUME ProcessStaleEvent \/ EventCallbackReturns
      PROVE  TimerSignalled'
  <2>1. PICK list : EventDone(list)
    BY <1>9 DEF ProcessStaleEvent, EventCallbackReturns
  <2>2. timer' = timer /\ runs' = runs /\ pc \in {"process", "event_cb"}
    BY <1>9 DEF ProcessStaleEvent, EventCallbackReturns, otherVars
  <2> QED BY <2>1, <2>2 DEF EventDone, TimerQueue
<1>10. ASSUME PendingCallbackReturns \/ CallbackReturns
       PROVE  TimerSignalled'
  BY <1>10 DEF PendingCallbackReturns, CallbackReturns, TimerQueue
<1>11. ASSUME Free
       PROVE  TimerSignalled'
  BY <1>11 DEF Free
<1> QED
  BY <1>1, <1>2, <1>3, <1>4, <1>5, <1>6, <1>7, <1>8, <1>9, <1>10, <1>11
  DEF Next, ObjectNext, UserNext, TakeFlags, ProcessWaitingList, Returns

-----------------------------------------------------------------------------
(* The ThreadFlag flag of a loop that runs once and pends no function      *)

LEMMA ThreadFlagSignalledStep ==
    ASSUME MaxRuns <= 1, MaxPending = 0, TypeOK, ThreadFlagSignalled, [Next]_vars
    PROVE  ThreadFlagSignalled'
<1> USE DEF ThreadFlagSignalled
<1>1. ASSUME \/ \E t \in Threads \cup {Owner} :
                  \/ \E o \in Objects : Put(t, o) \/ Get(t, o) \/ Reset(t, o)
                  \/ LinkNotify(t) \/ Stop(t)
             \/ \E o \in Objects : Unsubscribe(o) \/ \E e \in Events : Subscribe(o, e)
             \/ \E t \in Timers : TimerAlloc(t) \/ \E r \in Requests : TimerRequest(t, r)
             \/ SubscribeThreadFlags \/ UNCHANGED vars
      PROVE  ThreadFlagSignalled'
  <2>1. /\ UNCHANGED <<raised, saved, runs, pc>>
        /\ flags \subseteq flags' /\ flags' \subseteq flags \cup {"Event", "Stop", "Timer"}
    BY <1>1 DEF Put, Get, Reset, Change, LinkNotify, Stop, Subscribe, Unsubscribe,
                SubscribeThreadFlags, TimerAlloc, TimerRequest, vars, loopVars, otherVars
  <2> QED BY <2>1
<1>2. ASSUME NEW t \in Threads \cup {Owner}, SetThreadFlag(t)
      PROVE  ThreadFlagSignalled'
  BY <1>2 DEF SetThreadFlag, loopVars
<1>3. ASSUME UnsubscribeThreadFlags
      PROVE  ThreadFlagSignalled'
  BY <1>3 DEF UnsubscribeThreadFlags, loopVars
<1>4. ~PendCallback
  BY DEF PendCallback, TypeOK
<1>5. ASSUME Run
      PROVE  ThreadFlagSignalled'
  <2>1. runs = 0 /\ runs' = 1
    BY <1>5, EventLoopAssumption DEF Run, TypeOK
  <2> QED BY <1>5, <2>1 DEF Run, otherVars
<1>6. ASSUME TakeStop \/ TakeEvent \/ TakeTimer
      PROVE  ThreadFlagSignalled'
  BY <1>6 DEF TakeStop, TakeEvent, TakeTimer, otherVars, loopVars
<1>7. ~TakePending
  BY DEF TakePending
<1>8. ASSUME TakeThreadFlag
      PROVE  ThreadFlagSignalled'
  BY <1>8 DEF TakeThreadFlag
<1>9. ASSUME NEW t \in Timers, TimerExpires(t)
      PROVE  ThreadFlagSignalled'
  BY <1>9 DEF TimerExpires
<1>10. ASSUME GetWaitingItem \/ NoWaitingItem \/ ProcessOnce \/ ProcessEvent
       PROVE  ThreadFlagSignalled'
  BY <1>10 DEF GetWaitingItem, NoWaitingItem, ProcessOnce, ProcessEvent, otherVars
<1>11. ASSUME ProcessStaleEvent \/ EventCallbackReturns
       PROVE  ThreadFlagSignalled'
  <2>1. PICK list : EventDone(list)
    BY <1>11 DEF ProcessStaleEvent, EventCallbackReturns
  <2>2. raised' = raised /\ runs' = runs /\ pc \in {"process", "event_cb"}
    BY <1>11 DEF ProcessStaleEvent, EventCallbackReturns, otherVars
  <2> QED BY <2>1, <2>2 DEF EventDone
<1>12. ASSUME PendingCallbackReturns \/ CallbackReturns
       PROVE  ThreadFlagSignalled'
  BY <1>12 DEF PendingCallbackReturns, CallbackReturns
<1>13. ASSUME Free
       PROVE  ThreadFlagSignalled'
  BY <1>13 DEF Free
<1> QED
  BY <1>1, <1>2, <1>3, <1>4, <1>5, <1>6, <1>7, <1>8, <1>9, <1>10, <1>11, <1>12, <1>13
  DEF Next, ObjectNext, UserNext, TakeFlags, ProcessWaitingList, Returns

-----------------------------------------------------------------------------
(* The results                                                             *)

IInv == TypeOK /\ Bookkeeping /\ NoLostLevel

LEMMA Invariance == Spec => []IInv
<1>1. Init => IInv
  BY InitType, InitBookkeeping, InitNoLostLevel DEF IInv
<1>2. IInv /\ [Next]_vars => IInv'
  BY TypeStep, BookkeepingStep, NoLostLevelStep DEF IInv
<1> QED BY <1>1, <1>2, PTL DEF Spec

(* The variables keep their types: in particular no queue overflows and    *)
(* the waiting list holds items only.                                      *)
THEOREM TypeCorrect == Spec => []TypeOK
<1>1. IInv => TypeOK
  BY DEF IInv
<1> QED BY <1>1, Invariance, PTL

(* What is allocated is subscribed or being processed: unsubscribing from  *)
(* anywhere, the item's own callback included, leaks no item.              *)
THEOREM ItemsNotLeaked == Spec => []NoLeakedItem
<1>1. IInv => NoLeakedItem
  BY DEF IInv, Bookkeeping, HeapInv, NoLeakedItem
<1> QED BY <1>1, Invariance, PTL

(* No event callback starts for an object after its unsubscription.        *)
THEOREM UnsubscribeIsFinal == Spec => NoCallbackAfterUnsubscribe
<1>1. IInv /\ [Next]_vars =>
        [pc = "process" /\ pc' = "event_cb" => tree[item[popped].obj] = popped]_vars
  BY DEF IInv, Bookkeeping, PoppedInv
<1> QED BY <1>1, Invariance, PTL DEF Spec, NoCallbackAfterUnsubscribe

(* No thread and no callback reaches a freed item, when no subscription is *)
(* one-shot (a FlagOnce item is freed before its callback runs).           *)
THEOREM ItemsNotDangling ==
    ASSUME \A e \in Events : ~e.once
    PROVE  Spec => []NoDanglingItem
<1> DEFINE NoOnce == \A i \in heap : ~item[i].event.once
           J == IInv /\ NoOnce /\ (pc = "crashed" => popped = NULL)
<1>1. Init => J
  BY InitType, InitBookkeeping, InitNoLostLevel DEF IInv, Init
<1>2. J /\ [Next]_vars => J'
  <2> SUFFICES ASSUME J, [Next]_vars PROVE J'
    OBVIOUS
  <2>1. IInv'
    BY TypeStep, BookkeepingStep, NoLostLevelStep DEF IInv
  <2>2. ~ProcessOnce
    BY DEF ProcessOnce, IInv, Bookkeeping, PoppedInv
  <2>3. NoOnce'
    <3>1. ASSUME NEW o \in Objects, NEW e \in Events, Subscribe(o, e)
          PROVE  NoOnce'
      BY <3>1 DEF Subscribe, IInv, TypeOK
    <3>2. ASSUME NEW o \in Objects, Unsubscribe(o)
          PROVE  NoOnce'
      <4>1. tree[o] \in Items /\ item \in [Items -> ItemTypes] /\ heap \subseteq Items
        BY <3>2 DEF Unsubscribe, IInv, TypeOK
      <4>2. \A x \in Items : x \in heap' => x \in heap /\ item'[x].event = item[x].event
        BY <3>2, <4>1 DEF Unsubscribe, Detach, ItemTypes
      <4> QED BY <2>1, <4>1, <4>2 DEF IInv, TypeOK
    <3>3. ASSUME EventCallbackReturns
          PROVE  NoOnce'
      <4>1. popped \in Items /\ item \in [Items -> ItemTypes] /\ heap \subseteq Items
        BY <3>3 DEF EventCallbackReturns, IInv, TypeOK, Bookkeeping, PoppedInv
      <4>2. \A x \in Items : x \in heap' => x \in heap /\ item'[x] = item[x]
        BY <3>3, <4>1 DEF EventCallbackReturns
      <4> QED BY <2>1, <4>1, <4>2 DEF IInv, TypeOK
    <3>4. ASSUME UNCHANGED <<heap, item>>
          PROVE  NoOnce'
      BY <3>4
    <3>5. \/ \E o \in Objects : Unsubscribe(o) \/ \E e \in Events : Subscribe(o, e)
          \/ EventCallbackReturns
          \/ UNCHANGED <<heap, item>>
      BY <2>2 DEF Next, ObjectNext, UserNext, ProcessWaitingList, Returns, TakeFlags,
             Put, Get, Reset, Change, LinkNotify, Stop, SetThreadFlag, SubscribeThreadFlags,
             UnsubscribeThreadFlags, TimerAlloc, TimerRequest, PendCallback, Run, Free,
             TakeStop, TakeEvent, TakeTimer, TakePending, TakeThreadFlag, TimerExpires,
             GetWaitingItem, NoWaitingItem, ProcessEvent, ProcessStaleEvent,
             PendingCallbackReturns, CallbackReturns, vars, itemVars
    <3> QED BY <3>1, <3>2, <3>3, <3>4, <3>5
  <2>4. (pc = "crashed" => popped = NULL)'
    <3>1. pc' = "crashed" => pc \in {"crashed", "idle"} /\ popped' = popped
      BY <2>2 DEF Next, ObjectNext, UserNext, ProcessWaitingList, Returns, TakeFlags,
             Put, Get, Reset, Change, LinkNotify, Stop, SetThreadFlag, SubscribeThreadFlags,
             UnsubscribeThreadFlags, TimerAlloc, TimerRequest, PendCallback, Run, Free,
             TakeStop, TakeEvent, TakeTimer, TakePending, TakeThreadFlag, TimerExpires,
             GetWaitingItem, NoWaitingItem, ProcessEvent, ProcessStaleEvent, Subscribe, Unsubscribe,
             PendingCallbackReturns, CallbackReturns, EventCallbackReturns, EventDone,
             vars, loopVars
    <3> QED BY <3>1 DEF IInv, Bookkeeping, PoppedInv
  <2> QED BY <2>1, <2>3, <2>4
<1>3. J => NoDanglingItem
  <2> SUFFICES ASSUME J PROVE NoDanglingItem
    OBVIOUS
  <2>1. \A o \in Objects, d \in Directions :
           LET i == link[o][d]
           IN  i # NULL => i \in heap /\ item[i].owned /\ item[i].obj = o /\ tree[o] = i
    BY DEF IInv, Bookkeeping, TreeInv
  <2>2. ASSUME NEW k \in 1..Len(waiting_list)
        PROVE  waiting_list[k] \in heap /\ tree[item[waiting_list[k]].obj] = waiting_list[k]
    <3>1. waiting_list[k] \in Items /\ Has(waiting_list, waiting_list[k])
      BY DEF IInv, TypeOK, Has
    <3> QED BY <3>1, EventLoopAssumption DEF IInv, Bookkeeping, ListInv, TreeInv
  <2>3. popped # NULL => popped \in heap
    BY DEF IInv, Bookkeeping, PoppedInv
  <2> QED BY <2>1, <2>2, <2>3 DEF NoDanglingItem
<1> QED BY <1>1, <1>2, <1>3, PTL DEF Spec

(* A loop that is run once never sleeps on a level it has not reported,    *)
(* whatever the threads and the callbacks do (event_loop.h:78-80).         *)
THEOREM LevelsNotLost ==
    ASSUME MaxRuns <= 1
    PROVE  Spec => [](LevelNotLost /\ WaitingListSignalled)
<1>1. Init => Signalled
  BY InitSignalled
<1>2. IInv /\ Signalled /\ [Next]_vars => Signalled'
  BY SignalledStep DEF IInv
<1>3. IInv /\ Signalled => LevelNotLost /\ WaitingListSignalled
  <2> SUFFICES ASSUME IInv, Signalled PROVE LevelNotLost /\ WaitingListSignalled
    OBVIOUS
  <2>1. WaitingListSignalled
    BY DEF Signalled, WaitingListSignalled
  <2>2. ASSUME pc = "wait", NEW o \in Objects, LevelEvent(o), IsWaiting(tree[o])
        PROVE  "Event" \in flags
    <3>1. waiting_list # <<>>
      BY <2>2 DEF IsWaiting, IInv, TypeOK
    <3> QED BY <2>1, <2>2, <3>1 DEF WaitingListSignalled
  <2>3. LevelNotLost
    BY <2>2 DEF LevelNotLost, IInv, NoLostLevel
  <2> QED BY <2>1, <2>3
<1> QED BY <1>1, <1>2, <1>3, Invariance, PTL DEF Spec

(* In a loop that is run once, neither a timer callback nor a pended       *)
(* function starts while a timer request it has to come after is queued.   *)
LEMMA RequestsLead ==
    ASSUME MaxRuns <= 1
    PROVE  Spec => NoFireAfterRequest /\ PendedAfterTimerCommands
<1>1. Init => TimerSignalled
  BY DEF Init, TimerSignalled, TimerQueue, NoTimer
<1>2. IInv /\ TimerSignalled /\ [Next]_vars => TimerSignalled'
  BY TimerSignalledStep DEF IInv
<1>3. ASSUME IInv, TimerSignalled, Next
      PROVE  /\ fired = NULL /\ fired' # NULL => timer[fired'].request = "None"
             /\ pc = "wait" /\ pc' = "pending_cb" => TimerQueue = {}
  <2>1. pc = "wait" /\ "Timer" \notin flags => TimerQueue = {}
    BY <1>3 DEF TimerSignalled
  <2>2. fired = NULL /\ fired' # NULL => \E t \in Timers : TimerExpires(t)
    BY <1>3 DEF Next, ObjectNext, UserNext, ProcessWaitingList, Returns, TakeFlags,
           Put, Get, Reset, Change, LinkNotify, Stop, SetThreadFlag, SubscribeThreadFlags,
           UnsubscribeThreadFlags, TimerAlloc, TimerRequest, PendCallback, Run, Free,
           TakeStop, TakeEvent, TakeTimer, TakePending, TakeThreadFlag, Subscribe, Unsubscribe,
           GetWaitingItem, NoWaitingItem, ProcessOnce, ProcessEvent, ProcessStaleEvent,
           EventCallbackReturns, PendingCallbackReturns, CallbackReturns, otherVars
  <2>3. pc = "wait" /\ pc' = "pending_cb" => TakePending
    BY <1>3 DEF Next, ObjectNext, UserNext, ProcessWaitingList, Returns, TakeFlags,
           Put, Get, Reset, Change, LinkNotify, Stop, SetThreadFlag, SubscribeThreadFlags,
           UnsubscribeThreadFlags, TimerAlloc, TimerRequest, PendCallback, Run, Free,
           TakeStop, TakeEvent, TakeTimer, TakeThreadFlag, TimerExpires, Subscribe, Unsubscribe,
           GetWaitingItem, NoWaitingItem, ProcessOnce, ProcessEvent, ProcessStaleEvent,
           EventCallbackReturns, PendingCallbackReturns, CallbackReturns, loopVars
  <2> QED BY <2>1, <2>2, <2>3 DEF TimerExpires, TakePending, TimerQueue
<1>4. IInv /\ TimerSignalled /\ [Next]_vars =>
        /\ [fired = NULL /\ fired' # NULL => timer[fired'].request = "None"]_vars
        /\ [pc = "wait" /\ pc' = "pending_cb" => TimerQueue = {}]_vars
  BY <1>3
<1> QED
  BY <1>1, <1>2, <1>4, Invariance, PTL DEF Spec, NoFireAfterRequest, PendedAfterTimerCommands

(* A timer callback starts only for a timer without a queued request: in a *)
(* loop that is run once, a stop or restart that came before the expiry is *)
(* obeyed (the Timer flag is tried before the sleep, event_loop.c:242).    *)
THEOREM RequestsComeFirst ==
    ASSUME MaxRuns <= 1
    PROVE  Spec => NoFireAfterRequest
BY RequestsLead

(* The loop begins a pass over the pended functions only with every timer  *)
(* request processed: furi_event_loop_run tries Timer before Pending.      *)
THEOREM PendedComeAfter ==
    ASSUME MaxRuns <= 1
    PROVE  Spec => PendedAfterTimerCommands
BY RequestsLead

(* In a loop that is run once and whose user pends no function (the branch *)
(* of a pended function forgets the other flags, event_loop.c:244), no     *)
(* branch loses a thread flag: while the loop sleeps, one not yet reported *)
(* is still signalled.                                                     *)
THEOREM ThreadFlagsReported ==
    ASSUME MaxRuns <= 1, MaxPending = 0
    PROVE  Spec => []ThreadFlagNotLost
<1>1. Init => ThreadFlagSignalled
  BY DEF Init, ThreadFlagSignalled
<1>2. IInv /\ ThreadFlagSignalled /\ [Next]_vars => ThreadFlagSignalled'
  BY ThreadFlagSignalledStep DEF IInv
<1>3. ThreadFlagSignalled => ThreadFlagNotLost
  BY DEF ThreadFlagSignalled, ThreadFlagNotLost
<1> QED BY <1>1, <1>2, <1>3, Invariance, PTL DEF Spec

=============================================================================
