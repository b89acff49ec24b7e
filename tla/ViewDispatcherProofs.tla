------------------------- MODULE ViewDispatcherProofs -------------------------
(***************************************************************************)
(* Proofs about ViewDispatcher, for any keys, views, rotation of the keys  *)
(* and length of the queue: neither the GUI thread nor the event loop uses *)
(* what the application has freed, and a view keeps the keys whose Press   *)
(* it got.  The latter needs KeysInv: as long as no rotation has met keys  *)
(* that were down, a Press in the queue is of a key that is up by then,    *)
(* because the port was promised so (PortSource).                          *)
(***************************************************************************)
EXTENDS ViewDispatcher, TLAPS

(* The events among the first n of a queue that press or release k.        *)
Moves(q, k, n) == {i \in 1..n : q[i].key = k /\ q[i].type \in {"Press", "Release"}}

(* Whether the dispatcher will hold k to be down once it has handled them. *)
DownAfter(q, keys, k, n) ==
    IF Moves(q, k, n) = {}
    THEN k \in keys
    ELSE \E i \in Moves(q, k, n) :
            q[i].type = "Press" /\ \A j \in Moves(q, k, n) : j <= i

(* What the port calls k, as the views see it.                             *)
Rotated(k) == IF rotated THEN Rotation[k] ELSE k

Queued(k) == DownAfter(input_queue, ongoing_input, k, Len(input_queue))

(* The next Press of a key, in the queue, in the call under way or to be   *)
(* promised, finds it up.                                                  *)
KeysInv ==
    /\ \A i \in 1..Len(input_queue) : input_queue[i].type = "Press" =>
         ~DownAfter(input_queue, ongoing_input, input_queue[i].key, i - 1)
    /\ call # NULL /\ call.type = "Press" => call.key \in down /\ ~Queued(Rotated(call.key))
    /\ \A k \in Keys \ down :
         \/ call # NULL /\ call.key = k /\ call.type = "Release"
         \/ ~Queued(Rotated(k))

(* A dispatcher that is not there has no input.                            *)
OffInv ==
    /\ pc \in {"off", "returned"} => ongoing_input = {}
    /\ pc = "off" => input_queue = <<>> /\ call = NULL /\ down = {}
    /\ pc # "loop" => \A v \in Views : held[v] = {}

IInv == DispatcherSound /\ OffInv /\ (~sacrificed => KeysInv) /\ PressStaysWithView

-----------------------------------------------------------------------------
(* The input queue                                                         *)

(* An event that is queued decides about its own key only.                 *)
LEMMA AppendLemma ==
    ASSUME NEW q \in Seq(Events), NEW e \in Events, NEW keys, NEW k \in Keys
    PROVE  /\ \A n \in 0..Len(q) : DownAfter(Append(q, e), keys, k, n) = DownAfter(q, keys, k, n)
           /\ e.key # k \/ e.type \notin {"Press", "Release"} =>
                DownAfter(Append(q, e), keys, k, Len(q) + 1) = DownAfter(q, keys, k, Len(q))
           /\ e.key = k /\ e.type = "Release" => ~DownAfter(Append(q, e), keys, k, Len(q) + 1)
<1> DEFINE w == Append(q, e)
<1>1. /\ Len(q) \in Nat /\ w[Len(q) + 1] = e
      /\ \A i \in 1..Len(q) : w[i] = q[i]
  OBVIOUS
<1> HIDE DEF w
<1>2. ASSUME NEW n \in 0..Len(q) PROVE Moves(w, k, n) = Moves(q, k, n)
  BY <1>1 DEF Moves
<1>3. ASSUME NEW n \in 0..Len(q) PROVE DownAfter(w, keys, k, n) = DownAfter(q, keys, k, n)
  <2>1. \A i \in Moves(q, k, n) : w[i] = q[i]
    BY <1>1 DEF Moves
  <2> QED BY <1>2, <2>1 DEF DownAfter
<1>4. ASSUME e.key # k \/ e.type \notin {"Press", "Release"}
      PROVE  DownAfter(w, keys, k, Len(q) + 1) = DownAfter(q, keys, k, Len(q))
  <2>1. Moves(w, k, Len(q) + 1) = Moves(q, k, Len(q))
    BY <1>1, <1>4 DEF Moves
  <2>2. \A i \in Moves(q, k, Len(q)) : w[i] = q[i]
    BY <1>1 DEF Moves
  <2> QED BY <2>1, <2>2 DEF DownAfter
<1>5. ASSUME e.key = k, e.type = "Release"
      PROVE  ~DownAfter(w, keys, k, Len(q) + 1)
  <2>1. Len(q) + 1 \in Moves(w, k, Len(q) + 1)
    BY <1>1, <1>5 DEF Moves
  <2>2. \A i \in Moves(w, k, Len(q) + 1) : i \in Nat /\ i <= Len(q) + 1
    BY <1>1 DEF Moves
  <2>3. \A i \in Moves(w, k, Len(q) + 1) : Len(q) + 1 <= i => i = Len(q) + 1
    BY <1>1, <2>2
  <2> QED BY <1>1, <1>5, <2>1, <2>3 DEF DownAfter
<1> QED BY <1>3, <1>4, <1>5 DEF w

(* Handling the first event leaves what the rest of the queue will do.     *)
LEMMA TailLemma ==
    ASSUME NEW q \in Seq(Events), q # <<>>, NEW keys, NEW keys1, NEW k \in Keys,
           NEW n \in 0..(Len(q) - 1),
           k \in keys1 <=>
             IF q[1].key = k /\ q[1].type \in {"Press", "Release"}
             THEN q[1].type = "Press" ELSE k \in keys
    PROVE  DownAfter(Tail(q), keys1, k, n) <=> DownAfter(q, keys, k, n + 1)
<1> DEFINE w == Tail(q)
           M == Moves(w, k, n)
           L == Moves(q, k, n + 1)
<1>1. Len(q) \in Nat /\ Len(q) > 0 /\ \A i \in 1..(Len(q) - 1) : w[i] = q[i + 1]
  OBVIOUS
<1> HIDE DEF w
<1>2. \A i \in 1..n : i \in M <=> i + 1 \in L
  BY <1>1 DEF Moves
<1>3. /\ 1 \in L <=> q[1].key = k /\ q[1].type \in {"Press", "Release"}
      /\ M \subseteq 1..n /\ L \subseteq 1..(n + 1)
      /\ \A i \in M : w[i] = q[i + 1]
  BY <1>1 DEF Moves
<1>5. \A j \in L : j = 1 \/ (j - 1 \in 1..n /\ j - 1 \in M)
  BY <1>2, <1>3
<1>4. CASE M = {}
  <2>1. L \subseteq {1}
    BY <1>4, <1>5
  <2>2. DownAfter(w, keys1, k, n) <=> k \in keys1
    BY <1>4 DEF DownAfter
  <2>3. CASE L = {}
    BY <1>3, <2>2, <2>3 DEF DownAfter, w
  <2>4. CASE L = {1}
    <3>1. DownAfter(q, keys, k, n + 1) <=> q[1].type = "Press"
      BY <2>4 DEF DownAfter
    <3> QED BY <1>3, <2>2, <2>4, <3>1 DEF w
  <2> QED BY <2>1, <2>3, <2>4 DEF w
<1>6. CASE M # {}
  <2>1. PICK m \in M : TRUE
    BY <1>6
  <2>2. L # {} /\ m + 1 \in L /\ m \in 1..n
    BY <1>2, <1>3, <2>1
  <2>3. ASSUME NEW i \in M, w[i].type = "Press", \A j \in M : j <= i
        PROVE  i + 1 \in L /\ q[i + 1].type = "Press" /\ \A j \in L : j <= i + 1
    <3>1. i \in 1..n
      BY <1>3
    <3>2. i + 1 \in L
      BY <1>2, <3>1
    <3>3. q[i + 1].type = "Press"
      BY <1>3, <2>3
    <3>4. \A j \in L : j <= i + 1
      BY <1>5, <2>3, <3>1
    <3> QED BY <3>2, <3>3, <3>4
  <2>4. ASSUME NEW i \in L, q[i].type = "Press", \A j \in L : j <= i
        PROVE  i - 1 \in M /\ w[i - 1].type = "Press" /\ \A j \in M : j <= i - 1
    <3>1. i \in 1..(n + 1) /\ i # 1
      BY <1>3, <2>2, <2>4
    <3>2. i - 1 \in M
      BY <1>5, <3>1
    <3>3. \A j \in M : j + 1 <= i /\ j \in 1..n
      BY <1>2, <1>3, <2>4
    <3> QED BY <1>3, <2>4, <3>1, <3>2, <3>3
  <2>5. DownAfter(w, keys1, k, n) <=> \E i \in M : w[i].type = "Press" /\ \A j \in M : j <= i
    BY <1>6 DEF DownAfter
  <2>6. DownAfter(q, keys, k, n + 1) <=> \E i \in L : q[i].type = "Press" /\ \A j \in L : j <= i
    BY <2>2 DEF DownAfter
  <2>7. DownAfter(w, keys1, k, n) <=> DownAfter(q, keys, k, n + 1)
    BY <2>3, <2>4, <2>5, <2>6
  <2> QED BY <2>7 DEF w
<1> QED BY <1>4, <1>6 DEF w

(* An empty queue presses nothing.                                         *)
LEMMA EmptyLemma ==
    ASSUME NEW keys, NEW k
    PROVE  /\ DownAfter(<<>>, keys, k, 0) <=> k \in keys
           /\ \A q : DownAfter(q, keys, k, 0) <=> k \in keys
<1>1. \A q : Moves(q, k, 0) = {}
  BY DEF Moves
<1> QED BY <1>1 DEF DownAfter

(* KeysInv holds when nothing is under way.                                *)
LEMMA IdleLemma ==
    ASSUME NEW q, q = <<>>, NEW keys, keys = {}
    PROVE  /\ Len(q) = 0 /\ 1..Len(q) = {}
           /\ \A k : ~DownAfter(q, keys, k, Len(q))
<1>1. Len(q) = 0
  OBVIOUS
<1>2. 1..0 = {}
  OBVIOUS
<1> QED BY <1>1, <1>2, EmptyLemma

-----------------------------------------------------------------------------
(* The steps of the dispatcher                                             *)

(* What a callback of the application may leave behind.                    *)
LEMMA CallbackLemma ==
    ASSUME TypeOK, NEW keys \in SUBSET Keys, CallbackEnds(keys)
    PROVE  /\ enabled' \in BOOLEAN /\ rotated' \in BOOLEAN
           /\ current_view' \in views \cup {NULL}
           /\ ongoing_input' \subseteq Keys
           /\ stopping' \in BOOLEAN /\ sacrificed' \in BOOLEAN
           /\ \/ ongoing_input' = keys /\ rotated' = rotated /\ sacrificed' = sacrificed
              \/ /\ ~GuiIsLocked /\ ongoing_input' = {}
                 /\ sacrificed' = (sacrificed \/ InputIsUnderWay)
<1>1. CASE /\ ongoing_input' = keys
           /\ stopping' \in {stopping, TRUE}
           /\ UNCHANGED <<current_view, enabled, rotated, sacrificed>>
  BY <1>1 DEF TypeOK
<1>2. ASSUME NEW v \in views \cup {NULL}, SetCurrentView(v, keys)
      PROVE  /\ enabled' \in BOOLEAN /\ rotated' \in BOOLEAN
             /\ current_view' \in views \cup {NULL}
             /\ ongoing_input' \subseteq Keys
             /\ stopping' \in BOOLEAN /\ sacrificed' \in BOOLEAN
             /\ \/ ongoing_input' = keys /\ rotated' = rotated /\ sacrificed' = sacrificed
                \/ /\ ~GuiIsLocked /\ ongoing_input' = {}
                   /\ sacrificed' = (sacrificed \/ InputIsUnderWay)
  <2>1. sacrificed \/ InputIsUnderWay \in BOOLEAN
    BY DEF TypeOK, InputIsUnderWay
  <2> QED BY <1>2, <2>1 DEF TypeOK, SetCurrentView
<1> QED BY <1>1, <1>2 DEF CallbackEnds

(* The event at the head of the queue.                                     *)
LEMMA TakenLemma ==
    ASSUME IInv, input_queue # <<>>, NEW e, e = Head(input_queue)
    PROVE  /\ e \in Events /\ e = input_queue[1] /\ e.key \in Keys
           /\ Tail(input_queue) \in Seq(Events) /\ Len(Tail(input_queue)) <= QueueLen
           /\ Len(input_queue) \in Nat /\ Len(input_queue) > 0
           /\ NowOngoing(e) \subseteq Keys
           /\ NowOngoingView(e) \in views \cup {NULL}
           /\ Receiver(e) # NULL => Receiver(e) = NowOngoingView(e) /\ Receiver(e) \in Views
           /\ ~sacrificed /\ e.type = "Press" => e.key \notin ongoing_input
<1>0. TypeOK
  BY DEF IInv, DispatcherSound
<1>1. input_queue \in Seq(Events) /\ Len(input_queue) <= QueueLen /\ QueueLen \in Nat
  BY <1>0, ViewDispatcherAssumption DEF TypeOK
<1>2. e \in Events /\ e = input_queue[1] /\ Len(input_queue) \in Nat /\ Len(input_queue) > 0
  BY <1>1
<1>3. Tail(input_queue) \in Seq(Events) /\ Len(Tail(input_queue)) = Len(input_queue) - 1
  BY <1>1
<1>4. e.key \in Keys
  BY <1>2 DEF Events
<1>5. NowOngoing(e) \subseteq Keys
  BY <1>0, <1>4 DEF NowOngoing, Port!Holding, TypeOK
<1>6. NowOngoingView(e) \in views \cup {NULL}
  BY <1>0 DEF NowOngoingView, IInv, DispatcherSound, OngoingViewRegistered, TypeOK
<1>7. Receiver(e) # NULL => Receiver(e) = NowOngoingView(e) /\ Receiver(e) \in Views
  BY <1>0, <1>6 DEF Receiver, TypeOK
<1>8. ASSUME ~sacrificed, e.type = "Press" PROVE e.key \notin ongoing_input
  <2>1. ~DownAfter(input_queue, ongoing_input, e.key, 1 - 1)
    BY <1>2, <1>8 DEF IInv, KeysInv
  <2> QED BY <2>1, EmptyLemma
<1> QED BY <1>1, <1>2, <1>3, <1>4, <1>5, <1>6, <1>7, <1>8

(* Handling an event: unless the keys are rotated, the dispatcher knows    *)
(* the keys that are down after it.                                        *)
LEMMA HandledLemma ==
    ASSUME IInv, HandleInput, NEW e, e = Head(input_queue)
    PROVE  /\ enabled' \in BOOLEAN /\ rotated' \in BOOLEAN
           /\ current_view' \in views \cup {NULL}
           /\ ongoing_input' \subseteq Keys
           /\ stopping' \in BOOLEAN /\ sacrificed' \in BOOLEAN
           /\ ongoing_view' = NowOngoingView(e)
           /\ \/ held' = held /\ (IsDiscarded(e) \/ Receiver(e) = NULL)
              \/ /\ Receiver(e) # NULL /\ ~IsDiscarded(e)
                 /\ held' = [held EXCEPT ![Receiver(e)] = Port!Holding(@, e)]
           /\ ~sacrificed' => /\ ~sacrificed /\ rotated' = rotated
                              /\ ongoing_input' = NowOngoing(e)
<1>0. TypeOK /\ sacrificed \in BOOLEAN
  BY DEF IInv, DispatcherSound, TypeOK
<1>1. /\ NowOngoing(e) \subseteq Keys
      /\ Len(input_queue) \in Nat /\ Len(input_queue) > 0 /\ Backlog > 0
  BY TakenLemma DEF HandleInput, Backlog
<1>2. CASE IsDiscarded(e) /\ UNCHANGED <<view_vars, ongoing_view, held>>
  <2>1. NowOngoing(e) = ongoing_input /\ NowOngoingView(e) = ongoing_view
    BY <1>2 DEF IsDiscarded, NowOngoing, NowOngoingView, Port!Holding
  <2> QED BY <1>0, <1>2, <2>1 DEF TypeOK, view_vars
<1>3. CASE /\ ~IsDiscarded(e) /\ Receiver(e) = NULL
           /\ ongoing_view' = NowOngoingView(e)
           /\ ongoing_input' = NowOngoing(e)
           /\ UNCHANGED <<enabled, rotated, current_view, stopping, sacrificed, held>>
  BY <1>0, <1>1, <1>3 DEF TypeOK
<1>4. CASE /\ ~IsDiscarded(e) /\ Receiver(e) # NULL
           /\ ongoing_view' = NowOngoingView(e)
           /\ held' = [held EXCEPT ![Receiver(e)] = Port!Holding(@, e)]
           /\ CallbackEnds(NowOngoing(e))
  <2>1. InputIsUnderWay
    BY <1>1 DEF InputIsUnderWay
  <2>2. /\ enabled' \in BOOLEAN /\ rotated' \in BOOLEAN
        /\ current_view' \in views \cup {NULL}
        /\ ongoing_input' \subseteq Keys
        /\ stopping' \in BOOLEAN /\ sacrificed' \in BOOLEAN
        /\ \/ ongoing_input' = NowOngoing(e) /\ rotated' = rotated /\ sacrificed' = sacrificed
           \/ sacrificed' = (sacrificed \/ InputIsUnderWay)
    BY <1>0, <1>1, <1>4, CallbackLemma
  <2> QED BY <1>4, <2>1, <2>2
<1> QED BY <1>2, <1>3, <1>4 DEF HandleInput

-----------------------------------------------------------------------------
(* The invariant                                                           *)

LEMMA InitInv == Init => IInv
<1> SUFFICES ASSUME Init PROVE IInv
  OBVIOUS
<1>0. input_queue \in Seq(Events) /\ Len(input_queue) <= QueueLen
  BY ViewDispatcherAssumption DEF Init
<1>1. DispatcherSound
  BY <1>0, ViewDispatcherAssumption
  DEF Init, Port!PortInit, DispatcherSound, TypeOK, PutFindsQueue, GuiIsLocked,
      OngoingViewRegistered
<1>2. KeysInv
  BY IdleLemma DEF Init, Port!PortInit, KeysInv, Queued
<1> QED BY <1>1, <1>2 DEF Init, Port!PortInit, IInv, OffInv, PressStaysWithView

LEMMA SoundStep == IInv /\ [Next]_vars => DispatcherSound'
<1> SUFFICES ASSUME IInv, [Next]_vars PROVE DispatcherSound'
  OBVIOUS
<1>0. DispatcherSound
  BY DEF IInv
<1> USE <1>0, ViewDispatcherAssumption
    DEF DispatcherSound, TypeOK, PutFindsQueue, OngoingViewRegistered, GuiIsLocked,
        port_vars, view_vars
<1>1. ASSUME NEW k \in Keys, NEW type \in Port!Types, GiveEvent(k, type)
      PROVE  DispatcherSound'
  <2>1. call' \in Events /\ call'.key = k
    BY <1>1 DEF GiveEvent, Port!Give, Events
  <2>2. down' \subseteq Keys
    BY <1>1, <2>1 DEF GiveEvent, Port!Give, Port!Holding
  <2> QED BY <1>1, <2>1, <2>2 DEF GiveEvent
<1>2. CASE PutInput
  <2>1. call \in Events /\ call' = NULL /\ down' = down
    BY <1>2 DEF PutInput, Port!Return
  <2>2. Mapped(call) \in Events
    BY <2>1 DEF Mapped, Events
  <2>3. input_queue' \in Seq(Events) /\ Len(input_queue') <= QueueLen
    BY <1>2, <2>2 DEF PutInput
  <2> QED BY <1>2, <2>1, <2>3 DEF PutInput
<1>3. CASE HandleInput
  <2>1. PICK e : e = Head(input_queue)
    OBVIOUS
  <2>2. /\ e \in Events /\ e.key \in Keys
        /\ input_queue' \in Seq(Events) /\ Len(input_queue') <= QueueLen
        /\ NowOngoingView(e) \in views \cup {NULL}
        /\ Receiver(e) # NULL => Receiver(e) \in Views
    BY <1>3, <2>1, TakenLemma DEF HandleInput
  <2>3. held' \in [Views -> SUBSET Keys]
    <3>1. \/ held' = held
          \/ Receiver(e) # NULL /\ held' = [held EXCEPT ![Receiver(e)] = Port!Holding(@, e)]
      BY <1>3, <2>1, HandledLemma
    <3>2. \A keys \in SUBSET Keys : Port!Holding(keys, e) \in SUBSET Keys
      BY <2>2 DEF Port!Holding
    <3>3. held \in [Views -> SUBSET Keys]
      OBVIOUS
    <3> QED BY <2>2, <3>1, <3>2, <3>3
  <2>4. /\ enabled' \in BOOLEAN /\ rotated' \in BOOLEAN
        /\ current_view' \in views \cup {NULL}
        /\ ongoing_input' \subseteq Keys
        /\ stopping' \in BOOLEAN /\ sacrificed' \in BOOLEAN
        /\ ongoing_view' = NowOngoingView(e)
    BY <1>3, <2>1, HandledLemma
  <2>5. UNCHANGED <<port_vars, pc, views>>
    BY <1>3 DEF HandleInput
  <2> QED BY <2>2, <2>3, <2>4, <2>5
<1>4. CASE LoopStops
  BY <1>4 DEF LoopStops
<1>5. CASE DrainInput
  <2>1. PICK e : e = Head(input_queue)
    OBVIOUS
  <2>2. /\ input_queue' \in Seq(Events) /\ Len(input_queue') <= QueueLen
        /\ ongoing_input' \subseteq Keys
    BY <1>5, <2>1, TakenLemma DEF DrainInput
  <2> QED BY <1>5, <2>2 DEF DrainInput
<1>6. CASE RunReturns
  BY <1>6 DEF RunReturns
<1>7. ASSUME NEW v \in Views, Start(v) PROVE DispatcherSound'
  BY <1>7 DEF Start
<1>8. ASSUME NEW v \in Views, AddView(v) PROVE DispatcherSound'
  BY <1>8 DEF AddView
<1>9. ASSUME NEW v \in Views, RemoveView(v) PROVE DispatcherSound'
  BY <1>9 DEF RemoveView, SetCurrentView, ForgottenView
<1>10. CASE HandleEvent
  BY <1>10, CallbackLemma DEF HandleEvent
<1>11. CASE Free
  <2>1. input_queue' \in Seq(Events) /\ Len(input_queue') <= QueueLen
    BY <1>11 DEF Free
  <2> QED BY <1>11, <2>1 DEF Free, Port!Detach
<1>12. CASE UNCHANGED vars
  BY <1>12 DEF vars
<1> QED
  BY <1>1, <1>2, <1>3, <1>4, <1>5, <1>6, <1>7, <1>8, <1>9, <1>10, <1>11, <1>12
  DEF Next, AppThread

LEMMA OffStep == IInv /\ [Next]_vars => OffInv'
<1> SUFFICES ASSUME IInv, [Next]_vars PROVE OffInv'
  OBVIOUS
<1>0. OffInv /\ PutFindsQueue /\ held \in [Views -> SUBSET Keys]
  BY DEF IInv, DispatcherSound, TypeOK
<1> USE <1>0 DEF OffInv, PutFindsQueue, GuiIsLocked, port_vars, view_vars
<1>1. ASSUME NEW k \in Keys, NEW type \in Port!Types, GiveEvent(k, type)
      PROVE  OffInv'
  BY <1>1 DEF GiveEvent
<1>2. CASE PutInput
  BY <1>2 DEF PutInput, Port!Return
<1>3. CASE HandleInput
  BY <1>3 DEF HandleInput
<1>4. CASE LoopStops
  BY <1>4 DEF LoopStops
<1>5. CASE DrainInput
  BY <1>5 DEF DrainInput
<1>6. CASE RunReturns
  BY <1>6 DEF RunReturns
<1>7. ASSUME NEW v \in Views, Start(v) PROVE OffInv'
  BY <1>7 DEF Start
<1>8. ASSUME NEW v \in Views, AddView(v) PROVE OffInv'
  BY <1>8 DEF AddView
<1>9. ASSUME NEW v \in Views, RemoveView(v) PROVE OffInv'
  BY <1>9 DEF RemoveView, SetCurrentView
<1>10. CASE HandleEvent
  BY <1>10 DEF HandleEvent
<1>11. CASE Free
  BY <1>11 DEF Free, Port!Detach
<1>12. CASE UNCHANGED vars
  BY <1>12 DEF vars
<1> QED
  BY <1>1, <1>2, <1>3, <1>4, <1>5, <1>6, <1>7, <1>8, <1>9, <1>10, <1>11, <1>12
  DEF Next, AppThread

(* Taking the first event keeps the order of the others.                   *)
LEMMA HeadGone ==
    ASSUME IInv, KeysInv, input_queue # <<>>, input_queue' = Tail(input_queue),
           ongoing_input' = NowOngoing(Head(input_queue)),
           rotated' = rotated, UNCHANGED port_vars
    PROVE  KeysInv'
<1>1. PICK e : e = Head(input_queue)
  OBVIOUS
<1>2. /\ e = input_queue[1] /\ e.key \in Keys /\ ongoing_input' = NowOngoing(e)
      /\ Len(input_queue) \in Nat /\ Len(input_queue) > 0
      /\ input_queue \in Seq(Events) /\ down \subseteq Keys /\ call \in Events \cup {NULL}
  BY <1>1, TakenLemma DEF IInv, DispatcherSound, TypeOK
<1>3. /\ Len(input_queue') = Len(input_queue) - 1
      /\ \A i \in 1..(Len(input_queue) - 1) : input_queue'[i] = input_queue[i + 1]
  BY <1>2
<1>4. ASSUME NEW k \in Keys, NEW n \in 0..(Len(input_queue) - 1)
      PROVE  DownAfter(input_queue', ongoing_input', k, n)
               <=> DownAfter(input_queue, ongoing_input, k, n + 1)
  <2>1. k \in ongoing_input' <=>
          IF e.key = k /\ e.type \in {"Press", "Release"}
          THEN e.type = "Press" ELSE k \in ongoing_input
    BY <1>2 DEF NowOngoing, Port!Holding
  <2> QED BY <1>2, <2>1, TailLemma
<1>5. ASSUME NEW i \in 1..Len(input_queue'), input_queue'[i].type = "Press"
      PROVE  ~DownAfter(input_queue', ongoing_input', input_queue'[i].key, i - 1)
  <2>1. /\ i + 1 \in 1..Len(input_queue) /\ i - 1 \in 0..(Len(input_queue) - 1)
        /\ input_queue'[i] = input_queue[i + 1] /\ (i - 1) + 1 = (i + 1) - 1
    BY <1>2, <1>3
  <2>2. input_queue[i + 1] \in Events
    BY <1>2, <2>1
  <2>3. input_queue'[i].key \in Keys
    BY <2>1, <2>2 DEF Events
  <2>4. ~DownAfter(input_queue, ongoing_input, input_queue[i + 1].key, (i + 1) - 1)
    BY <1>5, <2>1 DEF KeysInv
  <2> QED BY <1>4, <2>1, <2>3, <2>4
<1>6. ASSUME NEW k \in Keys PROVE Queued(Rotated(k))' <=> Queued(Rotated(k))
  <2>1. Rotated(k) \in Keys /\ Rotated(k)' = Rotated(k)
    BY ViewDispatcherAssumption DEF Rotated
  <2>2. Len(input_queue) - 1 \in 0..(Len(input_queue) - 1)
        /\ (Len(input_queue) - 1) + 1 = Len(input_queue)
    BY <1>2
  <2>3. DownAfter(input_queue', ongoing_input', Rotated(k), Len(input_queue'))
          <=> DownAfter(input_queue, ongoing_input, Rotated(k), Len(input_queue))
    BY <1>3, <1>4, <2>1, <2>2
  <2> QED BY <2>1, <2>3 DEF Queued
<1>7. call # NULL => call.key \in Keys
  BY <1>2 DEF Events
<1> QED BY <1>5, <1>6, <1>7 DEF KeysInv, port_vars

LEMMA KeysStep == IInv /\ [Next]_vars => (~sacrificed => KeysInv)'
<1> SUFFICES ASSUME IInv, [Next]_vars, ~sacrificed' PROVE KeysInv'
  OBVIOUS
<1>0. /\ ~sacrificed => KeysInv
      /\ OffInv /\ TypeOK /\ input_queue \in Seq(Events) /\ Len(input_queue) \in Nat
      /\ down \subseteq Keys /\ call \in Events \cup {NULL}
  BY DEF IInv, DispatcherSound, TypeOK
<1> USE <1>0 DEF port_vars, view_vars
<1>1. ASSUME NEW k \in Keys, NEW type \in Port!Types, GiveEvent(k, type)
      PROVE  KeysInv'
  <2>1. /\ KeysInv /\ call = NULL /\ call' \in Events /\ call'.key = k /\ call'.type = type
        /\ UNCHANGED <<input_queue, ongoing_input, rotated>>
        /\ type = "Press" => k \notin down
        /\ down' = CASE type = "Press"   -> down \cup {k}
                     [] type = "Release" -> down \ {k}
                     [] OTHER            -> down
    BY <1>1 DEF GiveEvent, Port!Give, Events, Port!Holding
  <2>2. call' # NULL
    BY <2>1, ViewDispatcherAssumption DEF Events, Port!Types
  <2>3. \A j : (Queued(Rotated(j))' <=> Queued(Rotated(j)))
    BY <2>1 DEF Queued, Rotated
  <2>4. \A j \in Keys \ down : ~Queued(Rotated(j))
    BY <2>1 DEF KeysInv
  <2> QED BY <2>1, <2>2, <2>3, <2>4 DEF KeysInv
<1>2. CASE PutInput
  <2>0. PICK m : m = Mapped(call)
    OBVIOUS
  <2>1. /\ KeysInv /\ call # NULL /\ call' = NULL /\ call \in Events
        /\ input_queue' = Append(input_queue, m)
        /\ UNCHANGED <<down, ongoing_input, rotated>>
    BY <1>2, <2>0 DEF PutInput, Port!Return
  <2>2. m \in Events /\ m.key = Rotated(call.key) /\ m.type = call.type /\ call.key \in Keys
    BY <2>0, <2>1, ViewDispatcherAssumption DEF Mapped, Events, Rotated
  <2>3. /\ Len(input_queue') = Len(input_queue) + 1
        /\ \A i \in 1..Len(input_queue) : input_queue'[i] = input_queue[i]
        /\ input_queue'[Len(input_queue) + 1] = m
    BY <2>1, <2>2
  <2>4. \A i \in 1..Len(input_queue) : input_queue[i].key \in Keys
    <3>1. \A e \in Events : e.key \in Keys
      BY DEF Events
    <3> QED BY <3>1
  <2>5. m.key \in Keys
    BY <2>2 DEF Events
  <2>6. ASSUME NEW i \in 1..Len(input_queue'), input_queue'[i].type = "Press"
        PROVE  ~DownAfter(input_queue', ongoing_input', input_queue'[i].key, i - 1)
    <3>1. i - 1 \in 0..Len(input_queue)
      BY <2>3
    <3>2. input_queue'[i].key \in Keys
      BY <2>3, <2>4, <2>5
    <3>3. DownAfter(input_queue', ongoing_input', input_queue'[i].key, i - 1)
            = DownAfter(input_queue, ongoing_input, input_queue'[i].key, i - 1)
      <4>1. PICK x \in Keys : x = input_queue'[i].key
        BY <3>2
      <4>2. \A n \in 0..Len(input_queue) :
              DownAfter(Append(input_queue, m), ongoing_input, x, n)
                = DownAfter(input_queue, ongoing_input, x, n)
        BY <2>2, AppendLemma
      <4> QED BY <2>1, <3>1, <4>1, <4>2
    <3>4. CASE i \in 1..Len(input_queue)
      BY <2>1, <2>3, <2>6, <3>3, <3>4 DEF KeysInv
    <3>5. CASE i = Len(input_queue) + 1
      <4>1. /\ input_queue'[i].key = Rotated(call.key) /\ i - 1 = Len(input_queue)
            /\ call.type = "Press"
        BY <2>2, <2>3, <2>6, <3>5
      <4> QED BY <2>1, <3>3, <4>1 DEF KeysInv, Queued
    <3> QED BY <2>3, <3>4, <3>5
  <2>7. ASSUME NEW j \in Keys, j \notin down
        PROVE  ~DownAfter(input_queue', ongoing_input', Rotated(j), Len(input_queue'))
    <3>1. Rotated(j) \in Keys
      BY ViewDispatcherAssumption DEF Rotated
    <3>2. CASE m.key = Rotated(j) /\ m.type = "Release"
      <4>1. ~DownAfter(Append(input_queue, m), ongoing_input, Rotated(j), Len(input_queue) + 1)
        BY <2>2, <3>1, <3>2, AppendLemma
      <4> QED BY <2>1, <2>3, <4>1
    <3>3. CASE m.key # Rotated(j) \/ m.type \notin {"Press", "Release"}
      <4>1. DownAfter(Append(input_queue, m), ongoing_input, Rotated(j), Len(input_queue) + 1)
              = DownAfter(input_queue, ongoing_input, Rotated(j), Len(input_queue))
        BY <2>2, <3>1, <3>3, AppendLemma
      <4>2. ~(call.key = j /\ call.type = "Release")
        BY <2>2, <3>3
      <4>3. ~Queued(Rotated(j))
        BY <2>1, <2>7, <4>2 DEF KeysInv
      <4> QED BY <2>1, <2>3, <4>1, <4>3 DEF Queued
    <3>4. CASE m.key = Rotated(j) /\ m.type = "Press"
      <4>1. Rotated(call.key) = Rotated(j) => call.key = j
        BY <2>2, ViewDispatcherAssumption DEF Rotated
      <4>2. call.key \in down
        BY <2>1, <2>2, <3>4 DEF KeysInv
      <4> QED BY <2>2, <2>7, <3>4, <4>1, <4>2
    <3> QED BY <3>2, <3>3, <3>4
  <2>8. ASSUME NEW j \in Keys, j \notin down PROVE ~Queued(Rotated(j))'
    <3>1. Rotated(j)' = Rotated(j)
      BY <2>1 DEF Rotated
    <3> QED BY <2>7, <2>8, <3>1 DEF Queued
  <2> QED BY <2>1, <2>6, <2>8 DEF KeysInv
<1>3. CASE HandleInput
  <2>1. PICK e : e = Head(input_queue)
    OBVIOUS
  <2>2. ~sacrificed /\ rotated' = rotated /\ ongoing_input' = NowOngoing(e)
    BY <1>3, <2>1, HandledLemma
  <2>3. /\ input_queue # <<>> /\ input_queue' = Tail(input_queue)
        /\ UNCHANGED port_vars
    BY <1>3 DEF HandleInput
  <2> QED BY <2>1, <2>2, <2>3, HeadGone
<1>4. CASE LoopStops
  BY <1>4 DEF LoopStops, KeysInv, Queued, Rotated
<1>5. CASE DrainInput
  BY <1>5, HeadGone DEF DrainInput
<1>6. CASE RunReturns
  BY <1>6 DEF RunReturns, KeysInv, Queued, Rotated
<1>7. ASSUME NEW v \in Views, Start(v) PROVE KeysInv'
  <2>1. input_queue' = <<>> /\ ongoing_input' = {} /\ call' = NULL
    BY <1>7 DEF Start, OffInv
  <2> QED BY <2>1, IdleLemma DEF KeysInv, Queued
<1>8. ASSUME NEW v \in Views, AddView(v) PROVE KeysInv'
  BY <1>8 DEF AddView, KeysInv, Queued, Rotated
<1>9. ASSUME NEW v \in Views, RemoveView(v) PROVE KeysInv'
  <2>1. UNCHANGED <<down, call, rotated, sacrificed, input_queue, ongoing_input>>
    BY <1>9 DEF RemoveView, SetCurrentView
  <2> QED BY <2>1 DEF KeysInv, Queued, Rotated
<1>10. CASE HandleEvent
  <2>1. UNCHANGED <<down, call, input_queue>> /\ ongoing_input \subseteq Keys
    BY <1>10 DEF HandleEvent, TypeOK
  <2>2. \/ ongoing_input' = ongoing_input /\ rotated' = rotated /\ sacrificed' = sacrificed
        \/ ongoing_input' = {} /\ sacrificed' = (sacrificed \/ InputIsUnderWay)
    BY <1>10, <2>1, CallbackLemma DEF HandleEvent
  <2>3. CASE ongoing_input' = ongoing_input /\ rotated' = rotated /\ sacrificed' = sacrificed
    BY <2>1, <2>3 DEF KeysInv, Queued, Rotated
  <2>4. CASE ongoing_input' = {} /\ sacrificed' = (sacrificed \/ InputIsUnderWay)
    <3>0. ~(Backlog > 0)
      BY <2>4 DEF InputIsUnderWay
    <3>1. Len(input_queue) = 0 /\ call = NULL
      BY <3>0 DEF Backlog, GuiIsLocked
    <3>2. input_queue' = <<>> /\ call' = NULL
      BY <2>1, <3>1
    <3> QED BY <2>4, <3>2, IdleLemma DEF KeysInv, Queued
  <2> QED BY <2>2, <2>3, <2>4
<1>11. CASE Free
  <2>1. input_queue' = <<>> /\ ongoing_input' = {} /\ call' = NULL
    BY <1>11 DEF Free, Port!Detach, OffInv
  <2> QED BY <2>1, IdleLemma DEF KeysInv, Queued
<1>12. CASE UNCHANGED vars
  BY <1>12 DEF vars, KeysInv, Queued, Rotated
<1> QED
  BY <1>1, <1>2, <1>3, <1>4, <1>5, <1>6, <1>7, <1>8, <1>9, <1>10, <1>11, <1>12
  DEF Next, AppThread

LEMMA PressStep == IInv /\ [Next]_vars => PressStaysWithView'
<1> SUFFICES ASSUME IInv, [Next]_vars, pc' = "loop", ~sacrificed', NEW v \in Views, held'[v] # {}
             PROVE  v = ongoing_view' /\ held'[v] \subseteq ongoing_input'
  BY DEF PressStaysWithView
<1>0. /\ pc = "loop" /\ ~sacrificed =>
           (held[v] # {} => v = ongoing_view /\ held[v] \subseteq ongoing_input)
      /\ pc # "loop" => held[v] = {}
      /\ held \in [Views -> SUBSET Keys]
  BY DEF IInv, PressStaysWithView, OffInv, DispatcherSound, TypeOK
<1> USE <1>0 DEF port_vars, view_vars
<1>1. ASSUME NEW k \in Keys, NEW type \in Port!Types, GiveEvent(k, type)
      PROVE  v = ongoing_view' /\ held'[v] \subseteq ongoing_input'
  BY <1>1 DEF GiveEvent
<1>2. CASE PutInput
  BY <1>2 DEF PutInput
<1>3. CASE HandleInput
  <2>1. PICK e : e = Head(input_queue)
    OBVIOUS
  <2>2. /\ ~sacrificed /\ pc = "loop" /\ ongoing_view' = NowOngoingView(e)
        /\ ongoing_input' = NowOngoing(e)
        /\ \/ held' = held /\ (IsDiscarded(e) \/ Receiver(e) = NULL)
           \/ /\ Receiver(e) # NULL
              /\ held' = [held EXCEPT ![Receiver(e)] = Port!Holding(@, e)]
    BY <1>3, <2>1, HandledLemma DEF HandleInput
  <2>3. /\ e.type = "Press" => e.key \notin ongoing_input
        /\ Receiver(e) # NULL => Receiver(e) = NowOngoingView(e) /\ Receiver(e) \in Views
    BY <1>3, <2>1, <2>2, TakenLemma DEF HandleInput
  <2>4. held[v] # {} => v = ongoing_view /\ held[v] \subseteq ongoing_input
    BY <2>2
  <2>5. ASSUME held[v] # {} PROVE NowOngoingView(e) = ongoing_view
    <3>1. CASE e.type = "Press"
      <4>1. NowOngoing(e) = ongoing_input \cup {e.key}
        BY <3>1 DEF NowOngoing, Port!Holding
      <4>2. ~(NowOngoing(e) \subseteq {e.key})
        BY <2>3, <2>4, <2>5, <3>1, <4>1
      <4> QED BY <4>2 DEF NowOngoingView
    <3> QED BY <3>1 DEF NowOngoingView
  <2>6. CASE held' = held /\ (IsDiscarded(e) \/ Receiver(e) = NULL)
    <3>1. held[v] # {} /\ v = ongoing_view /\ v = NowOngoingView(e) /\ v # NULL
      BY <2>4, <2>5, <2>6, ViewDispatcherAssumption
    <3>2. e.type # "Release"
      BY <2>6, <3>1 DEF IsDiscarded, Receiver
    <3>3. ongoing_input \subseteq NowOngoing(e)
      BY <3>2 DEF NowOngoing, Port!Holding
    <3> QED BY <2>2, <2>4, <2>6, <3>1, <3>3
  <2>7. CASE /\ Receiver(e) # NULL
             /\ held' = [held EXCEPT ![Receiver(e)] = Port!Holding(@, e)]
    <3>1. CASE v = Receiver(e)
      <4>1. held'[v] = Port!Holding(held[v], e)
        BY <2>7, <3>1
      <4>2. held[v] \subseteq ongoing_input
        BY <2>4
      <4>3. Port!Holding(held[v], e) \subseteq NowOngoing(e)
        BY <4>2 DEF NowOngoing, Port!Holding
      <4> QED BY <2>2, <2>3, <2>7, <3>1, <4>1, <4>3
    <3>2. CASE v # Receiver(e)
      BY <2>3, <2>4, <2>5, <2>7, <3>2
    <3> QED BY <3>1, <3>2
  <2> QED BY <2>2, <2>6, <2>7
<1>4. CASE LoopStops
  BY <1>4 DEF LoopStops
<1>5. CASE DrainInput
  BY <1>5 DEF DrainInput
<1>6. CASE RunReturns
  BY <1>6 DEF RunReturns
<1>7. ASSUME NEW w \in Views, Start(w)
      PROVE  v = ongoing_view' /\ held'[v] \subseteq ongoing_input'
  BY <1>7 DEF Start
<1>8. ASSUME NEW w \in Views, AddView(w)
      PROVE  v = ongoing_view' /\ held'[v] \subseteq ongoing_input'
  BY <1>8 DEF AddView
<1>9. ASSUME NEW w \in Views, RemoveView(w)
      PROVE  v = ongoing_view' /\ held'[v] \subseteq ongoing_input'
  BY <1>9 DEF RemoveView, SetCurrentView, ForgottenView
<1>10. CASE HandleEvent
  <2>1. /\ UNCHANGED <<pc, held, ongoing_view>> /\ TypeOK /\ ongoing_input \in SUBSET Keys
        /\ CallbackEnds(ongoing_input)
    BY <1>10 DEF HandleEvent, IInv, DispatcherSound, TypeOK
  <2>2. \/ ongoing_input' = ongoing_input /\ sacrificed' = sacrificed
        \/ ongoing_input' = {} /\ sacrificed' = (sacrificed \/ InputIsUnderWay)
    BY <2>1, CallbackLemma
  <2> QED BY <2>1, <2>2 DEF InputIsUnderWay
<1>11. CASE Free
  BY <1>11 DEF Free
<1>12. CASE UNCHANGED vars
  BY <1>12 DEF vars
<1> QED
  BY <1>1, <1>2, <1>3, <1>4, <1>5, <1>6, <1>7, <1>8, <1>9, <1>10, <1>11, <1>12
  DEF Next, AppThread

(* The inductive invariant of the dispatcher.                              *)
THEOREM Invariance == Spec => []IInv
<1>1. IInv /\ [Next]_vars => IInv'
  BY SoundStep, OffStep, KeysStep, PressStep DEF IInv
<1> QED BY InitInv, <1>1, PTL DEF Spec

(* The GUI thread never puts an event into the queue of a dispatcher that  *)
(* view_dispatcher_free has freed, and the dispatcher never gives an event *)
(* to a view that view_dispatcher_remove_view took from it.                *)
THEOREM DispatcherIsSound == Spec => []DispatcherSound
<1>1. IInv => DispatcherSound
  BY DEF IInv
<1> QED BY <1>1, Invariance, PTL

(* Whichever views are switched to, and whenever, the view that was given  *)
(* the Press of a key is the one view_dispatcher_handle_input will give    *)
(* its Release, unless the keys were rotated while input was under way.    *)
THEOREM PressesStayWithView == Spec => []PressStaysWithView
<1>1. IInv => PressStaysWithView
  BY DEF IInv
<1> QED BY <1>1, Invariance, PTL

(* What the wait for the last Releases still waits for: a key that is held *)
(* to be down is down, or the port is being called about it, or an event   *)
(* of it is queued.                                                        *)
DrainHasCause ==
    pc = "drain" /\ ~sacrificed =>
        \A k \in ongoing_input : \E j \in Keys :
            /\ Rotated(j) = k
            /\ \/ j \in down
               \/ call # NULL /\ call.key = j
               \/ \E i \in 1..Len(input_queue) : input_queue[i].key = k

(* view_dispatcher_run does not wait for a Release that was lost: if the   *)
(* rotation exchanges the keys, each key that keeps the wait going         *)
(* (view_dispatcher.c:125-135) has an event to come.  It is the safety     *)
(* half of DrainEnds.                                                      *)
THEOREM DrainsForCause ==
    ASSUME \A k \in Keys : \E j \in Keys : Rotation[j] = k
    PROVE  Spec => []DrainHasCause
<1>1. ASSUME IInv PROVE DrainHasCause
  <2> SUFFICES ASSUME ~sacrificed, NEW k \in ongoing_input
               PROVE  \E j \in Keys :
                        /\ Rotated(j) = k
                        /\ \/ j \in down
                           \/ call # NULL /\ call.key = j
                           \/ \E i \in 1..Len(input_queue) : input_queue[i].key = k
    BY DEF DrainHasCause
  <2>1. k \in Keys
    BY <1>1 DEF IInv, DispatcherSound, TypeOK
  <2>2. PICK j \in Keys : Rotated(j) = k
    BY <2>1 DEF Rotated
  <2>3. j \in down \/ (call # NULL /\ call.key = j) \/ ~Queued(k)
    BY <1>1, <2>2 DEF IInv, KeysInv
  <2>4. ~Queued(k) => Moves(input_queue, k, Len(input_queue)) # {}
    BY DEF Queued, DownAfter
  <2>5. ~Queued(k) => \E i \in 1..Len(input_queue) : input_queue[i].key = k
    BY <2>4 DEF Moves
  <2> QED BY <2>2, <2>3, <2>5
<1> QED BY <1>1, Invariance, PTL
=============================================================================
