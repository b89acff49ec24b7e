------------------------------ MODULE GuiProofs ------------------------------
(***************************************************************************)
(* Proofs about Gui, for any keys, ports, layers and length of the input   *)
(* queue: it uses no removed port, a port keeps the keys whose Press it    *)
(* got, and it implements PortSource for the application's port.  All rest *)
(* on KeysInv: a Press that the GUI thread takes is of a key that it holds *)
(* to be up, because KeySource orders the events in the queue.  The last   *)
(* part is about the service that sends them, module Input: it implements  *)
(* KeySource, and sleeps with every key told as its pin is.                *)
(***************************************************************************)
EXTENDS Gui, Input, TLAPS

(* A port is only in the layer it belongs to.                              *)
LayersInv == \A l \in Layers : \A p \in ToSet(layers[l]) : LayerOf[p] = l

(* The events among the first n of a queue that press or release k.        *)
Moves(q, k, n) == {i \in 1..n : q[i].key = k /\ q[i].type \in {"Press", "Release"}}

(* Whether the GUI will hold k to be down once it has handled them.        *)
DownAfter(q, keys, k, n) ==
    IF Moves(q, k, n) = {}
    THEN k \in keys
    ELSE \E i \in Moves(q, k, n) :
            q[i].type = "Press" /\ \A j \in Moves(q, k, n) : j <= i

(* A Press comes to a key that is up by then, those to come included.      *)
KeysInv ==
    /\ \A i \in 1..Len(input_queue) : input_queue[i].type = "Press" =>
         ~DownAfter(input_queue, ongoing_input, input_queue[i].key, i - 1)
    /\ \A k \in Keys : phase[k] = "up" =>
         ~DownAfter(input_queue, ongoing_input, k, Len(input_queue))

IInv == TypeOK /\ CallbackFindsPort /\ LayersInv /\ KeysInv /\ PressStaysWithPort

-----------------------------------------------------------------------------
(* The layers                                                              *)

(* RemoveAt closes the gap.                                                *)
LEMMA RemoveAtLemma ==
    ASSUME NEW list \in Seq(Ports), NEW pos \in 1..Len(list),
           NEW w, w = RemoveAt(list, pos)
    PROVE  /\ w \in Seq(Ports) /\ Len(w) = Len(list) - 1
           /\ \A i \in 1..(Len(list) - 1) : w[i] = IF i < pos THEN list[i] ELSE list[i + 1]
<1>1. ASSUME NEW u, u = SubSeq(list, 1, pos - 1), NEW v, v = SubSeq(list, pos + 1, Len(list))
      PROVE  /\ w \in Seq(Ports) /\ Len(w) = Len(list) - 1
             /\ \A i \in 1..(Len(list) - 1) : w[i] = IF i < pos THEN list[i] ELSE list[i + 1]
  <2>1. u \in Seq(Ports) /\ v \in Seq(Ports)
    BY <1>1
  <2>2. Len(u) = pos - 1 /\ Len(v) = Len(list) - pos
    BY <1>1
  <2>3. \A i \in 1..(pos - 1) : u[i] = list[i]
    BY <1>1
  <2>4. \A i \in 1..(Len(list) - pos) : v[i] = list[pos + i]
    BY <1>1
  <2>5. w = u \o v
    BY <1>1 DEF RemoveAt
  <2>6. w \in Seq(Ports) /\ Len(w) = Len(u) + Len(v)
    BY <2>1, <2>5
  <2>7. \A i \in 1..Len(w) : w[i] = IF i <= Len(u) THEN u[i] ELSE v[i - Len(u)]
    BY <2>1, <2>5
  <2>8. Len(w) = Len(list) - 1
    BY <2>2, <2>6
  <2>9. \A i \in 1..(Len(list) - 1) : w[i] = IF i <= pos - 1 THEN u[i] ELSE v[i - (pos - 1)]
    BY <2>2, <2>7, <2>8
  <2>10. \A i \in 1..(Len(list) - 1) : w[i] = IF i < pos THEN list[i] ELSE list[i + 1]
    BY <2>3, <2>4, <2>9
  <2> QED BY <2>6, <2>8, <2>10
<1> QED BY <1>1

(* A list with one port taken out: that port is gone, the others stay.     *)
LEMMA RemoveLemma ==
    ASSUME NEW list \in Seq(Ports), IsInjective(list), NEW p \in ToSet(list)
    PROVE  LET w == RemoveAt(list, CHOOSE i \in DOMAIN list : list[i] = p)
           IN  w \in Seq(Ports) /\ IsInjective(w) /\ ToSet(w) = ToSet(list) \ {p}
<1> DEFINE pos == CHOOSE i \in DOMAIN list : list[i] = p
           w   == RemoveAt(list, pos)
<1>1. pos \in 1..Len(list) /\ list[pos] = p /\ Len(list) \in Nat
  BY DEF ToSet
<1>0. w = RemoveAt(list, pos)
  OBVIOUS
<1> HIDE DEF pos, w
<1>2. /\ w \in Seq(Ports) /\ Len(w) = Len(list) - 1
      /\ \A i \in 1..Len(w) : w[i] = IF i < pos THEN list[i] ELSE list[i + 1]
  <2>1. /\ w \in Seq(Ports) /\ Len(w) = Len(list) - 1
        /\ \A i \in 1..(Len(list) - 1) : w[i] = IF i < pos THEN list[i] ELSE list[i + 1]
    BY <1>0, <1>1, RemoveAtLemma, Zenon
  <2> QED BY <2>1
<1>3. IsInjective(w)
  <2> SUFFICES ASSUME NEW i \in 1..Len(w), NEW j \in 1..Len(w), w[i] = w[j]
               PROVE  i = j
    BY <1>2 DEF IsInjective
  <2> DEFINE from(k) == IF k < pos THEN k ELSE k + 1
  <2>1. /\ from(i) \in DOMAIN list /\ from(j) \in DOMAIN list
        /\ list[from(i)] = list[from(j)]
    BY <1>1, <1>2
  <2>2. from(i) = from(j)
    BY <2>1 DEF IsInjective
  <2> QED BY <1>1, <1>2, <2>2
<1>4. ASSUME NEW q \in ToSet(w) PROVE q \in ToSet(list) \ {p}
  <2>1. PICK i \in 1..Len(w) : w[i] = q
    BY <1>2, <1>4 DEF ToSet
  <2> DEFINE k == IF i < pos THEN i ELSE i + 1
  <2>2. k \in DOMAIN list /\ list[k] = q /\ k # pos /\ pos \in DOMAIN list
    BY <1>1, <1>2, <2>1
  <2> QED BY <1>1, <2>2 DEF IsInjective, ToSet
<1>5. ASSUME NEW q \in ToSet(list), q # p PROVE q \in ToSet(w)
  <2>1. PICK i \in 1..Len(list) : list[i] = q
    BY <1>5 DEF ToSet
  <2> DEFINE k == IF i < pos THEN i ELSE i - 1
  <2>2. k \in 1..Len(w) /\ w[k] = q
    BY <1>1, <1>2, <1>5, <2>1
  <2>3. DOMAIN w = 1..Len(w)
    BY <1>2
  <2> QED BY <2>2, <2>3 DEF ToSet
<1>6. ToSet(w) = ToSet(list) \ {p}
  BY <1>4, <1>5
<1> QED BY <1>2, <1>3, <1>6 DEF w, pos

(* The layers without an attached port.                                    *)
LEMMA WithoutLemma ==
    ASSUME TypeOK, NEW p \in Ports, IsAttached(p)
    PROVE  /\ Without(p) \in [Layers -> Seq(Ports)]
           /\ \A l \in Layers : IsInjective(Without(p)[l])
           /\ \A l \in Layers :
                ToSet(Without(p)[l]) = IF l = LayerOf[p] THEN ToSet(layers[l]) \ {p}
                                                        ELSE ToSet(layers[l])
<1>1. LayerOf[p] \in Layers /\ layers[LayerOf[p]] \in Seq(Ports)
      /\ layers \in [Layers -> Seq(Ports)]
      /\ \A l \in Layers : IsInjective(layers[l])
  BY GuiAssumption DEF TypeOK
<1>2. p \in ToSet(layers[LayerOf[p]])
  BY DEF IsAttached
<1> DEFINE w == RemoveAt(layers[LayerOf[p]],
                         CHOOSE i \in DOMAIN layers[LayerOf[p]] : layers[LayerOf[p]][i] = p)
<1>3. w \in Seq(Ports) /\ IsInjective(w) /\ ToSet(w) = ToSet(layers[LayerOf[p]]) \ {p}
  BY <1>1, <1>2, RemoveLemma
<1>4. Without(p) = [layers EXCEPT ![LayerOf[p]] = w]
  BY DEF Without
<1> HIDE DEF w
<1> QED BY <1>1, <1>3, <1>4

(* The port found in a layer is in that layer.                             *)
LEMMA FindEnabledLemma ==
    ASSUME TypeOK, LayersInv, NEW l \in Layers, FindEnabled(l) # NULL
    PROVE  FindEnabled(l) \in Ports /\ IsAttached(FindEnabled(l))
<1> DEFINE list  == layers[l]
           found == {i \in DOMAIN list :
                       enabled[list[i]] /\ \A j \in (i + 1)..Len(list) : ~enabled[list[j]]}
           pos   == CHOOSE i \in found : TRUE
<1>1. found # {} /\ FindEnabled(l) = list[pos]
  BY DEF FindEnabled
<1>2. pos \in found
  BY <1>1
<1>3. pos \in DOMAIN layers[l] /\ FindEnabled(l) = layers[l][pos]
  BY <1>1, <1>2
<1> HIDE DEF list, found, pos
<1>4. layers[l] \in Seq(Ports)
  BY DEF TypeOK
<1>5. FindEnabled(l) \in Ports /\ FindEnabled(l) \in ToSet(layers[l])
  BY <1>3, <1>4 DEF ToSet
<1> QED BY <1>5 DEF IsAttached, LayersInv

LEMMA TopPortLemma ==
    ASSUME TypeOK, LayersInv, TopPort # NULL
    PROVE  TopPort \in Ports /\ IsAttached(TopPort)
  BY FindEnabledLemma DEF TopPort, Layers

-----------------------------------------------------------------------------
(* The input queue                                                         *)

(* An event that is queued decides about its own key only.                 *)
LEMMA AppendLemma ==
    ASSUME NEW q \in Seq(Events), NEW e \in Events, NEW keys, NEW k \in Keys
    PROVE  /\ \A n \in 0..Len(q) : DownAfter(Append(q, e), keys, k, n) = DownAfter(q, keys, k, n)
           /\ e.key # k \/ e.type \notin {"Press", "Release"} =>
                DownAfter(Append(q, e), keys, k, Len(q) + 1) = DownAfter(q, keys, k, Len(q))
           /\ e.key = k /\ e.type = "Release" => ~DownAfter(Append(q, e), keys, k, Len(q) + 1)
<1> DEFINE w == Append(q, e)
<1>1. /\ Len(q) \in Nat /\ w[Len(q) + 1] = e
      /\ \A i \in 1..Len(q) : w[i] = q[i]
  OBVIOUS
<1> HIDE DEF w
<1>2. ASSUME NEW n \in 0..Len(q) PROVE Moves(w, k, n) = Moves(q, k, n)
  BY <1>1 DEF Moves
<1>3. ASSUME NEW n \in 0..Len(q) PROVE DownAfter(w, keys, k, n) = DownAfter(q, keys, k, n)
  <2>1. \A i \in Moves(q, k, n) : w[i] = q[i]
    BY <1>1 DEF Moves
  <2> QED BY <1>2, <2>1 DEF DownAfter
<1>4. ASSUME e.key # k \/ e.type \notin {"Press", "Release"}
      PROVE  DownAfter(w, keys, k, Len(q) + 1) = DownAfter(q, keys, k, Len(q))
  <2>1. Moves(w, k, Len(q) + 1) = Moves(q, k, Len(q))
    BY <1>1, <1>4 DEF Moves
  <2>2. \A i \in Moves(q, k, Len(q)) : w[i] = q[i]
    BY <1>1 DEF Moves
  <2> QED BY <2>1, <2>2 DEF DownAfter
<1>5. ASSUME e.key = k, e.type = "Release"
      PROVE  ~DownAfter(w, keys, k, Len(q) + 1)
  <2>1. Len(q) + 1 \in Moves(w, k, Len(q) + 1)
    BY <1>1, <1>5 DEF Moves
  <2>2. \A i \in Moves(w, k, Len(q) + 1) : i \in Nat /\ i <= Len(q) + 1
    BY <1>1 DEF Moves
  <2>3. \A i \in Moves(w, k, Len(q) + 1) : Len(q) + 1 <= i => i = Len(q) + 1
    BY <1>1, <2>2
  <2> QED BY <1>1, <1>5, <2>1, <2>3 DEF DownAfter
<1> QED BY <1>3, <1>4, <1>5 DEF w

(* Handling the first event leaves what the rest of the queue will do.     *)
LEMMA TailLemma ==
    ASSUME NEW q \in Seq(Events), q # <<>>, NEW keys, NEW keys1, NEW k \in Keys,
           NEW n \in 0..(Len(q) - 1),
           k \in keys1 <=>
             IF q[1].key = k /\ q[1].type \in {"Press", "Release"}
             THEN q[1].type = "Press" ELSE k \in keys
    PROVE  DownAfter(Tail(q), keys1, k, n) <=> DownAfter(q, keys, k, n + 1)
<1> DEFINE w == Tail(q)
           M == Moves(w, k, n)
           L == Moves(q, k, n + 1)
<1>1. Len(q) \in Nat /\ Len(q) > 0 /\ \A i \in 1..(Len(q) - 1) : w[i] = q[i + 1]
  OBVIOUS
<1> HIDE DEF w
<1>2. \A i \in 1..n : i \in M <=> i + 1 \in L
  BY <1>1 DEF Moves
<1>3. /\ 1 \in L <=> q[1].key = k /\ q[1].type \in {"Press", "Release"}
      /\ M \subseteq 1..n /\ L \subseteq 1..(n + 1)
      /\ \A i \in M : w[i] = q[i + 1]
  BY <1>1 DEF Moves
<1>5. \A j \in L : j = 1 \/ (j - 1 \in 1..n /\ j - 1 \in M)
  BY <1>2, <1>3
<1>4. CASE M = {}
  <2>1. L \subseteq {1}
    BY <1>4, <1>5
  <2>2. DownAfter(w, keys1, k, n) <=> k \in keys1
    BY <1>4 DEF DownAfter
  <2>3. CASE L = {}
    BY <1>3, <2>2, <2>3 DEF DownAfter, w
  <2>4. CASE L = {1}
    <3>1. DownAfter(q, keys, k, n + 1) <=> q[1].type = "Press"
      BY <2>4 DEF DownAfter
    <3> QED BY <1>3, <2>2, <2>4, <3>1 DEF w
  <2> QED BY <2>1, <2>3, <2>4 DEF w
<1>6. CASE M # {}
  <2>1. PICK m \in M : TRUE
    BY <1>6
  <2>2. L # {} /\ m + 1 \in L /\ m \in 1..n
    BY <1>2, <1>3, <2>1
  <2>3. ASSUME NEW i \in M, w[i].type = "Press", \A j \in M : j <= i
        PROVE  i + 1 \in L /\ q[i + 1].type = "Press" /\ \A j \in L : j <= i + 1
    <3>1. i \in 1..n
      BY <1>3
    <3>2. i + 1 \in L
      BY <1>2, <3>1
    <3>3. q[i + 1].type = "Press"
      BY <1>3, <2>3
    <3>4. \A j \in L : j <= i + 1
      BY <1>5, <2>3, <3>1
    <3> QED BY <3>2, <3>3, <3>4
  <2>4. ASSUME NEW i \in L, q[i].type = "Press", \A j \in L : j <= i
        PROVE  i - 1 \in M /\ w[i - 1].type = "Press" /\ \A j \in M : j <= i - 1
    <3>1. i \in 1..(n + 1) /\ i # 1
      BY <1>3, <2>2, <2>4
    <3>2. i - 1 \in M
      BY <1>5, <3>1
    <3>3. \A j \in M : j + 1 <= i /\ j \in 1..n
      BY <1>2, <1>3, <2>4
    <3> QED BY <1>3, <2>4, <3>1, <3>2, <3>3
  <2>5. DownAfter(w, keys1, k, n) <=> \E i \in M : w[i].type = "Press" /\ \A j \in M : j <= i
    BY <1>6 DEF DownAfter
  <2>6. DownAfter(q, keys, k, n + 1) <=> \E i \in L : q[i].type = "Press" /\ \A j \in L : j <= i
    BY <2>2 DEF DownAfter
  <2>7. DownAfter(w, keys1, k, n) <=> DownAfter(q, keys, k, n + 1)
    BY <2>3, <2>4, <2>5, <2>6
  <2> QED BY <2>7 DEF w
<1> QED BY <1>4, <1>6 DEF w

-----------------------------------------------------------------------------
(* The invariant                                                           *)

(* What the GUI thread finds when it takes an event: the receiver of the   *)
(* event is attached, and a Press is of a key that is up.                  *)
LEMMA TakenLemma ==
    ASSUME IInv, input_queue # <<>>, NEW e, e = Head(input_queue)
    PROVE  /\ e \in Events /\ e = input_queue[1]
           /\ Tail(input_queue) \in Seq(Events) /\ Len(Tail(input_queue)) <= QueueLen
           /\ NowOngoing(e) \subseteq Keys
           /\ e.type = "Press" => e.key \notin ongoing_input
           /\ NowOngoingPort(e) # NULL =>
                NowOngoingPort(e) \in Ports /\ IsAttached(NowOngoingPort(e))
           /\ Receiver(e) # NULL => Receiver(e) \in Ports /\ IsAttached(Receiver(e))
<1>1. input_queue \in Seq(Events) /\ Len(input_queue) <= QueueLen /\ QueueLen \in Nat
  BY GuiAssumption DEF IInv, TypeOK
<1>2. e \in Events /\ e = input_queue[1] /\ Len(input_queue) \in Nat /\ Len(input_queue) > 0
  BY <1>1
<1>3. Tail(input_queue) \in Seq(Events) /\ Len(Tail(input_queue)) = Len(input_queue) - 1
  BY <1>1
<1>4. e.key \in Keys
  BY <1>2 DEF Events
<1>5. NowOngoing(e) \subseteq Keys
  BY <1>4 DEF NowOngoing, IInv, TypeOK
<1>6. ASSUME e.type = "Press" PROVE e.key \notin ongoing_input
  <2>1. ~DownAfter(input_queue, ongoing_input, e.key, 0)
    BY <1>2, <1>6 DEF IInv, KeysInv
  <2>2. Moves(input_queue, e.key, 0) = {}
    BY DEF Moves
  <2> QED BY <2>1, <2>2 DEF DownAfter
<1>7. ASSUME NowOngoingPort(e) # NULL
      PROVE  NowOngoingPort(e) \in Ports /\ IsAttached(NowOngoingPort(e))
  BY <1>7, TopPortLemma DEF NowOngoingPort, IInv, TypeOK, CallbackFindsPort
<1>8. ASSUME Receiver(e) # NULL PROVE Receiver(e) \in Ports /\ IsAttached(Receiver(e))
  BY <1>7, <1>8 DEF Receiver
<1> QED BY <1>1, <1>2, <1>3, <1>5, <1>6, <1>7, <1>8

(* A port is added to a list at the end, or at the front.                  *)
LEMMA AddLemma ==
    ASSUME NEW list \in Seq(Ports), IsInjective(list), NEW p \in Ports, p \notin ToSet(list),
           NEW u, u = Append(list, p) \/ u = <<p>> \o list
    PROVE  u \in Seq(Ports) /\ IsInjective(u) /\ ToSet(u) = ToSet(list) \cup {p}
<1>1. CASE u = Append(list, p)
  <2>1. /\ u \in Seq(Ports) /\ Len(u) = Len(list) + 1 /\ Len(list) \in Nat
        /\ u[Len(list) + 1] = p /\ \A i \in 1..Len(list) : u[i] = list[i]
    BY <1>1
  <2>2. DOMAIN u = 1..(Len(list) + 1) /\ DOMAIN list = 1..Len(list)
    BY <2>1
  <2>3. IsInjective(u)
    BY <2>1, <2>2 DEF IsInjective, ToSet
  <2>4. ToSet(u) = ToSet(list) \cup {p}
    <3>1. ASSUME NEW q \in ToSet(u) PROVE q \in ToSet(list) \cup {p}
      <4>1. PICK i \in DOMAIN u : u[i] = q
        BY <3>1 DEF ToSet
      <4> QED BY <2>1, <2>2, <4>1 DEF ToSet
    <3>2. ASSUME NEW q \in ToSet(list) PROVE q \in ToSet(u)
      BY <2>1, <2>2, <3>2 DEF ToSet
    <3>3. p \in ToSet(u)
      BY <2>1, <2>2 DEF ToSet
    <3> QED BY <3>1, <3>2, <3>3
  <2> QED BY <2>1, <2>3, <2>4
<1>2. CASE u = <<p>> \o list
  <2>1. u \in Seq(Ports) /\ Len(u) = Len(list) + 1 /\ Len(list) \in Nat
    BY <1>2
  <2>2. u[1] = p /\ \A i \in 2..(Len(list) + 1) : u[i] = list[i - 1]
    BY <1>2
  <2>3. DOMAIN u = 1..(Len(list) + 1) /\ DOMAIN list = 1..Len(list)
    BY <2>1
  <2>4. IsInjective(u)
    <3> SUFFICES ASSUME NEW i \in DOMAIN u, NEW j \in DOMAIN u, u[i] = u[j] PROVE i = j
      BY DEF IsInjective
    <3>1. ASSUME NEW k \in DOMAIN u, k # 1
          PROVE  k - 1 \in DOMAIN list /\ u[k] = list[k - 1] /\ u[k] # p
      BY <2>1, <2>2, <2>3, <3>1 DEF ToSet
    <3>2. CASE i = 1 \/ j = 1
      BY <2>1, <2>2, <2>3, <3>1, <3>2
    <3>3. CASE i # 1 /\ j # 1
      <4>1. i - 1 = j - 1
        BY <3>1, <3>3 DEF IsInjective
      <4> QED BY <2>1, <2>3, <4>1
    <3> QED BY <3>2, <3>3
  <2>5. ToSet(u) = ToSet(list) \cup {p}
    <3>1. ASSUME NEW q \in ToSet(u) PROVE q \in ToSet(list) \cup {p}
      <4>1. PICK i \in DOMAIN u : u[i] = q
        BY <3>1 DEF ToSet
      <4>2. CASE i = 1
        BY <2>2, <4>1, <4>2
      <4>3. CASE i # 1
        <5>1. i - 1 \in DOMAIN list /\ list[i - 1] = q
          BY <2>1, <2>2, <2>3, <4>1, <4>3
        <5> QED BY <5>1 DEF ToSet
      <4> QED BY <4>2, <4>3
    <3>2. ASSUME NEW q \in ToSet(list) PROVE q \in ToSet(u)
      <4>1. PICK i \in 1..Len(list) : list[i] = q
        BY <2>3, <3>2 DEF ToSet
      <4>2. i + 1 \in DOMAIN u /\ u[i + 1] = q
        BY <2>1, <2>2, <2>3, <4>1
      <4> QED BY <4>2 DEF ToSet
    <3>3. p \in ToSet(u)
      BY <2>1, <2>2, <2>3 DEF ToSet
    <3> QED BY <3>1, <3>2, <3>3
  <2> QED BY <2>1, <2>4, <2>5
<1> QED BY <1>1, <1>2

(* gui_add_view_port adds the port and keeps the others.                   *)
LEMMA AddedLemma ==
    ASSUME TypeOK, NEW p \in Ports, AddViewPort(p)
    PROVE  /\ layers' \in [Layers -> Seq(Ports)]
           /\ \A l \in Layers : IsInjective(layers'[l])
           /\ \A l \in Layers :
                ToSet(layers'[l]) = IF l = LayerOf[p] THEN ToSet(layers[l]) \cup {p}
                                                     ELSE ToSet(layers[l])
<1>1. /\ LayerOf[p] \in Layers /\ layers \in [Layers -> Seq(Ports)]
      /\ \A l \in Layers : IsInjective(layers[l])
      /\ p \notin ToSet(layers[LayerOf[p]])
  BY GuiAssumption DEF TypeOK, AddViewPort, IsAttached
<1>2. PICK u : u = Append(layers[LayerOf[p]], p)
  OBVIOUS
<1>3. layers' = [layers EXCEPT ![LayerOf[p]] = u]
  BY <1>2 DEF AddViewPort
<1>4. u \in Seq(Ports) /\ IsInjective(u) /\ ToSet(u) = ToSet(layers[LayerOf[p]]) \cup {p}
  BY <1>1, <1>2, AddLemma
<1> QED BY <1>1, <1>3, <1>4

(* A port that is sent to the front or to the back stays attached.         *)
LEMMA SentLemma ==
    ASSUME TypeOK, NEW p \in Ports, IsAttached(p),
           NEW w, \/ w = [Without(p) EXCEPT ![LayerOf[p]] = Append(@, p)]
                  \/ w = [Without(p) EXCEPT ![LayerOf[p]] = <<p>> \o @]
    PROVE  /\ w \in [Layers -> Seq(Ports)]
           /\ \A l \in Layers : IsInjective(w[l]) /\ ToSet(w[l]) = ToSet(layers[l])
<1>1. PICK old : Without(p) = [layers EXCEPT ![LayerOf[p]] = old]
  BY DEF Without
<1>2. PICK new : new = w[LayerOf[p]]
  OBVIOUS
<1>3. /\ LayerOf[p] \in Layers /\ layers \in [Layers -> Seq(Ports)]
      /\ \A l \in Layers : IsInjective(layers[l])
      /\ p \in ToSet(layers[LayerOf[p]])
  BY GuiAssumption DEF TypeOK, IsAttached
<1>4. old = Without(p)[LayerOf[p]]
  BY <1>1, <1>3
<1>5. old \in Seq(Ports) /\ IsInjective(old) /\ ToSet(old) = ToSet(layers[LayerOf[p]]) \ {p}
  BY <1>3, <1>4, WithoutLemma
<1>6. /\ new = Append(old, p) \/ new = <<p>> \o old
      /\ w = [layers EXCEPT ![LayerOf[p]] = new]
  BY <1>1, <1>2, <1>3
<1>7. new \in Seq(Ports) /\ IsInjective(new) /\ ToSet(new) = ToSet(old) \cup {p}
  BY <1>5, <1>6, AddLemma
<1>8. ToSet(new) = ToSet(layers[LayerOf[p]])
  BY <1>3, <1>5, <1>7
<1> QED BY <1>3, <1>6, <1>7, <1>8

LEMMA InitInv == Init => IInv
<1> SUFFICES ASSUME Init PROVE IInv
  OBVIOUS
<1>1. layers \in [Layers -> Seq(Ports)] /\ \A l \in Layers : IsInjective(layers[l])
  BY DEF Init, Layers, Ports, IsInjective
<1>2. TypeOK
  <2>1. phase \in [Keys -> Source!Phases]
    BY DEF Init, Source!Phases
  <2>2. input_queue \in Seq(Events) /\ Len(input_queue) <= QueueLen
    BY GuiAssumption DEF Init
  <2> QED BY <1>1, <2>1, <2>2 DEF Init, TypeOK
<1>3. LayersInv
  <2>1. ToSet(<<Desktop>>) = {Desktop} /\ ToSet(<<>>) = {}
    BY DEF ToSet
  <2> QED BY <2>1, GuiAssumption DEF Init, LayersInv
<1>4. KeysInv
  <2>1. \A k \in Keys : Moves(<<>>, k, 0) = {}
    BY DEF Moves
  <2> QED BY <2>1 DEF Init, KeysInv, DownAfter
<1> QED BY <1>2, <1>3, <1>4 DEF Init, IInv, CallbackFindsPort, PressStaysWithPort

LEMMA TypeStep == IInv /\ [Next]_vars => TypeOK'
<1> SUFFICES ASSUME IInv, [Next]_vars PROVE TypeOK'
  OBVIOUS
<1>0. TypeOK /\ LayersInv
  BY DEF IInv
<1> USE <1>0 DEF TypeOK, key_vars, thread_vars, input_vars, layer_vars
<1>1. ASSUME NEW k \in Keys, NEW type \in Source!Types, InputEvent(k, type)
      PROVE  TypeOK'
  <2>1. [key |-> k, type |-> type] \in Events
    BY DEF Events
  <2>2. input_queue' \in Seq(Events) /\ Len(input_queue') <= QueueLen
    BY <1>1, <2>1, GuiAssumption DEF InputEvent
  <2>3. phase' \in [Keys -> Source!Phases]
    BY <1>1 DEF InputEvent, Source!Tell, Source!After, Source!Types, Source!Phases
  <2> QED BY <1>1, <2>2, <2>3 DEF InputEvent
<1>2. ASSUME NEW p \in Ports \ {Desktop}, AddViewPort(p) PROVE TypeOK'
  BY <1>2, AddedLemma DEF AddViewPort, Updated
<1>3. ASSUME NEW p \in Ports \ {Desktop}, RemoveViewPort(p) PROVE TypeOK'
  BY <1>3, WithoutLemma DEF RemoveViewPort, Updated
<1>4. ASSUME NEW p \in Ports \ {Desktop}, ViewPortEnabledSet(p) PROVE TypeOK'
  BY <1>4 DEF ViewPortEnabledSet, Updated
<1>5. ASSUME NEW p \in Ports \ {Desktop}, SendToFront(p) PROVE TypeOK'
  BY <1>5, SentLemma DEF SendToFront, Updated
<1>6. ASSUME NEW p \in Ports \ {Desktop}, SendToBack(p) PROVE TypeOK'
  BY <1>6, SentLemma DEF SendToBack, Updated
<1>7. CASE SetInputFlag
  BY <1>7 DEF SetInputFlag
<1>8. CASE TakeFlags
  BY <1>8 DEF TakeFlags
<1>9. CASE HandleInput
  <2> DEFINE e == Head(input_queue)
  <2>1. /\ e \in Events /\ NowOngoing(e) \subseteq Keys
        /\ NowOngoingPort(e) \in Ports \cup {NULL} /\ Receiver(e) \in Ports \cup {NULL}
        /\ input_queue' \in Seq(Events) /\ Len(input_queue') <= QueueLen
    BY <1>9, TakenLemma DEF HandleInput
  <2> HIDE DEF e
  <2>2. ASSUME Deliver(Receiver(e), e)
        PROVE  /\ held' \in [Ports -> SUBSET Keys]
               /\ pc' \in {"wait", "input", "callback", "query", "overwrite"}
               /\ called' \in [port : Ports, event : Events] \cup {NULL}
               /\ (called' = NULL) = (pc' # "callback")
    <3>1. CASE Receiver(e) = NULL
      BY <2>2, <3>1 DEF Deliver
    <3>2. CASE Receiver(e) # NULL
      <4>1. Receiver(e) \in Ports /\ e.key \in Keys
        BY <2>1, <3>2 DEF Events
      <4>2. held' \in [Ports -> SUBSET Keys]
        BY <2>2, <3>2, <4>1 DEF Deliver, Stream!Holding
      <4>3. called' \in [port : Ports, event : Events] /\ pc' = "callback"
        BY <2>1, <2>2, <3>2, <4>1 DEF Deliver
      <4>4. called' # NULL
        BY <4>3, NullAssumption
      <4> QED BY <4>2, <4>3, <4>4
    <3> QED BY <3>1, <3>2
  <2> QED BY <1>9, <2>1, <2>2 DEF HandleInput, e
<1>10. CASE CallbackReturns
  BY <1>10 DEF CallbackReturns
<1>11. CASE QueueEmpty
  BY <1>11 DEF QueueEmpty
<1>12. CASE QueryFlags
  BY <1>12 DEF QueryFlags
<1>13. CASE OverwriteFlags
  BY <1>13 DEF OverwriteFlags
<1>14. CASE SetLockdown
  BY <1>14 DEF SetLockdown, Updated
<1>15. CASE DirectDrawAcquire
  BY <1>15 DEF DirectDrawAcquire
<1>16. CASE DirectDrawRelease
  BY <1>16 DEF DirectDrawRelease
<1>17. CASE UNCHANGED vars
  BY <1>17 DEF vars
<1> QED
  BY <1>1, <1>2, <1>3, <1>4, <1>5, <1>6, <1>7, <1>8, <1>9, <1>10,
     <1>11, <1>12, <1>13, <1>14, <1>15, <1>16, <1>17
  DEF Next, GuiThread

LEMMA LayersStep == IInv /\ [Next]_vars => LayersInv'
<1> SUFFICES ASSUME IInv, [Next]_vars PROVE LayersInv'
  OBVIOUS
<1>0. TypeOK /\ LayersInv
  BY DEF IInv
<1> USE <1>0 DEF LayersInv, layer_vars
<1>1. ASSUME NEW k \in Keys, NEW type \in Source!Types, InputEvent(k, type)
      PROVE  LayersInv'
  BY <1>1 DEF InputEvent
<1>2. ASSUME NEW p \in Ports \ {Desktop}, AddViewPort(p) PROVE LayersInv'
  <2>1. \A l \in Layers :
           ToSet(layers'[l]) = IF l = LayerOf[p] THEN ToSet(layers[l]) \cup {p}
                                                ELSE ToSet(layers[l])
    BY <1>2, AddedLemma
  <2> QED BY <2>1
<1>3. ASSUME NEW p \in Ports \ {Desktop}, RemoveViewPort(p) PROVE LayersInv'
  <2>1. IsAttached(p) /\ layers' = Without(p)
    BY <1>3 DEF RemoveViewPort
  <2>2. \A l \in Layers : ToSet(layers'[l]) \subseteq ToSet(layers[l])
    BY <2>1, WithoutLemma
  <2> QED BY <2>2
<1>4. ASSUME NEW p \in Ports \ {Desktop}, ViewPortEnabledSet(p) PROVE LayersInv'
  BY <1>4 DEF ViewPortEnabledSet
<1>5. ASSUME NEW p \in Ports \ {Desktop}, SendToFront(p) PROVE LayersInv'
  <2>1. \A l \in Layers : ToSet(layers'[l]) = ToSet(layers[l])
    BY <1>5, SentLemma DEF SendToFront
  <2> QED BY <2>1
<1>6. ASSUME NEW p \in Ports \ {Desktop}, SendToBack(p) PROVE LayersInv'
  <2>1. \A l \in Layers : ToSet(layers'[l]) = ToSet(layers[l])
    BY <1>6, SentLemma DEF SendToBack
  <2> QED BY <2>1
<1>7. CASE SetInputFlag
  BY <1>7 DEF SetInputFlag
<1>8. CASE TakeFlags
  BY <1>8 DEF TakeFlags
<1>9. CASE HandleInput
  BY <1>9 DEF HandleInput
<1>10. CASE CallbackReturns
  BY <1>10 DEF CallbackReturns
<1>11. CASE QueueEmpty
  BY <1>11 DEF QueueEmpty
<1>12. CASE QueryFlags
  BY <1>12 DEF QueryFlags
<1>13. CASE OverwriteFlags
  BY <1>13 DEF OverwriteFlags
<1>14. CASE SetLockdown
  BY <1>14 DEF SetLockdown
<1>15. CASE DirectDrawAcquire
  BY <1>15 DEF DirectDrawAcquire
<1>16. CASE DirectDrawRelease
  BY <1>16 DEF DirectDrawRelease
<1>17. CASE UNCHANGED vars
  BY <1>17 DEF vars
<1> QED
  BY <1>1, <1>2, <1>3, <1>4, <1>5, <1>6, <1>7, <1>8, <1>9, <1>10,
     <1>11, <1>12, <1>13, <1>14, <1>15, <1>16, <1>17
  DEF Next, GuiThread

LEMMA FindsStep == IInv /\ [Next]_vars => CallbackFindsPort'
<1> SUFFICES ASSUME IInv, [Next]_vars PROVE CallbackFindsPort'
  OBVIOUS
<1>0. /\ TypeOK /\ LayersInv /\ CallbackFindsPort
      /\ \A p \in Ports : LayerOf[p] \in Layers
      /\ ongoing_port \in Ports \cup {NULL} /\ (called = NULL) = (pc # "callback")
      /\ called # NULL => called.port \in Ports
  BY GuiAssumption DEF IInv, TypeOK
<1> USE <1>0 DEF CallbackFindsPort, IsAttached, layer_vars, input_vars, thread_vars
<1>1. ASSUME NEW k \in Keys, NEW type \in Source!Types, InputEvent(k, type)
      PROVE  CallbackFindsPort'
  BY <1>1 DEF InputEvent
<1>2. ASSUME NEW p \in Ports \ {Desktop}, AddViewPort(p) PROVE CallbackFindsPort'
  <2>1. \A l \in Layers :
           ToSet(layers'[l]) = IF l = LayerOf[p] THEN ToSet(layers[l]) \cup {p}
                                                ELSE ToSet(layers[l])
    BY <1>2, AddedLemma
  <2>2. called' = called /\ ongoing_port' = ongoing_port
    BY <1>2 DEF AddViewPort
  <2> QED BY <2>1, <2>2
<1>3. ASSUME NEW p \in Ports \ {Desktop}, RemoveViewPort(p) PROVE CallbackFindsPort'
  BY <1>3, WithoutLemma DEF RemoveViewPort, GuiIsLocked
<1>4. ASSUME NEW p \in Ports \ {Desktop}, ViewPortEnabledSet(p) PROVE CallbackFindsPort'
  BY <1>4 DEF ViewPortEnabledSet
<1>5. ASSUME NEW p \in Ports \ {Desktop}, SendToFront(p) PROVE CallbackFindsPort'
  <2>1. \A l \in Layers : ToSet(layers'[l]) = ToSet(layers[l])
    BY <1>5, SentLemma DEF SendToFront
  <2> QED BY <1>5, <2>1 DEF SendToFront
<1>6. ASSUME NEW p \in Ports \ {Desktop}, SendToBack(p) PROVE CallbackFindsPort'
  <2>1. \A l \in Layers : ToSet(layers'[l]) = ToSet(layers[l])
    BY <1>6, SentLemma DEF SendToBack
  <2> QED BY <1>6, <2>1 DEF SendToBack
<1>7. CASE SetInputFlag
  BY <1>7 DEF SetInputFlag
<1>8. CASE TakeFlags
  BY <1>8 DEF TakeFlags
<1>9. CASE HandleInput
  <2>1. PICK e : e = Head(input_queue)
    OBVIOUS
  <2>2. /\ NowOngoingPort(e) # NULL => IsAttached(NowOngoingPort(e))
        /\ Receiver(e) # NULL => IsAttached(Receiver(e))
    BY <1>9, <2>1, TakenLemma DEF HandleInput
  <2>3. layers' = layers /\ called = NULL
    BY <1>9 DEF HandleInput
  <2>4. \/ ongoing_port' = ongoing_port /\ called' = called
        \/ ongoing_port' = NowOngoingPort(e) /\ Deliver(Receiver(e), e)
    BY <1>9, <2>1 DEF HandleInput
  <2>5. called' = NULL \/ (Receiver(e) # NULL /\ called'.port = Receiver(e))
    BY <2>3, <2>4 DEF Deliver
  <2> QED BY <2>2, <2>3, <2>4, <2>5
<1>10. CASE CallbackReturns
  BY <1>10 DEF CallbackReturns
<1>11. CASE QueueEmpty
  BY <1>11 DEF QueueEmpty
<1>12. CASE QueryFlags
  BY <1>12 DEF QueryFlags
<1>13. CASE OverwriteFlags
  BY <1>13 DEF OverwriteFlags
<1>14. CASE SetLockdown
  BY <1>14 DEF SetLockdown
<1>15. CASE DirectDrawAcquire
  BY <1>15 DEF DirectDrawAcquire
<1>16. CASE DirectDrawRelease
  BY <1>16 DEF DirectDrawRelease
<1>17. CASE UNCHANGED vars
  BY <1>17 DEF vars
<1> QED
  BY <1>1, <1>2, <1>3, <1>4, <1>5, <1>6, <1>7, <1>8, <1>9, <1>10,
     <1>11, <1>12, <1>13, <1>14, <1>15, <1>16, <1>17
  DEF Next, GuiThread

LEMMA KeysStep == IInv /\ [Next]_vars => KeysInv'
<1> SUFFICES ASSUME IInv, [Next]_vars PROVE KeysInv'
  OBVIOUS
<1>0. /\ KeysInv /\ input_queue \in Seq(Events) /\ Len(input_queue) \in Nat
      /\ phase \in [Keys -> Source!Phases]
      /\ \A i \in 1..Len(input_queue) : input_queue[i].key \in Keys
  <2>1. input_queue \in Seq(Events) /\ \A e \in Events : e.key \in Keys
    BY DEF IInv, TypeOK, Events
  <2> QED BY <2>1 DEF IInv, TypeOK
<1> USE <1>0 DEF key_vars, input_vars
<1>1. ASSUME NEW k \in Keys, NEW type \in Source!Types, InputEvent(k, type)
      PROVE  KeysInv'
  <2>1. PICK e : e = [key |-> k, type |-> type]
    OBVIOUS
  <2>2. e \in Events /\ e.key = k /\ e.type = type
    BY <2>1 DEF Events
  <2>3. /\ input_queue' = Append(input_queue, e) /\ ongoing_input' = ongoing_input
        /\ phase[k] \in Source!Before(type)
        /\ phase' = [phase EXCEPT ![k] = Source!After(type)]
    BY <1>1, <2>1 DEF InputEvent, Source!Tell
  <2>4. /\ Len(input_queue') = Len(input_queue) + 1
        /\ \A i \in 1..Len(input_queue) : input_queue'[i] = input_queue[i]
        /\ input_queue'[Len(input_queue) + 1] = e
    BY <2>2, <2>3
  <2>5. ASSUME NEW i \in 1..Len(input_queue'), input_queue'[i].type = "Press"
        PROVE  ~DownAfter(input_queue', ongoing_input', input_queue'[i].key, i - 1)
    <3>1. i - 1 \in 0..Len(input_queue)
      BY <2>4
    <3>2. input_queue'[i].key \in Keys
      BY <2>2, <2>4
    <3>3. DownAfter(input_queue', ongoing_input', input_queue'[i].key, i - 1)
            = DownAfter(input_queue, ongoing_input, input_queue'[i].key, i - 1)
      <4>1. PICK x \in Keys : x = input_queue'[i].key
        BY <3>2
      <4>2. \A n \in 0..Len(input_queue) :
              DownAfter(Append(input_queue, e), ongoing_input, x, n)
                = DownAfter(input_queue, ongoing_input, x, n)
        BY <2>2, AppendLemma, ZenonT(30)
      <4> QED BY <2>3, <3>1, <4>1, <4>2
    <3>4. CASE i \in 1..Len(input_queue)
      BY <2>4, <2>5, <3>3, <3>4 DEF KeysInv
    <3>5. CASE i = Len(input_queue) + 1
      <4>1. phase[k] = "up" /\ input_queue'[i].key = k /\ i - 1 = Len(input_queue)
        BY <2>2, <2>3, <2>4, <2>5, <3>5 DEF Source!Before
      <4> QED BY <3>3, <4>1 DEF KeysInv
    <3> QED BY <2>4, <3>4, <3>5
  <2>6. ASSUME NEW j \in Keys, phase'[j] = "up"
        PROVE  ~DownAfter(input_queue', ongoing_input', j, Len(input_queue'))
    <3>1. CASE j # k
      <4>1. phase[j] = "up"
        BY <2>3, <2>6, <3>1
      <4>2. DownAfter(input_queue', ongoing_input', j, Len(input_queue'))
              = DownAfter(input_queue, ongoing_input, j, Len(input_queue))
        BY <2>2, <2>3, <2>4, <3>1, AppendLemma
      <4> QED BY <4>1, <4>2 DEF KeysInv
    <3>2. CASE j = k
      <4>1. type = "Release"
        BY <2>3, <2>6, <3>2 DEF Source!After, Source!Types
      <4>2. ~DownAfter(Append(input_queue, e), ongoing_input, k, Len(input_queue) + 1)
        BY <2>2, <4>1, AppendLemma
      <4> QED BY <2>3, <2>4, <3>2, <4>2
    <3> QED BY <3>1, <3>2
  <2> QED BY <2>5, <2>6 DEF KeysInv
<1>2. ASSUME NEW p \in Ports \ {Desktop}, AddViewPort(p) PROVE KeysInv'
  BY <1>2 DEF AddViewPort, KeysInv
<1>3. ASSUME NEW p \in Ports \ {Desktop}, RemoveViewPort(p) PROVE KeysInv'
  BY <1>3 DEF RemoveViewPort, KeysInv
<1>4. ASSUME NEW p \in Ports \ {Desktop}, ViewPortEnabledSet(p) PROVE KeysInv'
  BY <1>4 DEF ViewPortEnabledSet, KeysInv
<1>5. ASSUME NEW p \in Ports \ {Desktop}, SendToFront(p) PROVE KeysInv'
  BY <1>5 DEF SendToFront, KeysInv
<1>6. ASSUME NEW p \in Ports \ {Desktop}, SendToBack(p) PROVE KeysInv'
  BY <1>6 DEF SendToBack, KeysInv
<1>7. CASE SetInputFlag
  BY <1>7 DEF SetInputFlag, KeysInv
<1>8. CASE TakeFlags
  BY <1>8 DEF TakeFlags, KeysInv
<1>9. CASE HandleInput
  <2>1. PICK e : e = input_queue[1]
    OBVIOUS
  <2>2. /\ input_queue # <<>> /\ input_queue' = Tail(input_queue) /\ phase' = phase
        /\ Len(input_queue') = Len(input_queue) - 1 /\ Len(input_queue) > 0
        /\ \A i \in 1..(Len(input_queue) - 1) : input_queue'[i] = input_queue[i + 1]
    BY <1>9 DEF HandleInput
  <2>3. ongoing_input' = NowOngoing(e)
    BY <1>9, <2>1 DEF HandleInput, IsDiscarded, NowOngoing
  <2>4. ASSUME NEW k \in Keys, NEW n \in 0..(Len(input_queue) - 1)
        PROVE  DownAfter(input_queue', ongoing_input', k, n)
                 <=> DownAfter(input_queue, ongoing_input, k, n + 1)
    <3>1. k \in ongoing_input' <=>
            IF e.key = k /\ e.type \in {"Press", "Release"}
            THEN e.type = "Press" ELSE k \in ongoing_input
      BY <2>3 DEF NowOngoing
    <3> QED BY <2>1, <2>2, <3>1, TailLemma
  <2>5. ASSUME NEW i \in 1..Len(input_queue'), input_queue'[i].type = "Press"
        PROVE  ~DownAfter(input_queue', ongoing_input', input_queue'[i].key, i - 1)
    <3>1. /\ i + 1 \in 1..Len(input_queue) /\ i - 1 \in 0..(Len(input_queue) - 1)
          /\ input_queue'[i] = input_queue[i + 1] /\ (i - 1) + 1 = (i + 1) - 1
      BY <2>2
    <3>2. ~DownAfter(input_queue, ongoing_input, input_queue[i + 1].key, (i + 1) - 1)
      BY <2>5, <3>1 DEF KeysInv
    <3> QED BY <2>4, <3>1, <3>2
  <2>6. ASSUME NEW k \in Keys, phase'[k] = "up"
        PROVE  ~DownAfter(input_queue', ongoing_input', k, Len(input_queue'))
    BY <2>2, <2>4, <2>6 DEF KeysInv
  <2> QED BY <2>5, <2>6 DEF KeysInv
<1>10. CASE CallbackReturns
  BY <1>10 DEF CallbackReturns, KeysInv
<1>11. CASE QueueEmpty
  BY <1>11 DEF QueueEmpty, KeysInv
<1>12. CASE QueryFlags
  BY <1>12 DEF QueryFlags, KeysInv
<1>13. CASE OverwriteFlags
  BY <1>13 DEF OverwriteFlags, KeysInv
<1>14. CASE SetLockdown
  BY <1>14 DEF SetLockdown, KeysInv
<1>15. CASE DirectDrawAcquire
  BY <1>15 DEF DirectDrawAcquire, KeysInv
<1>16. CASE DirectDrawRelease
  BY <1>16 DEF DirectDrawRelease, KeysInv
<1>17. CASE UNCHANGED vars
  BY <1>17 DEF vars, KeysInv
<1> QED
  BY <1>1, <1>2, <1>3, <1>4, <1>5, <1>6, <1>7, <1>8, <1>9, <1>10,
     <1>11, <1>12, <1>13, <1>14, <1>15, <1>16, <1>17
  DEF Next, GuiThread

LEMMA PressStep == IInv /\ [Next]_vars => PressStaysWithPort'
<1> SUFFICES ASSUME IInv, [Next]_vars PROVE PressStaysWithPort'
  OBVIOUS
<1>0. PressStaysWithPort /\ held \in [Ports -> SUBSET Keys] /\ NULL \notin Ports
  BY GuiAssumption DEF IInv, TypeOK
<1> USE <1>0 DEF PressStaysWithPort, input_vars
<1>1. ASSUME NEW k \in Keys, NEW type \in Source!Types, InputEvent(k, type)
      PROVE  PressStaysWithPort'
  BY <1>1 DEF InputEvent
<1>2. ASSUME NEW p \in Ports \ {Desktop}, AddViewPort(p) PROVE PressStaysWithPort'
  BY <1>2 DEF AddViewPort
<1>3. ASSUME NEW p \in Ports \ {Desktop}, RemoveViewPort(p) PROVE PressStaysWithPort'
  BY <1>3 DEF RemoveViewPort
<1>4. ASSUME NEW p \in Ports \ {Desktop}, ViewPortEnabledSet(p) PROVE PressStaysWithPort'
  BY <1>4 DEF ViewPortEnabledSet
<1>5. ASSUME NEW p \in Ports \ {Desktop}, SendToFront(p) PROVE PressStaysWithPort'
  BY <1>5 DEF SendToFront
<1>6. ASSUME NEW p \in Ports \ {Desktop}, SendToBack(p) PROVE PressStaysWithPort'
  BY <1>6 DEF SendToBack
<1>7. CASE SetInputFlag
  BY <1>7 DEF SetInputFlag
<1>8. CASE TakeFlags
  BY <1>8 DEF TakeFlags
<1>9. CASE HandleInput
  <2>1. PICK e : e = Head(input_queue)
    OBVIOUS
  <2>2. /\ e.type = "Press" => e.key \notin ongoing_input
        /\ Receiver(e) # NULL => Receiver(e) \in Ports
    BY <1>9, <2>1, TakenLemma DEF HandleInput
  <2>3. CASE UNCHANGED input_vars
    BY <2>3
  <2>4. CASE ongoing_input' = NowOngoing(e) /\ ongoing_port = NULL
             /\ UNCHANGED <<ongoing_port, held>>
    BY <2>4
  <2>5. CASE /\ ongoing_input' = NowOngoing(e) /\ ongoing_port' = NowOngoingPort(e)
             /\ Deliver(Receiver(e), e)
    <3>1. CASE e.type = "Press" /\ NowOngoing(e) \subseteq {e.key}
      <4>1. ongoing_input = {}
        BY <2>2, <3>1 DEF NowOngoing
      <4>2. \A p \in Ports : held[p] = {}
        BY <4>1
      <4>3. ongoing_port' = TopPort /\ e.key \in ongoing_input'
        BY <2>5, <3>1 DEF NowOngoingPort, NowOngoing
      <4>4. Receiver(e) \in {TopPort, NULL}
        BY <3>1 DEF Receiver
      <4> QED BY <2>2, <2>5, <3>1, <4>2, <4>3, <4>4 DEF Deliver, Stream!Holding
    <3>2. CASE e.type = "Press" /\ ~(NowOngoing(e) \subseteq {e.key})
      <4>1. ongoing_port' = ongoing_port /\ Receiver(e) \in {ongoing_port, NULL}
        BY <2>5, <3>2 DEF NowOngoingPort, Receiver
      <4>2. ongoing_input' = ongoing_input \cup {e.key}
        BY <2>5, <3>2 DEF NowOngoing
      <4> QED BY <2>2, <2>5, <3>2, <4>1, <4>2 DEF Deliver, Stream!Holding
    <3>3. CASE e.type = "Release"
      <4>1. ongoing_port' = ongoing_port /\ Receiver(e) = ongoing_port
        BY <2>5, <3>3 DEF NowOngoingPort, Receiver
      <4>2. ongoing_input' = ongoing_input \ {e.key}
        BY <2>5, <3>3 DEF NowOngoing
      <4> QED BY <2>2, <2>5, <3>3, <4>1, <4>2 DEF Deliver, Stream!Holding
    <3>4. CASE e.type \notin {"Press", "Release"}
      <4>1. ongoing_port' = ongoing_port /\ ongoing_input' = ongoing_input
        BY <2>5, <3>4 DEF NowOngoingPort, NowOngoing
      <4>2. held' = held
        BY <2>2, <2>5, <3>4 DEF Deliver, Stream!Holding
      <4> QED BY <4>1, <4>2
    <3> QED BY <3>1, <3>2, <3>3, <3>4
  <2> QED BY <1>9, <2>1, <2>3, <2>4, <2>5 DEF HandleInput
<1>10. CASE CallbackReturns
  BY <1>10 DEF CallbackReturns
<1>11. CASE QueueEmpty
  BY <1>11 DEF QueueEmpty
<1>12. CASE QueryFlags
  BY <1>12 DEF QueryFlags
<1>13. CASE OverwriteFlags
  BY <1>13 DEF OverwriteFlags
<1>14. CASE SetLockdown
  BY <1>14 DEF SetLockdown
<1>15. CASE DirectDrawAcquire
  BY <1>15 DEF DirectDrawAcquire
<1>16. CASE DirectDrawRelease
  BY <1>16 DEF DirectDrawRelease
<1>17. CASE UNCHANGED vars
  BY <1>17 DEF vars
<1> QED
  BY <1>1, <1>2, <1>3, <1>4, <1>5, <1>6, <1>7, <1>8, <1>9, <1>10,
     <1>11, <1>12, <1>13, <1>14, <1>15, <1>16, <1>17
  DEF Next, GuiThread

(* The invariant of the GUI.                                               *)
THEOREM Invariance == Spec => []IInv
<1>1. IInv /\ [Next]_vars => IInv'
  BY TypeStep, LayersStep, FindsStep, KeysStep, PressStep DEF IInv
<1> QED BY InitInv, <1>1, PTL DEF Spec

-----------------------------------------------------------------------------
(* The GUI thread calls, and keeps input for, attached ports only, however *)
(* the owners of the ports add, remove, move and enable them meanwhile     *)
(* (gui.c:295-336 against :382-406).                                       *)
THEOREM GuiIsSound == Spec => []GuiSound
<1>1. IInv => GuiSound
  BY DEF IInv, GuiSound
<1> QED BY <1>1, Invariance, PTL

(* The port that was given a Press is the one that gets the Release, for   *)
(* any number of keys and ports (gui.c:310-326).                           *)
THEOREM PressesStay == Spec => []PressStaysWithPort
<1>1. IInv => PressStaysWithPort
  BY DEF IInv
<1> QED BY <1>1, Invariance, PTL

(* A step that neither calls the application's port nor changes what it    *)
(* holds is a stutter of PortSource.                                       *)
LEMMA QuietStep ==
    ASSUME held'[App] = held[App],
           called' = called \/ (called = NULL /\ called' # NULL /\ called'.port # App)
    PROVE  [Promise!PortNext]_<<held[App], CallOf(App)>>
  BY DEF CallOf

(* Every step of the GUI is one that PortSource allows, or none of the     *)
(* application's port: a call, its return, or the removal of the port.     *)
LEMMA PortStep == IInv /\ [Next]_vars => [Promise!PortNext]_<<held[App], CallOf(App)>>
<1> SUFFICES ASSUME IInv, [Next]_vars PROVE [Promise!PortNext]_<<held[App], CallOf(App)>>
  OBVIOUS
<1>0. /\ App \in Ports /\ held \in [Ports -> SUBSET Keys]
      /\ (called = NULL) = (pc # "callback")
      /\ called # NULL => called \in [port : Ports, event : Events]
  BY DEF IInv, TypeOK, Ports
<1> USE <1>0
<1>1. ASSUME NEW p \in Ports \ {Desktop}, RemoveViewPort(p)
      PROVE  [Promise!PortNext]_<<held[App], CallOf(App)>>
  <2>1. called = NULL /\ called' = NULL
    BY <1>1 DEF RemoveViewPort, GuiIsLocked, thread_vars
  <2>2. CASE p = App
    <3>1. Promise!Detach
      BY <1>1, <2>1, <2>2 DEF RemoveViewPort, Promise!Detach, CallOf
    <3> QED BY <3>1 DEF Promise!PortNext
  <2>3. CASE p # App
    BY <1>1, <2>1, <2>3, QuietStep DEF RemoveViewPort
  <2> QED BY <2>2, <2>3
<1>2. CASE CallbackReturns
  <2>1. /\ called # NULL /\ called' = NULL /\ held' = held
        /\ called.event.key \in Keys
    BY <1>2 DEF CallbackReturns, input_vars, Events
  <2>2. CASE called.port = App
    <3>1. CallOf(App) \in [key : Keys, type : {"Press", "Release", "Other"}]
      BY <2>1, <2>2 DEF CallOf, Kind
    <3>2. Promise!Return
      BY <2>1, <3>1, NullAssumption DEF CallOf, Promise!Return
    <3> QED BY <3>2 DEF Promise!PortNext
  <2>3. CASE called.port # App
    BY <2>1, <2>3 DEF CallOf
  <2> QED BY <2>2, <2>3
<1>3. CASE HandleInput
  <2>1. PICK e : e = Head(input_queue)
    OBVIOUS
  <2>2. /\ e \in Events
        /\ e.type = "Press" => e.key \notin ongoing_input
        /\ Receiver(e) # NULL => Receiver(e) \in Ports
    BY <1>3, <2>1, TakenLemma DEF HandleInput
  <2>3. called = NULL
    BY <1>3 DEF HandleInput
  <2>4. CASE held' = held /\ called' = called
    BY <2>4, QuietStep
  <2>5. CASE Receiver(e) # NULL /\ Deliver(Receiver(e), e)
    <3>1. /\ held' = [held EXCEPT ![Receiver(e)] = Stream!Holding(@, e)]
          /\ called' = [port |-> Receiver(e), event |-> e]
      BY <2>5 DEF Deliver
    <3>2. called' # NULL
      BY <2>2, <2>5, <3>1, NullAssumption
    <3>3. CASE Receiver(e) # App
      BY <2>2, <2>3, <2>5, <3>1, <3>2, <3>3, QuietStep
    <3>4. CASE Receiver(e) = App
      <4>1. e.key \in Keys /\ Kind(e.type) \in Promise!Types
        BY <2>2 DEF Events, Kind, Promise!Types
      <4>2. CallOf(App) = NULL /\ CallOf(App)' = [key |-> e.key, type |-> Kind(e.type)]
        BY <2>3, <3>1, <3>2, <3>4 DEF CallOf
      <4>3. Kind(e.type) = "Press" => e.key \notin held[App]
        BY <2>2 DEF Kind, IInv, PressStaysWithPort
      <4>4. held'[App] = Promise!Holding(held[App], CallOf(App)')
        BY <3>1, <3>4, <4>2 DEF Stream!Holding, Promise!Holding, Kind
      <4>5. Promise!Give(e.key, Kind(e.type))
        BY <4>2, <4>3, <4>4 DEF Promise!Give
      <4> QED BY <4>1, <4>5 DEF Promise!PortNext
    <3> QED BY <3>3, <3>4
  <2> QED BY <1>3, <2>1, <2>4, <2>5 DEF HandleInput, Deliver, input_vars
<1>4. ASSUME held' = held, called' = called
      PROVE  [Promise!PortNext]_<<held[App], CallOf(App)>>
  BY <1>4, QuietStep
<1>5. ASSUME NEW k \in Keys, NEW type \in Source!Types, InputEvent(k, type)
      PROVE  held' = held /\ called' = called
  BY <1>5 DEF InputEvent, input_vars, thread_vars
<1>6. ASSUME NEW p \in Ports \ {Desktop},
             AddViewPort(p) \/ ViewPortEnabledSet(p) \/ SendToFront(p) \/ SendToBack(p)
      PROVE  held' = held /\ called' = called
  BY <1>6
  DEF AddViewPort, ViewPortEnabledSet, SendToFront, SendToBack, input_vars, thread_vars
<1>7. ASSUME \/ SetInputFlag \/ TakeFlags \/ QueueEmpty \/ QueryFlags \/ OverwriteFlags
             \/ SetLockdown \/ DirectDrawAcquire \/ DirectDrawRelease \/ UNCHANGED vars
      PROVE  held' = held /\ called' = called
  BY <1>7
  DEF SetInputFlag, TakeFlags, QueueEmpty, QueryFlags, OverwriteFlags, SetLockdown,
      DirectDrawAcquire, DirectDrawRelease, vars, input_vars, thread_vars
<1> QED BY <1>1, <1>2, <1>3, <1>4, <1>5, <1>6, <1>7 DEF Next, GuiThread

(* Whatever happens to the layers, the application's port sees a stream of *)
(* events as PortSource promises it: one call at a time, no second Press   *)
(* of a key before its Release, and no call once it is removed.            *)
THEOREM PortsAsPromised == Spec => ImplementsPortSource
<1>1. Init => Promise!PortInit
  BY DEF Init, Promise!PortInit, CallOf, Ports
<1> QED BY <1>1, PortStep, Invariance, PTL DEF Spec, ImplementsPortSource, Promise!PortSpec

-----------------------------------------------------------------------------
(***************************************************************************)
(* The input service, which publishes the events that the GUI queues: for  *)
(* any number of pins and any debounce time, its type invariant, and that  *)
(* it implements KeySource, the source Gui assumes.  The latter rests on   *)
(* TimerInv, on when a press timer may be active: a callback that runs     *)
(* outside of a press would publish a Long or a Repeat on its own.         *)
(***************************************************************************)

(* The service thread is between the stop of k's timer and k's Release.    *)
Releasing(k, steps) == at = k /\ scan_pc \in steps

(* A timer is started, runs and counts only within a press that was told:  *)
(* until the service thread has seen it stopped.                           *)
TimerInv ==
    \A k \in PinKeys :
        /\ command[k] = "start" => state[k] /\ numbered[k]
        /\ active[k] => numbered[k] /\ (state[k] \/ Releasing(k, {"stopping"}))
        /\ press_counter[k] > 0 =>
             numbered[k] /\ (state[k] \/ Releasing(k, {"stopping", "released"}))
        /\ Releasing(k, {"stopping", "released"}) => ~state[k]

InputInv == InputTypeOK /\ TimerInv

-----------------------------------------------------------------------------
(* What one visit of a pin leaves in its debounce counter                  *)
LEMMA DebouncedType ==
    ASSUME InputTypeOK, NEW k \in PinKeys
    PROVE  Debounced(k) \in 0..Debounce
<1>1. debounce[k] \in 0..Debounce /\ pin[k] \in BOOLEAN
  BY DEF InputTypeOK
<1> QED BY <1>1, InputAssumption DEF Debounced

(* The scan goes on with a pin, or ends at the first.                      *)
LEMMA AdvanceType ==
    ASSUME InputTypeOK, NEW c \in BOOLEAN, Advance(c)
    PROVE  at' \in PinKeys /\ scan_pc' \in {"scan", "wait"} /\ is_changing' \in BOOLEAN
  BY InputAssumption DEF InputTypeOK, Advance, PinKeys

LEMMA InputInitInv ==
    InputInit => InputInv
<1> SUFFICES ASSUME InputInit PROVE InputInv
  OBVIOUS
<1>1. Debounce \div 2 \in 0..Debounce /\ 1 \in PinKeys
  BY InputAssumption DEF PinKeys
<1>2. InputTypeOK
  <2>1. debounce \in [PinKeys -> 0..Debounce]
    BY <1>1 DEF InputInit
  <2>2. press_counter \in [PinKeys -> 0..LongPressCounts]
    BY DEF InputInit, LongPressCounts
  <2> QED BY <1>1, <2>1, <2>2 DEF InputInit, InputTypeOK
<1>3. TimerInv
  BY DEF InputInit, TimerInv, Releasing
<1> QED BY <1>2, <1>3 DEF InputInv

LEMMA InputTypeStep ==
    InputTypeOK /\ [InputNext]_inputVars => InputTypeOK'
<1> SUFFICES ASSUME InputTypeOK, [InputNext]_inputVars PROVE InputTypeOK'
  OBVIOUS
<1> USE DEF InputTypeOK
<1>1. ASSUME NEW k \in PinKeys, PinChanges(k) PROVE InputTypeOK'
  BY <1>1 DEF PinChanges
<1>2. ASSUME NEW k \in PinKeys, TimerCallback(k) PROVE InputTypeOK'
  BY <1>2 DEF TimerCallback, LongPressCounts
<1>3. CASE ScanQuiet
  <2>1. (is_changing \/ ~IsStable(at)) \in BOOLEAN
    OBVIOUS
  <2> QED BY <1>3, <2>1, DebouncedType, AdvanceType DEF ScanQuiet
<1>4. CASE ScanPress
  BY <1>4, DebouncedType, AdvanceType DEF ScanPress
<1>5. CASE ScanRelease
  BY <1>5, DebouncedType DEF ScanRelease
<1>6. CASE TimerStopped
  BY <1>6 DEF TimerStopped
<1>7. CASE Release
  BY <1>7, AdvanceType DEF Release, LongPressCounts
<1>8. CASE NextScan
  BY <1>8 DEF NextScan
<1>9. CASE TimerCommands
  BY <1>9 DEF TimerCommands
<1>10. CASE UNCHANGED inputVars
  BY <1>10 DEF inputVars
<1> QED
  BY <1>1, <1>2, <1>3, <1>4, <1>5, <1>6, <1>7, <1>8, <1>9, <1>10 DEF InputNext, ServiceStep

LEMMA TimerStep == InputInv /\ [InputNext]_inputVars => TimerInv'
<1> SUFFICES ASSUME InputInv, [InputNext]_inputVars, NEW k \in PinKeys
             PROVE  /\ command'[k] = "start" => state'[k] /\ numbered'[k]
                    /\ active'[k] =>
                         numbered'[k] /\ (state'[k] \/ Releasing(k, {"stopping"})')
                    /\ press_counter'[k] > 0 =>
                         /\ numbered'[k]
                         /\ state'[k] \/ Releasing(k, {"stopping", "released"})'
                    /\ Releasing(k, {"stopping", "released"})' => ~state'[k]
  BY DEF TimerInv
<1> USE DEF InputInv, InputTypeOK, TimerInv, Releasing
<1>1. ASSUME NEW j \in PinKeys, PinChanges(j) PROVE TimerInv'
  BY <1>1 DEF PinChanges
<1>2. ASSUME NEW j \in PinKeys, TimerCallback(j) PROVE TimerInv'
  BY <1>2 DEF TimerCallback, LongPressCounts
<1>3. CASE ScanQuiet
  BY <1>3 DEF ScanQuiet, Advance
<1>4. CASE ScanPress
  BY <1>4 DEF ScanPress, Advance
<1>5. CASE ScanRelease
  BY <1>5 DEF ScanRelease
<1>6. CASE TimerStopped
  BY <1>6 DEF TimerStopped
<1>7. CASE Release
  BY <1>7 DEF Release, Advance
<1>8. CASE NextScan
  BY <1>8 DEF NextScan
<1>9. CASE TimerCommands
  BY <1>9 DEF TimerCommands
<1>10. CASE UNCHANGED inputVars
  BY <1>10 DEF inputVars
<1> QED
  BY <1>1, <1>2, <1>3, <1>4, <1>5, <1>6, <1>7, <1>8, <1>9, <1>10 DEF InputNext, ServiceStep

(* The invariant of the service: its types, and when timers may run.       *)
THEOREM InputInvariance ==
    InputSpec => []InputInv
<1>1. InputInv /\ [InputNext]_inputVars => InputInv'
  BY InputTypeStep, TimerStep DEF InputInv
<1> QED BY InputInitInv, <1>1, PTL DEF InputSpec

(* The counters and the flags of the service keep their types: debounce    *)
(* stays within INPUT_DEBOUNCE_TICKS and a press counter within            *)
(* INPUT_LONG_PRESS_COUNTS (input.c:128-131, :45-50), whatever pins do.    *)
THEOREM InputTypeCorrect ==
    InputSpec => []InputTypeOK
  BY InputInvariance, PTL DEF InputInv

-----------------------------------------------------------------------------
(* The service implements KeySource                                        *)

(* The phase of a key depends on the key's own state, and on where the     *)
(* service thread is with that key.                                        *)
LEMMA PhaseKept ==
    ASSUME NEW k \in PinKeys,
           state'[k] = state[k], numbered'[k] = numbered[k],
           (press_counter'[k] = LongPressCounts) = (press_counter[k] = LongPressCounts),
           Releasing(k, {"stopping"})' = Releasing(k, {"stopping"}),
           Releasing(k, {"released"})' = Releasing(k, {"released"})
    PROVE  PhaseOf(k)' = PhaseOf(k)
  BY DEF PhaseOf, Releasing

(* A step that changes no phase and publishes nothing is a stutter.        *)
LEMMA Stutter ==
    ASSUME \A k \in PinKeys : PhaseOf(k)' = PhaseOf(k), event' = event
    PROVE  [Grammar!KeyNext]_<<[k \in PinKeys |-> PhaseOf(k)], event>>
  OBVIOUS

(* A step that publishes an event of a key in one of its phases, and       *)
(* changes the phase of that key alone, is a Publish.                      *)
LEMMA Published ==
    ASSUME NEW k \in PinKeys, NEW type \in Grammar!Types,
           PublishEvent(k, type),
           PhaseOf(k) \in Grammar!Before(type), PhaseOf(k)' = Grammar!After(type),
           \A j \in PinKeys \ {k} : PhaseOf(j)' = PhaseOf(j)
    PROVE  [Grammar!KeyNext]_<<[j \in PinKeys |-> PhaseOf(j)], event>>
<1> DEFINE ph == [j \in PinKeys |-> PhaseOf(j)]
<1>1. ph[k] \in Grammar!Before(type)
  OBVIOUS
<1>2. ph' = [ph EXCEPT ![k] = Grammar!After(type)]
  OBVIOUS
<1>3. Grammar!Publish(k, type)
  BY <1>1, <1>2 DEF Grammar!Publish, Grammar!Tell, PublishEvent
<1> QED BY <1>3 DEF Grammar!KeyNext

LEMMA KeyStep ==
    InputInv /\ [InputNext]_inputVars
        => [Grammar!KeyNext]_<<[k \in PinKeys |-> PhaseOf(k)], event>>
<1> SUFFICES ASSUME InputInv, [InputNext]_inputVars
             PROVE  [Grammar!KeyNext]_<<[k \in PinKeys |-> PhaseOf(k)], event>>
  OBVIOUS
<1> USE DEF InputInv, InputTypeOK, TimerInv, Releasing
<1>1. ASSUME NEW j \in PinKeys, PinChanges(j)
      PROVE  [Grammar!KeyNext]_<<[k \in PinKeys |-> PhaseOf(k)], event>>
  <2>1. \A k \in PinKeys : PhaseOf(k)' = PhaseOf(k)
    BY <1>1, PhaseKept DEF PinChanges
  <2> QED BY <1>1, <2>1, Stutter DEF PinChanges
<1>2. ASSUME NEW j \in PinKeys, TimerCallback(j)
      PROVE  [Grammar!KeyNext]_<<[k \in PinKeys |-> PhaseOf(k)], event>>
  <2>1. \A k \in PinKeys \ {j} : PhaseOf(k)' = PhaseOf(k)
    BY <1>2, PhaseKept DEF TimerCallback
  <2>2. CASE press_counter[j] + 1 < LongPressCounts
    <3>1. PhaseOf(j)' = PhaseOf(j)
      BY <1>2, <2>2, PhaseKept DEF TimerCallback, LongPressCounts
    <3>2. event' = event
      BY <1>2, <2>2 DEF TimerCallback, LongPressCounts
    <3> QED BY <2>1, <3>1, <3>2, Stutter
  <2>3. CASE press_counter[j] + 1 = LongPressCounts
    <3>1. PhaseOf(j) = "pressed" /\ PhaseOf(j)' = "long"
      BY <1>2, <2>3 DEF TimerCallback, LongPressCounts, PhaseOf
    <3> QED
      BY <1>2, <2>1, <2>3, <3>1, Published
      DEF TimerCallback, Grammar!Types, Grammar!Before, Grammar!After
  <2>4. CASE press_counter[j] + 1 > LongPressCounts
    <3>1. PhaseOf(j) = "long" /\ PhaseOf(j)' = "long"
      BY <1>2, <2>4 DEF TimerCallback, LongPressCounts, PhaseOf
    <3> QED
      BY <1>2, <2>1, <2>4, <3>1, Published
      DEF TimerCallback, Grammar!Types, Grammar!Before, Grammar!After
  <2> QED BY <1>2, <2>2, <2>3, <2>4 DEF LongPressCounts
<1>3. CASE ScanQuiet
  <2>1. \A k \in PinKeys : PhaseOf(k)' = PhaseOf(k)
    BY <1>3, PhaseKept DEF ScanQuiet, Advance
  <2> QED BY <1>3, <2>1, Stutter DEF ScanQuiet
<1>4. CASE ScanPress
  <2>1. \A k \in PinKeys \ {at} : PhaseOf(k)' = PhaseOf(k)
    BY <1>4, PhaseKept DEF ScanPress, Advance
  <2>2. PhaseOf(at) = "up"
    BY <1>4 DEF ScanPress, PhaseOf
  <2>3. press_counter[at] = 0
    BY <1>4 DEF ScanPress, LongPressCounts
  <2>4. \A k \in PinKeys : k = at => PhaseOf(k)' = "pressed"
    BY <1>4, <2>3 DEF ScanPress, Advance, PhaseOf, LongPressCounts
  <2> QED
    BY <1>4, <2>1, <2>2, <2>4, Published
    DEF ScanPress, Grammar!Types, Grammar!Before, Grammar!After
<1>5. CASE ScanRelease
  <2>1. \A k \in PinKeys : PhaseOf(k)' = PhaseOf(k)
    BY <1>5 DEF ScanRelease, PhaseOf
  <2> QED BY <1>5, <2>1, Stutter DEF ScanRelease
<1>6. CASE TimerStopped
  <2>1. \A k \in PinKeys \ {at} : PhaseOf(k)' = PhaseOf(k)
    BY <1>6, PhaseKept DEF TimerStopped
  <2>2. CASE press_counter[at] < LongPressCounts
    <3>1. PhaseOf(at) \in {"pressed", "boot"} /\ PhaseOf(at)' = "short"
      BY <1>6, <2>2 DEF TimerStopped, PhaseOf, LongPressCounts
    <3> QED
      BY <1>6, <2>1, <2>2, <3>1, Published
      DEF TimerStopped, Grammar!Types, Grammar!Before, Grammar!After
  <2>3. CASE ~(press_counter[at] < LongPressCounts)
    <3>1. PhaseOf(at)' = PhaseOf(at)
      BY <1>6, <2>3 DEF TimerStopped, PhaseOf, LongPressCounts
    <3>2. at' = at
      BY <1>6 DEF TimerStopped
    <3> QED BY <1>6, <2>1, <2>3, <3>1, <3>2, Stutter DEF TimerStopped
  <2> QED BY <2>2, <2>3
<1>7. CASE Release
  <2>1. \A k \in PinKeys \ {at} : PhaseOf(k)' = PhaseOf(k)
    BY <1>7, PhaseKept DEF Release, Advance
  <2>2. PhaseOf(at) \in {"long", "short"}
    BY <1>7 DEF Release, PhaseOf
  <2>3. \A k \in PinKeys : k = at => PhaseOf(k)' = "up"
    BY <1>7 DEF Release, Advance, PhaseOf
  <2> QED
    BY <1>7, <2>1, <2>2, <2>3, Published
    DEF Release, Grammar!Types, Grammar!Before, Grammar!After
<1>8. CASE NextScan
  <2>1. \A k \in PinKeys : PhaseOf(k)' = PhaseOf(k)
    BY <1>8, PhaseKept DEF NextScan
  <2> QED BY <1>8, <2>1, Stutter DEF NextScan
<1>9. CASE TimerCommands
  <2>1. \A k \in PinKeys : PhaseOf(k)' = PhaseOf(k)
    BY <1>9, PhaseKept DEF TimerCommands
  <2> QED BY <1>9, <2>1, Stutter DEF TimerCommands
<1>10. CASE UNCHANGED inputVars
  <2>1. \A k \in PinKeys : PhaseOf(k)' = PhaseOf(k)
    BY <1>10, PhaseKept DEF inputVars
  <2> QED BY <1>10, <2>1, Stutter DEF inputVars
<1> QED
  BY <1>1, <1>2, <1>3, <1>4, <1>5, <1>6, <1>7, <1>8, <1>9, <1>10 DEF InputNext, ServiceStep

(* The service implements KeySource: for any number of pins, whatever the  *)
(* pins, the scan and the timer task do, the published events of a key are *)
(* Press, then Short or Long Repeat*, then Release (the timer callback of  *)
(* input.c:40-55 against the scan of :112-171).                            *)
THEOREM KeysAsPromised ==
    InputSpec => ImplementsKeySource
<1>1. InputInit => Grammar!KeyInit
  <2> SUFFICES ASSUME InputInit PROVE Grammar!KeyInit
    OBVIOUS
  <2>1. \A k \in PinKeys : PhaseOf(k) \in {"up", "boot"}
    BY DEF InputInit, PhaseOf, LongPressCounts
  <2> QED BY <2>1 DEF InputInit, NoEvent, Grammar!KeyInit, Grammar!NoEvent
<1> QED
  BY <1>1, KeyStep, InputInvariance, PTL
  DEF InputSpec, ImplementsKeySource, Grammar!KeySpec

-----------------------------------------------------------------------------
(* The sleep of the service thread                                         *)

(* The pins the current scan has already read.                             *)
Scanned ==
    IF scan_pc = "wait" THEN PinKeys
    ELSE {k \in PinKeys : k < at \/ Releasing(k, {"stopping", "released"})}

(* A scanned pin has the level that is told, unless another scan is due.   *)
ScanInv ==
    /\ scan_pc = "wait" => at = 1
    /\ is_changing \/ isr_flag \/ \A k \in Scanned : state[k] = pin[k]

(* What is told of a key once nothing makes the thread scan again: a       *)
(* press is under way exactly if the pin is down.                          *)
SleepSettled ==
    scan_pc = "wait" /\ ~is_changing /\ ~isr_flag =>
        \A k \in PinKeys : state[k] = pin[k] /\ (PhaseOf(k) = "up") = ~pin[k]

(* A visit that leaves the pin told, or asks for another scan, keeps       *)
(* ScanInv when the scan goes on.                                          *)
LEMMA VisitKeeps ==
    ASSUME InputTypeOK, ScanInv, NEW c \in BOOLEAN, Advance(c),
           scan_pc # "wait", is_changing => c, UNCHANGED <<pin, isr_flag>>,
           c \/ isr_flag \/ state'[at] = pin[at],
           \A k \in PinKeys : k # at => state'[k] = state[k]
    PROVE  ScanInv'
<1>1. scan_pc' = "wait" => at' = 1
  BY DEF Advance
<1>2. ASSUME ~c, ~isr_flag, NEW k \in Scanned' PROVE state'[k] = pin[k]
  <2>1. k \in PinKeys /\ k <= at
    BY InputAssumption DEF Scanned, Releasing, Advance, InputTypeOK, PinKeys
  <2>2. CASE k = at
    BY <1>2, <2>2
  <2>3. CASE k # at
    BY <1>2, <2>1, <2>3, InputAssumption DEF ScanInv, Scanned, InputTypeOK, PinKeys
  <2> QED BY <2>2, <2>3
<1> QED BY <1>1, <1>2 DEF ScanInv, Advance

LEMMA ScanStep ==
    InputInv /\ ScanInv /\ [InputNext]_inputVars => ScanInv'
<1> SUFFICES ASSUME InputTypeOK, ScanInv, [InputNext]_inputVars PROVE ScanInv'
  BY DEF InputInv
<1>1. ASSUME NEW k \in PinKeys, PinChanges(k) PROVE ScanInv'
  BY <1>1 DEF PinChanges, ScanInv
<1>2. ASSUME NEW k \in PinKeys, TimerCallback(k) PROVE ScanInv'
  BY <1>2 DEF TimerCallback, ScanInv, Scanned, Releasing
<1>3. CASE ScanQuiet
  <2>1. (is_changing \/ ~IsStable(at)) \in BOOLEAN
    OBVIOUS
  <2>2. at \in PinKeys /\ (IsStable(at) => state[at] = pin[at])
    BY <1>3 DEF ScanQuiet, InputTypeOK
  <2> QED BY <1>3, <2>1, <2>2, VisitKeeps DEF ScanQuiet
<1>4. CASE ScanPress
  <2>1. state'[at] = pin[at] /\ \A k \in PinKeys : k # at => state'[k] = state[k]
    BY <1>4 DEF ScanPress, InputTypeOK
  <2> QED BY <1>4, <2>1, VisitKeeps DEF ScanPress, InputTypeOK
<1>5. CASE ScanRelease
  <2>1. state'[at] = pin[at] /\ \A k \in PinKeys : k # at => state'[k] = state[k]
    BY <1>5 DEF ScanRelease, InputTypeOK
  <2>2. scan_pc' = "stopping" /\ UNCHANGED <<pin, isr_flag, is_changing, at>>
    BY <1>5 DEF ScanRelease
  <2>3. \A k \in Scanned' : k = at \/ k \in Scanned
    BY <1>5, <2>2 DEF ScanRelease, Scanned, Releasing
  <2>4. \A k \in Scanned : k \in PinKeys
    BY DEF Scanned
  <2> QED BY <2>1, <2>2, <2>3, <2>4 DEF ScanInv
<1>6. CASE TimerStopped
  BY <1>6 DEF TimerStopped, ScanInv, Scanned, Releasing
<1>7. CASE Release
  <2>1. is_changing \/ isr_flag \/ state[at] = pin[at]
    BY <1>7 DEF Release, ScanInv, Scanned, Releasing, InputTypeOK
  <2> QED BY <1>7, <2>1, VisitKeeps DEF Release, InputTypeOK
<1>8. CASE NextScan
  <2>1. Scanned' = {}
    BY <1>8, InputAssumption DEF NextScan, ScanInv, Scanned, Releasing, PinKeys
  <2> QED BY <1>8, <2>1 DEF NextScan, ScanInv
<1>9. CASE TimerCommands
  BY <1>9 DEF TimerCommands, ScanInv, Scanned, Releasing
<1>10. CASE UNCHANGED inputVars
  BY <1>10 DEF inputVars, ScanInv, Scanned, Releasing
<1> QED
  BY <1>1, <1>2, <1>3, <1>4, <1>5, <1>6, <1>7, <1>8, <1>9, <1>10 DEF InputNext, ServiceStep

(* No edge is lost between the read of a pin and the sleep on the flag:    *)
(* when neither a bouncing pin nor the interrupt's flag makes the thread   *)
(* scan again, each key is told to be up or down as its pin is (the waits  *)
(* of input.c:176-186).  It is the safety half of LevelReported.           *)
THEOREM SleepsSettled ==
    InputSpec => []SleepSettled
<1>1. InputInit => ScanInv
  BY InputAssumption DEF InputInit, ScanInv, Scanned, Releasing, PinKeys
<1>2. InputInv /\ ScanInv => SleepSettled
  <2> SUFFICES ASSUME InputInv, ScanInv, scan_pc = "wait", ~is_changing, ~isr_flag,
                      NEW k \in PinKeys
               PROVE  state[k] = pin[k] /\ (PhaseOf(k) = "up") = ~pin[k]
    BY DEF SleepSettled
  <2>1. state[k] = pin[k]
    BY DEF ScanInv, Scanned
  <2>2. pin[k] \in BOOLEAN
    BY DEF InputInv, InputTypeOK
  <2>3. (PhaseOf(k) = "up") <=> ~pin[k]
    BY <2>1, <2>2 DEF PhaseOf
  <2> QED BY <2>1, <2>2, <2>3
<1> QED BY <1>1, <1>2, ScanStep, InputInvariance, PTL DEF InputSpec
=============================================================================
