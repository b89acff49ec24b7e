----------------------------- MODULE MCEventLoop -----------------------------
(* Instances of EventLoop for TLC.                                         *)
EXTENDS EventLoop, TLC

Event(d, e, o) == [dir |-> d, edge |-> e, once |-> o]

(* Levels in both directions, and edges: no one-shot subscription.         *)
RepeatedEvents ==
    {Event("In", FALSE, FALSE), Event("Out", FALSE, FALSE), Event("In", TRUE, FALSE)}

(* One-shot subscriptions too.                                             *)
OnceEvents == {Event("In", FALSE, FALSE), Event("In", TRUE, TRUE)}

(* Items are interchangeable heap addresses, objects interchangeable       *)
(* queues.                                                                 *)
Symmetry == Permutations(Items) \cup Permutations(Objects)
=============================================================================
