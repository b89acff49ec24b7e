-------------------------- MODULE MCViewDispatcher --------------------------
(* Instances of ViewDispatcher for TLC.                                    *)
EXTENDS ViewDispatcher

(* Two keys, which a rotation exchanges.                                   *)
TwoKeys == {1, 2}
Exchanged == [k \in TwoKeys |-> 3 - k]
=============================================================================
