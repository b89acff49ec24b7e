------------------------------ MODULE PortSource ------------------------------
(***************************************************************************)
(* What the GUI promises to the input callback of one view port: calls one *)
(* at a time; between two Presses of a key there is its Release; and the   *)
(* port is detached only between calls, and then owes no Release.  A       *)
(* Release, Short, Long or Repeat may come without a Press: it may belong  *)
(* to a key that was pressed while another port was on top.                *)
(* Gui implements this promise; ViewDispatcher builds on it.               *)
(***************************************************************************)
CONSTANTS
    NULL,
    Keys

VARIABLES
    down,       \* the keys whose Press was given and whose Release was not
    call        \* the event the callback is called with, or NULL

(* Ports treat Short, Long and Repeat alike: "Other".                      *)
Types == {"Press", "Other", "Release"}

PortInit == down = {} /\ call = NULL

(* The keys that are down after an event.                                  *)
Holding(keys, e) ==
    CASE e.type = "Press"   -> keys \cup {e.key}
      [] e.type = "Release" -> keys \ {e.key}
      [] OTHER              -> keys

Give(k, type) ==
    /\ call = NULL
    /\ type = "Press" => k \notin down
    /\ call' = [key |-> k, type |-> type]
    /\ down' = Holding(down, call')

Return == call # NULL /\ call' = NULL /\ UNCHANGED down

Detach == call = NULL /\ down' = {} /\ UNCHANGED call

PortNext == (\E k \in Keys, type \in Types : Give(k, type)) \/ Return \/ Detach

PortSpec == PortInit /\ [][PortNext]_<<down, call>>
=============================================================================
