------------------------------ MODULE KeySource ------------------------------
(***************************************************************************)
(* What the input service promises to the subscribers of its event pubsub: *)
(* for each key, a Press, then either one Short or one Long followed by    *)
(* any number of Repeats, then a Release.  A key that is already held when *)
(* the service starts has no Press: its first events are Short, Release.   *)
(* Input implements this promise; Gui builds on it.                        *)
(***************************************************************************)
CONSTANTS
    Keys        \* InputKey: the keys of the device

VARIABLES
    phase,      \* phase[k]: how far the current press of k has been told
    event       \* the event published last

Types == {"Press", "Short", "Long", "Repeat", "Release"}

Phases == {"up", "boot", "pressed", "long", "short"}

NoEvent == [key |-> 0, type |-> "none"]

KeyInit == phase \in [Keys -> {"up", "boot"}] /\ event = NoEvent

(* The phases in which an event of this type may be published, and the     *)
(* phase that it begins.                                                   *)
Before(type) ==
    CASE type = "Press"   -> {"up"}
      [] type = "Short"   -> {"pressed", "boot"}
      [] type = "Long"    -> {"pressed"}
      [] type = "Repeat"  -> {"long"}
      [] type = "Release" -> {"short", "long"}

After(type) ==
    CASE type = "Press"   -> "pressed"
      [] type = "Short"   -> "short"
      [] type = "Long"    -> "long"
      [] type = "Repeat"  -> "long"
      [] type = "Release" -> "up"

(* An event of key k is told to the subscribers.                           *)
Tell(k, type) ==
    /\ phase[k] \in Before(type)
    /\ phase' = [phase EXCEPT ![k] = After(type)]

Publish(k, type) == Tell(k, type) /\ event' = [key |-> k, type |-> type]

KeyNext == \E k \in Keys, type \in Types : Publish(k, type)

KeySpec == KeyInit /\ [][KeyNext]_<<phase, event>>
=============================================================================
