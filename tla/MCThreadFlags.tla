---------------------------- MODULE MCThreadFlags ----------------------------
(* Instances of ThreadFlags for TLC.                                       *)
EXTENDS ThreadFlags

CONSTANTS a, b

Call(flags, all, no_clear, timeout) ==
    [flags |-> flags, all |-> all, no_clear |-> no_clear, timeout |-> timeout]

(* A service waits for any of all its flags (gui.c, rpc.c), with each kind *)
(* of timeout, or for all of them.                                         *)
ServiceWaits == {Call({a, b}, all, FALSE, t) : all \in BOOLEAN, t \in Timeouts}

(* Others wait for one flag of theirs as well (furi_hal_nfc_event.c:112),  *)
(* or look at one and leave it (js_thread.c:95).                           *)
SelectiveWaits == {Call({a}, FALSE, FALSE, "Finite"), Call({b}, FALSE, TRUE, "Zero")}

AllWaits == ServiceWaits \cup SelectiveWaits

(* One of the flags is cleared (gui.c:587), or both of them                *)
(* (loader_applications.c:144).                                            *)
AllClears == {{a}, {a, b}}
=============================================================================
