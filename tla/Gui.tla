--------------------------------- MODULE Gui ---------------------------------
(***************************************************************************)
(* The GUI service (applications/services/gui/gui.c, view_port.c): input   *)
(* events, published by the input service and its timers, are queued for   *)
(* the GUI thread, which hands each to one view port.  The port that got   *)
(* the first Press keeps the input until all keys are up, whatever happens *)
(* to the layers meanwhile.                                                *)
(*                                                                         *)
(* A port's callback may wait (the view dispatcher's waits for a place in  *)
(* its queue) and does so with the GUI's mutex held; all other sections    *)
(* under the mutex are single steps.  Drawing is reduced to the flag that  *)
(* asks for it and to how the GUI thread clears that flag.                 *)
(***************************************************************************)
EXTENDS Naturals, Sequences, SequencesExt, FiniteSets

CONSTANTS
    NULL,
    Keys,               \* InputKey
    Desktop,            \* the port of the desktop, which is always there
    App,                \* the port of an application
    Others,             \* the ports of other services
    LayerOf,            \* the layer each port is added to
    QueueLen            \* length of gui->input_queue

Ports == {Desktop, App} \cup Others

Layers == {"Desktop", "Window", "Fullscreen"}

ASSUME GuiAssumption ==
    /\ LayerOf \in [Ports -> Layers] /\ LayerOf[Desktop] = "Desktop"
    /\ QueueLen \in Nat \ {0} /\ NULL \notin Ports

VARIABLES
    phase,              \* the keys, as KeySource
    announcing,         \* an event is queued and its flag not yet set
    input_queue,        \* gui->input_queue
    flags,              \* thread flags of the GUI thread
    pc,                 \* where the GUI thread is
    taken,              \* the flags it works on
    queried,            \* the flags its clear has read
    ongoing_input,      \* gui->ongoing_input, a set of keys
    ongoing_port,       \* gui->ongoing_input_view_port
    layers,             \* gui->layers
    enabled,            \* view_port->is_enabled
    lockdown,           \* gui->lockdown, and not inhibited
    direct_draw,
    called,             \* the port whose callback runs, and its event
    held                \* keys whose Press a port got and whose Release it has not

key_vars == <<phase, announcing, input_queue>>
thread_vars == <<pc, taken, queried, called>>
input_vars == <<ongoing_input, ongoing_port, held>>
layer_vars == <<layers, enabled, lockdown, direct_draw>>
vars == <<key_vars, flags, thread_vars, input_vars, layer_vars>>

Source == INSTANCE KeySource WITH event <- NULL

Events == [key : Keys, type : Source!Types]

ASSUME NullAssumption ==
    /\ NULL \notin [port : Ports, event : Events]
    /\ NULL \notin [key : Keys, type : {"Press", "Release", "Other"}]

Init ==
    /\ phase \in [Keys -> {"up", "boot"}]
    /\ announcing = FALSE /\ input_queue = <<>>
    /\ flags = {} /\ pc = "wait" /\ taken = {} /\ queried = {}
    /\ ongoing_input = {} /\ ongoing_port = NULL
    /\ layers = [l \in Layers |-> IF l = "Desktop" THEN <<Desktop>> ELSE <<>>]
    /\ enabled = [p \in Ports |-> p = Desktop]
    /\ lockdown = FALSE /\ direct_draw = FALSE
    /\ called = NULL
    /\ held = [p \in Ports |-> {}]

IsAttached(p) == p \in ToSet(layers[LayerOf[p]])

(* The GUI thread is in a port's callback: it holds gui->mutex.            *)
GuiIsLocked == pc = "callback"

-----------------------------------------------------------------------------
(* gui_input_events_callback, called by the publisher of an input event:   *)
(* the event is queued, then the flag is set.                              *)
InputEvent(k, type) ==
    /\ ~announcing
    /\ Len(input_queue) < QueueLen
    /\ Source!Tell(k, type)
    /\ input_queue' = Append(input_queue, [key |-> k, type |-> type])
    /\ announcing' = TRUE
    /\ UNCHANGED <<flags, thread_vars, input_vars, layer_vars>>

SetInputFlag ==
    /\ announcing
    /\ announcing' = FALSE
    /\ flags' = flags \cup {"Input"}
    /\ UNCHANGED <<phase, input_queue, thread_vars, input_vars, layer_vars>>

(* gui_update: a redraw is requested.                                      *)
Updated == IF direct_draw THEN flags ELSE flags \cup {"Draw"}

-----------------------------------------------------------------------------
(* gui_input: which port gets the event.                                   *)
(* The enabled port that was added last.                                   *)
FindEnabled(l) ==
    LET list  == layers[l]
        found == {i \in DOMAIN list :
                    enabled[list[i]] /\ \A j \in (i + 1)..Len(list) : ~enabled[list[j]]}
    IN IF found = {} THEN NULL ELSE list[CHOOSE i \in found : TRUE]

TopPort ==
    IF lockdown \/ (FindEnabled("Fullscreen") = NULL /\ FindEnabled("Window") = NULL)
    THEN FindEnabled("Desktop")
    ELSE IF FindEnabled("Fullscreen") # NULL
         THEN FindEnabled("Fullscreen")
         ELSE FindEnabled("Window")

NowOngoing(e) ==
    CASE e.type = "Press"   -> ongoing_input \cup {e.key}
      [] e.type = "Release" -> ongoing_input \ {e.key}
      [] OTHER              -> ongoing_input

(* Mutant: every Press moves the input to the port on top.                 *)
NowOngoingPort_EveryPress(e) ==
    IF e.type = "Press" THEN TopPort ELSE ongoing_port

(* The first Press chooses the port.                                       *)
NowOngoingPort(e) ==
    IF e.type = "Press" /\ NowOngoing(e) \subseteq {e.key} THEN TopPort ELSE ongoing_port

(* A Release goes to the port that has the input, also when it is covered. *)
Receiver(e) ==
    CASE TopPort # NULL /\ TopPort = NowOngoingPort(e) -> TopPort
      [] e.type = "Release"                            -> NowOngoingPort(e)
      [] OTHER                                         -> NULL

IsDiscarded(e) == e.type \notin {"Press", "Release"} /\ e.key \notin ongoing_input

Stream == INSTANCE PortSource WITH down <- {}, call <- NULL

(* view_port_input: the callback of the receiver is called.                *)
Deliver(p, e) ==
    IF p = NULL
    THEN UNCHANGED <<held, pc, called>>
    ELSE /\ held' = [held EXCEPT ![p] = Stream!Holding(@, e)]
         /\ pc' = "callback"
         /\ called' = [port |-> p, event |-> e]

HandleInput ==
    /\ pc = "input" /\ input_queue # <<>>
    /\ input_queue' = Tail(input_queue)
    /\ LET e == Head(input_queue)
       IN \/ IsDiscarded(e) /\ UNCHANGED <<pc, called, input_vars>>
          \/ /\ ~IsDiscarded(e)
             /\ ongoing_input' = NowOngoing(e)
             /\ IF direct_draw /\ ongoing_port = NULL
                THEN UNCHANGED <<pc, called, ongoing_port, held>>
                ELSE ongoing_port' = NowOngoingPort(e) /\ Deliver(Receiver(e), e)
    /\ UNCHANGED <<phase, announcing, flags, taken, queried, layer_vars>>

CallbackReturns ==
    /\ pc = "callback"
    /\ called' = NULL /\ pc' = "input"
    /\ UNCHANGED <<key_vars, flags, taken, queried, input_vars, layer_vars>>

-----------------------------------------------------------------------------
(* gui_srv: the loop of the GUI thread.                                    *)
TakeFlags ==
    /\ pc = "wait" /\ flags # {}
    /\ taken' = flags /\ flags' = {}
    /\ pc' = IF "Input" \in flags THEN "input" ELSE "query"
    /\ UNCHANGED <<key_vars, queried, called, input_vars, layer_vars>>

QueueEmpty ==
    /\ pc = "input" /\ input_queue = <<>>
    /\ pc' = IF "Draw" \in taken THEN "query" ELSE "wait"
    /\ taken' = taken \cap {"Draw"}
    /\ UNCHANGED <<key_vars, flags, queried, called, input_vars, layer_vars>>

(* furi_thread_flags_clear(DRAW), a query and an overwrite, then the redraw*)
QueryFlags ==
    /\ pc = "query"
    /\ queried' = flags /\ pc' = "overwrite"
    /\ UNCHANGED <<key_vars, flags, taken, called, input_vars, layer_vars>>

OverwriteFlags ==
    /\ pc = "overwrite"
    /\ flags' = queried \ {"Draw"}
    /\ queried' = {} /\ taken' = {} /\ pc' = "wait"
    /\ UNCHANGED <<key_vars, called, input_vars, layer_vars>>

GuiThread ==
    TakeFlags \/ HandleInput \/ CallbackReturns \/ QueueEmpty \/ QueryFlags \/ OverwriteFlags

-----------------------------------------------------------------------------
(* The API, called by the threads that own the ports.                      *)
AddViewPort(p) ==
    /\ ~GuiIsLocked /\ ~IsAttached(p)
    /\ layers' = [layers EXCEPT ![LayerOf[p]] = Append(@, p)]
    /\ flags' = Updated
    /\ UNCHANGED <<key_vars, thread_vars, input_vars, enabled, lockdown, direct_draw>>

(* A port is in its layer once.                                            *)
Without(p) ==
    [layers EXCEPT ![LayerOf[p]] = RemoveAt(@, CHOOSE i \in DOMAIN @ : @[i] = p)]

(* Mutant: the port that has the input is forgotten only by the layers.    *)
RemoveViewPort_KeepsOngoing(p) ==
    /\ ~GuiIsLocked /\ IsAttached(p)
    /\ layers' = Without(p)
    /\ held' = [held EXCEPT ![p] = {}]
    /\ flags' = Updated
    /\ UNCHANGED <<key_vars, thread_vars, ongoing_input, ongoing_port, enabled, lockdown,
                   direct_draw>>

(* Mutant: the mutex is not taken.                                         *)
RemoveViewPort_NoLock(p) ==
    /\ IsAttached(p)
    /\ layers' = Without(p)
    /\ ongoing_port' = IF ongoing_port = p THEN NULL ELSE ongoing_port
    /\ held' = [held EXCEPT ![p] = {}]
    /\ flags' = Updated
    /\ UNCHANGED <<key_vars, thread_vars, ongoing_input, enabled, lockdown, direct_draw>>

RemoveViewPort(p) ==
    /\ ~GuiIsLocked /\ IsAttached(p)
    /\ layers' = Without(p)
    /\ ongoing_port' = IF ongoing_port = p THEN NULL ELSE ongoing_port
    /\ held' = [held EXCEPT ![p] = {}]
    /\ flags' = Updated
    /\ UNCHANGED <<key_vars, thread_vars, ongoing_input, enabled, lockdown, direct_draw>>

(* view_port_enabled_set waits two ticks for the port's mutex, no longer.  *)
ViewPortEnabledSet(p) ==
    /\ enabled' = [enabled EXCEPT ![p] = ~@]
    /\ flags' = IF IsAttached(p) THEN Updated ELSE flags
    /\ UNCHANGED <<key_vars, thread_vars, input_vars, layers, lockdown, direct_draw>>

SendToFront(p) ==
    /\ ~GuiIsLocked /\ IsAttached(p)
    /\ layers' = [Without(p) EXCEPT ![LayerOf[p]] = Append(@, p)]
    /\ flags' = Updated
    /\ UNCHANGED <<key_vars, thread_vars, input_vars, enabled, lockdown, direct_draw>>

SendToBack(p) ==
    /\ ~GuiIsLocked /\ IsAttached(p)
    /\ layers' = [Without(p) EXCEPT ![LayerOf[p]] = <<p>> \o @]
    /\ flags' = Updated
    /\ UNCHANGED <<key_vars, thread_vars, input_vars, enabled, lockdown, direct_draw>>

SetLockdown ==
    /\ ~GuiIsLocked
    /\ lockdown' = ~lockdown
    /\ flags' = Updated
    /\ UNCHANGED <<key_vars, thread_vars, input_vars, layers, enabled, direct_draw>>

DirectDrawAcquire ==
    /\ ~GuiIsLocked /\ ~direct_draw
    /\ direct_draw' = TRUE
    /\ UNCHANGED <<key_vars, flags, thread_vars, input_vars, layers, enabled, lockdown>>

DirectDrawRelease ==
    /\ ~GuiIsLocked /\ direct_draw
    /\ direct_draw' = FALSE
    /\ flags' = flags \cup {"Draw"}
    /\ UNCHANGED <<key_vars, thread_vars, input_vars, layers, enabled, lockdown>>

Next ==
    \/ \E k \in Keys, type \in Source!Types : InputEvent(k, type)
    \/ SetInputFlag
    \/ GuiThread
    \/ \E p \in Ports \ {Desktop} :
          \/ AddViewPort(p) \/ RemoveViewPort(p) \/ ViewPortEnabledSet(p)
          \/ SendToFront(p) \/ SendToBack(p)
    \/ SetLockdown \/ DirectDrawAcquire \/ DirectDrawRelease

Spec == Init /\ [][Next]_vars

-----------------------------------------------------------------------------
TypeOK ==
    /\ phase \in [Keys -> Source!Phases] /\ announcing \in BOOLEAN
    /\ input_queue \in Seq(Events) /\ Len(input_queue) <= QueueLen
    /\ flags \subseteq {"Input", "Draw"} /\ taken \subseteq {"Input", "Draw"}
    /\ queried \subseteq {"Input", "Draw"}
    /\ pc \in {"wait", "input", "callback", "query", "overwrite"}
    /\ called \in [port : Ports, event : Events] \cup {NULL}
    /\ (called = NULL) = (pc # "callback")
    /\ ongoing_input \subseteq Keys /\ ongoing_port \in Ports \cup {NULL}
    /\ held \in [Ports -> SUBSET Keys]
    /\ layers \in [Layers -> Seq(Ports)] /\ \A l \in Layers : IsInjective(layers[l])
    /\ enabled \in [Ports -> BOOLEAN] /\ lockdown \in BOOLEAN /\ direct_draw \in BOOLEAN

(* view_port.c:226: a port's callback is only called, and only runs, while *)
(* the port is attached; nor is input kept for a port that has been        *)
(* removed, whose memory its owner may have freed.                         *)
CallbackFindsPort ==
    /\ called # NULL => IsAttached(called.port)
    /\ ongoing_port # NULL => IsAttached(ongoing_port)

(* Whatever the owners of the ports do, the GUI thread uses none that has  *)
(* been removed.                                                           *)
GuiSound == TypeOK /\ CallbackFindsPort

(* The port that was given the Press of a key is the one that will be given*)
(* its Release, whatever has been added, removed, enabled, moved, locked   *)
(* or drawn directly since.                                                *)
PressStaysWithPort ==
    \A p \in Ports : held[p] # {} => p = ongoing_port /\ held[p] \subseteq ongoing_input

Kind(type) == IF type \in {"Press", "Release"} THEN type ELSE "Other"

CallOf(p) ==
    IF called = NULL \/ called.port # p
    THEN NULL
    ELSE [key |-> called.event.key, type |-> Kind(called.event.type)]

Promise == INSTANCE PortSource WITH down <- held[App], call <- CallOf(App)

(* Whatever happens to the layers, a port sees a stream of events as       *)
(* PortSource promises it.                                                 *)
ImplementsPortSource == Promise!PortSpec
=============================================================================
