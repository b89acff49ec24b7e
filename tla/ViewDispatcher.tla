---------------------------- MODULE ViewDispatcher ----------------------------
(***************************************************************************)
(* The view dispatcher of an application (view_dispatcher.c): the callback *)
(* of its view port, called by the GUI thread as PortSource promises, puts *)
(* input events into the dispatcher's queue; the application's thread takes*)
(* them in its event loop and hands each to one view; its callbacks switch,*)
(* add and remove views and stop the dispatcher.  When the loop has        *)
(* stopped, view_dispatcher_run waits until every key it has seen pressed  *)
(* is released; the application removes its views and frees the dispatcher;*)
(* another application may start.                                          *)
(*                                                                         *)
(* The callbacks (input, custom event, tick, navigation) are the           *)
(* application's: each may end in any change of view or in a stop.  While  *)
(* the port's callback runs, the GUI thread holds gui->mutex.              *)
(***************************************************************************)
EXTENDS Naturals, Sequences

CONSTANTS
    NULL,
    Keys,               \* InputKey
    Rotation,           \* view_port_input_mapping of the vertical orientation
    QueueLen,           \* VIEW_DISPATCHER_QUEUE_LEN
    MaxBacklog,         \* bound: events given and not yet handled
    Views,
    Vertical            \* the views with vertical orientation

ASSUME ViewDispatcherAssumption ==
    /\ Rotation \in [Keys -> Keys]
    /\ \A j, k \in Keys : Rotation[j] = Rotation[k] => j = k
    /\ QueueLen \in Nat \ {0} /\ MaxBacklog \in Nat \ {0}
    /\ Views # {} /\ Vertical \subseteq Views /\ NULL \notin Views
    /\ NULL \notin [key : Keys, type : {"Press", "Other", "Release"}]

VARIABLES
    down, call,         \* the view port, as PortSource
    enabled,            \* the port is enabled
    rotated,            \* the orientation of the port is vertical
    input_queue,        \* view_dispatcher->input_queue
    pc,                 \* "off", "loop", "drain" or "returned"
    views,              \* the registered views
    current_view,
    ongoing_input,      \* view_dispatcher->ongoing_input
    ongoing_view,       \* view_dispatcher->ongoing_input_view
    stopping,           \* the Stop flag of the event loop
    held,               \* keys whose Press a view got and whose Release it has not
    sacrificed          \* the keys were rotated while input was under way

port_vars == <<down, call>>
view_vars == <<enabled, rotated, current_view, ongoing_input, stopping, sacrificed>>
vars == <<port_vars, view_vars, input_queue, pc, views, ongoing_view, held>>

Port == INSTANCE PortSource

Events == [key : Keys, type : Port!Types]

Init ==
    /\ Port!PortInit
    /\ enabled = FALSE /\ rotated = FALSE /\ input_queue = <<>>
    /\ pc = "off" /\ views = {} /\ current_view = NULL
    /\ ongoing_input = {} /\ ongoing_view = NULL /\ stopping = FALSE
    /\ held = [v \in Views |-> {}] /\ sacrificed = FALSE

GuiIsLocked == call # NULL

Backlog == Len(input_queue) + IF GuiIsLocked THEN 1 ELSE 0

-----------------------------------------------------------------------------
(* The GUI thread: a port that is disabled still gets what belongs to a    *)
(* press that began before.                                                *)
GiveEvent(k, type) ==
    /\ pc # "off" /\ Backlog < MaxBacklog
    /\ type = "Press" => enabled
    /\ Port!Give(k, type)
    /\ UNCHANGED <<view_vars, input_queue, pc, views, ongoing_view, held>>

(* view_port_map_input, and view_dispatcher_input_callback, which waits for*)
(* a place.                                                                *)
Mapped(e) == IF rotated THEN [e EXCEPT !.key = Rotation[@]] ELSE e

PutInput ==
    /\ Len(input_queue) < QueueLen
    /\ Port!Return
    /\ input_queue' = Append(input_queue, Mapped(call))
    /\ UNCHANGED <<view_vars, pc, views, ongoing_view, held>>

-----------------------------------------------------------------------------
(* view_dispatcher_alloc, add_view, attach_to_gui, and the switch to the   *)
(* first view; the port is attached disabled and enabled by the switch.    *)
Start(v) ==
    /\ pc = "off"
    /\ pc' = "loop" /\ views' = Views /\ current_view' = v
    /\ enabled' = TRUE /\ rotated' = (v \in Vertical)
    /\ UNCHANGED <<port_vars, input_queue, ongoing_input, ongoing_view, stopping, held,
                   sacrificed>>

InputIsUnderWay == ongoing_input # {} \/ down # {} \/ Backlog > 0

(* view_dispatcher_set_current_view: view_port_set_orientation waits for   *)
(* the port's mutex; a rotation forgets the keys that are held.            *)
SetCurrentView(v, keys) ==
    /\ current_view' = v
    /\ enabled' = (v # NULL)
    /\ stopping' = (stopping \/ v = NULL)
    /\ IF v # NULL /\ (v \in Vertical) # rotated
       THEN /\ ~GuiIsLocked
            /\ rotated' = ~rotated
            /\ ongoing_input' = {}
            /\ sacrificed' = (sacrificed \/ InputIsUnderWay)
       ELSE /\ ongoing_input' = keys
            /\ UNCHANGED <<rotated, sacrificed>>

(* How a callback of the application ends: the view stays, another one is  *)
(* switched to, VIEW_NONE is, or the dispatcher is stopped.                *)
CallbackEnds(keys) ==
    \/ /\ ongoing_input' = keys
       /\ stopping' \in {stopping, TRUE}
       /\ UNCHANGED <<current_view, enabled, rotated, sacrificed>>
    \/ \E v \in views \cup {NULL} : SetCurrentView(v, keys)

-----------------------------------------------------------------------------
(* view_dispatcher_handle_input.                                           *)
NowOngoing(e) == Port!Holding(ongoing_input, e)

IsDiscarded(e) == e.type \notin {"Press", "Release"} /\ e.key \notin ongoing_input

(* Mutant: every Press moves the input to the current view.                *)
NowOngoingView_EveryPress(e) ==
    IF e.type = "Press" THEN current_view ELSE ongoing_view

NowOngoingView(e) ==
    IF e.type = "Press" /\ NowOngoing(e) \subseteq {e.key} THEN current_view ELSE ongoing_view

Receiver(e) ==
    CASE current_view # NULL /\ NowOngoingView(e) = current_view -> current_view
      [] e.type = "Release"                                      -> NowOngoingView(e)
      [] OTHER                                                   -> NULL

(* The event loop reports the queue unless a stop is requested.            *)
HandleInput ==
    /\ pc = "loop" /\ ~stopping /\ input_queue # <<>>
    /\ input_queue' = Tail(input_queue)
    /\ LET e == Head(input_queue)
       IN \/ IsDiscarded(e) /\ UNCHANGED <<view_vars, ongoing_view, held>>
          \/ /\ ~IsDiscarded(e) /\ Receiver(e) = NULL
             /\ ongoing_view' = NowOngoingView(e)
             /\ ongoing_input' = NowOngoing(e)
             /\ UNCHANGED <<enabled, rotated, current_view, stopping, sacrificed, held>>
          \/ /\ ~IsDiscarded(e) /\ Receiver(e) # NULL
             /\ ongoing_view' = NowOngoingView(e)
             /\ held' = [held EXCEPT ![Receiver(e)] = Port!Holding(@, e)]
             /\ CallbackEnds(NowOngoing(e))
    /\ UNCHANGED <<port_vars, pc, views>>

(* A custom event or a tick.                                               *)
HandleEvent ==
    /\ pc = "loop" /\ ~stopping
    /\ CallbackEnds(ongoing_input)
    /\ UNCHANGED <<port_vars, input_queue, pc, views, ongoing_view, held>>

(* view_dispatcher_add_view, in a callback.                                *)
AddView(v) ==
    /\ pc = "loop" /\ v \notin views /\ ~GuiIsLocked
    /\ views' = views \cup {v}
    /\ UNCHANGED <<port_vars, view_vars, input_queue, pc, ongoing_view, held>>

ForgottenView(v) == IF ongoing_view = v THEN NULL ELSE ongoing_view

(* view_dispatcher_remove_view, in a callback or after the run.            *)
RemoveView(v) ==
    /\ pc \in {"loop", "returned"} /\ v \in views /\ ~GuiIsLocked
    /\ views' = views \ {v}
    /\ ongoing_view' = ForgottenView(v)
    /\ held' = [held EXCEPT ![v] = {}]
    /\ IF current_view = v THEN SetCurrentView(NULL, ongoing_input) ELSE UNCHANGED view_vars
    /\ UNCHANGED <<port_vars, input_queue, pc>>

-----------------------------------------------------------------------------
(* view_dispatcher_run after the loop: the views get no more events.       *)
LoopStops ==
    /\ pc = "loop" /\ stopping
    /\ pc' = "drain" /\ stopping' = FALSE
    /\ held' = [v \in Views |-> {}]
    /\ UNCHANGED <<port_vars, enabled, rotated, current_view, ongoing_input, sacrificed,
                   input_queue, views, ongoing_view>>

(* Mutant: only the events that are already there are taken.               *)
DrainInput_PressesOnly ==
    /\ pc = "drain" /\ ongoing_input # {} /\ input_queue # <<>>
    /\ LET e == Head(input_queue)
       IN ongoing_input' = IF e.type = "Press" THEN NowOngoing(e) ELSE ongoing_input
    /\ input_queue' = Tail(input_queue)
    /\ UNCHANGED <<port_vars, enabled, rotated, current_view, stopping, sacrificed, pc, views,
                   ongoing_view, held>>

DrainInput ==
    /\ pc = "drain" /\ ongoing_input # {} /\ input_queue # <<>>
    /\ ongoing_input' = NowOngoing(Head(input_queue))
    /\ input_queue' = Tail(input_queue)
    /\ UNCHANGED <<port_vars, enabled, rotated, current_view, stopping, sacrificed, pc, views,
                   ongoing_view, held>>

RunReturns ==
    /\ pc = "drain" /\ ongoing_input = {}
    /\ pc' = "returned"
    /\ UNCHANGED <<port_vars, view_vars, input_queue, views, ongoing_view, held>>

(* Mutant: the queue is freed while the port is still attached.            *)
Free_QueueFirst ==
    /\ pc = "returned" /\ views = {}
    /\ pc' = "off" /\ input_queue' = <<>>
    /\ enabled' = FALSE /\ rotated' = FALSE /\ stopping' = FALSE /\ sacrificed' = FALSE
    /\ UNCHANGED <<port_vars, current_view, ongoing_input, views, ongoing_view, held>>

(* view_dispatcher_free: gui_remove_view_port waits for gui->mutex, then   *)
(* the queues are freed.                                                   *)
Free ==
    /\ pc = "returned" /\ views = {}
    /\ Port!Detach
    /\ pc' = "off" /\ input_queue' = <<>>
    /\ enabled' = FALSE /\ rotated' = FALSE /\ stopping' = FALSE /\ sacrificed' = FALSE
    /\ UNCHANGED <<current_view, ongoing_input, views, ongoing_view, held>>

-----------------------------------------------------------------------------
AppThread == HandleInput \/ LoopStops \/ DrainInput \/ RunReturns

Next ==
    \/ \E k \in Keys, type \in Port!Types : GiveEvent(k, type)
    \/ PutInput
    \/ AppThread
    \/ \E v \in Views : Start(v) \/ AddView(v) \/ RemoveView(v)
    \/ HandleEvent
    \/ Free

Spec == Init /\ [][Next]_vars

(* The GUI thread and the application's thread are scheduled.  Nothing     *)
(* makes the user press or release, nor an application act or stop.        *)
FairSpec == Spec /\ WF_vars(PutInput) /\ WF_vars(AppThread)

-----------------------------------------------------------------------------
TypeOK ==
    /\ down \subseteq Keys /\ call \in Events \cup {NULL}
    /\ input_queue \in Seq(Events) /\ Len(input_queue) <= QueueLen
    /\ enabled \in BOOLEAN /\ rotated \in BOOLEAN
    /\ pc \in {"off", "loop", "drain", "returned"}
    /\ views \subseteq Views /\ current_view \in views \cup {NULL}
    /\ ongoing_input \subseteq Keys /\ ongoing_view \in Views \cup {NULL}
    /\ stopping \in BOOLEAN /\ sacrificed \in BOOLEAN
    /\ held \in [Views -> SUBSET Keys]

(* The GUI thread never puts an event into the queue of a dispatcher that  *)
(* has been freed: detaching the port waits for gui->mutex.                *)
PutFindsQueue == GuiIsLocked => pc # "off"

(* The view that was given the Press of a key is the one that will be given*)
(* its Release, whichever views are switched to meanwhile, unless the keys *)
(* were rotated while input was under way.                                 *)
PressStaysWithView ==
    pc = "loop" /\ ~sacrificed =>
        \A v \in Views :
            held[v] # {} => v = ongoing_view /\ held[v] \subseteq ongoing_input

(* A removed view, whose memory its owner frees, gets no later Release.    *)
OngoingViewRegistered == ongoing_view # NULL => ongoing_view \in views

(* Neither the GUI thread nor the event loop uses what the application has *)
(* freed: the queue, a view that has the input, the current view.          *)
DispatcherSound == TypeOK /\ PutFindsQueue /\ OngoingViewRegistered

(* view_dispatcher.c:125 "Wait till all input events delivered": the wait  *)
(* ends once the GUI has given the last Release, also those of a port that *)
(* was disabled by the stop.                                               *)
DrainEnds == <>[](down = {}) => (pc = "drain" ~> pc # "drain" \/ sacrificed)
=============================================================================
