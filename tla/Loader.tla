------------------------------- MODULE Loader --------------------------------
(***************************************************************************)
(* The application loader, applications/services/loader: one service thread*)
(* serves a message queue of one place.  Its clients are the callers of the*)
(* API, the two panels it owns (the menu and the Applications browser, each*)
(* a thread that starts applications through the same queue and says when  *)
(* it closes) and the scrub thread of furi/core/thread.c, which reports the*)
(* end of the application's thread through the state callback.             *)
(*                                                                         *)
(* Grain of atomicity: the loader takes a message, handles it, and waits   *)
(* for a thread in separate steps; each client step is one put, one wake-up*)
(* or one flag.  The dialogs of failed starts only take time; the loading  *)
(* screen is left out.                                                     *)
(***************************************************************************)
EXTENDS Integers, Sequences

CONSTANTS Callers,          \* the threads that call the API
          LaunchQueueSize,  \* LOADER_QUEUE_MAX_SIZE
          NULL

Panels == {"menu", "applications"}
Names == {"App", "Applications"}

ASSUME LoaderAssumption ==
    /\ LaunchQueueSize \in Nat \ {0}
    /\ NULL \notin Callers \cup Panels
    /\ Callers \cap Panels = {}

VARIABLES
    app,           \* loader->app.thread: none, the magic value, or a thread
    insomniac,     \* loader->app.insomniac
    fap,           \* loader->app.fap is set
    insomnia,      \* furi_hal_power_insomnia_enter calls not yet paired
    launch_queue,  \* the number of records in loader->launch_queue
    queue,         \* loader->queue
    message, pc,   \* the message being handled, and where the loader is
    task,          \* the application's thread
    silent,        \* history: the last launches ended with the browser, without an event
    panel,         \* per panel: its thread; "none" is a NULL pointer
    subscribed,    \* the Applications thread watches the loader's events
    stop,          \* APPLICATION_STOP_EVENT of the Applications thread
    scrub_queue,   \* threads that have returned
    scrub,         \* the thread whose state callback the scrub thread calls
    waiting,       \* callers that wait for their api_lock
    holder         \* the caller that holds the loader's lock

appVars    == <<app, insomniac, fap, insomnia, task, silent>>
loaderVars == <<launch_queue, message, pc>>
panelVars  == <<panel, subscribed, stop>>
scrubVars  == <<scrub_queue, scrub>>
callerVars == <<waiting, holder>>
vars == <<appVars, loaderVars, queue, panelVars, scrubVars, callerVars>>

(* LoaderMessageType; Query stands for the messages that only read:        *)
(* IsLocked, Signal, GetApplicationName and GetApplicationLaunchPath.      *)
SyncTypes  == {"StartByName", "Lock", "Query", "EnqueueLaunch", "ClearLaunchQueue"}
AsyncTypes == {"StartDetached", "ShowMenu", "Unlock"}
CloseTypes == {"MenuClosed", "ApplicationsClosed", "AppClosed"}

Messages == [type : SyncTypes \cup AsyncTypes \cup CloseTypes,
             from : Callers \cup Panels \cup {NULL}, name : Names]
Message(type, from) == [type |-> type, from |-> from, name |-> "App"]
NoMessage == Message("Query", NULL)

PanelPcs == {"none", "open", "starting", "call", "watch", "leave", "closing", "returning",
             "returned", "stopped"}

TypeOK ==
    /\ app \in {"none", "locked", "internal", "external"}
    /\ insomniac \in BOOLEAN /\ fap \in BOOLEAN
    /\ insomnia \in 0..1
    /\ launch_queue \in 0..LaunchQueueSize
    /\ queue \in Seq(Messages) /\ Len(queue) <= 1
    /\ message \in Messages
    /\ pc \in {"get", "handle", "next", "join"}
    /\ task \in {"none", "running", "returned", "stopped"} /\ silent \in BOOLEAN
    /\ panel \in [Panels -> PanelPcs]
    /\ subscribed \in BOOLEAN /\ stop \in BOOLEAN
    /\ scrub_queue \in Seq(Panels \cup {"app"})
    /\ scrub \in {"idle", "app"}
    /\ waiting \subseteq Callers
    /\ holder \in Callers \cup {NULL}

(* loader_alloc                                                            *)
Init ==
    /\ app = "none" /\ insomniac = FALSE /\ fap = FALSE /\ insomnia = 0 /\ task = "none"
    /\ silent = FALSE
    /\ launch_queue = 0 /\ queue = <<>> /\ message = NoMessage /\ pc = "get"
    /\ panel = [p \in Panels |-> "none"] /\ subscribed = FALSE /\ stop = FALSE
    /\ scrub_queue = <<>> /\ scrub = "idle"
    /\ waiting = {} /\ holder = NULL

-----------------------------------------------------------------------------
(* The API                                                                 *)

(* furi_message_queue_put waits for the one place.                         *)
Put(m) == queue = <<>> /\ queue' = <<m>>

(* Callers keep within the launch queue: a push into a full one fails a    *)
(* furi_check.                                                             *)
LaunchRoom ==
    /\ launch_queue < LaunchQueueSize
    /\ message.type # "EnqueueLaunch"

(* loader_start, loader_lock, loader_enqueue_launch ...                    *)
CallSync(c, type, name) ==
    /\ c \notin waiting
    /\ type = "EnqueueLaunch" => LaunchRoom
    /\ Put([Message(type, c) EXCEPT !.name = name])
    /\ waiting' = waiting \cup {c}
    /\ UNCHANGED <<appVars, loaderVars, panelVars, scrubVars, holder>>

(* loader_start_detached_with_gui_error, loader_show_menu                  *)
CallAsync(c, type, name) ==
    /\ c \notin waiting
    /\ Put([Message(type, NULL) EXCEPT !.name = name])
    /\ UNCHANGED <<appVars, loaderVars, panelVars, scrubVars, callerVars>>

(* loader_unlock, by the caller whose loader_lock succeeded                *)
Unlock(c) ==
    /\ c \notin waiting /\ holder = c
    /\ Put(Message("Unlock", NULL))
    /\ holder' = NULL
    /\ UNCHANGED <<appVars, loaderVars, panelVars, scrubVars, waiting>>

-----------------------------------------------------------------------------
(* loader_srv: replies and events                                          *)

Get ==
    /\ pc = "get" /\ queue # <<>>
    /\ message' = queue[1] /\ queue' = <<>>
    /\ pc' = "handle"
    /\ UNCHANGED <<appVars, launch_queue, panelVars, scrubVars, callerVars>>

Handling(types) == pc = "handle" /\ message.type \in types
Done == pc' = "get" /\ message' = NoMessage

(* api_lock_unlock, if the message has a lock                              *)
ReplyCaller == waiting' = waiting \ {message.from}

(* The thread of a panel comes back from loader_start: the browser waits   *)
(* for the end of what it started.                                         *)
Answered(ok) ==
    IF message.from = NULL \/ message.from \in Callers
    THEN panel
    ELSE [panel EXCEPT ![message.from] =
             IF message.from = "menu" THEN "open" ELSE IF ok THEN "watch" ELSE "leave"]

(* loader_do_is_locked                                                     *)
Locked == app # "none"

(* loader_do_emit_queue_empty_event and loader_pubsub_callback             *)
EmitQueueEmpty == stop' = (stop \/ (subscribed /\ ~Locked))

-----------------------------------------------------------------------------
(* loader_do_start_by_name                                                 *)

(* loader_start_internal_app or loader_start_external_app, and             *)
(* loader_start_app_thread: a .fap is never insomnia safe.                 *)
StartsThread ==
    /\ \/ app' = "internal" /\ insomniac' \in BOOLEAN /\ UNCHANGED fap
       \/ app' = "external" /\ insomniac' = TRUE /\ fap' = TRUE
    /\ insomnia' = IF insomniac' THEN insomnia + 1 ELSE insomnia
    /\ task' = "running" /\ silent' = FALSE

(* No such application, or the .fap cannot be loaded or run: the one       *)
(* allocated for it is freed.                                              *)
StartFails == UNCHANGED appVars

Starting == Handling({"StartByName", "StartDetached"})

StartRefused ==
    /\ Starting /\ Locked
    /\ panel' = Answered(FALSE)
    /\ ReplyCaller /\ Done
    /\ UNCHANGED <<appVars, launch_queue, queue, subscribed, stop, scrubVars, holder>>

(* loader_do_applications_show                                             *)
StartApplications ==
    /\ Starting /\ ~Locked /\ message.name = "Applications"
    /\ panel' = [Answered(TRUE) EXCEPT !["applications"] = IF @ = "none" THEN "open" ELSE @]
    /\ ReplyCaller /\ Done
    /\ UNCHANGED <<appVars, launch_queue, queue, subscribed, stop, scrubVars, holder>>

StartApp ==
    /\ Starting /\ ~Locked /\ message.name = "App"
    /\ StartsThread
    /\ panel' = Answered(TRUE)
    /\ ReplyCaller /\ Done
    /\ UNCHANGED <<launch_queue, queue, subscribed, stop, scrubVars, holder>>

StartError ==
    /\ Starting /\ ~Locked /\ message.name = "App"
    /\ StartFails
    /\ EmitQueueEmpty
    /\ panel' = Answered(FALSE)
    /\ ReplyCaller /\ Done
    /\ UNCHANGED <<launch_queue, queue, subscribed, scrubVars, holder>>

-----------------------------------------------------------------------------
(* The other messages                                                      *)

ShowMenu ==
    /\ Handling({"ShowMenu"})
    /\ panel' = [panel EXCEPT !["menu"] = IF @ = "none" THEN "open" ELSE @]
    /\ Done
    /\ UNCHANGED <<appVars, launch_queue, queue, subscribed, stop, scrubVars, callerVars>>

Closing == IF message.type = "MenuClosed" THEN "menu" ELSE "applications"

(* loader_menu_free and loader_applications_free join the panel's thread.  *)
PanelClosed ==
    /\ Handling({"MenuClosed", "ApplicationsClosed"})
    /\ pc' = "join"
    /\ UNCHANGED <<appVars, launch_queue, message, queue, panelVars, scrubVars, callerVars>>

PanelJoined ==
    /\ pc = "join" /\ panel[Closing] = "stopped"
    /\ panel' = [panel EXCEPT ![Closing] = "none"]
    /\ Done
    /\ UNCHANGED <<appVars, launch_queue, queue, subscribed, stop, scrubVars, callerVars>>

(* Mutant: the lock is taken over a running application.                   *)
Lock_Unchecked ==
    /\ Handling({"Lock"})
    /\ app' = "locked" /\ holder' = message.from
    /\ ReplyCaller /\ Done
    /\ UNCHANGED <<insomniac, fap, insomnia, task, silent, launch_queue, queue, panelVars,
                   scrubVars>>

Lock ==
    /\ Handling({"Lock"})
    /\ IF Locked
       THEN UNCHANGED <<app, holder>>
       ELSE app' = "locked" /\ holder' = message.from
    /\ ReplyCaller /\ Done
    /\ UNCHANGED <<insomniac, fap, insomnia, task, silent, launch_queue, queue, panelVars,
                   scrubVars>>

DoUnlock ==
    /\ Handling({"Unlock"})
    /\ app' = "none"
    /\ Done
    /\ UNCHANGED <<insomniac, fap, insomnia, task, silent, launch_queue, queue, panelVars,
                   scrubVars, callerVars>>

Query ==
    /\ Handling({"Query"})
    /\ ReplyCaller /\ Done
    /\ UNCHANGED <<appVars, launch_queue, queue, panelVars, scrubVars, holder>>

EnqueueLaunch ==
    /\ Handling({"EnqueueLaunch"})
    /\ launch_queue' = launch_queue + 1
    /\ ReplyCaller /\ Done
    /\ UNCHANGED <<appVars, queue, panelVars, scrubVars, holder>>

ClearLaunchQueue ==
    /\ Handling({"ClearLaunchQueue"})
    /\ launch_queue' = 0
    /\ ReplyCaller /\ Done
    /\ UNCHANGED <<appVars, queue, panelVars, scrubVars, holder>>

-----------------------------------------------------------------------------
(* loader_do_app_closed and the deferred launches                          *)

(* Mutant: insomnia is left for faps only.                                 *)
AppClosed_StaysAwake ==
    /\ Handling({"AppClosed"}) /\ task = "stopped"
    /\ insomnia' = IF insomniac /\ fap THEN insomnia - 1 ELSE insomnia
    /\ app' = "none" /\ fap' = FALSE /\ task' = "none"
    /\ pc' = "next"
    /\ UNCHANGED <<insomniac, silent, launch_queue, message, queue, panelVars, scrubVars,
                   callerVars>>

AppClosed ==
    /\ Handling({"AppClosed"}) /\ task = "stopped"
    /\ insomnia' = IF insomniac THEN insomnia - 1 ELSE insomnia
    /\ app' = "none" /\ fap' = FALSE /\ task' = "none"
    /\ pc' = "next"
    /\ UNCHANGED <<insomniac, silent, launch_queue, message, queue, panelVars, scrubVars,
                   callerVars>>

LaunchNext ==
    /\ pc = "next" /\ launch_queue > 0
    /\ launch_queue' = launch_queue - 1
    /\ StartsThread
    /\ Done
    /\ UNCHANGED <<queue, panelVars, scrubVars, callerVars>>

(* A deferred launch of the browser succeeds without a thread (loader.c:703*)
(* and :815): the records left wait for the end of another application, and*)
(* no event is sent.                                                       *)
LaunchApplications ==
    /\ pc = "next" /\ launch_queue > 0
    /\ launch_queue' = launch_queue - 1
    /\ panel' = [panel EXCEPT !["applications"] = IF @ = "none" THEN "open" ELSE @]
    /\ silent' = TRUE
    /\ Done
    /\ UNCHANGED <<app, insomniac, fap, insomnia, task, queue, subscribed, stop, scrubVars,
                   callerVars>>

(* A launch that fails tries the next record.                              *)
LaunchFails ==
    /\ pc = "next" /\ launch_queue > 0
    /\ launch_queue' = launch_queue - 1
    /\ StartFails
    /\ UNCHANGED <<message, pc, queue, panelVars, scrubVars, callerVars>>

(* Mutant: the event is only sent if something was launched before.        *)
LaunchNone_Silent ==
    /\ pc = "next" /\ launch_queue = 0
    /\ Done
    /\ UNCHANGED <<appVars, launch_queue, queue, panelVars, scrubVars, callerVars>>

LaunchNone ==
    /\ pc = "next" /\ launch_queue = 0
    /\ EmitQueueEmpty
    /\ Done
    /\ UNCHANGED <<appVars, launch_queue, queue, panel, subscribed, scrubVars, callerVars>>

-----------------------------------------------------------------------------
(* The threads of the panels: the user selects, or closes.                 *)

PanelStep(p, from, to) == panel[p] = from /\ panel' = [panel EXCEPT ![p] = to]

(* loader_applications_start_app subscribes first.                         *)
PanelSelect(p) ==
    /\ PanelStep(p, "open", "starting")
    /\ subscribed' = (subscribed \/ p = "applications")
    /\ UNCHANGED <<appVars, loaderVars, queue, stop, scrubVars, callerVars>>

(* The browser starts files, the menu anything.                            *)
PanelStart(p, name) ==
    /\ p = "applications" => name = "App"
    /\ PanelStep(p, "starting", "call")
    /\ Put([Message("StartByName", p) EXCEPT !.name = name])
    /\ UNCHANGED <<appVars, loaderVars, subscribed, stop, scrubVars, callerVars>>

(* furi_thread_flags_wait                                                  *)
StopEvent ==
    /\ stop /\ PanelStep("applications", "watch", "leave")
    /\ stop' = FALSE
    /\ UNCHANGED <<appVars, loaderVars, queue, subscribed, scrubVars, callerVars>>

(* furi_pubsub_unsubscribe, furi_thread_flags_clear                        *)
Unsubscribe ==
    /\ PanelStep("applications", "leave", "open")
    /\ subscribed' = FALSE /\ stop' = FALSE
    /\ UNCHANGED <<appVars, loaderVars, queue, scrubVars, callerVars>>

PanelExit(p) ==
    /\ PanelStep(p, "open", "closing")
    /\ UNCHANGED <<appVars, loaderVars, queue, subscribed, stop, scrubVars, callerVars>>

(* loader_menu_closed_callback, loader_applications_closed_callback        *)
PanelClosedCallback(p) ==
    /\ PanelStep(p, "closing", "returning")
    /\ Put(Message(IF p = "menu" THEN "MenuClosed" ELSE "ApplicationsClosed", NULL))
    /\ UNCHANGED <<appVars, loaderVars, subscribed, stop, scrubVars, callerVars>>

PanelReturns(p) ==
    /\ PanelStep(p, "returning", "returned")
    /\ scrub_queue' = Append(scrub_queue, p)
    /\ UNCHANGED <<appVars, loaderVars, queue, subscribed, stop, scrub, callerVars>>

-----------------------------------------------------------------------------
(* The application and the scrub thread                                    *)

AppReturns ==
    /\ task = "running" /\ task' = "returned"
    /\ scrub_queue' = Append(scrub_queue, "app")
    /\ UNCHANGED <<app, insomniac, fap, insomnia, silent, loaderVars, queue, panelVars, scrub,
                   callerVars>>

(* furi_thread_scrub sets the state to Stopped; only the application has a *)
(* state callback.                                                         *)
Scrub ==
    /\ scrub = "idle" /\ scrub_queue # <<>>
    /\ scrub_queue' = Tail(scrub_queue)
    /\ IF Head(scrub_queue) = "app"
       THEN task' = "stopped" /\ scrub' = "app" /\ UNCHANGED panel
       ELSE PanelStep(Head(scrub_queue), "returned", "stopped") /\ UNCHANGED <<task, scrub>>
    /\ UNCHANGED <<app, insomniac, fap, insomnia, silent, loaderVars, queue, subscribed, stop,
                   callerVars>>

(* loader_thread_state_callback waits for a place in the loader's queue.   *)
StateCallback ==
    /\ scrub = "app" /\ scrub' = "idle"
    /\ Put(Message("AppClosed", NULL))
    /\ UNCHANGED <<appVars, loaderVars, panelVars, scrub_queue, callerVars>>

-----------------------------------------------------------------------------
CallerNext ==
    \E c \in Callers :
        \/ \E name \in Names : CallSync(c, "StartByName", name)
        \/ \E type \in SyncTypes \ {"StartByName"} : CallSync(c, type, "App")
        \/ \E name \in Names : CallAsync(c, "StartDetached", name)
        \/ CallAsync(c, "ShowMenu", "App")
        \/ Unlock(c)

LoaderNext ==
    \/ Get \/ StartRefused \/ StartApplications \/ StartApp \/ StartError
    \/ ShowMenu \/ PanelClosed \/ PanelJoined \/ Lock \/ DoUnlock \/ Query
    \/ EnqueueLaunch \/ ClearLaunchQueue
    \/ AppClosed \/ LaunchNext \/ LaunchApplications \/ LaunchFails \/ LaunchNone

(* What the thread of a panel does without its user                        *)
PanelNext(p) ==
    \/ \E name \in Names : PanelStart(p, name)
    \/ PanelClosedCallback(p) \/ PanelReturns(p)

UserNext == \E p \in Panels : PanelSelect(p) \/ PanelExit(p)

ScrubNext == Scrub \/ StateCallback

Next ==
    \/ CallerNext \/ LoaderNext \/ UserNext \/ StopEvent \/ Unsubscribe \/ AppReturns \/ ScrubNext
    \/ \E p \in Panels : PanelNext(p)

Spec == Init /\ [][Next]_vars

(* The threads are scheduled; users, callers and applications may wait     *)
(* forever.                                                                *)
Fairness ==
    /\ WF_vars(LoaderNext) /\ WF_vars(ScrubNext) /\ WF_vars(StopEvent \/ Unsubscribe)
    /\ \A p \in Panels : SF_vars(PanelNext(p))

FairSpec == Spec /\ Fairness

-----------------------------------------------------------------------------
(* Properties                                                              *)

Closes == (IF scrub = "app" THEN 1 ELSE 0)
          + (IF queue # <<>> /\ queue[1].type = "AppClosed" THEN 1 ELSE 0)
          + (IF Handling({"AppClosed"}) THEN 1 ELSE 0)

(* The loader knows of a thread exactly while there is one, whatever locks *)
(* and starts come in (loader.c:433, 594, 766), and its fap is the one of  *)
(* that thread (loader.c:845 decides by it how the thread is freed).       *)
AppIsTheThread ==
    /\ app \in {"internal", "external"} <=> task # "none"
    /\ fap <=> app = "external"

(* The end of an application is reported once, while its thread is still   *)
(* the loader's (furi_assert loader.c:831).                                *)
ClosedOnce == Closes = IF task = "stopped" THEN 1 ELSE 0

(* The furi_check of loader_do_unlock (loader.c:775) holds for callers that*)
(* unlock what they locked: nothing is started over a lock.                *)
UnlockFindsLock ==
    /\ holder # NULL => app = "locked"
    /\ Handling({"Unlock"}) \/ (queue # <<>> /\ queue[1].type = "Unlock") => app = "locked"

(* furi_hal_power_insomnia_enter and _exit are paired over every way an    *)
(* application can start and end.                                          *)
InsomniaPaired == insomnia = IF task # "none" /\ insomniac THEN 1 ELSE 0

(* Application end, lock and insomnia are kept in step over all the ways   *)
(* an application starts and ends while other messages are queued.         *)
LoaderSound == TypeOK /\ ClosedOnce /\ UnlockFindsLock /\ InsomniaPaired

(* The Applications browser is left waiting in one case only: without the  *)
(* event it waits for, an application runs or is being cleaned up, or the  *)
(* deferred launches ended with the browser itself (loader.c:703), after   *)
(* which no event comes until another application has run.                 *)
WatchEnds ==
    panel["applications"] = "watch" /\ ~stop => task # "none" \/ pc = "next" \/ silent

(* thread.h:332 "The thread callback function must return in order for the *)
(* FuriThread instance to become joinable": a panel's thread that has      *)
(* returned does become joinable.  This is violated, as section 6 of the   *)
(* README says.                                                            *)
ReturnedIsJoinable == \A p \in Panels : panel[p] = "returned" ~> panel[p] # "returned"
=============================================================================
