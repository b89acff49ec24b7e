----------------------------- MODULE LoaderProofs -----------------------------
(***************************************************************************)
(* Proofs about Loader, for any callers and length of the launch queue: the*)
(* loader's idea of the application, its lock, its insomnia and the report *)
(* of the application's end stay in step with the application's thread, and*)
(* the Applications browser is left waiting only by a deferred launch of   *)
(* itself.  Each argument is about the one message in the queue and the one*)
(* being handled, which exclude each other in ways that MessageInv and     *)
(* PanelInv state.                                                         *)
(***************************************************************************)
EXTENDS Loader, TLAPS

(* The message in the queue.                                               *)
Sent == IF queue = <<>> THEN NoMessage ELSE queue[1]

(* Callers take the lock, the browser only starts files, and there is room *)
(* for the launch that is under way.  At most one unlock is under way, by  *)
(* the caller that had the lock.                                           *)
MessageInv ==
    /\ pc = "get" => message = NoMessage
    /\ \A m \in {message, Sent} : /\ m.type = "Lock" => m.from \in Callers
                                  /\ m.from = "applications" => m.name = "App"
    /\ ~(message.type = "EnqueueLaunch" /\ Sent.type = "EnqueueLaunch")
    /\ "EnqueueLaunch" \in {message.type, Sent.type} => launch_queue < LaunchQueueSize
    /\ Handling({"Unlock"}) => Sent.type # "Unlock"
    /\ holder # NULL => ~Handling({"Unlock"}) /\ Sent.type # "Unlock"

(* The scrub thread meets the application's thread once, after its return; *)
(* and the deferred launches start with no application.                    *)
TaskInv ==
    /\ \A i \in DOMAIN scrub_queue :
         scrub_queue[i] = "app" =>
            /\ task = "returned"
            /\ \A j \in DOMAIN scrub_queue : scrub_queue[j] = "app" => j = i
    /\ pc = "next" => task = "none" /\ app = "none"

(* A panel's thread waits in loader_start for the one message it has sent, *)
(* and the browser watches the events from before it sends it.             *)
PanelInv ==
    /\ \A p \in Panels : p \in {message.from, Sent.from} => panel[p] = "call"
    /\ \A p \in Panels : ~(message.from = p /\ Sent.from = p)
    /\ panel["applications"] \in {"starting", "call", "watch", "leave"} => subscribed

IInv ==
    /\ LoaderSound /\ AppIsTheThread /\ WatchEnds
    /\ MessageInv /\ TaskInv /\ PanelInv

-----------------------------------------------------------------------------
(* The queue                                                               *)

LEMMA SentPut == ASSUME NEW m, Put(m) PROVE Sent = NoMessage /\ Sent' = m
<1>1. queue = <<>> /\ queue' = <<m>>
  BY DEF Put
<1>2. <<m>> # <<>> /\ <<m>>[1] = m
  OBVIOUS
<1> QED BY <1>1, <1>2 DEF Sent

LEMMA SentKept == UNCHANGED queue => Sent' = Sent
  BY DEF Sent

LEMMA SentTaken == Get => message' = Sent /\ Sent' = NoMessage
  BY DEF Get, Sent, NoMessage, Message

(* The calls of the API.                                                   *)
LEMMA CallerCases ==
    CallerNext =>
      \E c \in Callers :
         \/ \E type \in SyncTypes, name \in Names : CallSync(c, type, name)
         \/ \E type \in {"StartDetached", "ShowMenu"}, name \in Names : CallAsync(c, type, name)
         \/ Unlock(c)
  BY DEF CallerNext, SyncTypes, Names

(* The types of what is put.                                               *)
LEMMA PutType ==
    ASSUME NEW m \in Messages, Put(m)
    PROVE  queue' \in Seq(Messages) /\ Len(queue') <= 1
  BY DEF Put

LEMMA MessageType ==
    ASSUME NEW type \in SyncTypes \cup AsyncTypes \cup CloseTypes,
           NEW from \in Callers \cup Panels \cup {NULL}, NEW name \in Names
    PROVE  /\ Message(type, from) \in Messages
           /\ [Message(type, from) EXCEPT !.name = name] \in Messages
  BY DEF Message, Messages, Names

LEMMA SentType ==
    ASSUME TypeOK
    PROVE  Sent \in Messages /\ NoMessage \in Messages
<1>1. NoMessage \in Messages
  BY DEF NoMessage, Message, Messages, SyncTypes, Names
<1>2. queue # <<>> => queue[1] \in Messages
  BY DEF TypeOK
<1> QED BY <1>1, <1>2 DEF Sent

(* The threads of the panels, when a message is answered.                  *)
LEMMA AnsweredLemma ==
    ASSUME TypeOK, NEW ok \in BOOLEAN
    PROVE  /\ Answered(ok) \in [Panels -> PanelPcs]
           /\ \A p \in Panels : message.from # p => Answered(ok)[p] = panel[p]
           /\ message.from = "applications" =>
                Answered(ok)["applications"] = IF ok THEN "watch" ELSE "leave"
<1>1. message.from \in Callers \cup Panels \cup {NULL}
  BY DEF TypeOK, Messages
<1>2. panel \in [Panels -> PanelPcs]
  BY DEF TypeOK
<1>3. CASE message.from \in Panels
  <2>1. message.from # NULL /\ message.from \notin Callers
    BY <1>3, LoaderAssumption
  <2> QED BY <1>2, <1>3, <2>1 DEF Answered, PanelPcs, Panels
<1>4. CASE message.from \notin Panels
  BY <1>1, <1>2, <1>4 DEF Answered, Panels
<1> QED BY <1>3, <1>4

LEMMA StartsLemma ==
    ASSUME TypeOK, StartsThread, insomnia = 0
    PROVE  /\ insomnia' \in 0..1 /\ app' \in {"internal", "external"}
           /\ insomniac' \in BOOLEAN /\ fap' \in BOOLEAN /\ task' = "running" /\ silent' \in BOOLEAN
<1>1. insomnia' = 0 \/ insomnia' = 1
  BY DEF StartsThread
<1>2. insomnia' \in 0..1
  BY <1>1
<1> QED BY <1>2 DEF StartsThread, TypeOK

-----------------------------------------------------------------------------
(* The invariant                                                           *)

LEMMA InitInv == Init => IInv
<1> SUFFICES ASSUME Init PROVE IInv
  OBVIOUS
<1>1. Sent = NoMessage /\ message = NoMessage
  BY DEF Init, Sent
<1>2. NoMessage \in Messages
  BY DEF NoMessage, Message, Messages, SyncTypes, Names
<1>3. queue \in Seq(Messages) /\ Len(queue) <= 1 /\ scrub_queue \in Seq(Panels \cup {"app"})
      /\ DOMAIN scrub_queue = {} /\ queue = <<>>
  BY DEF Init
<1>4. TypeOK
  <2>1. launch_queue \in 0..LaunchQueueSize /\ insomnia \in 0..1
    BY LoaderAssumption DEF Init
  <2>2. panel \in [Panels -> PanelPcs]
    BY DEF Init, PanelPcs
  <2>3. /\ app = "none" /\ insomniac = FALSE /\ fap = FALSE /\ pc = "get" /\ task = "none"
        /\ silent = FALSE
        /\ subscribed = FALSE /\ stop = FALSE /\ scrub = "idle" /\ waiting = {} /\ holder = NULL
    BY DEF Init
  <2> QED BY <1>1, <1>2, <1>3, <2>1, <2>2, <2>3 DEF TypeOK
<1>5. NoMessage.type = "Query" /\ NoMessage.from = NULL /\ NoMessage.name = "App"
  BY DEF NoMessage, Message
<1>6. LoaderSound
  BY <1>3, <1>4 DEF Init, LoaderSound, ClosedOnce, Closes, Handling, UnlockFindsLock, InsomniaPaired
<1>7. AppIsTheThread /\ WatchEnds /\ TaskInv
  BY <1>3 DEF Init, AppIsTheThread, WatchEnds, TaskInv, Panels
<1>8. MessageInv
  BY <1>1, <1>5, LoaderAssumption DEF Init, MessageInv, Handling
<1>9. PanelInv
  BY <1>1, <1>5, LoaderAssumption DEF Init, PanelInv, Panels
<1> QED BY <1>6, <1>7, <1>8, <1>9 DEF IInv

LEMMA TypeStep == IInv /\ [Next]_vars => TypeOK'
<1> SUFFICES ASSUME IInv, [Next]_vars PROVE TypeOK'
  OBVIOUS
<1>0. TypeOK
  BY DEF IInv, LoaderSound
<1> USE <1>0 DEF TypeOK, appVars, loaderVars, panelVars, scrubVars, callerVars
<1>1. ASSUME NEW c \in Callers, NEW type \in SyncTypes, NEW name \in Names, CallSync(c, type, name)
      PROVE  TypeOK'
  <2>1. [Message(type, c) EXCEPT !.name = name] \in Messages
    BY MessageType
  <2>2. queue' \in Seq(Messages) /\ Len(queue') <= 1
    BY <1>1, <2>1, PutType DEF CallSync
  <2> QED BY <1>1, <2>2 DEF CallSync
<1>2. ASSUME NEW c \in Callers, NEW type \in {"StartDetached", "ShowMenu"}, NEW name \in Names,
             CallAsync(c, type, name)
      PROVE  TypeOK'
  <2>1. [Message(type, NULL) EXCEPT !.name = name] \in Messages
    BY MessageType DEF AsyncTypes
  <2>2. queue' \in Seq(Messages) /\ Len(queue') <= 1
    BY <1>2, <2>1, PutType DEF CallAsync
  <2> QED BY <1>2, <2>2 DEF CallAsync
<1>3. ASSUME NEW c \in Callers, Unlock(c) PROVE TypeOK'
  <2>1. Message("Unlock", NULL) \in Messages
    BY MessageType DEF AsyncTypes, Names
  <2>2. queue' \in Seq(Messages) /\ Len(queue') <= 1
    BY <1>3, <2>1, PutType DEF Unlock
  <2> QED BY <1>3, <2>2 DEF Unlock
<1>4. ASSUME NEW p \in Panels, PanelSelect(p) PROVE TypeOK'
  BY <1>4 DEF PanelSelect, PanelStep, PanelPcs
<1>5. ASSUME NEW p \in Panels, PanelExit(p) PROVE TypeOK'
  BY <1>5 DEF PanelExit, PanelStep, PanelPcs
<1>6. ASSUME NEW p \in Panels, NEW name \in Names, PanelStart(p, name)
      PROVE  TypeOK'
  <2>1. [Message("StartByName", p) EXCEPT !.name = name] \in Messages
    BY MessageType DEF SyncTypes
  <2>2. queue' \in Seq(Messages) /\ Len(queue') <= 1
    BY <1>6, <2>1, PutType DEF PanelStart
  <2> QED BY <1>6, <2>2 DEF PanelStart, PanelStep, PanelPcs
<1>7. ASSUME NEW p \in Panels, PanelClosedCallback(p) PROVE TypeOK'
  <2>1. /\ Message("MenuClosed", NULL) \in Messages
        /\ Message("ApplicationsClosed", NULL) \in Messages
    BY MessageType DEF CloseTypes, Names
  <2>2. queue' \in Seq(Messages) /\ Len(queue') <= 1
    BY <1>7, <2>1, PutType DEF PanelClosedCallback
  <2> QED BY <1>7, <2>2 DEF PanelClosedCallback, PanelStep, PanelPcs
<1>8. ASSUME NEW p \in Panels, PanelReturns(p) PROVE TypeOK'
  <2>1. scrub_queue' \in Seq(Panels \cup {"app"})
    BY <1>8 DEF PanelReturns
  <2> QED BY <1>8, <2>1 DEF PanelReturns, PanelStep, PanelPcs
<1>9. CASE Get
  <2>1. queue' \in Seq(Messages) /\ Len(queue') <= 1
    BY <1>9 DEF Get
  <2>2. message' \in Messages
    BY <1>9, SentType, SentTaken
  <2> QED BY <1>9, <2>1, <2>2 DEF Get
<1>10. CASE StartRefused
  <2>1. panel' \in [Panels -> PanelPcs] /\ message' \in Messages
    BY <1>10, AnsweredLemma, SentType DEF StartRefused, Done, Panels, PanelPcs
  <2>2. waiting' \subseteq Callers /\ pc' = "get"
    BY <1>10 DEF StartRefused, Done, ReplyCaller
  <2>3. /\ UNCHANGED <<app, insomniac, fap, insomnia, task, silent>>
        /\ UNCHANGED <<launch_queue, queue, subscribed, stop, scrub, scrub_queue, holder>>
    BY <1>10 DEF StartRefused
  <2> QED BY <2>1, <2>2, <2>3
<1>11. CASE StartApplications
  <2>1. panel' \in [Panels -> PanelPcs] /\ message' \in Messages
    BY <1>11, AnsweredLemma, SentType DEF StartApplications, Done, Panels, PanelPcs
  <2>2. waiting' \subseteq Callers /\ pc' = "get"
    BY <1>11 DEF StartApplications, Done, ReplyCaller
  <2>3. /\ UNCHANGED <<app, insomniac, fap, insomnia, task, silent>>
        /\ UNCHANGED <<launch_queue, queue, subscribed, stop, scrub, scrub_queue, holder>>
    BY <1>11 DEF StartApplications
  <2> QED BY <2>1, <2>2, <2>3
<1>12. CASE StartApp
  <2>1. panel' \in [Panels -> PanelPcs] /\ message' \in Messages
    BY <1>12, AnsweredLemma, SentType DEF StartApp, Done, Panels, PanelPcs
  <2>2. insomnia = 0 /\ StartsThread
    BY <1>12 DEF StartApp, Locked, IInv, LoaderSound, InsomniaPaired, AppIsTheThread
  <2>3. /\ insomnia' \in 0..1 /\ app' \in {"internal", "external"}
        /\ insomniac' \in BOOLEAN /\ fap' \in BOOLEAN /\ task' = "running"
        /\ silent' \in BOOLEAN
    BY <2>2, StartsLemma
  <2> QED BY <1>12, <2>1, <2>3 DEF StartApp, Done, ReplyCaller
<1>13. CASE StartError
  <2>1. panel' \in [Panels -> PanelPcs] /\ message' \in Messages
    BY <1>13, AnsweredLemma, SentType DEF StartError, Done, Panels, PanelPcs
  <2>2. waiting' \subseteq Callers /\ pc' = "get"
    BY <1>13 DEF StartError, Done, ReplyCaller
  <2>3. /\ UNCHANGED <<app, insomniac, insomnia, task, silent>> /\ fap' \in BOOLEAN
        /\ UNCHANGED <<launch_queue, queue, subscribed, scrub, scrub_queue, holder>>
        /\ stop' \in BOOLEAN
    BY <1>13 DEF StartError, StartFails, EmitQueueEmpty
  <2> QED BY <2>1, <2>2, <2>3
<1>14. CASE ShowMenu
  <2>1. panel' \in [Panels -> PanelPcs]
    BY <1>14 DEF ShowMenu, Panels, PanelPcs
  <2> QED BY <1>14, <2>1, SentType DEF ShowMenu, Done
<1>15. CASE PanelClosed
  BY <1>15 DEF PanelClosed, Handling
<1>16. CASE PanelJoined
  <2>1. panel' \in [Panels -> PanelPcs]
    BY <1>16 DEF PanelJoined, Panels, PanelPcs
  <2> QED BY <1>16, <2>1, SentType DEF PanelJoined, Done
<1>17. CASE Lock
  <2>1. holder' \in Callers \cup {NULL}
    BY <1>17 DEF Lock, Handling, IInv, MessageInv
  <2> QED BY <1>17, <2>1, SentType DEF Lock, ReplyCaller, Done
<1>18. CASE DoUnlock
  BY <1>18, SentType DEF DoUnlock, Handling, Done
<1>19. CASE Query
  BY <1>19, SentType DEF Query, Handling, Done, ReplyCaller
<1>20. CASE EnqueueLaunch
  <2>1. message' \in Messages /\ launch_queue' \in 0..LaunchQueueSize
    BY <1>20, SentType, LoaderAssumption DEF EnqueueLaunch, Handling, Done, IInv, MessageInv
  <2> QED BY <1>20, <2>1 DEF EnqueueLaunch, ReplyCaller, Done
<1>21. CASE ClearLaunchQueue
  <2>1. message' \in Messages /\ launch_queue' \in 0..LaunchQueueSize
    BY <1>21, SentType, LoaderAssumption DEF ClearLaunchQueue, Done
  <2> QED BY <1>21, <2>1 DEF ClearLaunchQueue, ReplyCaller, Done
<1>22. CASE AppClosed
  <2>1. insomnia' \in 0..1
    BY <1>22 DEF AppClosed, IInv, LoaderSound, InsomniaPaired
  <2> QED BY <1>22, <2>1 DEF AppClosed
<1>23. CASE LaunchNext
  <2>1. message' \in Messages /\ launch_queue' \in 0..LaunchQueueSize
    BY <1>23, SentType, LoaderAssumption DEF LaunchNext, Done
  <2>2. insomnia = 0 /\ StartsThread
    BY <1>23 DEF LaunchNext, IInv, LoaderSound, InsomniaPaired, TaskInv
  <2>3. /\ insomnia' \in 0..1 /\ app' \in {"internal", "external"}
        /\ insomniac' \in BOOLEAN /\ fap' \in BOOLEAN /\ task' = "running"
        /\ silent' \in BOOLEAN
    BY <2>2, StartsLemma
  <2> QED BY <1>23, <2>1, <2>3 DEF LaunchNext, Done
<1>24. CASE LaunchFails
  <2>1. launch_queue' \in 0..LaunchQueueSize
    BY <1>24, LoaderAssumption DEF LaunchFails
  <2> QED BY <1>24, <2>1 DEF LaunchFails, StartFails
<1>25. CASE LaunchNone
  BY <1>25, SentType DEF LaunchNone, EmitQueueEmpty, Done
<1>26. CASE StopEvent
  <2>1. panel' \in [Panels -> PanelPcs]
    BY <1>26 DEF StopEvent, PanelStep, PanelPcs
  <2>2. /\ stop' \in BOOLEAN
        /\ UNCHANGED <<appVars, loaderVars, queue, subscribed, scrubVars, callerVars>>
    BY <1>26 DEF StopEvent
  <2> QED BY <2>1, <2>2
<1>27. CASE Unsubscribe
  <2>1. panel' \in [Panels -> PanelPcs]
    BY <1>27 DEF Unsubscribe, PanelStep, PanelPcs
  <2>2. /\ stop' \in BOOLEAN /\ subscribed' \in BOOLEAN
        /\ UNCHANGED <<appVars, loaderVars, queue, scrubVars, callerVars>>
    BY <1>27 DEF Unsubscribe
  <2> QED BY <2>1, <2>2
<1>28. CASE AppReturns
  <2>1. scrub_queue' \in Seq(Panels \cup {"app"})
    BY <1>28 DEF AppReturns
  <2> QED BY <1>28, <2>1 DEF AppReturns
<1>29. CASE Scrub
  <2>1. scrub_queue' \in Seq(Panels \cup {"app"})
    BY <1>29 DEF Scrub
  <2>2. panel' \in [Panels -> PanelPcs]
    BY <1>29 DEF Scrub, PanelStep, PanelPcs
  <2>3. task' \in {"none", "running", "returned", "stopped"} /\ scrub' \in {"idle", "app"}
    BY <1>29 DEF Scrub
  <2> QED BY <1>29, <2>1, <2>2, <2>3 DEF Scrub
<1>30. CASE StateCallback
  <2>1. Message("AppClosed", NULL) \in Messages
    BY MessageType DEF CloseTypes, Names
  <2>2. queue' \in Seq(Messages) /\ Len(queue') <= 1
    BY <1>30, <2>1, PutType DEF StateCallback
  <2> QED BY <1>30, <2>2 DEF StateCallback
<1>31. CASE UNCHANGED vars
  BY <1>31 DEF vars
<1>32. CASE LaunchApplications
  <2>1. launch_queue' \in 0..LaunchQueueSize
    BY <1>32, LoaderAssumption DEF LaunchApplications
  <2>2. panel' \in [Panels -> PanelPcs]
    BY <1>32 DEF LaunchApplications, Panels, PanelPcs
  <2> QED BY <1>32, <2>1, <2>2, SentType DEF LaunchApplications, Done
<1> QED
  BY <1>1, <1>2, <1>3, <1>4, <1>5, <1>6, <1>7, <1>8, <1>9, <1>10, <1>11, <1>12,
     <1>13, <1>14, <1>15, <1>16, <1>17, <1>18, <1>19, <1>20, <1>21, <1>22, <1>23, <1>24,
     <1>25, <1>26, <1>27, <1>28, <1>29, <1>30, <1>31, <1>32, CallerCases
  DEF Next, LoaderNext, UserNext, PanelNext, ScrubNext

(* An unlock in the queue.                                                 *)
LEMMA SentIsUnlock ==
    ASSUME NEW type, type # "Query"
    PROVE  (queue # <<>> /\ queue[1].type = type) <=> Sent.type = type
  BY DEF Sent, NoMessage, Message

LEMMA MessageStep == IInv /\ [Next]_vars => MessageInv'
<1> SUFFICES ASSUME IInv, [Next]_vars PROVE MessageInv'
  OBVIOUS
<1>0. /\ MessageInv /\ TypeOK
      /\ NoMessage.type = "Query" /\ NoMessage.from = NULL /\ NoMessage.name = "App"
      /\ LaunchQueueSize \in Nat \ {0} /\ launch_queue \in Nat
      /\ NULL \notin Callers \cup Panels /\ "applications" \notin Callers /\ NULL # "applications"
  BY LoaderAssumption DEF IInv, LoaderSound, TypeOK, NoMessage, Message, Panels
<1> USE <1>0 DEF MessageInv, Handling, appVars, loaderVars, panelVars, scrubVars, callerVars
<1>1. ASSUME NEW c \in Callers, NEW type \in SyncTypes, NEW name \in Names, CallSync(c, type, name)
      PROVE  MessageInv'
  <2>1. PICK m : m = [Message(type, c) EXCEPT !.name = name] /\ Put(m)
    BY <1>1 DEF CallSync
  <2>2. Sent = NoMessage /\ Sent' = m
    BY <2>1, SentPut
  <2>3. m.type = type /\ m.from = c /\ m.name = name
    BY <2>1 DEF Message
  <2> QED BY <1>1, <2>2, <2>3 DEF CallSync, LaunchRoom, SyncTypes
<1>2. ASSUME NEW c \in Callers, NEW type \in {"StartDetached", "ShowMenu"}, NEW name \in Names,
             CallAsync(c, type, name)
      PROVE  MessageInv'
  <2>1. PICK m : m = [Message(type, NULL) EXCEPT !.name = name] /\ Put(m)
    BY <1>2 DEF CallAsync
  <2>2. Sent = NoMessage /\ Sent' = m
    BY <2>1, SentPut
  <2>3. m.type = type /\ m.from = NULL /\ m.name = name
    BY <2>1 DEF Message
  <2> QED BY <1>2, <2>2, <2>3 DEF CallAsync
<1>3. ASSUME NEW c \in Callers, Unlock(c) PROVE MessageInv'
  <2>1. PICK m : m = Message("Unlock", NULL) /\ Put(m)
    BY <1>3 DEF Unlock
  <2>2. Sent = NoMessage /\ Sent' = m
    BY <2>1, SentPut
  <2>3. m.type = "Unlock" /\ m.from = NULL /\ m.name = "App"
    BY <2>1 DEF Message
  <2> QED BY <1>3, <2>2, <2>3 DEF Unlock
<1>4. ASSUME NEW p \in Panels, PanelSelect(p) PROVE MessageInv'
  BY <1>4, SentKept DEF PanelSelect, PanelStep
<1>5. ASSUME NEW p \in Panels, PanelExit(p) PROVE MessageInv'
  BY <1>5, SentKept DEF PanelExit, PanelStep
<1>6. ASSUME NEW p \in Panels, NEW name \in Names, PanelStart(p, name)
      PROVE  MessageInv'
  <2>1. PICK m : m = [Message("StartByName", p) EXCEPT !.name = name] /\ Put(m)
    BY <1>6 DEF PanelStart
  <2>2. Sent = NoMessage /\ Sent' = m
    BY <2>1, SentPut
  <2>3. m.type = "StartByName" /\ m.from = p /\ m.name = name
    BY <2>1 DEF Message
  <2> QED BY <1>6, <2>2, <2>3 DEF PanelStart, PanelStep
<1>7. ASSUME NEW p \in Panels, PanelClosedCallback(p) PROVE MessageInv'
  <2>1. PICK m : /\ m = Message(IF p = "menu" THEN "MenuClosed" ELSE "ApplicationsClosed", NULL)
                 /\ Put(m)
    BY <1>7 DEF PanelClosedCallback
  <2>2. Sent = NoMessage /\ Sent' = m
    BY <2>1, SentPut
  <2>3. m.type \in {"MenuClosed", "ApplicationsClosed"} /\ m.from = NULL /\ m.name = "App"
    BY <2>1 DEF Message
  <2> QED BY <1>7, <2>2, <2>3 DEF PanelClosedCallback, PanelStep
<1>8. ASSUME NEW p \in Panels, PanelReturns(p) PROVE MessageInv'
  BY <1>8, SentKept DEF PanelReturns, PanelStep
<1>9. CASE Get
  <2>1. /\ message = NoMessage /\ message' = Sent /\ Sent' = NoMessage
        /\ UNCHANGED <<launch_queue, holder>>
        /\ pc' = "handle"
    BY <1>9, SentTaken DEF Get
  <2> QED BY <2>1
<1>10. CASE StartRefused
  BY <1>10, SentKept DEF StartRefused, Starting, Handling, Done, ReplyCaller
<1>11. CASE StartApplications
  BY <1>11, SentKept DEF StartApplications, Starting, Handling, Done, ReplyCaller
<1>12. CASE StartApp
  BY <1>12, SentKept DEF StartApp, Starting, Handling, StartsThread, Done, ReplyCaller
<1>13. CASE StartError
  BY <1>13, SentKept DEF StartError, Starting, Handling, StartFails, EmitQueueEmpty,
              Done, ReplyCaller
<1>14. CASE ShowMenu
  BY <1>14, SentKept DEF ShowMenu, Handling, Done
<1>15. CASE PanelClosed
  BY <1>15, SentKept DEF PanelClosed, Handling
<1>16. CASE PanelJoined
  BY <1>16, SentKept DEF PanelJoined, Done
<1>17. CASE Lock
  <2>1. app = "none" => holder = NULL /\ Sent.type # "Unlock"
    BY SentIsUnlock DEF IInv, LoaderSound, UnlockFindsLock
  <2> QED BY <1>17, <2>1, SentKept DEF Lock, Locked, Handling, Done
<1>18. CASE DoUnlock
  BY <1>18, SentKept DEF DoUnlock, Handling, Done
<1>19. CASE Query
  BY <1>19, SentKept DEF Query, Handling, Done, ReplyCaller
<1>20. CASE EnqueueLaunch
  BY <1>20, SentKept DEF EnqueueLaunch, Handling, Done, ReplyCaller
<1>21. CASE ClearLaunchQueue
  BY <1>21, SentKept DEF ClearLaunchQueue, Handling, Done, ReplyCaller
<1>22. CASE AppClosed
  BY <1>22, SentKept DEF AppClosed, Handling
<1>23. CASE LaunchNext
  BY <1>23, SentKept DEF LaunchNext, StartsThread, Done
<1>24. CASE LaunchFails
  BY <1>24, SentKept DEF LaunchFails, StartFails
<1>25. CASE LaunchNone
  BY <1>25, SentKept DEF LaunchNone, EmitQueueEmpty, Done
<1>26. CASE StopEvent
  BY <1>26, SentKept DEF StopEvent, PanelStep
<1>27. CASE Unsubscribe
  BY <1>27, SentKept DEF Unsubscribe, PanelStep
<1>28. CASE AppReturns
  BY <1>28, SentKept DEF AppReturns
<1>29. CASE Scrub
  BY <1>29, SentKept DEF Scrub, PanelStep
<1>30. CASE StateCallback
  <2>1. PICK m : m = Message("AppClosed", NULL) /\ Put(m)
    BY <1>30 DEF StateCallback
  <2>2. Sent = NoMessage /\ Sent' = m
    BY <2>1, SentPut
  <2>3. m.type = "AppClosed" /\ m.from = NULL /\ m.name = "App"
    BY <2>1 DEF Message
  <2> QED BY <1>30, <2>2, <2>3 DEF StateCallback
<1>31. CASE UNCHANGED vars
  BY <1>31, SentKept DEF vars
<1>32. CASE LaunchApplications
  BY <1>32, SentKept DEF LaunchApplications, Done
<1> QED
  BY <1>1, <1>2, <1>3, <1>4, <1>5, <1>6, <1>7, <1>8, <1>9, <1>10, <1>11, <1>12,
     <1>13, <1>14, <1>15, <1>16, <1>17, <1>18, <1>19, <1>20, <1>21, <1>22, <1>23, <1>24,
     <1>25, <1>26, <1>27, <1>28, <1>29, <1>30, <1>31, <1>32, CallerCases
  DEF Next, LoaderNext, UserNext, PanelNext, ScrubNext

LEMMA TaskStep == IInv /\ [Next]_vars => TaskInv'
<1> SUFFICES ASSUME IInv, [Next]_vars PROVE TaskInv'
  OBVIOUS
<1>0. /\ TaskInv /\ scrub_queue \in Seq(Panels \cup {"app"}) /\ "app" \notin Panels
      /\ ClosedOnce /\ AppIsTheThread
  BY DEF IInv, LoaderSound, TypeOK, Panels
<1> USE <1>0 DEF TaskInv, appVars, loaderVars, panelVars, scrubVars, callerVars
<1>1. ASSUME NEW c \in Callers, NEW type \in SyncTypes, NEW name \in Names, CallSync(c, type, name)
      PROVE  TaskInv'
  BY <1>1 DEF CallSync, LaunchRoom, Message
<1>2. ASSUME NEW c \in Callers, NEW type \in {"StartDetached", "ShowMenu"}, NEW name \in Names,
             CallAsync(c, type, name)
      PROVE  TaskInv'
  BY <1>2 DEF CallAsync, Message
<1>3. ASSUME NEW c \in Callers, Unlock(c) PROVE TaskInv'
  BY <1>3 DEF Unlock, Message
<1>4. ASSUME NEW p \in Panels, PanelSelect(p) PROVE TaskInv'
  BY <1>4 DEF PanelSelect, PanelStep
<1>5. ASSUME NEW p \in Panels, PanelExit(p) PROVE TaskInv'
  BY <1>5 DEF PanelExit, PanelStep
<1>6. ASSUME NEW p \in Panels, NEW name \in Names, PanelStart(p, name)
      PROVE  TaskInv'
  BY <1>6 DEF PanelStart, PanelStep, Message
<1>7. ASSUME NEW p \in Panels, PanelClosedCallback(p) PROVE TaskInv'
  BY <1>7 DEF PanelClosedCallback, PanelStep, Message
<1>8. ASSUME NEW p \in Panels, PanelReturns(p) PROVE TaskInv'
  <2>1. UNCHANGED <<task, pc, app>> /\ scrub_queue' = Append(scrub_queue, p)
    BY <1>8 DEF PanelReturns
  <2>2. /\ Len(scrub_queue) \in Nat /\ DOMAIN scrub_queue = 1..Len(scrub_queue)
        /\ DOMAIN scrub_queue' = 1..(Len(scrub_queue) + 1)
        /\ scrub_queue'[Len(scrub_queue) + 1] = p
        /\ \A i \in 1..Len(scrub_queue) : scrub_queue'[i] = scrub_queue[i]
    BY <2>1
  <2>3. p # "app"
    OBVIOUS
  <2> QED BY <2>1, <2>2, <2>3
<1>9. CASE Get
  BY <1>9 DEF Get
<1>10. CASE StartRefused
  BY <1>10 DEF StartRefused, Starting, Handling, Done, ReplyCaller
<1>11. CASE StartApplications
  BY <1>11 DEF StartApplications, Starting, Handling, Done, ReplyCaller
<1>12. CASE StartApp
  <2>1. task = "none" /\ pc' = "get" /\ UNCHANGED scrub_queue
    BY <1>12 DEF StartApp, Locked, AppIsTheThread, Done
  <2> QED BY <2>1
<1>13. CASE StartError
  BY <1>13 DEF StartError, Starting, Handling, StartFails, EmitQueueEmpty,
              Done, ReplyCaller
<1>14. CASE ShowMenu
  BY <1>14 DEF ShowMenu, Handling, Done
<1>15. CASE PanelClosed
  BY <1>15 DEF PanelClosed, Handling
<1>16. CASE PanelJoined
  BY <1>16 DEF PanelJoined, Done
<1>17. CASE Lock
  BY <1>17 DEF Lock, Handling, Done, ReplyCaller
<1>18. CASE DoUnlock
  BY <1>18 DEF DoUnlock, Handling, Done
<1>19. CASE Query
  BY <1>19 DEF Query, Handling, Done, ReplyCaller
<1>20. CASE EnqueueLaunch
  BY <1>20 DEF EnqueueLaunch, Handling, Done, ReplyCaller
<1>21. CASE ClearLaunchQueue
  BY <1>21 DEF ClearLaunchQueue, Handling, Done, ReplyCaller
<1>22. CASE AppClosed
  <2>1. task = "stopped" /\ task' = "none" /\ app' = "none" /\ UNCHANGED scrub_queue
    BY <1>22 DEF AppClosed
  <2> QED BY <2>1
<1>23. CASE LaunchNext
  <2>1. task = "none" /\ pc' = "get" /\ UNCHANGED scrub_queue
    BY <1>23 DEF LaunchNext, Done
  <2> QED BY <2>1
<1>24. CASE LaunchFails
  BY <1>24 DEF LaunchFails, StartFails
<1>25. CASE LaunchNone
  BY <1>25 DEF LaunchNone, EmitQueueEmpty, Done
<1>26. CASE StopEvent
  BY <1>26 DEF StopEvent, PanelStep
<1>27. CASE Unsubscribe
  BY <1>27 DEF Unsubscribe, PanelStep
<1>28. CASE AppReturns
  <2>1. /\ task = "running" /\ task' = "returned" /\ UNCHANGED <<pc, app>>
        /\ scrub_queue' = Append(scrub_queue, "app")
    BY <1>28 DEF AppReturns
  <2>2. /\ Len(scrub_queue) \in Nat /\ DOMAIN scrub_queue = 1..Len(scrub_queue)
        /\ DOMAIN scrub_queue' = 1..(Len(scrub_queue) + 1)
        /\ \A i \in 1..Len(scrub_queue) : scrub_queue'[i] = scrub_queue[i]
    BY <2>1
  <2>3. \A i \in 1..Len(scrub_queue) : scrub_queue'[i] # "app"
    BY <2>1, <2>2
  <2> QED BY <2>1, <2>2, <2>3
<1>29. CASE Scrub
  <2>1. /\ scrub_queue # <<>> /\ scrub_queue' = Tail(scrub_queue) /\ UNCHANGED <<pc, app>>
        /\ task' = IF Head(scrub_queue) = "app" THEN "stopped" ELSE task
    BY <1>29 DEF Scrub
  <2>2. /\ Len(scrub_queue) \in Nat /\ Len(scrub_queue) > 0
        /\ DOMAIN scrub_queue = 1..Len(scrub_queue) /\ Head(scrub_queue) = scrub_queue[1]
        /\ DOMAIN scrub_queue' = 1..(Len(scrub_queue) - 1)
        /\ \A i \in 1..(Len(scrub_queue) - 1) : scrub_queue'[i] = scrub_queue[i + 1]
    BY <2>1
  <2>3. CASE scrub_queue[1] = "app"
    <3>1. task = "returned" /\ \A i \in 1..Len(scrub_queue) : scrub_queue[i] = "app" => i = 1
      BY <2>2, <2>3
    <3>2. \A i \in 1..(Len(scrub_queue) - 1) : scrub_queue'[i] # "app"
      BY <2>2, <3>1
    <3> QED BY <2>1, <2>2, <3>1, <3>2
  <2>4. CASE scrub_queue[1] # "app"
    <3>1. \A i \in DOMAIN scrub_queue' :
            i \in Nat /\ i + 1 \in DOMAIN scrub_queue /\ scrub_queue'[i] = scrub_queue[i + 1]
      BY <2>2
    <3>2. ASSUME NEW i \in DOMAIN scrub_queue', scrub_queue'[i] = "app"
          PROVE  /\ task = "returned"
                 /\ \A j \in DOMAIN scrub_queue' : scrub_queue'[j] = "app" => j = i
      <4>1. task = "returned"
        BY <3>1, <3>2
      <4>2. ASSUME NEW j \in DOMAIN scrub_queue', scrub_queue'[j] = "app" PROVE j = i
        <5>1. j + 1 = i + 1
          BY <3>1, <3>2, <4>2
        <5> QED BY <3>1, <5>1
      <4> QED BY <4>1, <4>2
    <3> QED BY <2>1, <2>2, <2>4, <3>2
  <2> QED BY <2>3, <2>4
<1>30. CASE StateCallback
  BY <1>30 DEF StateCallback, Message
<1>31. CASE UNCHANGED vars
  BY <1>31 DEF vars
<1>32. CASE LaunchApplications
  BY <1>32 DEF LaunchApplications, Done
<1> QED
  BY <1>1, <1>2, <1>3, <1>4, <1>5, <1>6, <1>7, <1>8, <1>9, <1>10, <1>11, <1>12,
     <1>13, <1>14, <1>15, <1>16, <1>17, <1>18, <1>19, <1>20, <1>21, <1>22, <1>23, <1>24,
     <1>25, <1>26, <1>27, <1>28, <1>29, <1>30, <1>31, <1>32, CallerCases
  DEF Next, LoaderNext, UserNext, PanelNext, ScrubNext

LEMMA AppStep == IInv /\ [Next]_vars => (AppIsTheThread /\ InsomniaPaired)'
<1> SUFFICES ASSUME IInv, [Next]_vars PROVE (AppIsTheThread /\ InsomniaPaired)'
  OBVIOUS
<1>0. /\ AppIsTheThread /\ InsomniaPaired /\ TypeOK
      /\ pc = "next" => task = "none" /\ app = "none"
  BY DEF IInv, LoaderSound, TaskInv
<1> USE <1>0 DEF AppIsTheThread, InsomniaPaired, appVars, loaderVars, panelVars, scrubVars,
             callerVars
<1>1. ASSUME NEW c \in Callers, NEW type \in SyncTypes, NEW name \in Names, CallSync(c, type, name)
      PROVE  (AppIsTheThread /\ InsomniaPaired)'
  BY <1>1 DEF CallSync, LaunchRoom, Message
<1>2. ASSUME NEW c \in Callers, NEW type \in {"StartDetached", "ShowMenu"}, NEW name \in Names,
             CallAsync(c, type, name)
      PROVE  (AppIsTheThread /\ InsomniaPaired)'
  BY <1>2 DEF CallAsync, Message
<1>3. ASSUME NEW c \in Callers, Unlock(c) PROVE (AppIsTheThread /\ InsomniaPaired)'
  BY <1>3 DEF Unlock, Message
<1>4. ASSUME NEW p \in Panels, PanelSelect(p) PROVE (AppIsTheThread /\ InsomniaPaired)'
  BY <1>4 DEF PanelSelect, PanelStep
<1>5. ASSUME NEW p \in Panels, PanelExit(p) PROVE (AppIsTheThread /\ InsomniaPaired)'
  BY <1>5 DEF PanelExit, PanelStep
<1>6. ASSUME NEW p \in Panels, NEW name \in Names, PanelStart(p, name)
      PROVE  (AppIsTheThread /\ InsomniaPaired)'
  BY <1>6 DEF PanelStart, PanelStep, Message
<1>7. ASSUME NEW p \in Panels, PanelClosedCallback(p) PROVE (AppIsTheThread /\ InsomniaPaired)'
  BY <1>7 DEF PanelClosedCallback, PanelStep, Message
<1>8. ASSUME NEW p \in Panels, PanelReturns(p) PROVE (AppIsTheThread /\ InsomniaPaired)'
  BY <1>8 DEF PanelReturns, PanelStep
<1>9. CASE Get
  BY <1>9 DEF Get
<1>10. CASE StartRefused
  BY <1>10 DEF StartRefused, Starting, Handling, Done, ReplyCaller
<1>11. CASE StartApplications
  BY <1>11 DEF StartApplications, Starting, Handling, Done, ReplyCaller
<1>12. CASE StartApp
  BY <1>12 DEF StartApp, Starting, Handling, StartsThread, Done, ReplyCaller, Locked
<1>13. CASE StartError
  BY <1>13 DEF StartError, Starting, Handling, StartFails, EmitQueueEmpty,
              Done, ReplyCaller
<1>14. CASE ShowMenu
  BY <1>14 DEF ShowMenu, Handling, Done
<1>15. CASE PanelClosed
  BY <1>15 DEF PanelClosed, Handling
<1>16. CASE PanelJoined
  BY <1>16 DEF PanelJoined, Done
<1>17. CASE Lock
  BY <1>17 DEF Lock, Handling, Done, ReplyCaller, Locked
<1>18. CASE DoUnlock
  <2>1. app = "locked"
    BY <1>18 DEF DoUnlock, IInv, LoaderSound, UnlockFindsLock
  <2> QED BY <1>18, <2>1 DEF DoUnlock, Done
<1>19. CASE Query
  BY <1>19 DEF Query, Handling, Done, ReplyCaller
<1>20. CASE EnqueueLaunch
  BY <1>20 DEF EnqueueLaunch, Handling, Done, ReplyCaller
<1>21. CASE ClearLaunchQueue
  BY <1>21 DEF ClearLaunchQueue, Handling, Done, ReplyCaller
<1>22. CASE AppClosed
  BY <1>22 DEF AppClosed, Handling
<1>23. CASE LaunchNext
  BY <1>23 DEF LaunchNext, StartsThread, Done
<1>24. CASE LaunchFails
  BY <1>24 DEF LaunchFails, StartFails
<1>25. CASE LaunchNone
  BY <1>25 DEF LaunchNone, EmitQueueEmpty, Done
<1>26. CASE StopEvent
  BY <1>26 DEF StopEvent, PanelStep
<1>27. CASE Unsubscribe
  BY <1>27 DEF Unsubscribe, PanelStep
<1>28. CASE AppReturns
  BY <1>28 DEF AppReturns
<1>29. CASE Scrub
  <2>1. Head(scrub_queue) = "app" => task = "returned"
    BY <1>29 DEF Scrub, IInv, TaskInv, TypeOK
  <2>2. task' # "none" <=> task # "none"
    BY <1>29, <2>1 DEF Scrub
  <2> QED BY <1>29, <2>2 DEF Scrub
<1>30. CASE StateCallback
  BY <1>30 DEF StateCallback, Message
<1>31. CASE UNCHANGED vars
  BY <1>31 DEF vars
<1>32. CASE LaunchApplications
  BY <1>32 DEF LaunchApplications, Done
<1> QED
  BY <1>1, <1>2, <1>3, <1>4, <1>5, <1>6, <1>7, <1>8, <1>9, <1>10, <1>11, <1>12,
     <1>13, <1>14, <1>15, <1>16, <1>17, <1>18, <1>19, <1>20, <1>21, <1>22, <1>23, <1>24,
     <1>25, <1>26, <1>27, <1>28, <1>29, <1>30, <1>31, <1>32, CallerCases
  DEF Next, LoaderNext, UserNext, PanelNext, ScrubNext

(* ClosedOnce, without the queue: at most one of the three has the report, *)
(* and one has it exactly when the thread has stopped.                     *)
Reported ==
    /\ ~(scrub = "app" /\ Sent.type = "AppClosed")
    /\ ~(scrub = "app" /\ Handling({"AppClosed"}))
    /\ ~(Sent.type = "AppClosed" /\ Handling({"AppClosed"}))
    /\ task = "stopped" <=> scrub = "app" \/ Sent.type = "AppClosed" \/ Handling({"AppClosed"})

LEMMA ReportedLemma == ClosedOnce <=> Reported
<1>1. (queue # <<>> /\ queue[1].type = "AppClosed") <=> Sent.type = "AppClosed"
  BY SentIsUnlock
<1> QED BY <1>1 DEF ClosedOnce, Closes, Reported

LEMMA ReportedStep == IInv /\ [Next]_vars => Reported'
<1> SUFFICES ASSUME IInv, [Next]_vars PROVE Reported'
  OBVIOUS
<1>0. /\ Reported /\ NoMessage.type = "Query" /\ NoMessage.from = NULL /\ NoMessage.name = "App"
      /\ scrub \in {"idle", "app"} /\ task \in {"none", "running", "returned", "stopped"}
      /\ pc = "get" => message = NoMessage
      /\ pc = "next" => task = "none"
  BY ReportedLemma DEF IInv, LoaderSound, TypeOK, NoMessage, Message, MessageInv, TaskInv
<1> USE <1>0 DEF Reported, Handling, appVars, loaderVars, panelVars, scrubVars, callerVars
<1>1. ASSUME NEW c \in Callers, NEW type \in SyncTypes, NEW name \in Names, CallSync(c, type, name)
      PROVE  Reported'
  <2>1. PICK m : m = [Message(type, c) EXCEPT !.name = name] /\ Put(m)
    BY <1>1 DEF CallSync
  <2>2. Sent = NoMessage /\ Sent' = m
    BY <2>1, SentPut
  <2>3. m.type = type /\ m.from = c /\ m.name = name
    BY <2>1 DEF Message
  <2> QED BY <1>1, <2>2, <2>3 DEF CallSync, LaunchRoom, SyncTypes
<1>2. ASSUME NEW c \in Callers, NEW type \in {"StartDetached", "ShowMenu"}, NEW name \in Names,
             CallAsync(c, type, name)
      PROVE  Reported'
  <2>1. PICK m : m = [Message(type, NULL) EXCEPT !.name = name] /\ Put(m)
    BY <1>2 DEF CallAsync
  <2>2. Sent = NoMessage /\ Sent' = m
    BY <2>1, SentPut
  <2>3. m.type = type /\ m.from = NULL /\ m.name = name
    BY <2>1 DEF Message
  <2> QED BY <1>2, <2>2, <2>3 DEF CallAsync
<1>3. ASSUME NEW c \in Callers, Unlock(c) PROVE Reported'
  <2>1. PICK m : m = Message("Unlock", NULL) /\ Put(m)
    BY <1>3 DEF Unlock
  <2>2. Sent = NoMessage /\ Sent' = m
    BY <2>1, SentPut
  <2>3. m.type = "Unlock" /\ m.from = NULL /\ m.name = "App"
    BY <2>1 DEF Message
  <2> QED BY <1>3, <2>2, <2>3 DEF Unlock
<1>4. ASSUME NEW p \in Panels, PanelSelect(p) PROVE Reported'
  BY <1>4, SentKept DEF PanelSelect, PanelStep
<1>5. ASSUME NEW p \in Panels, PanelExit(p) PROVE Reported'
  BY <1>5, SentKept DEF PanelExit, PanelStep
<1>6. ASSUME NEW p \in Panels, NEW name \in Names, PanelStart(p, name)
      PROVE  Reported'
  <2>1. PICK m : m = [Message("StartByName", p) EXCEPT !.name = name] /\ Put(m)
    BY <1>6 DEF PanelStart
  <2>2. Sent = NoMessage /\ Sent' = m
    BY <2>1, SentPut
  <2>3. m.type = "StartByName" /\ m.from = p /\ m.name = name
    BY <2>1 DEF Message
  <2> QED BY <1>6, <2>2, <2>3 DEF PanelStart, PanelStep
<1>7. ASSUME NEW p \in Panels, PanelClosedCallback(p) PROVE Reported'
  <2>1. PICK m : /\ m = Message(IF p = "menu" THEN "MenuClosed" ELSE "ApplicationsClosed", NULL)
                 /\ Put(m)
    BY <1>7 DEF PanelClosedCallback
  <2>2. Sent = NoMessage /\ Sent' = m
    BY <2>1, SentPut
  <2>3. m.type \in {"MenuClosed", "ApplicationsClosed"} /\ m.from = NULL /\ m.name = "App"
    BY <2>1 DEF Message
  <2> QED BY <1>7, <2>2, <2>3 DEF PanelClosedCallback, PanelStep
<1>8. ASSUME NEW p \in Panels, PanelReturns(p) PROVE Reported'
  BY <1>8, SentKept DEF PanelReturns, PanelStep
<1>9. CASE Get
  <2>1. message = NoMessage /\ message' = Sent /\ Sent' = NoMessage /\ UNCHANGED <<scrub, task>>
        /\ pc' = "handle" /\ pc = "get"
    BY <1>9, SentTaken DEF Get
  <2> QED BY <2>1
<1>10. CASE StartRefused
  BY <1>10, SentKept DEF StartRefused, Starting, Handling, Done, ReplyCaller
<1>11. CASE StartApplications
  BY <1>11, SentKept DEF StartApplications, Starting, Handling, Done, ReplyCaller
<1>12. CASE StartApp
  <2>1. task = "none" /\ task' = "running"
    BY <1>12 DEF StartApp, StartsThread, Locked, IInv, AppIsTheThread
  <2> QED BY <1>12, <2>1, SentKept DEF StartApp, Starting, Done
<1>13. CASE StartError
  BY <1>13, SentKept DEF StartError, Starting, Handling, StartFails, EmitQueueEmpty,
              Done, ReplyCaller
<1>14. CASE ShowMenu
  BY <1>14, SentKept DEF ShowMenu, Handling, Done
<1>15. CASE PanelClosed
  BY <1>15, SentKept DEF PanelClosed, Handling
<1>16. CASE PanelJoined
  BY <1>16, SentKept DEF PanelJoined, Done
<1>17. CASE Lock
  BY <1>17, SentKept DEF Lock, Handling, Done, ReplyCaller
<1>18. CASE DoUnlock
  BY <1>18, SentKept DEF DoUnlock, Handling, Done
<1>19. CASE Query
  BY <1>19, SentKept DEF Query, Handling, Done, ReplyCaller
<1>20. CASE EnqueueLaunch
  BY <1>20, SentKept DEF EnqueueLaunch, Handling, Done, ReplyCaller
<1>21. CASE ClearLaunchQueue
  BY <1>21, SentKept DEF ClearLaunchQueue, Handling, Done, ReplyCaller
<1>22. CASE AppClosed
  BY <1>22, SentKept DEF AppClosed, Handling
<1>23. CASE LaunchNext
  <2>1. task = "none" /\ task' = "running"
    BY <1>23 DEF LaunchNext, StartsThread
  <2> QED BY <1>23, <2>1, SentKept DEF LaunchNext, Done
<1>24. CASE LaunchFails
  BY <1>24, SentKept DEF LaunchFails, StartFails
<1>25. CASE LaunchNone
  BY <1>25, SentKept DEF LaunchNone, EmitQueueEmpty, Done
<1>26. CASE StopEvent
  BY <1>26, SentKept DEF StopEvent, PanelStep
<1>27. CASE Unsubscribe
  BY <1>27, SentKept DEF Unsubscribe, PanelStep
<1>28. CASE AppReturns
  BY <1>28, SentKept DEF AppReturns
<1>29. CASE Scrub
  <2>1. Head(scrub_queue) = "app" => task = "returned"
    BY <1>29 DEF Scrub, IInv, TaskInv, LoaderSound, TypeOK
  <2> QED BY <1>29, <2>1, SentKept DEF Scrub
<1>30. CASE StateCallback
  <2>1. PICK m : m = Message("AppClosed", NULL) /\ Put(m)
    BY <1>30 DEF StateCallback
  <2>2. Sent = NoMessage /\ Sent' = m
    BY <2>1, SentPut
  <2>3. m.type = "AppClosed" /\ m.from = NULL /\ m.name = "App"
    BY <2>1 DEF Message
  <2> QED BY <1>30, <2>2, <2>3 DEF StateCallback
<1>31. CASE UNCHANGED vars
  BY <1>31, SentKept DEF vars
<1>32. CASE LaunchApplications
  BY <1>32, SentKept DEF LaunchApplications, Done
<1> QED
  BY <1>1, <1>2, <1>3, <1>4, <1>5, <1>6, <1>7, <1>8, <1>9, <1>10, <1>11, <1>12,
     <1>13, <1>14, <1>15, <1>16, <1>17, <1>18, <1>19, <1>20, <1>21, <1>22, <1>23, <1>24,
     <1>25, <1>26, <1>27, <1>28, <1>29, <1>30, <1>31, <1>32, CallerCases
  DEF Next, LoaderNext, UserNext, PanelNext, ScrubNext

LEMMA ClosedStep == IInv /\ [Next]_vars => ClosedOnce'
<1>1. (queue' # <<>> /\ queue'[1].type = "AppClosed") <=> Sent'.type = "AppClosed"
  BY DEF Sent, NoMessage, Message
<1>2. Reported' => ClosedOnce'
  BY <1>1 DEF ClosedOnce, Closes, Reported
<1> QED BY <1>2, ReportedStep

(* UnlockFindsLock, without the queue.                                     *)
LockInv ==
    /\ holder # NULL => app = "locked"
    /\ Handling({"Unlock"}) \/ Sent.type = "Unlock" => app = "locked"

LEMMA LockStep == IInv /\ [Next]_vars => LockInv'
<1> SUFFICES ASSUME IInv, [Next]_vars PROVE LockInv'
  OBVIOUS
<1>0. /\ LockInv /\ MessageInv
      /\ NoMessage.type = "Query" /\ NoMessage.from = NULL /\ NoMessage.name = "App"
      /\ pc = "next" => app = "none"
      /\ NULL \notin Callers
  BY SentIsUnlock, LoaderAssumption
  DEF IInv, LoaderSound, UnlockFindsLock, LockInv, TaskInv, NoMessage, Message
<1> USE <1>0 DEF LockInv, MessageInv, Handling, appVars, loaderVars, panelVars, scrubVars,
             callerVars
<1>1. ASSUME NEW c \in Callers, NEW type \in SyncTypes, NEW name \in Names, CallSync(c, type, name)
      PROVE  LockInv'
  <2>1. PICK m : m = [Message(type, c) EXCEPT !.name = name] /\ Put(m)
    BY <1>1 DEF CallSync
  <2>2. Sent = NoMessage /\ Sent' = m
    BY <2>1, SentPut
  <2>3. m.type = type /\ m.from = c /\ m.name = name
    BY <2>1 DEF Message
  <2> QED BY <1>1, <2>2, <2>3 DEF CallSync, LaunchRoom, SyncTypes
<1>2. ASSUME NEW c \in Callers, NEW type \in {"StartDetached", "ShowMenu"}, NEW name \in Names,
             CallAsync(c, type, name)
      PROVE  LockInv'
  <2>1. PICK m : m = [Message(type, NULL) EXCEPT !.name = name] /\ Put(m)
    BY <1>2 DEF CallAsync
  <2>2. Sent = NoMessage /\ Sent' = m
    BY <2>1, SentPut
  <2>3. m.type = type /\ m.from = NULL /\ m.name = name
    BY <2>1 DEF Message
  <2> QED BY <1>2, <2>2, <2>3 DEF CallAsync
<1>3. ASSUME NEW c \in Callers, Unlock(c) PROVE LockInv'
  <2>1. PICK m : m = Message("Unlock", NULL) /\ Put(m)
    BY <1>3 DEF Unlock
  <2>2. Sent = NoMessage /\ Sent' = m
    BY <2>1, SentPut
  <2>3. m.type = "Unlock" /\ m.from = NULL /\ m.name = "App"
    BY <2>1 DEF Message
  <2> QED BY <1>3, <2>2, <2>3 DEF Unlock
<1>4. ASSUME NEW p \in Panels, PanelSelect(p) PROVE LockInv'
  BY <1>4, SentKept DEF PanelSelect, PanelStep
<1>5. ASSUME NEW p \in Panels, PanelExit(p) PROVE LockInv'
  BY <1>5, SentKept DEF PanelExit, PanelStep
<1>6. ASSUME NEW p \in Panels, NEW name \in Names, PanelStart(p, name)
      PROVE  LockInv'
  <2>1. PICK m : m = [Message("StartByName", p) EXCEPT !.name = name] /\ Put(m)
    BY <1>6 DEF PanelStart
  <2>2. Sent = NoMessage /\ Sent' = m
    BY <2>1, SentPut
  <2>3. m.type = "StartByName" /\ m.from = p /\ m.name = name
    BY <2>1 DEF Message
  <2> QED BY <1>6, <2>2, <2>3 DEF PanelStart, PanelStep
<1>7. ASSUME NEW p \in Panels, PanelClosedCallback(p) PROVE LockInv'
  <2>1. PICK m : /\ m = Message(IF p = "menu" THEN "MenuClosed" ELSE "ApplicationsClosed", NULL)
                 /\ Put(m)
    BY <1>7 DEF PanelClosedCallback
  <2>2. Sent = NoMessage /\ Sent' = m
    BY <2>1, SentPut
  <2>3. m.type \in {"MenuClosed", "ApplicationsClosed"} /\ m.from = NULL /\ m.name = "App"
    BY <2>1 DEF Message
  <2> QED BY <1>7, <2>2, <2>3 DEF PanelClosedCallback, PanelStep
<1>8. ASSUME NEW p \in Panels, PanelReturns(p) PROVE LockInv'
  BY <1>8, SentKept DEF PanelReturns, PanelStep
<1>9. CASE Get
  <2>1. message' = Sent /\ Sent' = NoMessage /\ UNCHANGED <<holder, app>> /\ pc' = "handle"
    BY <1>9, SentTaken DEF Get
  <2> QED BY <2>1
<1>10. CASE StartRefused
  BY <1>10, SentKept DEF StartRefused, Starting, Handling, Done, ReplyCaller
<1>11. CASE StartApplications
  BY <1>11, SentKept DEF StartApplications, Starting, Handling, Done, ReplyCaller
<1>12. CASE StartApp
  BY <1>12, SentKept DEF StartApp, Starting, Handling, StartsThread, Done, ReplyCaller, Locked
<1>13. CASE StartError
  BY <1>13, SentKept DEF StartError, Starting, Handling, StartFails, EmitQueueEmpty,
              Done, ReplyCaller
<1>14. CASE ShowMenu
  BY <1>14, SentKept DEF ShowMenu, Handling, Done
<1>15. CASE PanelClosed
  BY <1>15, SentKept DEF PanelClosed, Handling
<1>16. CASE PanelJoined
  BY <1>16, SentKept DEF PanelJoined, Done
<1>17. CASE Lock
  BY <1>17, SentKept DEF Lock, Handling, Done, ReplyCaller, Locked
<1>18. CASE DoUnlock
  BY <1>18, SentKept DEF DoUnlock, Handling, Done
<1>19. CASE Query
  BY <1>19, SentKept DEF Query, Handling, Done, ReplyCaller
<1>20. CASE EnqueueLaunch
  BY <1>20, SentKept DEF EnqueueLaunch, Handling, Done, ReplyCaller
<1>21. CASE ClearLaunchQueue
  BY <1>21, SentKept DEF ClearLaunchQueue, Handling, Done, ReplyCaller
<1>22. CASE AppClosed
  <2>1. app # "locked"
    BY <1>22 DEF AppClosed, IInv, AppIsTheThread
  <2> QED BY <1>22, <2>1, SentKept DEF AppClosed
<1>23. CASE LaunchNext
  BY <1>23, SentKept DEF LaunchNext, StartsThread, Done
<1>24. CASE LaunchFails
  BY <1>24, SentKept DEF LaunchFails, StartFails
<1>25. CASE LaunchNone
  BY <1>25, SentKept DEF LaunchNone, EmitQueueEmpty, Done
<1>26. CASE StopEvent
  BY <1>26, SentKept DEF StopEvent, PanelStep
<1>27. CASE Unsubscribe
  BY <1>27, SentKept DEF Unsubscribe, PanelStep
<1>28. CASE AppReturns
  BY <1>28, SentKept DEF AppReturns
<1>29. CASE Scrub
  BY <1>29, SentKept DEF Scrub, PanelStep
<1>30. CASE StateCallback
  <2>1. PICK m : m = Message("AppClosed", NULL) /\ Put(m)
    BY <1>30 DEF StateCallback
  <2>2. Sent = NoMessage /\ Sent' = m
    BY <2>1, SentPut
  <2>3. m.type = "AppClosed" /\ m.from = NULL /\ m.name = "App"
    BY <2>1 DEF Message
  <2> QED BY <1>30, <2>2, <2>3 DEF StateCallback
<1>31. CASE UNCHANGED vars
  BY <1>31, SentKept DEF vars
<1>32. CASE LaunchApplications
  BY <1>32, SentKept DEF LaunchApplications, Done
<1> QED
  BY <1>1, <1>2, <1>3, <1>4, <1>5, <1>6, <1>7, <1>8, <1>9, <1>10, <1>11, <1>12,
     <1>13, <1>14, <1>15, <1>16, <1>17, <1>18, <1>19, <1>20, <1>21, <1>22, <1>23, <1>24,
     <1>25, <1>26, <1>27, <1>28, <1>29, <1>30, <1>31, <1>32, CallerCases
  DEF Next, LoaderNext, UserNext, PanelNext, ScrubNext

LEMMA UnlockStep == IInv /\ [Next]_vars => UnlockFindsLock'
<1>1. (queue' # <<>> /\ queue'[1].type = "Unlock") <=> Sent'.type = "Unlock"
  BY DEF Sent, NoMessage, Message
<1>2. LockInv' => UnlockFindsLock'
  BY <1>1 DEF LockInv, UnlockFindsLock
<1> QED BY <1>2, LockStep

LEMMA PanelStepInv == IInv /\ [Next]_vars => PanelInv'
<1> SUFFICES ASSUME IInv, [Next]_vars PROVE PanelInv'
  OBVIOUS
<1>0. /\ PanelInv /\ TypeOK /\ panel \in [Panels -> PanelPcs]
      /\ NoMessage.type = "Query" /\ NoMessage.from = NULL /\ NoMessage.name = "App"
      /\ NULL \notin Callers \cup Panels /\ Callers \cap Panels = {}
      /\ "menu" \in Panels /\ "applications" \in Panels
      /\ Panels = {"menu", "applications"}
      /\ pc = "get" => message = NoMessage
  BY LoaderAssumption DEF IInv, LoaderSound, TypeOK, MessageInv, NoMessage, Message, Panels
<1> USE <1>0 DEF PanelInv, appVars, loaderVars, panelVars, scrubVars, callerVars
<1>1. ASSUME NEW c \in Callers, NEW type \in SyncTypes, NEW name \in Names, CallSync(c, type, name)
      PROVE  PanelInv'
  <2>1. PICK m : m = [Message(type, c) EXCEPT !.name = name] /\ Put(m)
    BY <1>1 DEF CallSync
  <2>2. Sent = NoMessage /\ Sent' = m
    BY <2>1, SentPut
  <2>3. m.type = type /\ m.from = c /\ m.name = name
    BY <2>1 DEF Message
  <2> QED BY <1>1, <2>2, <2>3 DEF CallSync, LaunchRoom
<1>2. ASSUME NEW c \in Callers, NEW type \in {"StartDetached", "ShowMenu"}, NEW name \in Names,
             CallAsync(c, type, name)
      PROVE  PanelInv'
  <2>1. PICK m : m = [Message(type, NULL) EXCEPT !.name = name] /\ Put(m)
    BY <1>2 DEF CallAsync
  <2>2. Sent = NoMessage /\ Sent' = m
    BY <2>1, SentPut
  <2>3. m.type = type /\ m.from = NULL /\ m.name = name
    BY <2>1 DEF Message
  <2> QED BY <1>2, <2>2, <2>3 DEF CallAsync
<1>3. ASSUME NEW c \in Callers, Unlock(c) PROVE PanelInv'
  <2>1. PICK m : m = Message("Unlock", NULL) /\ Put(m)
    BY <1>3 DEF Unlock
  <2>2. Sent = NoMessage /\ Sent' = m
    BY <2>1, SentPut
  <2>3. m.type = "Unlock" /\ m.from = NULL /\ m.name = "App"
    BY <2>1 DEF Message
  <2> QED BY <1>3, <2>2, <2>3 DEF Unlock
<1>4. ASSUME NEW p \in Panels, PanelSelect(p) PROVE PanelInv'
  BY <1>4, SentKept DEF PanelSelect, PanelStep
<1>5. ASSUME NEW p \in Panels, PanelExit(p) PROVE PanelInv'
  BY <1>5, SentKept DEF PanelExit, PanelStep
<1>6. ASSUME NEW p \in Panels, NEW name \in Names, PanelStart(p, name)
      PROVE  PanelInv'
  <2>1. PICK m : m = [Message("StartByName", p) EXCEPT !.name = name] /\ Put(m)
    BY <1>6 DEF PanelStart
  <2>2. Sent = NoMessage /\ Sent' = m
    BY <2>1, SentPut
  <2>3. m.type = "StartByName" /\ m.from = p /\ m.name = name
    BY <2>1 DEF Message
  <2> QED BY <1>6, <2>2, <2>3 DEF PanelStart, PanelStep
<1>7. ASSUME NEW p \in Panels, PanelClosedCallback(p) PROVE PanelInv'
  <2>1. PICK m : /\ m = Message(IF p = "menu" THEN "MenuClosed" ELSE "ApplicationsClosed", NULL)
                 /\ Put(m)
    BY <1>7 DEF PanelClosedCallback
  <2>2. Sent = NoMessage /\ Sent' = m
    BY <2>1, SentPut
  <2>3. m.type \in {"MenuClosed", "ApplicationsClosed"} /\ m.from = NULL /\ m.name = "App"
    BY <2>1 DEF Message
  <2> QED BY <1>7, <2>2, <2>3 DEF PanelClosedCallback, PanelStep
<1>8. ASSUME NEW p \in Panels, PanelReturns(p) PROVE PanelInv'
  BY <1>8, SentKept DEF PanelReturns, PanelStep
<1>9. CASE Get
  <2>1. /\ message = NoMessage /\ message' = Sent /\ Sent' = NoMessage
        /\ UNCHANGED <<panel, subscribed>>
    BY <1>9, SentTaken DEF Get
  <2> QED BY <2>1
<1>10. CASE StartRefused
  <2>1. /\ panel' = Answered(FALSE)
        /\ UNCHANGED <<subscribed, queue>> /\ message' = NoMessage
    BY <1>10 DEF StartRefused, Done
  <2>2. /\ Answered(FALSE) \in [Panels -> PanelPcs]
        /\ \A p \in Panels : message.from # p => Answered(FALSE)[p] = panel[p]
    BY AnsweredLemma
  <2>3. \A p \in Panels : message.from # p => panel'[p] = panel[p]
    BY <2>1, <2>2
  <2>4. message.from = "applications" => subscribed
    OBVIOUS
  <2> QED BY <2>1, <2>3, <2>4, SentKept
<1>11. CASE StartApplications
  <2>1. /\ panel' = [Answered(TRUE) EXCEPT !["applications"] = IF @ = "none" THEN "open" ELSE @]
        /\ UNCHANGED <<subscribed, queue>> /\ message' = NoMessage
    BY <1>11 DEF StartApplications, Done
  <2>2. /\ Answered(TRUE) \in [Panels -> PanelPcs]
        /\ \A p \in Panels : message.from # p => Answered(TRUE)[p] = panel[p]
    BY AnsweredLemma
  <2>3. \A p \in Panels : message.from # p => panel'[p] = panel[p] \/ panel[p] = "none"
    BY <2>1, <2>2
  <2>5. panel["applications"] = "none" /\ message.from # "applications" =>
          panel'["applications"] = "open"
    BY <2>1, <2>2
  <2>4. message.from = "applications" => subscribed
    OBVIOUS
  <2> QED BY <2>1, <2>3, <2>4, <2>5, SentKept
<1>12. CASE StartApp
  <2>1. /\ panel' = Answered(TRUE)
        /\ UNCHANGED <<subscribed, queue>> /\ message' = NoMessage
    BY <1>12 DEF StartApp, Done
  <2>2. /\ Answered(TRUE) \in [Panels -> PanelPcs]
        /\ \A p \in Panels : message.from # p => Answered(TRUE)[p] = panel[p]
    BY AnsweredLemma
  <2>3. \A p \in Panels : message.from # p => panel'[p] = panel[p]
    BY <2>1, <2>2
  <2>4. message.from = "applications" => subscribed
    OBVIOUS
  <2> QED BY <2>1, <2>3, <2>4, SentKept
<1>13. CASE StartError
  <2>1. /\ panel' = Answered(FALSE)
        /\ UNCHANGED <<subscribed, queue>> /\ message' = NoMessage
    BY <1>13 DEF StartError, Done
  <2>2. /\ Answered(FALSE) \in [Panels -> PanelPcs]
        /\ \A p \in Panels : message.from # p => Answered(FALSE)[p] = panel[p]
    BY AnsweredLemma
  <2>3. \A p \in Panels : message.from # p => panel'[p] = panel[p]
    BY <2>1, <2>2
  <2>4. message.from = "applications" => subscribed
    OBVIOUS
  <2> QED BY <2>1, <2>3, <2>4, SentKept
<1>14. CASE ShowMenu
  BY <1>14, SentKept DEF ShowMenu, Handling, Done
<1>15. CASE PanelClosed
  BY <1>15, SentKept DEF PanelClosed, Handling
<1>16. CASE PanelJoined
  BY <1>16, SentKept DEF PanelJoined, Done
<1>17. CASE Lock
  BY <1>17, SentKept DEF Lock, Handling, Done, ReplyCaller
<1>18. CASE DoUnlock
  BY <1>18, SentKept DEF DoUnlock, Handling, Done
<1>19. CASE Query
  BY <1>19, SentKept DEF Query, Handling, Done, ReplyCaller
<1>20. CASE EnqueueLaunch
  BY <1>20, SentKept DEF EnqueueLaunch, Handling, Done, ReplyCaller
<1>21. CASE ClearLaunchQueue
  BY <1>21, SentKept DEF ClearLaunchQueue, Handling, Done, ReplyCaller
<1>22. CASE AppClosed
  BY <1>22, SentKept DEF AppClosed, Handling
<1>23. CASE LaunchNext
  BY <1>23, SentKept DEF LaunchNext, StartsThread, Done
<1>24. CASE LaunchFails
  BY <1>24, SentKept DEF LaunchFails, StartFails
<1>25. CASE LaunchNone
  BY <1>25, SentKept DEF LaunchNone, EmitQueueEmpty, Done
<1>26. CASE StopEvent
  BY <1>26, SentKept DEF StopEvent, PanelStep
<1>27. CASE Unsubscribe
  BY <1>27, SentKept DEF Unsubscribe, PanelStep
<1>28. CASE AppReturns
  BY <1>28, SentKept DEF AppReturns
<1>29. CASE Scrub
  BY <1>29, SentKept DEF Scrub, PanelStep
<1>30. CASE StateCallback
  <2>1. PICK m : m = Message("AppClosed", NULL) /\ Put(m)
    BY <1>30 DEF StateCallback
  <2>2. Sent = NoMessage /\ Sent' = m
    BY <2>1, SentPut
  <2>3. m.type = "AppClosed" /\ m.from = NULL /\ m.name = "App"
    BY <2>1 DEF Message
  <2> QED BY <1>30, <2>2, <2>3 DEF StateCallback
<1>31. CASE UNCHANGED vars
  BY <1>31, SentKept DEF vars
<1>32. CASE LaunchApplications
  BY <1>32, SentKept DEF LaunchApplications, Done
<1> QED
  BY <1>1, <1>2, <1>3, <1>4, <1>5, <1>6, <1>7, <1>8, <1>9, <1>10, <1>11, <1>12,
     <1>13, <1>14, <1>15, <1>16, <1>17, <1>18, <1>19, <1>20, <1>21, <1>22, <1>23, <1>24,
     <1>25, <1>26, <1>27, <1>28, <1>29, <1>30, <1>31, <1>32, CallerCases
  DEF Next, LoaderNext, UserNext, PanelNext, ScrubNext

LEMMA WatchStep == IInv /\ [Next]_vars => WatchEnds'
<1> SUFFICES ASSUME IInv, [Next]_vars PROVE WatchEnds'
  OBVIOUS
<1>0. /\ WatchEnds /\ PanelInv /\ AppIsTheThread /\ TypeOK
      /\ panel \in [Panels -> PanelPcs] /\ Panels = {"menu", "applications"}
      /\ stop \in BOOLEAN /\ silent \in BOOLEAN
      /\ pc = "next" => task = "none" /\ app = "none"
  BY DEF IInv, LoaderSound, TypeOK, TaskInv, Panels
<1> USE <1>0 DEF WatchEnds, PanelInv, appVars, loaderVars, panelVars, scrubVars, callerVars
<1>1. ASSUME NEW c \in Callers, NEW type \in SyncTypes, NEW name \in Names, CallSync(c, type, name)
      PROVE  WatchEnds'
  BY <1>1 DEF CallSync, LaunchRoom, Message
<1>2. ASSUME NEW c \in Callers, NEW type \in {"StartDetached", "ShowMenu"}, NEW name \in Names,
             CallAsync(c, type, name)
      PROVE  WatchEnds'
  BY <1>2 DEF CallAsync, Message
<1>3. ASSUME NEW c \in Callers, Unlock(c) PROVE WatchEnds'
  BY <1>3 DEF Unlock, Message
<1>4. ASSUME NEW p \in Panels, PanelSelect(p) PROVE WatchEnds'
  BY <1>4 DEF PanelSelect, PanelStep
<1>5. ASSUME NEW p \in Panels, PanelExit(p) PROVE WatchEnds'
  BY <1>5 DEF PanelExit, PanelStep
<1>6. ASSUME NEW p \in Panels, NEW name \in Names, PanelStart(p, name)
      PROVE  WatchEnds'
  BY <1>6 DEF PanelStart, PanelStep, Message
<1>7. ASSUME NEW p \in Panels, PanelClosedCallback(p) PROVE WatchEnds'
  BY <1>7 DEF PanelClosedCallback, PanelStep, Message
<1>8. ASSUME NEW p \in Panels, PanelReturns(p) PROVE WatchEnds'
  BY <1>8 DEF PanelReturns, PanelStep
<1>9. CASE Get
  BY <1>9 DEF Get
<1>10. CASE StartRefused
  <2>1. /\ panel' = Answered(FALSE) /\ task' = task /\ silent' = silent /\ pc = "handle"
        /\ stop => stop'
    BY <1>10 DEF StartRefused, Starting, Handling, Done, ReplyCaller, Locked
  <2>2. /\ Answered(FALSE) \in [Panels -> PanelPcs]
        /\ \A p \in Panels : message.from # p => Answered(FALSE)[p] = panel[p]
        /\ message.from = "applications" => Answered(FALSE)["applications"] = "leave"
    BY AnsweredLemma
  <2>4. panel'["applications"] = "watch" => panel["applications"] = "watch"
    BY <2>1, <2>2
  <2> QED BY <2>1, <2>4
<1>11. CASE StartApplications
  <2>1. /\ panel' = [Answered(TRUE) EXCEPT !["applications"] = IF @ = "none" THEN "open" ELSE @]
        /\ task' = task /\ silent' = silent /\ pc = "handle"
        /\ stop => stop'
    BY <1>11 DEF StartApplications, Starting, Handling, Done, ReplyCaller, Locked
  <2>2. /\ Answered(TRUE) \in [Panels -> PanelPcs]
        /\ \A p \in Panels : message.from # p => Answered(TRUE)[p] = panel[p]
        /\ message.from = "applications" => Answered(TRUE)["applications"] = "watch"
    BY AnsweredLemma
  <2>3. message.from # "applications"
    BY <1>11 DEF StartApplications, IInv, MessageInv
  <2>4. panel'["applications"] = "watch" => panel["applications"] = "watch"
    BY <2>1, <2>2, <2>3
  <2> QED BY <2>1, <2>4
<1>12. CASE StartApp
  BY <1>12 DEF StartApp, StartsThread
<1>13. CASE StartError
  <2>1. /\ panel' = Answered(FALSE) /\ task' = task /\ silent' = silent /\ pc = "handle"
        /\ stop => stop'
    BY <1>13 DEF StartError, Starting, Handling, StartFails, EmitQueueEmpty,
              Done, ReplyCaller, Locked
  <2>2. /\ Answered(FALSE) \in [Panels -> PanelPcs]
        /\ \A p \in Panels : message.from # p => Answered(FALSE)[p] = panel[p]
        /\ message.from = "applications" => Answered(FALSE)["applications"] = "leave"
    BY AnsweredLemma
  <2>4. panel'["applications"] = "watch" => panel["applications"] = "watch"
    BY <2>1, <2>2
  <2> QED BY <2>1, <2>4
<1>14. CASE ShowMenu
  BY <1>14 DEF ShowMenu, Handling, Done, Handling
<1>15. CASE PanelClosed
  BY <1>15 DEF PanelClosed, Handling
<1>16. CASE PanelJoined
  BY <1>16 DEF PanelJoined, Done
<1>17. CASE Lock
  BY <1>17 DEF Lock, Handling, Done, ReplyCaller
<1>18. CASE DoUnlock
  BY <1>18 DEF DoUnlock, Handling, Done
<1>19. CASE Query
  BY <1>19 DEF Query, Handling, Done, ReplyCaller
<1>20. CASE EnqueueLaunch
  BY <1>20 DEF EnqueueLaunch, Handling, Done, ReplyCaller
<1>21. CASE ClearLaunchQueue
  BY <1>21 DEF ClearLaunchQueue, Handling, Done, ReplyCaller
<1>22. CASE AppClosed
  BY <1>22 DEF AppClosed, Handling
<1>23. CASE LaunchNext
  BY <1>23 DEF LaunchNext, StartsThread
<1>24. CASE LaunchFails
  BY <1>24 DEF LaunchFails, StartFails
<1>25. CASE LaunchNone
  BY <1>25 DEF LaunchNone, EmitQueueEmpty, Done, Locked
<1>26. CASE StopEvent
  BY <1>26 DEF StopEvent, PanelStep
<1>27. CASE Unsubscribe
  BY <1>27 DEF Unsubscribe, PanelStep
<1>28. CASE AppReturns
  BY <1>28 DEF AppReturns
<1>29. CASE Scrub
  BY <1>29 DEF Scrub, PanelStep
<1>30. CASE StateCallback
  BY <1>30 DEF StateCallback, Message
<1>31. CASE UNCHANGED vars
  BY <1>31 DEF vars
<1>32. CASE LaunchApplications
  BY <1>32 DEF LaunchApplications, Done
<1> QED
  BY <1>1, <1>2, <1>3, <1>4, <1>5, <1>6, <1>7, <1>8, <1>9, <1>10, <1>11, <1>12,
     <1>13, <1>14, <1>15, <1>16, <1>17, <1>18, <1>19, <1>20, <1>21, <1>22, <1>23, <1>24,
     <1>25, <1>26, <1>27, <1>28, <1>29, <1>30, <1>31, <1>32, CallerCases
  DEF Next, LoaderNext, UserNext, PanelNext, ScrubNext

(* The inductive invariant of the loader.                                  *)
THEOREM Invariance == Spec => []IInv
<1>1. IInv /\ [Next]_vars => IInv'
  BY TypeStep, MessageStep, TaskStep, AppStep, ClosedStep, UnlockStep, PanelStepInv, WatchStep
  DEF IInv, LoaderSound
<1> QED BY InitInv, <1>1, PTL DEF Spec

(* However starts, locks, closed panels and the end of applications are    *)
(* interleaved, the end of an application is reported once, while its      *)
(* thread is the loader's; an unlock finds the lock; insomnia is paired.   *)
THEOREM LoaderIsSound == Spec => []LoaderSound
<1>1. IInv => LoaderSound
  BY DEF IInv
<1> QED BY <1>1, Invariance, PTL

(* loader->app.thread is a thread exactly while there is one, and its fap  *)
(* is the one that loader_do_app_closed frees with it.                     *)
THEOREM AppIsItsThread == Spec => []AppIsTheThread
<1>1. IInv => AppIsTheThread
  BY DEF IInv
<1> QED BY <1>1, Invariance, PTL

(* loader_applications_start_app does not wait for an event that was       *)
(* missed, nor for one that will not come, unless the last deferred launch *)
(* was of the browser itself (loader.c:703), which ends the chain without  *)
(* an event.                                                               *)
THEOREM BrowserWakes == Spec => []WatchEnds
<1>1. IInv => WatchEnds
  BY DEF IInv
<1> QED BY <1>1, Invariance, PTL
=============================================================================
