--------------------------- MODULE ExpansionProofs ---------------------------
(***************************************************************************)
(* Proofs about the expansion module service, for every number of callers, *)
(* serials and workers and every size of the queue.                        *)
(*                                                                         *)
(* That detection is armed, and a worker there, as the state says needs    *)
(* four more facts: which worker is allocated in which state (WorkerInv),  *)
(* that it keeps its buffer until it is freed (BufferInv), what the control*)
(* thread has in hand while it waits for the end of one (ControlInv), and  *)
(* that every request to listen names a serial, from the caller through    *)
(* the queue to the handler (MessageInv).                                  *)
(***************************************************************************)
EXTENDS Expansion, TLAPS

(* A request to listen names its serial.                                   *)
Addressed == {m \in Messages : m.type = "SetListenSerial" => m.serial \in Serials}

MessageInv == queue \in Seq(Addressed) /\ message \in Addressed

(* The one worker is allocated while the module is, or is being, served;   *)
(* an allocated worker has a thread.                                       *)
WorkerInv ==
    /\ worker # NULL <=> (Active \/ control = "free_join")
    /\ mem = IF worker = NULL THEN {} ELSE {worker}
    /\ \A w \in Workers : wk[w].pc = "none" <=> w \notin mem

ControlInv ==
    /\ control = "join" => Active /\ message.type \in {"Disable", "SetListenSerial"}
    /\ control = "free_join" => state = "Enabled" /\ armed = NULL
    /\ state # "Disabled" => serial_id \in Serials

(* A worker has its buffer until the control thread frees it, whether it   *)
(* has ended or not.                                                       *)
BufferInv ==
    \A w \in Workers :
        wk[w].buf \/ wk[w].pc = "none" \/ (control = "free_join" /\ w = worker)

StateSound == TypeOK /\ DetectionMatchesState /\ OneWorker

IInv == StateSound /\ MessageInv /\ WorkerInv /\ BufferInv /\ ControlInv

-----------------------------------------------------------------------------
(* Messages                                                                *)

LEMMA AddressedLemma ==
    ASSUME NEW type \in MessageTypes, NEW c \in Callers \cup {NULL},
           NEW s \in Serials \cup {NULL}, type = "SetListenSerial" => s \in Serials
    PROVE  [type |-> type, from |-> c, serial |-> s] \in Addressed
BY DEF Addressed, Messages

LEMMA NoMessageLemma == NoMessage \in Addressed
BY AddressedLemma DEF NoMessage, Message, MessageTypes, ApiTypes

LEMMA PlainLemma ==
    ASSUME NEW type \in MessageTypes \ {"SetListenSerial"}
    PROVE  Message(type) \in Addressed
BY AddressedLemma DEF Message

(* The queue has its type as a queue of messages.                          *)
LEMMA QueueLemma ==
    ASSUME NEW q \in Seq(Addressed)
    PROVE  q \in Seq(Messages)
<1>1. Addressed \subseteq Messages
  BY DEF Addressed
<1>2. \A k \in 1..Len(q) : q[k] \in Messages
  BY <1>1
<1>3. q = [k \in 1..Len(q) |-> q[k]] /\ Len(q) \in Nat
  OBVIOUS
<1> QED BY <1>2, <1>3

LEMMA PutLemma ==
    ASSUME NEW m \in Addressed, queue \in Seq(Addressed), Put(m)
    PROVE  queue' \in Seq(Addressed) /\ Len(queue') <= QueueSize
BY ExpansionAssumption DEF Put

-----------------------------------------------------------------------------
(* Steps that leave the control thread alone                               *)

(* Only the queue, the callers that wait or the seen edges change.         *)
LEMMA OutsideStep ==
    ASSUME IInv, queue' \in Seq(Addressed), Len(queue') <= QueueSize,
           caller' \subseteq Callers, edges' \in 0..MaxEdges,
           UNCHANGED <<controlVars, armed, mem, wk>>
    PROVE  IInv'
<1>1. queue' \in Seq(Messages)
  BY QueueLemma
<1> QED
  BY <1>1 DEF IInv, StateSound, TypeOK, DetectionMatchesState, OneWorker, Live, Active,
              MessageInv, WorkerInv, BufferInv, ControlInv, controlVars

(* A worker whose thread runs goes on.                                     *)
LEMMA WorkerGoesOn ==
    ASSUME IInv, NEW w \in Workers, NEW new \in WorkerTypes, new.pc # "none", new.buf = wk[w].buf,
           wk[w].pc \notin {"none", "stopped"}, wk' = [wk EXCEPT ![w] = new],
           queue' \in Seq(Addressed), Len(queue') <= QueueSize,
           UNCHANGED <<controlVars, detectVars, caller, mem>>
    PROVE  IInv'
<1>1. queue' \in Seq(Messages)
  BY QueueLemma
<1>2. wk' \in [Workers -> WorkerTypes] /\ wk'[w] = new
      /\ \A v \in Workers \ {w} : wk'[v] = wk[v]
  BY DEF IInv, StateSound, TypeOK
<1>3. w = worker /\ (Active \/ control = "free_join")
  BY DEF IInv, StateSound, OneWorker, Live
<1>4. TypeOK'
  BY <1>1, <1>2 DEF IInv, StateSound, TypeOK, controlVars, detectVars
<1>5. DetectionMatchesState' /\ OneWorker'
  BY <1>2, <1>3 DEF IInv, StateSound, DetectionMatchesState, OneWorker, Live, Active,
              controlVars, detectVars
<1>6. WorkerInv'
  BY <1>2 DEF IInv, WorkerInv, Active, controlVars
<1>7. MessageInv' /\ ControlInv'
  BY DEF IInv, MessageInv, ControlInv, Active, controlVars, detectVars
<1>8. BufferInv'
  BY <1>2 DEF IInv, BufferInv, controlVars
<1> QED BY <1>4, <1>5, <1>6, <1>7, <1>8 DEF IInv, StateSound

LEMMA WorkerNextStep ==
    ASSUME IInv, NEW w \in Workers, WorkerNext(w)
    PROVE  IInv'
<1>1. wk[w] \in WorkerTypes /\ queue \in Seq(Addressed) /\ Len(queue) <= QueueSize
  BY DEF IInv, StateSound, TypeOK, MessageInv
<1>2. ASSUME UNCHANGED <<controlVars, detectVars, queue, caller, mem>>,
             NEW from \in {"start", "receive", "exit"}, NEW new \in WorkerTypes,
             new.pc # "none", new.buf = wk[w].buf, WorkerStep(w, from, new)
      PROVE  IInv'
  BY <1>1, <1>2, WorkerGoesOn DEF WorkerStep
<1>3. ASSUME WorkerStart(w) PROVE IInv'
  <2>1. [wk[w] EXCEPT !.pc = "receive"] \in WorkerTypes
    BY <1>1 DEF WorkerTypes, WorkerPcs
  <2>2. /\ [wk[w] EXCEPT !.pc = "receive"].pc = "receive"
        /\ [wk[w] EXCEPT !.pc = "receive"].buf = wk[w].buf
    BY <1>1 DEF WorkerTypes
  <2> QED BY <1>2, <1>3, <2>1, <2>2 DEF WorkerStart
<1>4. ASSUME FrameRejected(w) PROVE IInv'
  <2> DEFINE new == [wk[w] EXCEPT !.pc = "exit", !.part = FALSE]
  <2>1. new \in WorkerTypes /\ new.pc = "exit" /\ new.buf = wk[w].buf
    BY <1>1 DEF WorkerTypes, WorkerPcs
  <2>2. WorkerStep(w, "receive", new) /\ UNCHANGED <<controlVars, detectVars, queue, caller, mem>>
    BY <1>4 DEF FrameRejected
  <2> HIDE DEF new
  <2> QED BY <1>2, <2>1, <2>2
<1>5. ASSUME FrameBaudRate(w) PROVE IInv'
  <2> DEFINE same == [wk[w] EXCEPT !.part = FALSE]
             new == [wk[w] EXCEPT !.part = FALSE, !.state = "Connected", !.pc = "put_connected"]
  <2>1. same \in WorkerTypes /\ same.pc = wk[w].pc /\ same.buf = wk[w].buf
    BY <1>1 DEF WorkerTypes, WorkerPcs
  <2>2. new \in WorkerTypes /\ new.pc = "put_connected" /\ new.buf = wk[w].buf
    BY <1>1 DEF WorkerTypes, WorkerPcs, WorkerStates
  <2>3. /\ WorkerStep(w, "receive", same) \/ WorkerStep(w, "receive", new)
        /\ UNCHANGED <<controlVars, detectVars, queue, caller, mem>>
    BY <1>5 DEF FrameBaudRate
  <2> HIDE DEF same, new
  <2>4. WorkerStep(w, "receive", same) => same.pc # "none"
    BY <2>1 DEF WorkerStep
  <2> QED BY <1>2, <2>1, <2>2, <2>3, <2>4
<1>6. ASSUME FrameControl(w) PROVE IInv'
  <2> DEFINE same == [wk[w] EXCEPT !.part = FALSE]
  <2>1. same \in WorkerTypes /\ same.pc = wk[w].pc /\ same.buf = wk[w].buf
    BY <1>1 DEF WorkerTypes, WorkerPcs
  <2>2. WorkerStep(w, "receive", same) /\ UNCHANGED <<controlVars, detectVars, queue, caller, mem>>
    BY <1>6 DEF FrameControl
  <2> HIDE DEF same
  <2>3. same.pc # "none"
    BY <2>1, <2>2 DEF WorkerStep
  <2> QED BY <1>2, <2>1, <2>2, <2>3
<1>7. ASSUME FramePart(w) PROVE IInv'
  <2> DEFINE same == [wk[w] EXCEPT !.part = TRUE]
  <2>1. same \in WorkerTypes /\ same.pc = wk[w].pc /\ same.buf = wk[w].buf
    BY <1>1 DEF WorkerTypes, WorkerPcs
  <2>2. WorkerStep(w, "receive", same) /\ UNCHANGED <<controlVars, detectVars, queue, caller, mem>>
    BY <1>7 DEF FramePart
  <2> HIDE DEF same
  <2>3. same.pc # "none"
    BY <2>1, <2>2 DEF WorkerStep
  <2> QED BY <1>2, <2>1, <2>2, <2>3
<1>8. ASSUME NEW reason \in ExitReasons
      PROVE  /\ Interrupted(w, reason) \in WorkerTypes /\ Interrupted(w, reason).pc # "none"
             /\ Interrupted(w, reason).buf = wk[w].buf
  BY <1>1 DEF Interrupted, WorkerTypes, WorkerPcs
<1>9. ASSUME TakeStop(w) PROVE IInv'
  <2> DEFINE i == Interrupted(w, "User")
             new == [i EXCEPT !.stop = FALSE, !.forgot = wk[w].part]
  <2>1. i \in WorkerTypes /\ i.pc # "none" /\ i.buf = wk[w].buf
    BY <1>8 DEF ExitReasons
  <2>2. wk[w].part \in BOOLEAN
    BY <1>1 DEF WorkerTypes
  <2>3. WorkerStep(w, "receive", new) /\ UNCHANGED <<controlVars, detectVars, queue, caller, mem>>
    BY <1>9 DEF TakeStop
  <2> HIDE DEF i
  <2>4. new \in WorkerTypes /\ new.pc = i.pc /\ new.buf = i.buf
    BY <2>1, <2>2 DEF WorkerTypes
  <2> HIDE DEF new
  <2> QED BY <1>2, <2>1, <2>3, <2>4
<1>10. ASSUME ReceiveError(w) PROVE IInv'
  <2>1. PICK reason \in {"Error", "Timeout"} : WorkerStep(w, "receive", Interrupted(w, reason))
    BY <1>10 DEF ReceiveError
  <2>2. UNCHANGED <<controlVars, detectVars, queue, caller, mem>> /\ reason \in ExitReasons
    BY <1>10 DEF ReceiveError, ExitReasons
  <2> QED BY <1>2, <1>8, <2>1, <2>2
<1>11. ASSUME WorkerExit(w) PROVE IInv'
  <2> DEFINE new == [wk[w] EXCEPT !.pc = IF wk[w].reason = "User" THEN "stopped" ELSE "put_exit"]
  <2>1. new \in WorkerTypes /\ new.pc # "none" /\ new.buf = wk[w].buf
    BY <1>1 DEF WorkerTypes, WorkerPcs
  <2>2. WorkerStep(w, "exit", new) /\ UNCHANGED <<controlVars, detectVars, queue, caller, mem>>
    BY <1>11 DEF WorkerExit
  <2> HIDE DEF new
  <2> QED BY <1>2, <2>1, <2>2
<1>12. ASSUME NEW from \in {"put_connected", "put_exit"}, NEW pc \in {"receive", "stopped"},
              NEW type \in {"ConnectionEstablished", "ModuleDisconnected"},
              WorkerStep(w, from, [wk[w] EXCEPT !.pc = pc]), Put(Message(type)),
              UNCHANGED <<controlVars, detectVars, caller, mem>>
       PROVE  IInv'
  <2> DEFINE new == [wk[w] EXCEPT !.pc = pc]
  <2>1. new \in WorkerTypes /\ new.pc # "none" /\ new.buf = wk[w].buf
    BY <1>1 DEF WorkerTypes, WorkerPcs
  <2>2. wk[w].pc = from /\ wk' = [wk EXCEPT ![w] = new]
    BY <1>12 DEF WorkerStep
  <2>3. Message(type) \in Addressed
    BY PlainLemma DEF MessageTypes, ApiTypes
  <2>4. queue' \in Seq(Addressed) /\ Len(queue') <= QueueSize
    BY <1>1, <1>12, <2>3, PutLemma
  <2> HIDE DEF new
  <2> QED BY <1>12, <2>1, <2>2, <2>4, WorkerGoesOn
<1>13. ASSUME PutConnected(w) PROVE IInv'
  BY <1>12, <1>13 DEF PutConnected
<1>14. ASSUME PutExit(w) PROVE IInv'
  BY <1>12, <1>14 DEF PutExit
<1>15. ASSUME UseFreedBuffer(w) PROVE IInv'
  <2> DEFINE new == [wk[w] EXCEPT !.pc = "crashed"]
  <2>1. new \in WorkerTypes /\ new.pc = "crashed" /\ new.buf = wk[w].buf
    BY <1>1 DEF WorkerTypes, WorkerPcs
  <2>2. /\ wk' = [wk EXCEPT ![w] = new] /\ wk[w].pc \notin {"none", "stopped"}
        /\ UNCHANGED <<controlVars, detectVars, queue, caller, mem>>
    BY <1>15 DEF UseFreedBuffer, UsesBuffer
  <2> HIDE DEF new
  <2> QED BY <1>1, <2>1, <2>2, WorkerGoesOn
<1> QED
  BY <1>3, <1>4, <1>5, <1>6, <1>7, <1>9, <1>10, <1>11, <1>13, <1>14, <1>15 DEF WorkerNext

-----------------------------------------------------------------------------
(* The control thread                                                      *)

LEMMA ControlNextStep ==
    ASSUME IInv, ControlNext
    PROVE  IInv'
<1> USE DEF Active
<1>1. /\ TypeOK /\ queue \in Seq(Addressed) /\ message \in Addressed
      /\ message.from \in Callers \cup {NULL}
      /\ message.type = "SetListenSerial" => message.serial \in Serials
  BY DEF IInv, StateSound, MessageInv, Addressed, Messages
(* The handler of a message that touches no worker returns.                *)
<1>2. ASSUME Done, control = "handle", state' \in States, serial_id' \in Serials \cup {NULL},
             state' \in {"Running", "ConnectionEstablished"} <=> Active,
             armed' = IF state' = "Enabled" THEN serial_id' ELSE NULL,
             state' # "Disabled" => serial_id' \in Serials,
             UNCHANGED <<edges, worker, queue, mem, wk>>
      PROVE  IInv'
  <2>1. message' \in Addressed /\ message' \in Messages /\ control' = "get"
        /\ caller' \subseteq Callers
    BY <1>1, <1>2, NoMessageLemma DEF Done, TypeOK, Addressed
  <2>2. TypeOK'
    BY <1>1, <1>2, <2>1 DEF TypeOK
  <2>3. DetectionMatchesState'
    BY <1>2 DEF DetectionMatchesState
  <2>4. OneWorker'
    BY <1>2, <2>1 DEF IInv, StateSound, OneWorker, Live
  <2>5. WorkerInv'
    BY <1>2, <2>1 DEF IInv, WorkerInv
  <2>6. MessageInv' /\ ControlInv'
    BY <1>1, <1>2, <2>1 DEF MessageInv, ControlInv
  <2>7. BufferInv'
    BY <1>2, <2>1 DEF IInv, BufferInv
  <2> QED BY <2>2, <2>3, <2>4, <2>5, <2>6, <2>7 DEF IInv, StateSound
<1>3. control = "handle" =>
        /\ armed = (IF state = "Enabled" THEN serial_id ELSE NULL)
        /\ state # "Disabled" => serial_id \in Serials
        /\ state \in States /\ serial_id \in Serials \cup {NULL}
  BY <1>1 DEF IInv, StateSound, DetectionMatchesState, ControlInv, TypeOK
<1>4. ASSUME ControlGet PROVE IInv'
  <2>1. message' \in Addressed /\ message' \in Messages /\ queue' \in Seq(Addressed)
        /\ Len(queue') <= QueueSize
    BY <1>1, <1>4, ExpansionAssumption DEF ControlGet, Addressed, TypeOK
  <2>2. queue' \in Seq(Messages)
    BY <2>1, QueueLemma
  <2>3. control = "get" /\ control' = "handle"
        /\ UNCHANGED <<state, serial_id, worker, armed, edges, caller, mem, wk>>
    BY <1>4 DEF ControlGet, detectVars
  <2> QED
    BY <2>1, <2>2, <2>3 DEF IInv, StateSound, TypeOK, DetectionMatchesState, OneWorker, Live,
                            MessageInv, WorkerInv, BufferInv, ControlInv
<1>5. ASSUME Enable PROVE IInv'
  <2>1. \/ UNCHANGED <<state, serial_id, armed>>
        \/ /\ state = "Disabled" /\ state' = "Enabled"
           /\ serial_id' \in Serials /\ armed' = serial_id'
    BY <1>5 DEF Enable, Arm, detectVars
  <2>2. Done /\ control = "handle" /\ UNCHANGED <<edges, worker, queue, mem, wk>>
    BY <1>5 DEF Enable, Handling, Arm, detectVars
  <2> QED BY <1>2, <1>3, <2>1, <2>2 DEF States
<1>6. ASSUME Reconfigure PROVE IInv'
  <2>1. \/ UNCHANGED <<state, serial_id, armed>>
        \/ ~Active /\ state' = "Disabled" /\ serial_id' = serial_id /\ armed' = NULL
        \/ /\ ~Active /\ state' = "Enabled"
           /\ serial_id' \in Serials /\ armed' = serial_id'
    BY <1>1, <1>6 DEF Reconfigure, Handling, Disabled, Listening, Arm, Disarm, detectVars
  <2>2. Done /\ control = "handle" /\ UNCHANGED <<edges, worker, queue, mem, wk>>
    BY <1>6 DEF Reconfigure, Handling, Disabled, Listening, Arm, Disarm, detectVars
  <2> QED BY <1>2, <1>3, <2>1, <2>2 DEF States
<1>7. ASSUME StopWorker PROVE IInv'
  <2>1. /\ control = "handle" /\ control' = "join" /\ Active
        /\ message.type \in {"Disable", "SetListenSerial"}
        /\ UNCHANGED <<state, serial_id, worker, message, armed, edges, queue, caller, mem>>
    BY <1>7 DEF StopWorker, Handling, detectVars
  <2>2. worker \in Workers
    BY <1>1, <2>1 DEF IInv, WorkerInv, TypeOK
  <2>3. wk[worker] \in WorkerTypes
    BY <1>1, <2>2 DEF TypeOK
  <2>4. [wk[worker] EXCEPT !.stop = TRUE] \in WorkerTypes
    BY <2>3 DEF WorkerTypes
  <2>5. wk' \in [Workers -> WorkerTypes]
    BY <1>1, <1>7, <2>4 DEF StopWorker, TypeOK
  <2>6. \A w \in Workers : wk'[w].pc = wk[w].pc /\ wk'[w].buf = wk[w].buf
    BY <1>1, <1>7, <2>2, <2>3 DEF StopWorker, TypeOK, WorkerTypes
  <2>7. TypeOK'
    BY <1>1, <2>1, <2>5 DEF TypeOK
  <2>8. DetectionMatchesState' /\ OneWorker'
    BY <2>1, <2>6 DEF IInv, StateSound, DetectionMatchesState, OneWorker, Live
  <2>9. WorkerInv'
    BY <2>1, <2>6 DEF IInv, WorkerInv
  <2>10. MessageInv' /\ ControlInv'
    BY <2>1 DEF IInv, MessageInv, ControlInv
  <2>11. BufferInv'
    BY <2>1, <2>6 DEF IInv, BufferInv
  <2> QED BY <2>7, <2>8, <2>9, <2>10, <2>11 DEF IInv, StateSound
(* The worker has ended and is freed.                                      *)
<1>8. ASSUME Done, control \in {"join", "free_join"},
             wk' = [wk EXCEPT ![worker] = NoWorker], mem' = mem \ {worker}, worker' = NULL,
             state' \in {"Disabled", "Enabled"}, serial_id' \in Serials \cup {NULL},
             armed' = IF state' = "Enabled" THEN serial_id' ELSE NULL,
             state' # "Disabled" => serial_id' \in Serials,
             UNCHANGED <<edges, queue>>
      PROVE  IInv'
  <2>1. message' \in Addressed /\ message' \in Messages /\ control' = "get"
        /\ caller' \subseteq Callers
    BY <1>1, <1>8, NoMessageLemma DEF Done, TypeOK, Addressed
  <2>2. worker \in Workers /\ mem = {worker}
    BY <1>1, <1>8 DEF IInv, WorkerInv, ControlInv, TypeOK
  <2>3. mem' = {}
    BY <1>8, <2>2
  <2>4. NoWorker \in WorkerTypes /\ NoWorker.pc = "none"
    BY DEF NoWorker, WorkerTypes, WorkerPcs, WorkerStates, ExitReasons
  <2>5. wk' \in [Workers -> WorkerTypes]
    BY <1>1, <1>8, <2>4 DEF TypeOK
  <2>6. \A w \in Workers : wk'[w].pc = "none"
    BY <1>1, <1>8, <2>2, <2>4 DEF TypeOK, IInv, WorkerInv
  <2>7. TypeOK'
    BY <1>1, <1>8, <2>1, <2>3, <2>5 DEF TypeOK, States
  <2>8. DetectionMatchesState' /\ OneWorker'
    BY <1>8, <2>6 DEF DetectionMatchesState, OneWorker, Live
  <2>9. WorkerInv'
    BY <1>8, <2>1, <2>3, <2>6 DEF WorkerInv
  <2>10. MessageInv' /\ ControlInv'
    BY <1>1, <1>8, <2>1 DEF MessageInv, ControlInv
  <2>11. BufferInv'
    BY <2>6 DEF BufferInv
  <2> QED BY <2>7, <2>8, <2>9, <2>10, <2>11 DEF IInv, StateSound
<1>9. ASSUME WorkerJoined PROVE IInv'
  <2>1. message.type \in {"Disable", "SetListenSerial"}
    BY <1>9 DEF WorkerJoined, IInv, ControlInv
  <2>2. \/ state' = "Disabled" /\ serial_id' = serial_id /\ armed' = NULL
        \/ state' = "Enabled" /\ serial_id' \in Serials /\ armed' = serial_id'
    BY <1>1, <1>9, <2>1 DEF WorkerJoined, Disabled, Listening, Arm, Disarm
  <2>3. edges' = edges
    BY <1>9 DEF WorkerJoined, Disabled, Listening, Arm, Disarm
  <2> QED BY <1>1, <1>8, <1>9, <2>2, <2>3 DEF WorkerJoined, TypeOK
<1>10. ASSUME DisconnectedJoined PROVE IInv'
  <2>1. state = "Enabled" /\ serial_id \in Serials
    BY <1>10 DEF DisconnectedJoined, IInv, ControlInv
  <2> QED BY <1>8, <1>10, <2>1 DEF DisconnectedJoined, Arm
<1>11. ASSUME ReloadSettings PROVE IInv'
  <2>1. /\ control = "handle"
        /\ UNCHANGED <<state, serial_id, worker, control, armed, edges, queue, caller, mem, wk>>
    BY <1>11 DEF ReloadSettings, Handling, detectVars
  <2>2. message' \in Addressed /\ message' \in Messages
    BY <1>1, <1>11 DEF ReloadSettings, Addressed, Messages, MessageTypes, ApiTypes
  <2> QED
    BY <2>1, <2>2 DEF IInv, StateSound, TypeOK, DetectionMatchesState, OneWorker, Live,
                      MessageInv, WorkerInv, BufferInv, ControlInv
<1>12. ASSUME ModuleConnected PROVE IInv'
  <2>1. CASE state # "Enabled"
    <3>1. /\ Done /\ control = "handle"
          /\ UNCHANGED <<state, serial_id, armed, edges, worker, queue, mem, wk>>
      BY <1>12, <2>1 DEF ModuleConnected, Handling, detectVars
    <3> QED BY <1>2, <1>3, <3>1
  <2>2. CASE state = "Enabled"
    <3>1. PICK w \in Workers \ mem :
            /\ worker' = w /\ mem' = mem \cup {w}
            /\ wk' = [wk EXCEPT ![w] = [NoWorker EXCEPT !.pc = "start", !.buf = TRUE]]
      BY <1>12, <2>2 DEF ModuleConnected
    <3>2. /\ control = "handle" /\ state' = "Running" /\ armed' = NULL
          /\ UNCHANGED <<serial_id, edges, queue>> /\ Done
      BY <1>12, <2>2 DEF ModuleConnected, Handling, Disarm
    <3>3. message' \in Addressed /\ message' \in Messages /\ control' = "get"
          /\ caller' \subseteq Callers
      BY <1>1, <3>2, NoMessageLemma DEF Done, TypeOK, Addressed
    <3>4. mem = {} /\ serial_id \in Serials
      BY <2>2, <3>2 DEF IInv, WorkerInv, ControlInv
    <3> DEFINE new == [NoWorker EXCEPT !.pc = "start", !.buf = TRUE]
    <3>5. new \in WorkerTypes /\ new.pc = "start" /\ new.buf
      BY DEF NoWorker, WorkerTypes, WorkerPcs, WorkerStates, ExitReasons
    <3>6. wk' = [wk EXCEPT ![w] = new]
      BY <3>1
    <3> HIDE DEF new
    <3>7. wk' \in [Workers -> WorkerTypes]
      BY <1>1, <3>5, <3>6 DEF TypeOK
    <3>8. \A v \in Workers : wk'[v].pc = IF v = w THEN "start" ELSE "none"
      BY <1>1, <3>4, <3>5, <3>6 DEF TypeOK, IInv, WorkerInv
    <3>9. TypeOK'
      BY <1>1, <3>1, <3>2, <3>3, <3>7 DEF TypeOK, States
    <3>10. DetectionMatchesState' /\ OneWorker'
      BY <3>1, <3>2, <3>8 DEF DetectionMatchesState, OneWorker, Live
    <3>11. worker' # NULL /\ mem' = {worker'}
      BY <3>1, <3>4, ExpansionAssumption
    <3>12. WorkerInv'
      BY <3>1, <3>2, <3>8, <3>11 DEF WorkerInv
    <3>13. MessageInv' /\ ControlInv'
      BY <1>1, <3>2, <3>3, <3>4 DEF MessageInv, ControlInv
    <3>14. BufferInv'
      BY <1>1, <3>5, <3>6, <3>8 DEF BufferInv, TypeOK
    <3> QED BY <3>9, <3>10, <3>12, <3>13, <3>14 DEF IInv, StateSound
  <2> QED BY <2>1, <2>2
<1>13. ASSUME ModuleDisconnected PROVE IInv'
  <2>1. CASE ~Active
    <3>1. /\ Done /\ control = "handle"
          /\ UNCHANGED <<state, serial_id, armed, edges, worker, queue, mem, wk>>
      BY <1>13, <2>1 DEF ModuleDisconnected, Handling, detectVars
    <3> QED BY <1>2, <1>3, <3>1
  <2>2. CASE Active
    <3>1. /\ control = "handle" /\ control' = "free_join" /\ state' = "Enabled"
          /\ wk' = [wk EXCEPT ![worker].buf = FALSE]
          /\ UNCHANGED <<serial_id, worker, message, armed, edges, queue, caller, mem>>
      BY <1>13, <2>2 DEF ModuleDisconnected, Handling, detectVars
    <3>2. armed = NULL /\ serial_id \in Serials
      BY <1>3, <2>2, <3>1
    <3>3. worker \in Workers
      BY <1>1, <2>2 DEF IInv, WorkerInv, TypeOK
    <3>4. wk[worker] \in WorkerTypes
      BY <1>1, <3>3 DEF TypeOK
    <3>5. [wk[worker] EXCEPT !.buf = FALSE] \in WorkerTypes
      BY <3>4 DEF WorkerTypes
    <3>6. wk' \in [Workers -> WorkerTypes]
      BY <1>1, <3>1, <3>5 DEF TypeOK
    <3>7. \A w \in Workers : wk'[w].pc = wk[w].pc /\ (w # worker => wk'[w] = wk[w])
      BY <1>1, <3>1, <3>3, <3>4 DEF TypeOK, WorkerTypes
    <3>8. TypeOK'
      BY <1>1, <3>1, <3>6 DEF TypeOK, States
    <3>9. DetectionMatchesState' /\ OneWorker'
      BY <3>1, <3>7 DEF IInv, StateSound, DetectionMatchesState, OneWorker, Live
    <3>10. WorkerInv' /\ MessageInv' /\ ControlInv'
      BY <1>1, <2>2, <3>1, <3>2, <3>7 DEF IInv, WorkerInv, MessageInv, ControlInv
    <3>11. BufferInv'
      BY <3>1, <3>7 DEF IInv, BufferInv
    <3> QED BY <3>8, <3>9, <3>10, <3>11 DEF IInv, StateSound
  <2> QED BY <2>1, <2>2
<1>14. ASSUME ConnectionEstablished PROVE IInv'
  <2>1. /\ Done /\ control = "handle"
        /\ state' = IF Active THEN "ConnectionEstablished" ELSE state
        /\ UNCHANGED <<serial_id, armed, edges, worker, queue, mem, wk>>
    BY <1>14 DEF ConnectionEstablished, Handling, detectVars
  <2> QED BY <1>2, <1>3, <2>1 DEF States
<1>15. ASSUME IsConnected PROVE IInv'
  <2>1. /\ Done /\ control = "handle"
        /\ UNCHANGED <<state, serial_id, armed, edges, worker, queue, mem, wk>>
    BY <1>15 DEF IsConnected, Handling, detectVars
  <2> QED BY <1>2, <1>3, <2>1
<1> QED
  BY <1>4, <1>5, <1>6, <1>7, <1>9, <1>10, <1>11, <1>12, <1>13, <1>14, <1>15 DEF ControlNext

-----------------------------------------------------------------------------
(* The results                                                             *)

(* What the service keeps up through every step of the callers, the        *)
(* detection, the control thread and the workers.                          *)
THEOREM Invariance == Spec => []IInv
<1>1. Init => IInv
  <2> SUFFICES ASSUME Init PROVE IInv
    OBVIOUS
  <2> USE DEF Init
  <2>1. NoWorker \in WorkerTypes /\ NoWorker.pc = "none"
    BY DEF NoWorker, WorkerTypes, WorkerPcs, WorkerStates, ExitReasons
  <2>2. NoMessage \in Addressed /\ NoMessage \in Messages
    BY NoMessageLemma DEF Addressed
  <2>3. queue \in Seq(Messages) /\ queue \in Seq(Addressed) /\ Len(queue) = 0
    OBVIOUS
  <2>4. TypeOK
    BY <2>1, <2>2, <2>3, ExpansionAssumption DEF TypeOK, States
  <2>5. DetectionMatchesState /\ OneWorker
    BY <2>1 DEF DetectionMatchesState, OneWorker, Live
  <2>6. MessageInv /\ WorkerInv /\ BufferInv /\ ControlInv
    BY <2>1, <2>2, <2>3 DEF MessageInv, WorkerInv, BufferInv, ControlInv, Active
  <2> QED BY <2>4, <2>5, <2>6 DEF IInv, StateSound
<1>2. IInv /\ [Next]_vars => IInv'
  <2> SUFFICES ASSUME IInv, [Next]_vars PROVE IInv'
    OBVIOUS
  <2>1. TypeOK /\ queue \in Seq(Addressed) /\ Len(queue) <= QueueSize
        /\ caller \subseteq Callers /\ edges \in 0..MaxEdges
    BY DEF IInv, StateSound, TypeOK, MessageInv
  <2>2. ASSUME NEW c \in Callers, NEW type \in ApiTypes, NEW s \in Serials \cup {NULL},
               type = "SetListenSerial" => s \in Serials, ApiCall(c, type, s)
        PROVE  IInv'
    <3>1. [type |-> type, from |-> c, serial |-> s] \in Addressed
      BY <2>2, AddressedLemma DEF MessageTypes
    <3>2. queue' \in Seq(Addressed) /\ Len(queue') <= QueueSize
      BY <2>1, <2>2, <3>1, PutLemma DEF ApiCall
    <3> QED BY <2>1, <2>2, <3>2, OutsideStep DEF ApiCall, detectVars
  <2>3. ASSUME ApiNext PROVE IInv'
    BY <2>2, <2>3 DEF ApiNext, ApiTypes
  <2>4. ASSUME CardMount PROVE IInv'
    <3>1. Message("ReloadSettings") \in Addressed
      BY PlainLemma DEF MessageTypes
    <3>2. queue' \in Seq(Addressed) /\ Len(queue') <= QueueSize
      BY <2>1, <2>4, <3>1, PutLemma DEF CardMount
    <3> QED BY <2>1, <2>4, <3>2, OutsideStep DEF CardMount, detectVars
  <2>5. ASSUME Detect PROVE IInv'
    <3>1. Message("ModuleConnected") \in Addressed
      BY PlainLemma DEF MessageTypes
    <3>2. queue' \in Seq(Addressed) /\ Len(queue') <= QueueSize
      BY <2>1, <2>5, <3>1, ExpansionAssumption DEF Detect
    <3>3. edges' \in 0..MaxEdges
      BY <2>1, <2>5, ExpansionAssumption DEF Detect
    <3> QED BY <2>1, <2>5, <3>2, <3>3, OutsideStep DEF Detect
  <2>6. ASSUME UNCHANGED vars PROVE IInv'
    BY <2>1, <2>6, OutsideStep DEF vars, detectVars
  <2> QED BY <2>3, <2>4, <2>5, <2>6, ControlNextStep, WorkerNextStep DEF Next
<1> QED BY <1>1, <1>2, PTL DEF Spec

(* The two furi_checks of furi_hal_serial_control.c:199 and :203 never     *)
(* fail, and no worker runs behind the control thread's back: however      *)
(* enables, disables, changes of serial, detections and ends of workers    *)
(* interleave, the detection callback is set exactly while the service     *)
(* waits for a module, and a worker lives only where its state says so.    *)
(* A worker that receives has its buffer, with the one exception that      *)
(* expansion_worker.c:399 makes: the control thread frees it for the       *)
(* message of an earlier worker.                                           *)
THEOREM ServiceIsSound == Spec => []ServiceSound
<1>1. IInv => ServiceSound
  <2> SUFFICES ASSUME IInv PROVE ServiceSound
    OBVIOUS
  <2>1. ASSUME NEW w \in Workers, UsesBuffer(w), ~wk[w].buf PROVE w = worker /\ FreesLiveWorker
    <3>1. w = worker /\ control = "free_join"
      BY <2>1 DEF IInv, BufferInv, UsesBuffer
    <3>2. Live(w)
      BY <2>1 DEF UsesBuffer, Live
    <3> QED BY <3>1, <3>2 DEF FreesLiveWorker
  <2> QED BY <2>1 DEF IInv, StateSound, ServiceSound, BufferOutlivesUse
<1> QED BY <1>1, Invariance, PTL

-----------------------------------------------------------------------------
(* Nobody waits for what will not come                                     *)

(* The messages the control thread has still to handle, or handles.        *)
Queued == {queue[k] : k \in 1..Len(queue)}
InHand == IF control = "get" THEN {} ELSE {message}
Held == Queued \cup InHand

(* A worker is stopped by the user only while the control thread waits for *)
(* its end.                                                                *)
StopInv ==
    \A w \in Workers :
        wk[w].stop \/ wk[w].reason = "User" => control = "join" /\ w = worker

(* The request of a caller that waits, and the end of a worker that has    *)
(* ended, are not lost: the first is queued or in hand, the second too, or *)
(* the control thread is about to free the worker.                         *)
CallsHeld == \A c \in caller : \E m \in Held : m.from = c
EndsHeld ==
    \A w \in Workers :
        wk[w].pc = "stopped" =>
            \/ control \in {"join", "free_join"}
            \/ \E m \in Held : m.type = "ModuleDisconnected"
NothingMissed == CallsHeld /\ EndsHeld

HeldInv == StopInv /\ NothingMissed

LEMMA PutQueued ==
    ASSUME queue \in Seq(Addressed), NEW m, queue' = Append(queue, m)
    PROVE  Queued \subseteq Queued' /\ m \in Queued'
<1> DEFINE n == Len(queue)
<1>1. n \in Nat /\ Len(queue') = n + 1
  OBVIOUS
<1>2. queue'[n + 1] = m /\ \A k \in 1..n : queue'[k] = queue[k]
  OBVIOUS
<1>3. n + 1 \in 1..Len(queue') /\ \A k \in 1..n : k \in 1..Len(queue')
  BY <1>1
<1> HIDE DEF n
<1> QED BY <1>2, <1>3 DEF Queued, n

LEMMA GetQueued ==
    ASSUME queue \in Seq(Addressed), queue # <<>>, queue' = Tail(queue)
    PROVE  \A m \in Queued : m = Head(queue) \/ m \in Queued'
<1> SUFFICES ASSUME NEW k \in 1..Len(queue), k # 1 PROVE queue[k] \in Queued'
  BY DEF Queued
<1>1. k - 1 \in 1..Len(queue') /\ queue'[k - 1] = queue[k]
  OBVIOUS
<1> QED BY <1>1 DEF Queued

(* A caller, the card or the detection puts something into the queue.      *)
LEMMA HeldOutside ==
    ASSUME HeldInv, Queued \subseteq Queued', UNCHANGED <<control, message, worker, wk>>,
           \A c \in caller' : c \in caller \/ \E m \in Queued' : m.from = c
    PROVE  HeldInv'
<1>1. Held \subseteq Held' /\ Queued' \subseteq Held'
  BY DEF Held, InHand
<1> QED BY <1>1 DEF HeldInv, StopInv, NothingMissed, CallsHeld, EndsHeld

(* A worker goes on.                                                       *)
LEMMA HeldWorker ==
    ASSUME IInv, HeldInv, NEW w \in Workers, NEW new, wk' = [wk EXCEPT ![w] = new],
           Queued \subseteq Queued', UNCHANGED <<control, message, worker, caller>>,
           new.stop \/ new.reason = "User" => wk[w].stop \/ wk[w].reason = "User",
           new.pc = "stopped" =>
             wk[w].reason = "User" \/ \E m \in Queued' : m.type = "ModuleDisconnected"
    PROVE  HeldInv'
<1>1. wk'[w] = new /\ \A v \in Workers \ {w} : wk'[v] = wk[v]
  BY DEF IInv, StateSound, TypeOK
<1>2. Held \subseteq Held' /\ Queued' \subseteq Held'
  BY DEF Held, InHand
<1>3. StopInv'
  BY <1>1 DEF HeldInv, StopInv
<1>4. CallsHeld'
  BY <1>2 DEF HeldInv, NothingMissed, CallsHeld
<1>5. ASSUME NEW v \in Workers, wk'[v].pc = "stopped"
      PROVE  \/ control' \in {"join", "free_join"}
             \/ \E m \in Held' : m.type = "ModuleDisconnected"
  <2>1. CASE v = w
    BY <1>1, <1>2, <1>5, <2>1 DEF HeldInv, StopInv
  <2>2. CASE v # w
    BY <1>1, <1>2, <1>5, <2>2 DEF HeldInv, NothingMissed, EndsHeld
  <2> QED BY <2>1, <2>2
<1> QED BY <1>3, <1>4, <1>5 DEF HeldInv, NothingMissed, EndsHeld

(* A handler returns: the caller it was for waits no more.                 *)
LEMMA HeldDone ==
    ASSUME HeldInv, Done, control # "get", queue' = queue,
           \/ /\ control = "handle" /\ message.type # "ModuleDisconnected"
              /\ \A w \in Workers :
                   wk'[w] \in {wk[w], [NoWorker EXCEPT !.pc = "start", !.buf = TRUE]}
           \/ \A w \in Workers :
                ~wk'[w].stop /\ wk'[w].reason # "User" /\ wk'[w].pc # "stopped"
    PROVE  HeldInv'
<1>1. Queued' = Queued /\ control' = "get" /\ Held' = Queued
  BY DEF Queued, Held, InHand, Done
<1>2. \A m \in Held : m = message \/ m \in Held'
  BY <1>1 DEF Held, InHand
<1>3. CallsHeld'
  BY <1>2 DEF HeldInv, NothingMissed, CallsHeld, Done
<1>4. /\ ~[NoWorker EXCEPT !.pc = "start", !.buf = TRUE].stop
      /\ [NoWorker EXCEPT !.pc = "start", !.buf = TRUE].reason = "Unknown"
      /\ [NoWorker EXCEPT !.pc = "start", !.buf = TRUE].pc = "start"
  BY DEF NoWorker
<1>5. StopInv'
  <2>1. control = "handle" => \A w \in Workers : ~wk[w].stop /\ wk[w].reason # "User"
    BY DEF HeldInv, StopInv
  <2> QED BY <1>4, <2>1 DEF StopInv
<1>6. EndsHeld'
  BY <1>2, <1>4 DEF HeldInv, NothingMissed, EndsHeld
<1> QED BY <1>3, <1>5, <1>6 DEF HeldInv, NothingMissed

LEMMA HeldWorkerNext ==
    ASSUME IInv, HeldInv, NEW w \in Workers, WorkerNext(w)
    PROVE  HeldInv'
<1>1. wk[w] \in WorkerTypes /\ queue \in Seq(Addressed)
  BY DEF IInv, StateSound, TypeOK, MessageInv
<1>2. ASSUME NEW from, NEW new, WorkerStep(w, from, new),
             UNCHANGED <<controlVars, queue, caller>>,
             new.stop \/ new.reason = "User" => wk[w].stop \/ wk[w].reason = "User",
             new.pc = "stopped" => wk[w].reason = "User"
      PROVE  HeldInv'
  <2>1. Queued' = Queued
    BY <1>2 DEF Queued
  <2> QED BY <1>2, <2>1, HeldWorker DEF WorkerStep, controlVars
<1>3. ASSUME WorkerStart(w) PROVE HeldInv'
  BY <1>1, <1>2, <1>3 DEF WorkerStart, WorkerTypes
<1>4. ASSUME FrameRejected(w) PROVE HeldInv'
  BY <1>1, <1>2, <1>4 DEF FrameRejected, WorkerTypes
<1>5. ASSUME FrameBaudRate(w) PROVE HeldInv'
  <2> DEFINE same == [wk[w] EXCEPT !.part = FALSE]
             new == [wk[w] EXCEPT !.part = FALSE, !.state = "Connected", !.pc = "put_connected"]
  <2>1. same.pc = wk[w].pc /\ same.stop = wk[w].stop /\ same.reason = wk[w].reason
    BY <1>1 DEF WorkerTypes
  <2>2. new.pc = "put_connected" /\ new.stop = wk[w].stop /\ new.reason = wk[w].reason
    BY <1>1 DEF WorkerTypes
  <2>3. /\ WorkerStep(w, "receive", same) \/ WorkerStep(w, "receive", new)
        /\ UNCHANGED <<controlVars, queue, caller>>
    BY <1>5 DEF FrameBaudRate
  <2> HIDE DEF same, new
  <2>4. WorkerStep(w, "receive", same) => same.pc = "receive"
    BY <2>1 DEF WorkerStep
  <2> QED BY <1>2, <2>1, <2>2, <2>3, <2>4
<1>6. ASSUME NEW part \in BOOLEAN, WorkerStep(w, "receive", [wk[w] EXCEPT !.part = part]),
             UNCHANGED <<controlVars, queue, caller>>
      PROVE  HeldInv'
  <2> DEFINE same == [wk[w] EXCEPT !.part = part]
  <2>1. same.pc = wk[w].pc /\ same.stop = wk[w].stop /\ same.reason = wk[w].reason
    BY <1>1 DEF WorkerTypes
  <2>2. WorkerStep(w, "receive", same)
    BY <1>6
  <2> HIDE DEF same
  <2>3. same.pc = "receive"
    BY <2>1, <2>2 DEF WorkerStep
  <2> QED BY <1>2, <1>6, <2>1, <2>2, <2>3
<1>7. ASSUME FrameControl(w) \/ FramePart(w) PROVE HeldInv'
  BY <1>6, <1>7 DEF FrameControl, FramePart
<1>8. ASSUME NEW reason
      PROVE  /\ Interrupted(w, reason).reason = reason
             /\ Interrupted(w, reason).stop = wk[w].stop
             /\ Interrupted(w, reason).pc \in {"receive", "exit"}
  BY <1>1 DEF Interrupted, WorkerTypes
<1>9. ASSUME TakeStop(w) PROVE HeldInv'
  <2> DEFINE new == [Interrupted(w, "User") EXCEPT !.stop = FALSE, !.forgot = wk[w].part]
  <2>1. new.pc # "stopped" /\ wk[w].stop
    BY <1>1, <1>9 DEF TakeStop, Interrupted, WorkerTypes
  <2>2. WorkerStep(w, "receive", new) /\ UNCHANGED <<controlVars, queue, caller>>
    BY <1>9 DEF TakeStop
  <2> HIDE DEF new
  <2> QED BY <1>2, <2>1, <2>2
<1>10. ASSUME ReceiveError(w) PROVE HeldInv'
  <2>1. PICK reason \in {"Error", "Timeout"} : WorkerStep(w, "receive", Interrupted(w, reason))
    BY <1>10 DEF ReceiveError
  <2>2. UNCHANGED <<controlVars, queue, caller>>
    BY <1>10 DEF ReceiveError
  <2>3. reason # "User" /\ "exit" # "stopped" /\ "receive" # "stopped"
    OBVIOUS
  <2> QED BY <1>2, <1>8, <2>1, <2>2, <2>3
<1>11. ASSUME WorkerExit(w) PROVE HeldInv'
  <2> DEFINE new == [wk[w] EXCEPT !.pc = IF wk[w].reason = "User" THEN "stopped" ELSE "put_exit"]
  <2>1. /\ new.pc = "stopped" => wk[w].reason = "User"
        /\ new.stop = wk[w].stop /\ new.reason = wk[w].reason
    BY <1>1 DEF WorkerTypes
  <2>2. WorkerStep(w, "exit", new) /\ UNCHANGED <<controlVars, queue, caller>>
    BY <1>11 DEF WorkerExit
  <2> HIDE DEF new
  <2> QED BY <1>2, <2>1, <2>2
<1>12. ASSUME NEW from, NEW pc, NEW type, pc = "stopped" => type = "ModuleDisconnected",
              WorkerStep(w, from, [wk[w] EXCEPT !.pc = pc]), Put(Message(type)),
              UNCHANGED <<controlVars, caller>>
       PROVE  HeldInv'
  <2> DEFINE new == [wk[w] EXCEPT !.pc = pc]
  <2>1. new.pc = pc /\ new.stop = wk[w].stop /\ new.reason = wk[w].reason
    BY <1>1 DEF WorkerTypes
  <2>2. wk' = [wk EXCEPT ![w] = new]
    BY <1>12 DEF WorkerStep
  <2>3. Queued \subseteq Queued' /\ Message(type) \in Queued'
    BY <1>1, <1>12, PutQueued DEF Put
  <2>4. Message(type).type = type
    BY DEF Message
  <2> HIDE DEF new
  <2> QED BY <1>12, <2>1, <2>2, <2>3, <2>4, HeldWorker DEF controlVars
<1>13. ASSUME PutConnected(w) PROVE HeldInv'
  <2>1. "receive" # "stopped"
    OBVIOUS
  <2> QED BY <1>12, <1>13, <2>1 DEF PutConnected
<1>14. ASSUME PutExit(w) PROVE HeldInv'
  BY <1>12, <1>14 DEF PutExit
<1>15. ASSUME UseFreedBuffer(w) PROVE HeldInv'
  <2> DEFINE new == [wk[w] EXCEPT !.pc = "crashed"]
  <2>1. new.pc # "stopped" /\ new.stop = wk[w].stop /\ new.reason = wk[w].reason
    BY <1>1 DEF WorkerTypes
  <2>2. WorkerStep(w, wk[w].pc, new) /\ UNCHANGED <<controlVars, queue, caller>>
    BY <1>15 DEF UseFreedBuffer, WorkerStep
  <2> HIDE DEF new
  <2> QED BY <1>2, <2>1, <2>2
<1> QED
  BY <1>3, <1>4, <1>5, <1>7, <1>9, <1>10, <1>11, <1>13, <1>14, <1>15 DEF WorkerNext

LEMMA HeldControlNext ==
    ASSUME IInv, HeldInv, ControlNext
    PROVE  HeldInv'
<1>1. queue \in Seq(Addressed) /\ wk \in [Workers -> WorkerTypes] /\ message \in Messages
  BY DEF IInv, StateSound, TypeOK, MessageInv
<1>2. ASSUME Done, control = "handle", message.type # "ModuleDisconnected",
             UNCHANGED <<queue, wk>>
      PROVE  HeldInv'
  BY <1>2, HeldDone
<1>3. ASSUME ControlGet PROVE HeldInv'
  <2>1. /\ control = "get" /\ control' = "handle" /\ message' = Head(queue)
        /\ queue # <<>> /\ queue' = Tail(queue) /\ UNCHANGED <<worker, caller, wk>>
    BY <1>3 DEF ControlGet
  <2>2. \A m \in Held : m \in Held'
    BY <1>1, <2>1, GetQueued DEF Held, InHand
  <2> QED BY <2>1, <2>2 DEF HeldInv, StopInv, NothingMissed, CallsHeld, EndsHeld
<1>4. ASSUME Enable PROVE HeldInv'
  BY <1>2, <1>4 DEF Enable, Handling
<1>5. ASSUME Reconfigure PROVE HeldInv'
  BY <1>2, <1>5 DEF Reconfigure, Handling
<1>6. ASSUME StopWorker PROVE HeldInv'
  <2>1. /\ control = "handle" /\ control' = "join" /\ Active
        /\ wk' = [wk EXCEPT ![worker].stop = TRUE]
        /\ UNCHANGED <<worker, message, queue, caller>>
    BY <1>6 DEF StopWorker, Handling
  <2>2. \A w \in Workers : w # worker => wk'[w] = wk[w]
    BY <1>1, <2>1
  <2>3. StopInv'
    BY <2>1, <2>2 DEF HeldInv, StopInv
  <2>4. Held' = Held
    BY <2>1 DEF Held, Queued, InHand
  <2> QED BY <2>1, <2>3, <2>4 DEF HeldInv, NothingMissed, CallsHeld, EndsHeld
(* The worker has ended and is freed.                                      *)
<1>7. ASSUME Done, control \in {"join", "free_join"}, queue' = queue,
             wk' = [wk EXCEPT ![worker] = NoWorker]
      PROVE  HeldInv'
  <2>1. ~NoWorker.stop /\ NoWorker.reason # "User" /\ NoWorker.pc # "stopped"
    BY DEF NoWorker
  <2>2. worker \in Workers /\ \A w \in Workers : w # worker => wk[w].pc = "none"
    BY <1>7 DEF IInv, StateSound, TypeOK, WorkerInv, ControlInv
  <2>3. \A w \in Workers : w # worker => ~wk[w].stop /\ wk[w].reason # "User"
    BY DEF HeldInv, StopInv
  <2>4. \A w \in Workers : wk'[w] = IF w = worker THEN NoWorker ELSE wk[w]
    BY <1>1, <1>7, <2>2
  <2>5. \A w \in Workers :
          ~wk'[w].stop /\ wk'[w].reason # "User" /\ wk'[w].pc # "stopped"
    BY <2>1, <2>2, <2>3, <2>4
  <2> QED BY <1>7, <2>5, HeldDone
<1>8. ASSUME WorkerJoined \/ DisconnectedJoined PROVE HeldInv'
  BY <1>7, <1>8 DEF WorkerJoined, DisconnectedJoined
<1>9. ASSUME ReloadSettings PROVE HeldInv'
  <2>1. /\ control = "handle" /\ message.type = "ReloadSettings" /\ message'.from = message.from
        /\ UNCHANGED <<control, worker, queue, caller, wk>>
    BY <1>1, <1>9 DEF ReloadSettings, Handling, Messages
  <2>2. /\ \A m \in Held : m = message \/ m \in Held'
        /\ message' \in Held'
    BY <2>1 DEF Held, Queued, InHand
  <2> QED BY <2>1, <2>2 DEF HeldInv, StopInv, NothingMissed, CallsHeld, EndsHeld
<1>10. ASSUME ModuleConnected PROVE HeldInv'
  <2>1. Done /\ control = "handle" /\ message.type = "ModuleConnected" /\ queue' = queue
    BY <1>10 DEF ModuleConnected, Handling
  <2>2. \A w \in Workers : wk'[w] \in {wk[w], [NoWorker EXCEPT !.pc = "start", !.buf = TRUE]}
    BY <1>1, <1>10 DEF ModuleConnected
  <2> QED BY <2>1, <2>2, HeldDone
<1>11. ASSUME ModuleDisconnected PROVE HeldInv'
  <2>1. /\ control = "handle" /\ message.type = "ModuleDisconnected"
        /\ UNCHANGED <<worker, queue>>
    BY <1>11 DEF ModuleDisconnected, Handling
  <2>2. CASE ~Active
    <3>1. Done /\ wk' = wk
      BY <1>11, <2>2 DEF ModuleDisconnected
    <3>2. \A w \in Workers : wk[w].pc = "none"
      BY <2>1, <2>2 DEF IInv, WorkerInv
    <3>3. \A w \in Workers : ~wk[w].stop /\ wk[w].reason # "User"
      BY <2>1 DEF HeldInv, StopInv
    <3>4. \A w \in Workers :
            ~wk'[w].stop /\ wk'[w].reason # "User" /\ wk'[w].pc # "stopped"
      BY <3>1, <3>2, <3>3
    <3> QED BY <2>1, <3>1, <3>4, HeldDone
  <2>3. CASE Active
    <3>1. /\ control' = "free_join" /\ UNCHANGED <<message, caller>>
          /\ wk' = [wk EXCEPT ![worker].buf = FALSE]
      BY <1>11, <2>3 DEF ModuleDisconnected
    <3>2. Held' = Held
      BY <2>1, <3>1 DEF Held, Queued, InHand
    <3>3. \A w \in Workers : wk'[w].stop = wk[w].stop /\ wk'[w].reason = wk[w].reason
      BY <1>1, <3>1 DEF WorkerTypes
    <3> QED BY <2>1, <3>1, <3>2, <3>3 DEF HeldInv, StopInv, NothingMissed, CallsHeld, EndsHeld
  <2> QED BY <2>2, <2>3
<1>12. ASSUME ConnectionEstablished \/ IsConnected PROVE HeldInv'
  BY <1>2, <1>12 DEF ConnectionEstablished, IsConnected, Handling
<1> QED
  BY <1>3, <1>4, <1>5, <1>6, <1>8, <1>9, <1>10, <1>11, <1>12 DEF ControlNext

(* A caller that waits has its request queued or being handled, and the    *)
(* end of a worker is never forgotten, whichever messages overtake it and  *)
(* whoever stops the worker meanwhile (expansion.c:199-212, where a stale  *)
(* ModuleDisconnected may meet another worker).  It is the safety half of  *)
(* CallsReturn and EndedIsFreed.                                           *)
THEOREM NothingIsMissed == Spec => []NothingMissed
<1>1. Init => HeldInv
  <2> SUFFICES ASSUME Init PROVE HeldInv
    OBVIOUS
  <2>1. \A w \in Workers : ~wk[w].stop /\ wk[w].reason = "Unknown" /\ wk[w].pc = "none"
    BY DEF Init, NoWorker
  <2> QED BY <2>1 DEF Init, HeldInv, StopInv, NothingMissed, CallsHeld, EndsHeld
<1>2. IInv /\ HeldInv /\ [Next]_vars => HeldInv'
  <2> SUFFICES ASSUME IInv, HeldInv, [Next]_vars PROVE HeldInv'
    OBVIOUS
  <2>1. queue \in Seq(Addressed)
    BY DEF IInv, MessageInv
  <2>2. ASSUME NEW c, NEW type, NEW s, ApiCall(c, type, s) PROVE HeldInv'
    <3> DEFINE m == [type |-> type, from |-> c, serial |-> s]
    <3>1. Queued \subseteq Queued' /\ m \in Queued'
      BY <2>1, <2>2, PutQueued DEF ApiCall, Put
    <3>2. caller' = caller \cup {c} /\ UNCHANGED <<control, message, worker, wk>>
      BY <2>2 DEF ApiCall, controlVars
    <3>3. m.from = c
      OBVIOUS
    <3> HIDE DEF m
    <3> QED BY <3>1, <3>2, <3>3, HeldOutside
  <2>3. ASSUME ApiNext PROVE HeldInv'
    BY <2>2, <2>3 DEF ApiNext
  <2>4. ASSUME CardMount PROVE HeldInv'
    <3>1. Queued \subseteq Queued'
      BY <2>1, <2>4, PutQueued DEF CardMount, Put
    <3> QED BY <2>4, <3>1, HeldOutside DEF CardMount, controlVars
  <2>5. ASSUME Detect PROVE HeldInv'
    <3>1. CASE queue' = queue
      BY <2>5, <3>1, HeldOutside DEF Detect, controlVars, Queued
    <3>2. CASE queue' = Append(queue, Message("ModuleConnected"))
      BY <2>1, <2>5, <3>2, HeldOutside, PutQueued DEF Detect, controlVars
    <3> QED BY <2>5, <3>1, <3>2 DEF Detect
  <2>6. ASSUME UNCHANGED vars PROVE HeldInv'
    BY <2>6, HeldOutside DEF vars, controlVars, Queued
  <2> QED BY <2>3, <2>4, <2>5, <2>6, HeldControlNext, HeldWorkerNext DEF Next
<1>3. HeldInv => NothingMissed
  BY DEF HeldInv
<1> QED BY <1>1, <1>2, <1>3, Invariance, PTL DEF Spec
=============================================================================
