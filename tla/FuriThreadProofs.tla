--------------------------- MODULE FuriThreadProofs ---------------------------
(***************************************************************************)
(* Proofs about FuriThread, for any number of threads and any length of    *)
(* the scrub queue.  The inductive invariant says where a thread is, seen  *)
(* from its owner, its task and the scrub thread together (LifeInv), that  *)
(* the queue holds exactly the suspended tasks not yet taken (QueueInv),   *)
(* and, for an owner that waits for the Stopped callback, which state the  *)
(* callback was told last (WaiterInv).  A second part is about the flags   *)
(* of a thread, module ThreadFlags.                                        *)
(***************************************************************************)
EXTENDS FuriThread, ThreadFlags, TLAPS

Has(list, x) == \E k \in 1..Len(list) : list[k] = x

NoDuplicate(list) == \A j, k \in 1..Len(list) : list[j] = list[k] => j = k

(* The scrub thread works on t, at one of these steps.                     *)
Scrubbing(t, steps) == scrub \in steps /\ scrubbed = t

(* The owner is inside furi_thread_start.                                  *)
Launching(t) == owner[t] \in {"starting_cb", "create"}

(* At each point of its life the thread's state is the one set last.       *)
StateOf(t) ==
    CASE Launching(t) \/ task[t] = "created"              -> "Starting"
      [] task[t] \in {"running_cb", "running"}            -> "Running"
      [] \/ task[t] \in {"stopping_cb", "put", "suspended"}
         \/ Scrubbing(t, {"set_state"})                   -> "Stopping"
      [] OTHER                                            -> "Stopped"

LifeInv ==
    \A t \in Instances :
        /\ state[t] = StateOf(t)
        /\ owner[t] # "user" \/ task[t] # "none" \/ Scrubbing(t, {"set_state"}) => alive[t]
        /\ Launching(t) \/ Scrubbing(t, {"set_state"}) => task[t] = "none"
        /\ Launching(t) => ~Scrubbing(t, {"set_state"})

QueueInv ==
    /\ NoDuplicate(queue)
    /\ \A t \in Instances :
         task[t] = "suspended" <=> Has(queue, t) \/ Scrubbing(t, {"delete"})
    /\ scrub # "get" => scrubbed \in Instances
    /\ scrub = "delete" => ~Has(queue, scrubbed)

(* The state the callback was told last: of each change after the state.   *)
ToldOf(t) ==
    CASE owner[t] = "create" \/ task[t] \in {"created", "running_cb"}  -> "Starting"
      [] task[t] \in {"running", "stopping_cb"}                        -> "Running"
      [] \/ task[t] \in {"put", "suspended"}
         \/ Scrubbing(t, {"set_state", "callback"})                    -> "Stopping"
      [] OTHER                                                         -> "Stopped"

(* The owner that waits for the callback is not ahead of the scrub thread. *)
WaiterInv ==
    \A t \in Waiters :
        /\ alive[t] => callback[t]
        /\ last[t] = ToldOf(t)
        /\ Scrubbing(t, {"callback"}) => alive[t] /\ ~Launching(t) /\ task[t] = "none"

IInv == TypeOK /\ LifeInv /\ QueueInv /\ WaiterInv

-----------------------------------------------------------------------------
(* The scrub queue                                                         *)

(* A thread that puts itself into the queue is in it, once.                *)
LEMMA AppendLemma ==
    ASSUME NEW q \in Seq(Instances), NoDuplicate(q), NEW t \in Instances, ~Has(q, t)
    PROVE  /\ NoDuplicate(Append(q, t))
           /\ \A x \in Instances : Has(Append(q, t), x) <=> x = t \/ Has(q, x)
<1> DEFINE w == Append(q, t)
<1>1. /\ Len(w) = Len(q) + 1 /\ w[Len(w)] = t
      /\ \A k \in 1..Len(q) : w[k] = q[k]
  OBVIOUS
<1>2. NoDuplicate(w)
  BY <1>1 DEF NoDuplicate, Has
<1>3. ASSUME NEW x \in Instances PROVE Has(w, x) <=> x = t \/ Has(q, x)
  BY <1>1 DEF Has
<1> QED BY <1>2, <1>3

(* The thread that is taken from the queue is in it no more.               *)
LEMMA TailLemma ==
    ASSUME NEW q \in Seq(Instances), NoDuplicate(q), q # <<>>
    PROVE  /\ Head(q) \in Instances /\ Tail(q) \in Seq(Instances)
           /\ Len(Tail(q)) <= Len(q)
           /\ NoDuplicate(Tail(q)) /\ ~Has(Tail(q), Head(q))
           /\ \A x \in Instances : Has(q, x) <=> x = Head(q) \/ Has(Tail(q), x)
<1> DEFINE w == Tail(q)
<1>1. /\ Len(q) \in Nat /\ Len(q) > 0 /\ Head(q) = q[1] /\ q[1] \in Instances
      /\ w \in Seq(Instances) /\ Len(w) = Len(q) - 1
      /\ \A k \in 1..Len(w) : w[k] = q[k + 1]
  OBVIOUS
<1>2. NoDuplicate(w)
  <2> SUFFICES ASSUME NEW j \in 1..Len(w), NEW k \in 1..Len(w), w[j] = w[k]
               PROVE  j = k
    BY DEF NoDuplicate
  <2>1. j + 1 \in 1..Len(q) /\ k + 1 \in 1..Len(q) /\ q[j + 1] = q[k + 1]
    BY <1>1
  <2> QED BY <2>1 DEF NoDuplicate
<1>3. ~Has(w, Head(q))
  <2> SUFFICES ASSUME NEW k \in 1..Len(w), w[k] = q[1] PROVE FALSE
    BY <1>1 DEF Has
  <2>1. k + 1 \in 1..Len(q) /\ 1 \in 1..Len(q) /\ q[k + 1] = q[1] /\ k + 1 # 1
    BY <1>1
  <2> QED BY <2>1 DEF NoDuplicate
<1>4. ASSUME NEW x \in Instances PROVE Has(q, x) <=> x = Head(q) \/ Has(w, x)
  <2>1. ASSUME NEW k \in 1..Len(q), q[k] = x, k # 1 PROVE Has(w, x)
    <3>1. k - 1 \in 1..Len(w) /\ w[k - 1] = x
      BY <1>1, <2>1
    <3> QED BY <3>1 DEF Has
  <2>2. ASSUME NEW k \in 1..Len(w), w[k] = x PROVE Has(q, x)
    <3>1. k + 1 \in 1..Len(q) /\ q[k + 1] = x
      BY <1>1, <2>2
    <3> QED BY <3>1 DEF Has
  <2> QED BY <1>1, <2>1, <2>2 DEF Has
<1> QED BY <1>1, <1>2, <1>3, <1>4

-----------------------------------------------------------------------------
LEMMA InitInv == Init => IInv
<1> SUFFICES ASSUME Init PROVE IInv
  OBVIOUS
<1>1. TypeOK
  BY FuriThreadAssumption DEF Init, TypeOK, States, OwnerPcs, TaskPcs, ScrubPcs
<1>2. LifeInv
  BY DEF Init, LifeInv, StateOf, Launching, Scrubbing
<1>3. QueueInv
  BY DEF Init, QueueInv, NoDuplicate, Has, Scrubbing
<1>4. WaiterInv
  BY FuriThreadAssumption DEF Init, WaiterInv, ToldOf, Launching, Scrubbing
<1> QED BY <1>1, <1>2, <1>3, <1>4 DEF IInv

LEMMA TypeStep == IInv /\ [Next]_vars => TypeOK'
<1> SUFFICES ASSUME IInv, [Next]_vars PROVE TypeOK'
  OBVIOUS
<1> USE DEF IInv, TypeOK, States, OwnerPcs, TaskPcs, ScrubPcs
<1>1. ASSUME NEW t \in Instances, Alloc(t) PROVE TypeOK'
  BY <1>1 DEF Alloc
<1>2. ASSUME NEW t \in Instances, Start(t) PROVE TypeOK'
  BY <1>2 DEF Start
<1>3. ASSUME NEW t \in Instances, StartCallback(t) PROVE TypeOK'
  BY <1>3 DEF StartCallback, CallStateCallback
<1>4. ASSUME NEW t \in Instances, CreateTask(t) PROVE TypeOK'
  BY <1>4 DEF CreateTask
<1>5. ASSUME NEW t \in Instances, Join(t) PROVE TypeOK'
  BY <1>5 DEF Join
<1>6. ASSUME NEW t \in Instances, JoinReturns(t) PROVE TypeOK'
  BY <1>6 DEF JoinReturns
<1>7. ASSUME NEW t \in Instances, Free(t) PROVE TypeOK'
  BY <1>7 DEF Free
<1>8. ASSUME NEW t \in Instances, SetRunning(t) PROVE TypeOK'
  BY <1>8 DEF SetRunning, Body
<1>9. ASSUME NEW t \in Instances, RunningCallback(t) PROVE TypeOK'
  BY <1>9 DEF RunningCallback, Body, CallStateCallback
<1>10. ASSUME NEW t \in Instances, SetStopping(t) PROVE TypeOK'
  BY <1>10 DEF SetStopping, Body
<1>11. ASSUME NEW t \in Instances, StoppingCallback(t) PROVE TypeOK'
  BY <1>11 DEF StoppingCallback, Body, CallStateCallback
<1>12. ASSUME NEW t \in Instances, PutScrub(t) PROVE TypeOK'
  BY <1>12, FuriThreadAssumption DEF PutScrub, Body
<1>13. CASE ScrubGet
  BY <1>13, TailLemma, FuriThreadAssumption DEF ScrubGet, QueueInv
<1>14. CASE ScrubDelete
  BY <1>14 DEF ScrubDelete, QueueInv
<1>15. CASE ScrubSetState
  BY <1>15 DEF ScrubSetState, QueueInv
<1>16. CASE ScrubCallback
  BY <1>16 DEF ScrubCallback, CallStateCallback
<1>17. CASE UNCHANGED vars
  BY <1>17 DEF vars
<1> QED
  BY <1>1, <1>2, <1>3, <1>4, <1>5, <1>6, <1>7, <1>8, <1>9, <1>10,
     <1>11, <1>12, <1>13, <1>14, <1>15, <1>16, <1>17
  DEF Next, OwnerNext, BodyNext, ScrubNext

LEMMA LifeStep == IInv /\ [Next]_vars => LifeInv'
<1> SUFFICES ASSUME IInv, [Next]_vars PROVE LifeInv'
  OBVIOUS
<1> USE DEF IInv, TypeOK, TaskPcs, LifeInv, StateOf, Launching, Scrubbing
<1>1. ASSUME NEW t \in Instances, Alloc(t) PROVE LifeInv'
  BY <1>1 DEF Alloc
<1>2. ASSUME NEW t \in Instances, Start(t) PROVE LifeInv'
  BY <1>2 DEF Start
<1>3. ASSUME NEW t \in Instances, StartCallback(t) PROVE LifeInv'
  BY <1>3 DEF StartCallback, CallStateCallback
<1>4. ASSUME NEW t \in Instances, CreateTask(t) PROVE LifeInv'
  BY <1>4 DEF CreateTask
<1>5. ASSUME NEW t \in Instances, Join(t) PROVE LifeInv'
  BY <1>5 DEF Join
<1>6. ASSUME NEW t \in Instances, JoinReturns(t) PROVE LifeInv'
  BY <1>6 DEF JoinReturns
<1>7. ASSUME NEW t \in Instances, Free(t) PROVE LifeInv'
  BY <1>7 DEF Free
<1>8. ASSUME NEW t \in Instances, SetRunning(t) PROVE LifeInv'
  BY <1>8 DEF SetRunning, Body
<1>9. ASSUME NEW t \in Instances, RunningCallback(t) PROVE LifeInv'
  BY <1>9 DEF RunningCallback, Body, CallStateCallback
<1>10. ASSUME NEW t \in Instances, SetStopping(t) PROVE LifeInv'
  BY <1>10 DEF SetStopping, Body
<1>11. ASSUME NEW t \in Instances, StoppingCallback(t) PROVE LifeInv'
  BY <1>11 DEF StoppingCallback, Body, CallStateCallback
<1>12. ASSUME NEW t \in Instances, PutScrub(t) PROVE LifeInv'
  BY <1>12 DEF PutScrub, Body
<1>13. CASE ScrubGet
  BY <1>13 DEF ScrubGet, QueueInv
<1>14. CASE ScrubDelete
  BY <1>14 DEF ScrubDelete, QueueInv
<1>15. CASE ScrubSetState
  BY <1>15 DEF ScrubSetState, QueueInv
<1>16. CASE ScrubCallback
  BY <1>16 DEF ScrubCallback, CallStateCallback, QueueInv
<1>17. CASE UNCHANGED vars
  BY <1>17 DEF vars
<1> QED
  BY <1>1, <1>2, <1>3, <1>4, <1>5, <1>6, <1>7, <1>8, <1>9, <1>10,
     <1>11, <1>12, <1>13, <1>14, <1>15, <1>16, <1>17
  DEF Next, OwnerNext, BodyNext, ScrubNext

LEMMA QueueStep == IInv /\ [Next]_vars => QueueInv'
<1> SUFFICES ASSUME IInv, [Next]_vars PROVE QueueInv'
  OBVIOUS
<1> USE DEF IInv, TypeOK, QueueInv, Scrubbing
<1>1. ASSUME NEW t \in Instances, Alloc(t) PROVE QueueInv'
  BY <1>1 DEF Alloc
<1>2. ASSUME NEW t \in Instances, Start(t) PROVE QueueInv'
  BY <1>2 DEF Start
<1>3. ASSUME NEW t \in Instances, StartCallback(t) PROVE QueueInv'
  BY <1>3 DEF StartCallback, CallStateCallback
<1>4. ASSUME NEW t \in Instances, CreateTask(t) PROVE QueueInv'
  BY <1>4 DEF CreateTask, LifeInv, Launching
<1>5. ASSUME NEW t \in Instances, Join(t) PROVE QueueInv'
  BY <1>5 DEF Join
<1>6. ASSUME NEW t \in Instances, JoinReturns(t) PROVE QueueInv'
  BY <1>6 DEF JoinReturns
<1>7. ASSUME NEW t \in Instances, Free(t) PROVE QueueInv'
  BY <1>7 DEF Free
<1>8. ASSUME NEW t \in Instances, SetRunning(t) PROVE QueueInv'
  BY <1>8 DEF SetRunning, Body
<1>9. ASSUME NEW t \in Instances, RunningCallback(t) PROVE QueueInv'
  BY <1>9 DEF RunningCallback, Body, CallStateCallback
<1>10. ASSUME NEW t \in Instances, SetStopping(t) PROVE QueueInv'
  BY <1>10 DEF SetStopping, Body
<1>11. ASSUME NEW t \in Instances, StoppingCallback(t) PROVE QueueInv'
  BY <1>11 DEF StoppingCallback, Body, CallStateCallback
<1>12. ASSUME NEW t \in Instances, PutScrub(t) PROVE QueueInv'
  BY <1>12, AppendLemma DEF PutScrub, Body
<1>13. CASE ScrubGet
  BY <1>13, TailLemma DEF ScrubGet
<1>14. CASE ScrubDelete
  BY <1>14 DEF ScrubDelete
<1>15. CASE ScrubSetState
  BY <1>15 DEF ScrubSetState
<1>16. CASE ScrubCallback
  BY <1>16 DEF ScrubCallback, CallStateCallback
<1>17. CASE UNCHANGED vars
  BY <1>17 DEF vars
<1> QED
  BY <1>1, <1>2, <1>3, <1>4, <1>5, <1>6, <1>7, <1>8, <1>9, <1>10,
     <1>11, <1>12, <1>13, <1>14, <1>15, <1>16, <1>17
  DEF Next, OwnerNext, BodyNext, ScrubNext

LEMMA WaiterStep == IInv /\ [Next]_vars => WaiterInv'
<1> SUFFICES ASSUME IInv, [Next]_vars PROVE WaiterInv'
  OBVIOUS
<1>0. Waiters \subseteq Instances
  BY FuriThreadAssumption
<1> USE <1>0 DEF IInv, TypeOK, TaskPcs, LifeInv, WaiterInv, StateOf, ToldOf, Launching, Scrubbing
<1>1. ASSUME NEW t \in Instances, Alloc(t) PROVE WaiterInv'
  BY <1>1 DEF Alloc
<1>2. ASSUME NEW t \in Instances, Start(t) PROVE WaiterInv'
  BY <1>2 DEF Start, Settled
<1>3. ASSUME NEW t \in Instances, StartCallback(t) PROVE WaiterInv'
  BY <1>3 DEF StartCallback, CallStateCallback
<1>4. ASSUME NEW t \in Instances, CreateTask(t) PROVE WaiterInv'
  BY <1>4 DEF CreateTask
<1>5. ASSUME NEW t \in Instances, Join(t) PROVE WaiterInv'
  BY <1>5 DEF Join
<1>6. ASSUME NEW t \in Instances, JoinReturns(t) PROVE WaiterInv'
  BY <1>6 DEF JoinReturns, Settled
<1>7. ASSUME NEW t \in Instances, Free(t) PROVE WaiterInv'
  BY <1>7 DEF Free, Settled
<1>8. ASSUME NEW t \in Instances, SetRunning(t) PROVE WaiterInv'
  BY <1>8 DEF SetRunning, Body
<1>9. ASSUME NEW t \in Instances, RunningCallback(t) PROVE WaiterInv'
  BY <1>9 DEF RunningCallback, Body, CallStateCallback
<1>10. ASSUME NEW t \in Instances, SetStopping(t) PROVE WaiterInv'
  BY <1>10 DEF SetStopping, Body
<1>11. ASSUME NEW t \in Instances, StoppingCallback(t) PROVE WaiterInv'
  BY <1>11 DEF StoppingCallback, Body, CallStateCallback
<1>12. ASSUME NEW t \in Instances, PutScrub(t) PROVE WaiterInv'
  BY <1>12 DEF PutScrub, Body
<1>13. CASE ScrubGet
  BY <1>13, TailLemma DEF ScrubGet, QueueInv
<1>14. CASE ScrubDelete
  BY <1>14 DEF ScrubDelete, QueueInv
<1>15. CASE ScrubSetState
  BY <1>15 DEF ScrubSetState, QueueInv
<1>16. CASE ScrubCallback
  BY <1>16 DEF ScrubCallback, CallStateCallback, QueueInv
<1>17. CASE UNCHANGED vars
  BY <1>17 DEF vars
<1> QED
  BY <1>1, <1>2, <1>3, <1>4, <1>5, <1>6, <1>7, <1>8, <1>9, <1>10,
     <1>11, <1>12, <1>13, <1>14, <1>15, <1>16, <1>17
  DEF Next, OwnerNext, BodyNext, ScrubNext

(* The life cycle of every thread, its place in the scrub queue and what   *)
(* its waiting owner was told agree at all times.                          *)
THEOREM Invariance == Spec => []IInv
<1>1. IInv /\ [Next]_vars => IInv'
  BY TypeStep, LifeStep, QueueStep, WaiterStep DEF IInv
<1> QED BY InitInv, <1>1, PTL DEF Spec

-----------------------------------------------------------------------------
(* For any number of threads: the memory of a task is free when it is      *)
(* given to a new one, the checks of furi_thread_body and                  *)
(* furi_thread_scrub hold (thread.c:110, :145), and only allocated threads *)
(* are touched.                                                            *)
THEOREM ThreadsAreSound == Spec => []ThreadsSound
<1>1. IInv => ThreadsSound
  <2> SUFFICES ASSUME IInv PROVE ThreadsSound
    OBVIOUS
  <2>1. TaskMemoryFree
    <3>1. ASSUME NEW t \in Instances
          PROVE  /\ owner[t] = "create" => task[t] = "none"
                 /\ ~alive[t] => task[t] = "none" /\ ~Has(queue, t)
      BY DEF IInv, LifeInv, QueueInv, Launching
    <3> QED BY <3>1 DEF TaskMemoryFree, Has
  <2>2. ChecksHold
    BY DEF IInv, LifeInv, QueueInv, StateOf, Launching, Scrubbing, ChecksHold
  <2>3. TouchesAlive
    <3>1. ASSUME scrub # "get", scrubbed \in Waiters PROVE alive[scrubbed]
      BY <3>1 DEF IInv, TypeOK, ScrubPcs, LifeInv, QueueInv, WaiterInv, Scrubbing
    <3> QED BY <3>1 DEF IInv, LifeInv, TouchesAlive
  <2> QED BY <2>1, <2>2, <2>3 DEF IInv, ThreadsSound
<1> QED BY <1>1, Invariance, PTL

(* An owner that waits for the Stopped callback is told every state once   *)
(* and in the order of the life cycle (thread.h:102), however late the     *)
(* scrub thread is and whatever the other threads do.                      *)
THEOREM CallbacksInOrder == Spec => CallbackInOrder
<1>1. ASSUME IInv, Next, NEW t \in Waiters, last'[t] # last[t], alive[t], alive'[t]
      PROVE  last[t] = Predecessor(last'[t])
  <2>0. t \in Instances
    BY FuriThreadAssumption
  <2> USE <2>0 DEF IInv, TypeOK, TaskPcs, LifeInv, WaiterInv, ToldOf, Launching, Scrubbing,
                   Predecessor, CallStateCallback
  <2>1. ASSUME NEW j \in Instances, OwnerNext(j) PROVE last[t] = Predecessor(last'[t])
    BY <1>1, <2>1 DEF OwnerNext, Alloc, Start, StartCallback, CreateTask, Join, JoinReturns, Free
  <2>2. ASSUME NEW j \in Instances, BodyNext(j) PROVE last[t] = Predecessor(last'[t])
    BY <1>1, <2>2
    DEF BodyNext, Body, SetRunning, RunningCallback, SetStopping, StoppingCallback, PutScrub
  <2>3. ASSUME ScrubNext PROVE last[t] = Predecessor(last'[t])
    BY <1>1, <2>3 DEF QueueInv, ScrubNext, ScrubGet, ScrubDelete, ScrubSetState, ScrubCallback
  <2> QED BY <1>1, <2>1, <2>2, <2>3 DEF Next
<1>2. IInv /\ [Next]_vars =>
        [\A t \in Waiters :
           last'[t] # last[t] /\ alive[t] /\ alive'[t] => last[t] = Predecessor(last'[t])]_vars
  BY <1>1
<1> QED BY <1>2, Invariance, PTL DEF Spec, CallbackInOrder
-----------------------------------------------------------------------------
(***************************************************************************)
(* Thread flags: the other protocol of thread.c, for any number of flags   *)
(* and of threads that set them.                                           *)
(***************************************************************************)

(* A flag is in the value without a notification only if a wait left it.   *)
NoticedInv == notify # "Received" => value \subseteq unnoticed

(* The services wait for the same flags at every call (gui.c:575,          *)
(* rpc.c:223, input.c:185, expansion_worker.c:90); clears are of any flags.*)
OneMask(m) ==
    \A w \in Waits : w.flags = m /\ ~w.no_clear

(* Moreover every wait is for any of them, and a clear, if there is one,   *)
(* is of all the flags in use (loader_applications.c:144).                 *)
WholeMask(m) ==
    /\ OneMask(m)
    /\ \A w \in Waits : ~w.all
    /\ \A flags \in Clears : flags = Flags

InCall == pc \in {"wait", "blocked"}

(* With one mask nothing of it is left by a wait.                          *)
MaskInv(m) ==
    /\ unnoticed \cap m = {}
    /\ InCall => call.flags = m /\ ~call.no_clear

(* Nothing is received and kept for later, and a clear wipes all flags.    *)
KeptInv ==
    /\ InCall => ~call.all /\ rflags \cap call.flags = {}
    /\ pc = "clear" => mask = Flags

(* A step of the owner or of a setter keeps the types, and neither loses a *)
(* flag nor leaves it unnoticed but for those on record.                   *)
LEMMA AccountedStep ==
    ASSUME FlagsTypeOK, FlagsAccounted, NoticedInv, [FlagsNext]_flagsVars
    PROVE  FlagsTypeOK' /\ FlagsAccounted' /\ NoticedInv'
<1> USE DEF FlagsTypeOK, FlagsAccounted, NoticedInv, Held, NotifyStates, Notified
<1>1. ASSUME NEW t \in Setters, NEW flags \in SUBSET Flags, SetBits(t, flags)
      PROVE  FlagsTypeOK' /\ FlagsAccounted' /\ NoticedInv'
  BY <1>1 DEF SetBits
<1>2. ASSUME NEW t \in Setters, SetQuery(t) PROVE FlagsTypeOK' /\ FlagsAccounted' /\ NoticedInv'
  BY <1>2 DEF SetQuery
<1>3. ASSUME NEW flags \in Clears, ClearQuery(flags)
      PROVE  FlagsTypeOK' /\ FlagsAccounted' /\ NoticedInv'
  BY <1>3, ThreadFlagsAssumption DEF ClearQuery
<1>4. ASSUME ClearOverwrite PROVE FlagsTypeOK' /\ FlagsAccounted' /\ NoticedInv'
  BY <1>4 DEF ClearOverwrite
<1>5. ASSUME GetFlags PROVE FlagsTypeOK' /\ FlagsAccounted' /\ NoticedInv'
  BY <1>5 DEF GetFlags
<1>6. ASSUME NEW w \in Waits, Wait(w) PROVE FlagsTypeOK' /\ FlagsAccounted' /\ NoticedInv'
  BY <1>6, ThreadFlagsAssumption DEF Wait
<1>7. ASSUME Block PROVE FlagsTypeOK' /\ FlagsAccounted' /\ NoticedInv'
  BY <1>7 DEF Block
<1>8. ASSUME Take PROVE FlagsTypeOK' /\ FlagsAccounted' /\ NoticedInv'
  <2> DEFINE received == (rflags \cap call.flags) \cup value
             done     == Satisfied(call, received)
             fails    == ~done /\ call.timeout = "Zero"
  <2>1. /\ pc' = IF done \/ fails THEN "user" ELSE "wait"
        /\ rflags' = received
        /\ unseen' = IF done THEN unseen \ received ELSE unseen
        /\ dropped' = IF fails THEN dropped \cup (received \cap call.flags) ELSE dropped
        /\ value' = IF call.no_clear THEN value ELSE value \ call.flags
        /\ notify' = "NotWaiting" /\ unnoticed' = value'
        /\ UNCHANGED <<setting, cflags, mask>>
    BY <1>8 DEF Take
  <2>2. call' \in WaitTypes /\ call'.flags = call.flags
    <3>1. call \in WaitTypes
      OBVIOUS
    <3>2. call' = call \/ call' = [call EXCEPT !.timeout = "Finite"]
      BY <1>8 DEF Take, UpdateTimeout
    <3> QED BY <3>1, <3>2 DEF WaitTypes, Timeouts
  <2>3. received \subseteq Flags /\ unseen \subseteq received \cup dropped
    BY <1>8 DEF Take, WaitTypes
  <2>4. received \ call.flags \subseteq value'
    BY <2>1
  <2> HIDE DEF received, done, fails
  <2>5. FlagsTypeOK'
    BY <1>8, <2>1, <2>2, <2>3 DEF Take, WaitTypes
  <2>6. FlagsAccounted'
    BY <2>1, <2>2, <2>3, <2>4
  <2>7. NoticedInv'
    BY <2>1
  <2> QED BY <2>5, <2>6, <2>7
<1>9. ASSUME TimeOut PROVE FlagsTypeOK' /\ FlagsAccounted' /\ NoticedInv'
  BY <1>9 DEF TimeOut, WaitTypes
<1>10. CASE UNCHANGED flagsVars
  BY <1>10 DEF flagsVars
<1> QED
  BY <1>1, <1>2, <1>3, <1>4, <1>5, <1>6, <1>7, <1>8, <1>9, <1>10
  DEF FlagsNext, FlagsOwnerNext, WaitNext, SetterNext

(* With one mask for all waits, no wait leaves a flag of it.               *)
LEMMA MaskStep ==
    ASSUME NEW m, OneMask(m), FlagsTypeOK, MaskInv(m), [FlagsNext]_flagsVars
    PROVE  MaskInv(m)'
<1> USE DEF FlagsTypeOK, MaskInv, InCall, Notified
<1>1. ASSUME NEW t \in Setters, SetterNext(t) PROVE MaskInv(m)'
  BY <1>1 DEF SetterNext, SetBits, SetQuery
<1>2. ASSUME NEW flags \in Clears, ClearQuery(flags) PROVE MaskInv(m)'
  BY <1>2 DEF ClearQuery
<1>3. ASSUME ClearOverwrite \/ GetFlags PROVE MaskInv(m)'
  BY <1>3 DEF ClearOverwrite, GetFlags
<1>4. ASSUME NEW w \in Waits, Wait(w) PROVE MaskInv(m)'
  BY <1>4 DEF Wait, OneMask
<1>5. ASSUME Block PROVE MaskInv(m)'
  BY <1>5 DEF Block
<1>6. ASSUME Take PROVE MaskInv(m)'
  <2>1. unnoticed' = value \ m
    BY <1>6 DEF Take
  <2>2. call' = call \/ call' = [call EXCEPT !.timeout = "Finite"]
    BY <1>6 DEF Take, UpdateTimeout
  <2>3. call'.flags = m /\ ~call'.no_clear
    BY <1>6, <2>2 DEF Take, WaitTypes
  <2> QED BY <2>1, <2>3
<1>7. ASSUME TimeOut PROVE MaskInv(m)'
  BY <1>7 DEF TimeOut
<1>8. CASE UNCHANGED flagsVars
  BY <1>8 DEF flagsVars
<1> QED
  BY <1>1, <1>2, <1>3, <1>4, <1>5, <1>6, <1>7, <1>8 DEF FlagsNext, FlagsOwnerNext, WaitNext

(* For any flags, setters, waits and clears: a flag that was set is in the *)
(* value or with the wait that received it until it is returned or cleared,*)
(* unless the overwrite of a clear of others wiped it (thread.c:528) or a  *)
(* wait for all gave it up; and a wait blocks on a flag that is set only   *)
(* if an earlier wait left it unnoticed (thread.c:581).                    *)
THEOREM FlagsAreSound == FlagsSpec => []FlagsSound
<1>1. FlagsInit => FlagsTypeOK /\ FlagsAccounted /\ NoticedInv
  BY DEF FlagsInit, FlagsTypeOK, FlagsAccounted, NoticedInv, NotifyStates, NoCall, WaitTypes,
         Timeouts
<1>2. FlagsTypeOK /\ FlagsAccounted /\ NoticedInv /\ [FlagsNext]_flagsVars
        => (FlagsTypeOK /\ FlagsAccounted /\ NoticedInv)'
  BY AccountedStep
<1>3. FlagsTypeOK /\ NoticedInv => BlockedOnlyUnnoticed
  BY DEF NoticedInv, BlockedOnlyUnnoticed
<1> QED BY <1>1, <1>2, <1>3, PTL DEF FlagsSpec, FlagsSound

(* An owner that waits for the same flags at every call, and clears some   *)
(* or all of them, as the GUI thread does (gui.c:577, :587), is not        *)
(* blocked while a flag it waits for is set (thread.h:435), not even one   *)
(* that is set between two of its own calls.                               *)
THEOREM NotBlockedWithFlags ==
    ASSUME NEW CONSTANT m, OneMask(m)
    PROVE  FlagsSpec => []BlockedOnlyWithoutFlags
<1>1. FlagsInit => MaskInv(m)
  BY DEF FlagsInit, MaskInv, InCall
<1>2. FlagsSound /\ MaskInv(m) /\ [FlagsNext]_flagsVars => MaskInv(m)'
  BY MaskStep DEF FlagsSound
<1>3. FlagsSound /\ MaskInv(m) => BlockedOnlyWithoutFlags
  BY DEF FlagsSound, MaskInv, InCall, BlockedOnlyUnnoticed, BlockedOnlyWithoutFlags
<1> QED BY <1>1, <1>2, <1>3, FlagsAreSound, PTL DEF FlagsSpec

(* An owner that waits for any of the same flags and clears all of them or *)
(* none loses no flag at all (thread.h:423): the race of gui.c:587 needs a *)
(* clear of some of several.                                               *)
THEOREM WholeMaskKeepsFlags ==
    ASSUME NEW CONSTANT m, WholeMask(m)
    PROVE  FlagsSpec => []FlagsNotLost
<1> DEFINE Inv == KeptInv /\ dropped = {}
<1>1. FlagsInit => Inv
  BY DEF FlagsInit, KeptInv, InCall
<1>2. Inv /\ FlagsSound /\ [FlagsNext]_flagsVars => Inv'
  <2> SUFFICES ASSUME Inv, FlagsTypeOK, [FlagsNext]_flagsVars PROVE KeptInv' /\ dropped' = {}
    BY DEF FlagsSound
  <2> USE DEF FlagsTypeOK, KeptInv, InCall
  <2>1. ASSUME NEW t \in Setters, SetterNext(t) PROVE KeptInv' /\ dropped' = {}
    BY <2>1 DEF SetterNext, SetBits, SetQuery
  <2>2. ASSUME NEW flags \in Clears, ClearQuery(flags) PROVE KeptInv' /\ dropped' = {}
    BY <2>2 DEF ClearQuery, WholeMask
  <2>3. ASSUME ClearOverwrite \/ GetFlags PROVE KeptInv' /\ dropped' = {}
    BY <2>3 DEF ClearOverwrite, GetFlags
  <2>4. ASSUME NEW w \in Waits, Wait(w) PROVE KeptInv' /\ dropped' = {}
    BY <2>4 DEF Wait, WholeMask
  <2>5. ASSUME Block PROVE KeptInv' /\ dropped' = {}
    BY <2>5 DEF Block
  <2>6. ASSUME Take PROVE KeptInv' /\ dropped' = {}
    <3> DEFINE received == (rflags \cap call.flags) \cup value
    <3>1. Satisfied(call, received) \/ received \cap call.flags = {}
      BY <2>6 DEF Take, Satisfied
    <3>2. dropped' = {}
      BY <2>6, <3>1 DEF Take
    <3>3. call' = call \/ call' = [call EXCEPT !.timeout = "Finite"]
      BY <2>6 DEF Take, UpdateTimeout
    <3>4. ~call'.all
      BY <2>6, <3>3 DEF Take, WaitTypes
    <3>5. pc' # "clear" /\ call'.flags = call.flags /\ rflags' = received
      BY <2>6, <3>3 DEF Take, WaitTypes
    <3>6. pc' = "wait" => rflags' \cap call'.flags = {}
      BY <2>6, <3>1, <3>5 DEF Take
    <3>7. pc' \in {"user", "wait"}
      BY <2>6 DEF Take
    <3> QED BY <3>2, <3>4, <3>5, <3>6, <3>7
  <2>7. ASSUME TimeOut PROVE KeptInv' /\ dropped' = {}
    BY <2>7 DEF TimeOut, Held
  <2>8. CASE UNCHANGED flagsVars
    BY <2>8 DEF flagsVars
  <2> QED
    BY <2>1, <2>2, <2>3, <2>4, <2>5, <2>6, <2>7, <2>8 DEF FlagsNext, FlagsOwnerNext, WaitNext
<1>3. Inv /\ FlagsSound => FlagsNotLost
  BY DEF FlagsSound, FlagsAccounted, FlagsNotLost
<1> HIDE DEF Inv
<1> QED BY <1>1, <1>2, <1>3, FlagsAreSound, PTL DEF FlagsSpec
=============================================================================
