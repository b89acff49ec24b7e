-------------------------- MODULE NikitaAgentProofs --------------------------
(***************************************************************************)
(* Proofs about NikitaAgent, for any number of requests, attempts, faults  *)
(* of the card and restarts.  The inductive invariant follows a request    *)
(* through the mailbox: where the two threads' Files are (JobsInv), what   *)
(* the agent is about to write and what res holds (WriteInv, AnswerInv,    *)
(* TornInv), that no request is there to be taken a second time (OnceInv), *)
(* and that only the client's last request is under way (MailInv).         *)
(***************************************************************************)
EXTENDS NikitaAgent, TLAPS

Requests == 1 .. MaxRequests

ReqTexts == {NoFile, Empty} \cup {Req(k) : k \in Requests}

(* A storage_file_open that has begun and its File is not closed yet.      *)
OpenJobs(f, m) ==
    [at : {"try", "wait", "open", "failed"}, file : {f}, mode : {m}]

Jobs ==
    [at : {"none", "try", "wait", "open", "failed"}, file : Files \cup {Nobody},
     mode : {"create", "existing", Nobody}]

(* The File of a thread is in the table of the storage service.            *)
InTable(t) == job[t].at \in {"open", "failed"}

TypeInv ==
    /\ content \in [Files -> ReqTexts \cup ResTexts]
    /\ content["req"] \in ReqTexts /\ content["res"] \in ResTexts
    /\ closed \in [Threads -> BOOLEAN]
    /\ apc \in {"boot", "write", "write_open", "poll", "req_open", "exists", "remove", "run"}
    /\ cpc \in {"idle", "send", "ask", "asking"}
    /\ landed \in BOOLEAN /\ sawPending \in BOOLEAN /\ tornRead \in BOOLEAN
    /\ removeFailed \in BOOLEAN /\ unread \subseteq Requests
    /\ asked \in 0 .. MaxRequests /\ (cpc # "idle" => asked \in Requests)
    /\ taken \in {Empty} \cup {Req(k) : k \in Requests}
    /\ faults \in 0 .. MaxFaults /\ restarts \in 0 .. MaxRestarts + 1
    /\ executed \in [Requests -> 0 .. 2]
    /\ accepted \in [Requests -> 0 .. MaxRequests]

(* Each thread has the File open that its place in the code needs, and the *)
(* table has one File per path.                                            *)
JobsInv ==
    /\ opened \in [Files -> Threads \cup {Nobody}]
    /\ job \in [Threads -> Jobs]
    /\ apc = "write_open" => job["agent"] \in OpenJobs("res", "create")
    /\ apc = "req_open" => job["agent"] \in OpenJobs("req", "existing")
    /\ apc \notin {"write_open", "req_open"} => job["agent"] = Idle
    /\ cpc = "send" => job["client"] \in OpenJobs("req", "create")
    /\ cpc = "asking" => job["client"] \in OpenJobs("res", "existing")
    /\ cpc \notin {"send", "asking"} => job["client"] = Idle
    /\ \A f \in Files, t \in Threads : opened[f] = t <=> InTable(t) /\ job[t].file = f
    /\ apc = "req_open" /\ job["agent"].at = "open" => content["req"] # NoFile

(* The agent is writing "pending", at its start or for the request it has  *)
(* taken, or the answer to that request.                                   *)
Writing == apc \in {"write", "write_open"}

WriteInv ==
    /\ Writing => /\ tries \in 0 .. WriteAttempts - 1
                  /\ \/ todo = [data |-> Pending, next |-> "run"]
                     \/ todo = [data |-> Pending, next |-> "poll"] /\ taken = Empty
                     \/ todo = [data |-> Answer(taken), next |-> "poll"]
    /\ apc \in {"poll", "req_open", "exists"} => tries \in 0 .. ReqAttempts - 1
    /\ apc \in {"boot", "remove", "run"} => tries = 0
    /\ apc = "boot" => taken = Empty

(* Until the agent takes another request, res holds the last answer.       *)
AnswerInv ==
    apc \in {"poll", "req_open", "exists"} /\ taken # Empty /\ landed
        => content["res"] = Answer(taken)

(* Without faults and restarts res is empty only while the agent has it.   *)
TornInv ==
    /\ ~tornRead
    /\ faults = 0 /\ restarts = 0 /\ content["res"] = Empty
         => apc = "write_open" /\ job["agent"].at = "open"

(* The agent has read a request and not answered it yet: before it has     *)
(* removed it, before it has run it, and before res holds the answer.      *)
Removing  == apc = "remove"
Running   == apc = "run" \/ (Writing /\ todo.next = "run")
Answering == Writing /\ todo.next = "poll" /\ todo.data # Pending

(* A request that was run is not in the mailbox, nor one that is taken.    *)
OnceInv ==
    \A k \in Requests :
        /\ executed[k] <= 1
        /\ content["req"] = Req(k) =>
             executed[k] = 0 /\ asked = k /\ cpc # "send" /\ (taken = Req(k) => Removing)
        /\ (Removing \/ Running) /\ taken = Req(k) => executed[k] = 0
        /\ k > asked \/ (k = asked /\ cpc = "send") => executed[k] = 0 /\ taken # Req(k)

(* While the client has nothing to wait for nothing is under way, and what *)
(* is under way is its last request.  An answer that comes after "pending" *)
(* leaves no request behind.                                               *)
MailInv ==
    /\ cpc \in {"idle", "send"} =>
         /\ ~Removing /\ ~Running /\ ~Answering
         /\ \/ content["req"] = NoFile
            \/ content["req"] = Empty /\ cpc = "send" /\ job["client"].at = "open"
    /\ Running \/ Answering => content["req"] = NoFile
    /\ Removing \/ Running \/ Answering => taken \in {Empty, Req(asked)}
    /\ sawPending => cpc \in {"ask", "asking"}
    /\ sawPending /\ content["res"] \notin {NoFile, Empty, Pending} =>
         /\ content["req"] = NoFile /\ ~Removing /\ ~Running /\ ~Answering
         /\ content["res"] \in {Ans(0), Ans(asked)}
    /\ \A k \in Requests : accepted[k] \in {0, k}

IInv ==
    /\ TypeInv /\ JobsInv /\ WriteInv /\ AnswerInv /\ TornInv
    /\ ~removeFailed => OnceInv /\ MailInv

-----------------------------------------------------------------------------
(* The texts are told apart.                                               *)
LEMMA Texts ==
    /\ NoFile # Empty /\ Pending # Empty /\ Pending # NoFile
    /\ \A k : Req(k) \notin {NoFile, Empty, Pending} /\ Req(k)[2] = k
    /\ \A k : Ans(k) \notin {NoFile, Empty, Pending} /\ Ans(k)[2] = k
<1>1. NoFile # Empty /\ Pending # Empty
  BY DEF NoFile, Empty, Pending
<1>2. Pending # NoFile
  <2>1. NoFile[1] = "no file" /\ Pending[1] = "pending"
    BY DEF NoFile, Pending
  <2> QED BY <2>1
<1>3. ASSUME NEW k PROVE Req(k) \notin {NoFile, Empty, Pending}
  BY DEF Req, NoFile, Empty, Pending
<1>4. ASSUME NEW k PROVE Ans(k) \notin {NoFile, Empty, Pending}
  BY DEF Ans, NoFile, Empty, Pending
<1>5. \A k : Req(k)[2] = k /\ Ans(k)[2] = k
  BY DEF Req, Ans
<1> QED BY <1>1, <1>2, <1>3, <1>4, <1>5

(* What the agent answers to what it has taken.                            *)
LEMMA Answers ==
    /\ Answer(Empty) = Ans(0)
    /\ \A k : Answer(Req(k)) = Ans(k)
    /\ \A text \in {Empty} \cup {Req(k) : k \in Requests} :
         \E k \in 0 .. MaxRequests : Answer(text) = Ans(k)
<1>1. Answer(Empty) = Ans(0)
  BY DEF Answer
<1>2. \A k : Answer(Req(k)) = Ans(k)
  BY Texts DEF Answer
<1>3. 0 \in 0 .. MaxRequests /\ \A k \in Requests : k \in 0 .. MaxRequests
  BY AttemptsAssumption DEF Requests
<1> QED BY <1>1, <1>2, <1>3

LEMMA InitInv == Init => IInv
<1> SUFFICES ASSUME Init PROVE IInv
  OBVIOUS
<1> USE DEF Init, StorageInit
<1>1. content["req"] = NoFile /\ content["res"] = NoFile
  BY MailboxAssumption
<1>2. job["agent"] = Idle /\ job["client"] = Idle
  BY MailboxAssumption
<1>3. TypeInv
  <2>1. content \in [Files -> ReqTexts \cup ResTexts]
    BY DEF ReqTexts
  <2>2. executed \in [Requests -> 0 .. 2] /\ accepted \in [Requests -> 0 .. MaxRequests]
    BY AttemptsAssumption DEF Requests
  <2>3. 0 \in 0 .. MaxRequests /\ 0 \in 0 .. MaxFaults /\ 0 \in 0 .. MaxRestarts + 1
    BY AttemptsAssumption
  <2> QED BY <1>1, <2>1, <2>2, <2>3 DEF TypeInv, ReqTexts, ResTexts
<1>4. JobsInv
  <2>1. job \in [Threads -> Jobs]
    BY DEF Jobs, Idle
  <2>2. \A t \in Threads : ~InTable(t) /\ t # Nobody
    BY MailboxAssumption DEF InTable, Idle, Nobody
  <2> QED BY <1>2, <2>1, <2>2 DEF JobsInv
<1>5. WriteInv /\ AnswerInv
  BY DEF WriteInv, AnswerInv, Writing
<1>6. TornInv
  BY <1>1, Texts DEF TornInv
<1>7. OnceInv
  BY <1>1, Texts DEF OnceInv, Removing, Running, Writing, Requests
<1>8. MailInv
  BY <1>1 DEF MailInv, Removing, Running, Answering, Writing, Requests
<1> QED BY <1>3, <1>4, <1>5, <1>6, <1>7, <1>8 DEF IInv

-----------------------------------------------------------------------------
(* The types                                                               *)

(* A file of the mailbox is left as it is, or gets a text of its kind.     *)
LEMMA ContentType ==
    ASSUME TypeInv,
           \/ content' = content
           \/ \E text \in ReqTexts : content' = [content EXCEPT !["req"] = text]
           \/ \E text \in ResTexts : content' = [content EXCEPT !["res"] = text]
    PROVE  /\ content' \in [Files -> ReqTexts \cup ResTexts]
           /\ content'["req"] \in ReqTexts /\ content'["res"] \in ResTexts
  BY MailboxAssumption DEF TypeInv

LEMMA FaultType ==
    ASSUME TypeInv, NEW f \in BOOLEAN, Fault(f)
    PROVE  faults' \in 0 .. MaxFaults
  BY AttemptsAssumption DEF TypeInv, Fault

(* What a step of storage_file_open leaves of the files.                   *)
LEMMA OpeningType ==
    ASSUME TypeInv, JobsInv, NEW t \in Threads, Opening(t)
    PROVE  TypeInv'
<1>1. UNCHANGED <<apc, cpc, landed, sawPending, tornRead, removeFailed, unread, asked, taken,
                  restarts, executed, accepted>>
  BY DEF Opening, agentVars, clientVars
<1>2. ASSUME NEW f \in BOOLEAN, Fault(f), TryOpen(t, f) PROVE TypeInv'
  <2>1. faults' \in 0 .. MaxFaults
    BY <1>2, FaultType
  <2>2. closed' \in [Threads -> BOOLEAN]
    BY <1>2 DEF TypeInv, TryOpen
  <2>3. job[t].file \in Files
    BY <1>2, MailboxAssumption DEF TryOpen, JobsInv, OpenJobs, Idle
  <2>4. \/ content' = content
        \/ content' = [content EXCEPT ![job[t].file] = Empty]
    BY <1>2 DEF TryOpen
  <2>5. Empty \in ReqTexts /\ Empty \in ResTexts
    BY DEF ReqTexts, ResTexts
  <2>6. /\ content' \in [Files -> ReqTexts \cup ResTexts]
        /\ content'["req"] \in ReqTexts /\ content'["res"] \in ResTexts
    BY <2>3, <2>4, <2>5, ContentType, MailboxAssumption
  <2> QED BY <1>1, <2>1, <2>2, <2>6 DEF TypeInv
<1>3. ASSUME CloseSeen(t), UNCHANGED faults PROVE TypeInv'
  BY <1>1, <1>3 DEF CloseSeen, TypeInv
<1> QED BY <1>2, <1>3 DEF Opening

(* The close of a File tells the threads that wait.                        *)
LEMMA ClosedType ==
    ASSUME TypeInv, NEW t, Closed(t)
    PROVE  closed' \in [Threads -> BOOLEAN]
  BY DEF TypeInv, Closed

(* What a run of the taken request adds to the history.                    *)
LEMMA ExecutesLemma ==
    ASSUME TypeInv, Executes(taken)
    PROVE  /\ executed' \in [Requests -> 0 .. 2]
           /\ taken = Empty => executed' = executed
           /\ \A k \in Requests : taken = Req(k) =>
                executed' = [executed EXCEPT ![k] = IF @ = 2 THEN 2 ELSE @ + 1]
<1>1. ASSUME NEW k \in Requests, taken = Req(k)
      PROVE  executed' = [executed EXCEPT ![k] = IF @ = 2 THEN 2 ELSE @ + 1]
  BY <1>1, Texts DEF Executes
<1>2. taken = Empty => executed' = executed
  BY DEF Executes
<1>3. ASSUME NEW k \in Requests
      PROVE  (IF executed[k] = 2 THEN 2 ELSE executed[k] + 1) \in 0 .. 2
  BY DEF TypeInv
<1>4. executed' \in [Requests -> 0 .. 2]
  BY <1>1, <1>2, <1>3 DEF TypeInv
<1> QED BY <1>1, <1>2, <1>4

LEMMA TypeStep == IInv /\ [Next]_vars => TypeInv'
<1> SUFFICES ASSUME IInv, [Next]_vars PROVE TypeInv'
  OBVIOUS
<1> USE DEF IInv
<1>0. /\ NoFile \in ReqTexts /\ Empty \in ReqTexts
      /\ \A k \in Requests : Req(k) \in ReqTexts
      /\ Pending \in ResTexts /\ Empty \in ResTexts
      /\ \A text \in {Empty} \cup {Req(k) : k \in Requests} : Answer(text) \in ResTexts
  BY Answers DEF ReqTexts, ResTexts
<1>1. ASSUME NEW f \in BOOLEAN, BootRemove(f) \/ PollRemove(f) PROVE TypeInv'
  <2>1. faults' \in 0 .. MaxFaults
    BY <1>1, FaultType DEF BootRemove, PollRemove
  <2>2. /\ content' \in [Files -> ReqTexts \cup ResTexts]
        /\ content'["req"] \in ReqTexts /\ content'["res"] \in ResTexts
    BY <1>0, <1>1, ContentType DEF BootRemove, PollRemove, RemoveFile
  <2>3. removeFailed' \in BOOLEAN
    BY <1>1 DEF BootRemove, PollRemove, TypeInv
  <2> QED
    BY <1>1, <2>1, <2>2, <2>3
    DEF BootRemove, PollRemove, RemoveFile, StartWrite, clientVars, TypeInv
<1>2. ASSUME NEW f \in BOOLEAN, WriteData(f) PROVE TypeInv'
  <2>1. faults' \in 0 .. MaxFaults
    BY <1>2, FaultType DEF WriteData
  <2>2. closed' \in [Threads -> BOOLEAN]
    BY <1>2, ClosedType DEF WriteData, WriteAndClose
  <2>3. job["agent"].file = "res"
    BY <1>2 DEF WriteData, JobsInv, OpenJobs
  <2>4. todo.data \in ResTexts /\ todo.next \in {"poll", "run"}
    BY <1>0, <1>2 DEF WriteData, WriteInv, Writing, TypeInv
  <2>5. /\ content' \in [Files -> ReqTexts \cup ResTexts]
        /\ content'["req"] \in ReqTexts /\ content'["res"] \in ResTexts
    BY <1>2, <2>3, <2>4, ContentType DEF WriteData, WriteAndClose
  <2>6. landed' \in BOOLEAN /\ apc' \in {"poll", "run", "write"}
    BY <1>2, <2>4 DEF WriteData, Attempted
  <2> QED BY <1>2, <2>1, <2>2, <2>5, <2>6 DEF WriteData, clientVars, TypeInv
<1>3. ASSUME WriteOpenFailed PROVE TypeInv'
  <2>1. closed' \in [Threads -> BOOLEAN]
    BY <1>3, ClosedType DEF WriteOpenFailed, CloseFile
  <2>2. todo.next \in {"poll", "run"}
    BY <1>3 DEF WriteOpenFailed, WriteInv, Writing
  <2>3. landed' \in BOOLEAN /\ apc' \in {"poll", "run", "write"}
    BY <1>3, <2>2 DEF WriteOpenFailed, Attempted
  <2> QED BY <1>3, <2>1, <2>3 DEF WriteOpenFailed, CloseFile, clientVars, TypeInv
<1>4. ASSUME WriteOpen \/ PollOpen PROVE TypeInv'
  BY <1>4 DEF WriteOpen, PollOpen, OpenBegins, clientVars, TypeInv
<1>5. ASSUME PollFailed PROVE TypeInv'
  <2>1. closed' \in [Threads -> BOOLEAN]
    BY <1>5, ClosedType DEF PollFailed, CloseFile
  <2> QED BY <1>5, <2>1 DEF PollFailed, CloseFile, clientVars, TypeInv
<1>18. ASSUME NEW f \in BOOLEAN, PollRead(f) PROVE TypeInv'
  <2>1. closed' \in [Threads -> BOOLEAN]
    BY <1>18, ClosedType DEF PollRead, CloseFile
  <2>2. content["req"] \in {Empty} \cup {Req(k) : k \in Requests}
    BY <1>18 DEF PollRead, JobsInv, TypeInv, ReqTexts
  <2>3. unread' \subseteq Requests
    BY <1>18, <2>2, Texts DEF PollRead, TypeInv
  <2>4. taken' \in {Empty} \cup {Req(k) : k \in Requests}
    BY <1>18, <2>2 DEF PollRead
  <2>5. faults' \in 0 .. MaxFaults
    BY <1>18, FaultType DEF PollRead
  <2> QED BY <1>18, <2>1, <2>3, <2>4, <2>5 DEF PollRead, CloseFile, clientVars, TypeInv
<1>6. ASSUME PollExists PROVE TypeInv'
  BY <1>6 DEF PollExists, clientVars, storageVars, TypeInv
<1>7. ASSUME Executes(taken) PROVE executed' \in [Requests -> 0 .. 2]
  BY <1>7, ExecutesLemma
<1>8. ASSUME Run PROVE TypeInv'
  BY <1>7, <1>8 DEF Run, StartWrite, clientVars, storageVars, TypeInv
<1>9. ASSUME Restarted, executed' \in [Requests -> 0 .. 2] PROVE TypeInv'
  <2>1. restarts' \in 0 .. MaxRestarts + 1
    BY <1>9, AttemptsAssumption DEF Restarted, TypeInv
  <2> QED BY <1>9, <2>1 DEF Restarted, StorageReset, TypeInv
<1>10. ASSUME RunReboot PROVE TypeInv'
  BY <1>7, <1>9, <1>10 DEF RunReboot
<1>11. ASSUME Crash PROVE TypeInv'
  BY <1>9, <1>11 DEF Crash, TypeInv
<1>12. ASSUME ClientSend PROVE TypeInv'
  <2>1. asked' \in Requests
    BY <1>12, AttemptsAssumption DEF ClientSend, TypeInv, Requests
  <2>2. asked' \in 0 .. MaxRequests
    BY <2>1 DEF Requests
  <2> QED BY <1>12, <2>1, <2>2 DEF ClientSend, OpenBegins, agentVars, TypeInv
<1>13. ASSUME NEW f \in BOOLEAN, ClientWrite(f) PROVE TypeInv'
  <2>1. faults' \in 0 .. MaxFaults
    BY <1>13, FaultType DEF ClientWrite
  <2>2. closed' \in [Threads -> BOOLEAN]
    BY <1>13, ClosedType DEF ClientWrite, WriteAndClose
  <2>3. job["client"].file = "req" /\ Req(asked) \in ReqTexts
    BY <1>0, <1>13 DEF ClientWrite, JobsInv, OpenJobs, TypeInv
  <2>4. /\ content' \in [Files -> ReqTexts \cup ResTexts]
        /\ content'["req"] \in ReqTexts /\ content'["res"] \in ResTexts
    BY <1>13, <2>3, ContentType DEF ClientWrite, WriteAndClose
  <2> QED BY <1>13, <2>1, <2>2, <2>4 DEF ClientWrite, agentVars, TypeInv
<1>14. ASSUME ClientWriteFailed \/ ClientAsk PROVE TypeInv'
  <2>1. closed' \in [Threads -> BOOLEAN]
    BY <1>14, ClosedType DEF ClientWriteFailed, ClientAsk, CloseFile, OpenBegins, TypeInv
  <2> QED
    BY <1>14, <2>1
    DEF ClientWriteFailed, ClientAsk, CloseFile, OpenBegins, agentVars, TypeInv
<1>15. ASSUME ClientRead PROVE TypeInv'
  <2>1. PICK text : text = IF job["client"].at = "open" THEN content["res"] ELSE NoFile
    OBVIOUS
  <2>2. closed' \in [Threads -> BOOLEAN]
    BY <1>15, ClosedType DEF ClientRead, CloseFile
  <2>3. text \notin {NoFile, Empty, Pending} => text[2] \in 0 .. MaxRequests
    BY <2>1, Texts DEF TypeInv, ResTexts
  <2>4. accepted' \in [Requests -> 0 .. MaxRequests]
    BY <1>15, <2>1, <2>3 DEF ClientRead, TypeInv
  <2>5. /\ tornRead' \in BOOLEAN /\ sawPending' \in BOOLEAN /\ cpc' \in {"idle", "ask"}
    BY <1>15 DEF ClientRead, TypeInv
  <2> QED BY <1>15, <2>2, <2>4, <2>5 DEF ClientRead, CloseFile, agentVars, TypeInv
<1>16. ASSUME ClientGivesUp PROVE TypeInv'
  BY <1>16 DEF ClientGivesUp, storageVars, agentVars, TypeInv
<1>17. CASE UNCHANGED vars
  BY <1>17 DEF vars, storageVars, agentVars, clientVars, TypeInv
<1> QED
  BY <1>1, <1>2, <1>3, <1>4, <1>5, <1>6, <1>8, <1>10, <1>11, <1>12, <1>13, <1>14, <1>15, <1>16,
     <1>17, <1>18, OpeningType DEF Next, AgentStep, ClientStep

-----------------------------------------------------------------------------
(* The Files and the table                                                 *)

(* A thread that begins an open is not in the table yet.                   *)
LEMMA BeginsJob ==
    ASSUME TypeInv, JobsInv, NEW t \in Threads, NEW f \in Files,
           NEW m \in {"create", "existing"}, OpenBegins(t, f, m)
    PROVE  /\ opened' = opened /\ content' = content
           /\ job' \in [Threads -> Jobs]
           /\ job'[t] \in OpenJobs(f, m) /\ job'[t].at = "try"
           /\ \A u \in Threads \ {t} : job'[u] = job[u]
           /\ \A g \in Files, u \in Threads :
                opened'[g] = u <=> InTable(u)' /\ job'[u].file = g
<1> DEFINE j == [at |-> "try", file |-> f, mode |-> m]
<1>1. j \in Jobs /\ j \in OpenJobs(f, m) /\ j.at = "try"
  BY DEF Jobs, OpenJobs
<1>2. job[t] = Idle /\ job' = [job EXCEPT ![t] = j] /\ opened' = opened /\ content' = content
  BY DEF OpenBegins
<1> HIDE DEF j
<1>3. job' \in [Threads -> Jobs] /\ job'[t] = j /\ \A u \in Threads \ {t} : job'[u] = job[u]
  BY <1>1, <1>2 DEF JobsInv
<1>4. ~InTable(t) /\ ~InTable(t)'
  BY <1>1, <1>2, <1>3 DEF InTable, Idle
<1> QED BY <1>1, <1>2, <1>3, <1>4 DEF JobsInv, InTable

(* A thread that closes its File is no more in the table.                  *)
LEMMA ClosedJob ==
    ASSUME TypeInv, JobsInv, NEW t \in Threads, InTable(t), Closed(t)
    PROVE  /\ opened' \in [Files -> Threads \cup {Nobody}]
           /\ job' \in [Threads -> Jobs]
           /\ job'[t] = Idle
           /\ \A u \in Threads \ {t} : job'[u] = job[u]
           /\ \A g \in Files, u \in Threads :
                opened'[g] = u <=> InTable(u)' /\ job'[u].file = g
<1>1. Idle \in Jobs /\ Idle.at = "none"
  BY DEF Idle, Jobs
<1>2. job' = [job EXCEPT ![t] = Idle] /\ opened' = [opened EXCEPT ![job[t].file] = Nobody]
  BY DEF Closed
<1>3. job' \in [Threads -> Jobs] /\ job'[t] = Idle /\ \A u \in Threads \ {t} : job'[u] = job[u]
  BY <1>1, <1>2 DEF JobsInv
<1>4. opened' \in [Files -> Threads \cup {Nobody}]
  BY <1>2 DEF JobsInv
<1>5. ~InTable(t)'
  BY <1>1, <1>3 DEF InTable
<1>6. \A u \in Threads : u # Nobody
  BY MailboxAssumption DEF Nobody
<1>7. ASSUME NEW g \in Files, NEW u \in Threads
      PROVE  opened'[g] = u <=> InTable(u)' /\ job'[u].file = g
  <2>1. CASE u = t
    BY <1>2, <1>5, <1>6, <2>1 DEF JobsInv
  <2>2. CASE u # t
    BY <1>2, <1>3, <1>6, <2>2 DEF JobsInv, InTable
  <2> QED BY <2>1, <2>2
<1> QED BY <1>3, <1>4, <1>7

(* A try: the File enters the table of a path that is free.                *)
LEMMA TryJob ==
    ASSUME TypeInv, JobsInv, NEW t \in Threads, NEW fault \in BOOLEAN, TryOpen(t, fault)
    PROVE  /\ opened' \in [Files -> Threads \cup {Nobody}]
           /\ job' \in [Threads -> Jobs]
           /\ job'[t].file = job[t].file /\ job'[t].mode = job[t].mode
           /\ job'[t].at \in {"wait", "open", "failed"}
           /\ \A u \in Threads \ {t} : job'[u] = job[u]
           /\ \A g \in Files, u \in Threads :
                opened'[g] = u <=> InTable(u)' /\ job'[u].file = g
<1>1. job[t] \in Jobs /\ job[t].at = "try" /\ ~InTable(t) /\ job[t].file \in Files
  BY MailboxAssumption DEF JobsInv, TryOpen, InTable, OpenJobs, Idle
<1>2. PICK a \in {"wait", "open", "failed"} :
        /\ job' = [job EXCEPT ![t].at = a]
        /\ a = "wait" => opened' = opened
        /\ a # "wait" => /\ opened[job[t].file] = Nobody
                         /\ opened' = [opened EXCEPT ![job[t].file] = t]
  BY <1>1 DEF TryOpen
<1>3. [job[t] EXCEPT !.at = a] \in Jobs
  BY <1>1, <1>2 DEF Jobs
<1>4. PICK j \in Jobs : /\ job' = [job EXCEPT ![t] = j]
                        /\ j.at = a /\ j.file = job[t].file /\ j.mode = job[t].mode
  BY <1>1, <1>2, <1>3 DEF Jobs
<1>5. job' \in [Threads -> Jobs] /\ job'[t] = j /\ \A u \in Threads \ {t} : job'[u] = job[u]
  BY <1>4 DEF JobsInv
<1>6. opened' \in [Files -> Threads \cup {Nobody}]
  BY <1>1, <1>2 DEF JobsInv
<1>7. \A u \in Threads : u # Nobody
  BY MailboxAssumption DEF Nobody
<1>8. ASSUME NEW g \in Files, NEW u \in Threads
      PROVE  opened'[g] = u <=> InTable(u)' /\ job'[u].file = g
  <2>1. CASE a = "wait"
    BY <1>1, <1>2, <1>4, <1>5, <2>1 DEF JobsInv, InTable
  <2>2. CASE a # "wait" /\ u = t
    BY <1>1, <1>2, <1>4, <1>5, <2>2 DEF JobsInv, InTable
  <2>3. CASE a # "wait" /\ u # t
    BY <1>1, <1>2, <1>4, <1>5, <1>7, <2>3 DEF JobsInv, InTable
  <2> QED BY <2>1, <2>2, <2>3
<1> QED BY <1>2, <1>4, <1>5, <1>6, <1>8

(* A thread that was told of a close tries again.                          *)
LEMMA SeenJob ==
    ASSUME TypeInv, JobsInv, NEW t \in Threads, CloseSeen(t)
    PROVE  /\ opened' = opened /\ content' = content
           /\ job' \in [Threads -> Jobs]
           /\ job'[t].file = job[t].file /\ job'[t].mode = job[t].mode
           /\ job[t].at = "wait" /\ job'[t].at = "try"
           /\ \A u \in Threads \ {t} : job'[u] = job[u]
           /\ \A g \in Files, u \in Threads :
                opened'[g] = u <=> InTable(u)' /\ job'[u].file = g
<1>1. job[t] \in Jobs /\ job[t].at = "wait"
  BY DEF JobsInv, CloseSeen
<1>2. [job[t] EXCEPT !.at = "try"] \in Jobs
  BY <1>1 DEF Jobs
<1>3. PICK j \in Jobs : /\ job' = [job EXCEPT ![t] = j]
                        /\ j.at = "try" /\ j.file = job[t].file /\ j.mode = job[t].mode
  BY <1>1, <1>2 DEF Jobs, CloseSeen
<1>4. job' \in [Threads -> Jobs] /\ job'[t] = j /\ \A u \in Threads \ {t} : job'[u] = job[u]
  BY <1>3 DEF JobsInv
<1>5. opened' = opened /\ content' = content
  BY DEF CloseSeen
<1> QED BY <1>1, <1>3, <1>4, <1>5 DEF JobsInv, InTable

LEMMA OpenJobLemma ==
    ASSUME NEW j \in Jobs, NEW f, NEW m
    PROVE  j \in OpenJobs(f, m)
             <=> j.at \in {"try", "wait", "open", "failed"} /\ j.file = f /\ j.mode = m
  BY DEF Jobs, OpenJobs

LEMMA JobsStep == IInv /\ [Next]_vars => JobsInv'
<1> SUFFICES ASSUME IInv, [Next]_vars PROVE JobsInv'
  OBVIOUS
<1> USE DEF IInv
<1>0. /\ "agent" \in Threads /\ "client" \in Threads /\ Threads = {"agent", "client"}
      /\ "req" \in Files /\ "res" \in Files
  BY MailboxAssumption
<1>1. ASSUME NEW f \in BOOLEAN, BootRemove(f) \/ PollRemove(f) PROVE JobsInv'
  BY <1>1 DEF BootRemove, PollRemove, RemoveFile, StartWrite, clientVars, JobsInv, InTable
<1>2. ASSUME apc = "write_open", InTable("agent"), Closed("agent"), cpc' = cpc,
             apc' \in {"poll", "run", "write"}
      PROVE  JobsInv'
  BY <1>0, <1>2, ClosedJob DEF JobsInv
<1>3. ASSUME NEW f \in BOOLEAN, WriteData(f) PROVE JobsInv'
  <2>1. todo.next \in {"poll", "run"}
    BY <1>3 DEF WriteData, WriteInv, Writing
  <2> QED BY <1>2, <1>3, <2>1 DEF WriteData, WriteAndClose, Attempted, InTable, clientVars
<1>4. ASSUME WriteOpenFailed PROVE JobsInv'
  <2>1. todo.next \in {"poll", "run"}
    BY <1>4 DEF WriteOpenFailed, WriteInv, Writing
  <2> QED BY <1>2, <1>4, <2>1 DEF WriteOpenFailed, CloseFile, Attempted, InTable, clientVars
<1>5. ASSUME WriteOpen PROVE JobsInv'
  <2>1. OpenBegins("agent", "res", "create") /\ apc' = "write_open" /\ cpc' = cpc
    BY <1>5 DEF WriteOpen, clientVars
  <2> QED BY <1>0, <2>1, BeginsJob DEF JobsInv
<1>6. ASSUME PollOpen PROVE JobsInv'
  <2>1. OpenBegins("agent", "req", "existing") /\ apc' = "req_open" /\ cpc' = cpc
    BY <1>6 DEF PollOpen, clientVars
  <2> QED BY <1>0, <2>1, BeginsJob DEF JobsInv
<1>7. ASSUME PollFailed \/ (\E f \in BOOLEAN : PollRead(f)) PROVE JobsInv'
  <2>1. /\ InTable("agent") /\ Closed("agent") /\ cpc' = cpc
        /\ apc' \in {"remove", "exists"}
    BY <1>7 DEF PollRead, PollFailed, CloseFile, InTable, clientVars
  <2> QED BY <1>0, <2>1, ClosedJob DEF JobsInv
<1>8. ASSUME PollExists \/ Run \/ ClientGivesUp PROVE JobsInv'
  BY <1>8
  DEF PollExists, Run, ClientGivesUp, StartWrite, storageVars, agentVars, clientVars, JobsInv,
      InTable
<1>9. ASSUME Restarted PROVE JobsInv'
  <2>1. job' = [t \in Threads |-> Idle] /\ opened' = [f \in Files |-> Nobody]
    BY <1>9 DEF Restarted, StorageReset
  <2>2. Idle \in Jobs /\ Idle.at = "none" /\ \A t \in Threads : t # Nobody
    BY <1>0 DEF Idle, Jobs, Nobody
  <2>3. apc' = "boot" /\ cpc' \in {"idle", "ask"}
    BY <1>9 DEF Restarted
  <2> QED BY <1>0, <2>1, <2>2, <2>3 DEF JobsInv, InTable
<1>10. ASSUME RunReboot \/ Crash PROVE JobsInv'
  BY <1>9, <1>10 DEF RunReboot, Crash
<1>11. ASSUME ClientSend PROVE JobsInv'
  <2>1. OpenBegins("client", "req", "create") /\ cpc' = "send" /\ apc' = apc
    BY <1>11 DEF ClientSend, agentVars
  <2> QED BY <1>0, <2>1, BeginsJob DEF JobsInv
<1>12. ASSUME ClientAsk PROVE JobsInv'
  <2>1. OpenBegins("client", "res", "existing") /\ cpc' = "asking" /\ apc' = apc
    BY <1>12 DEF ClientAsk, agentVars
  <2> QED BY <1>0, <2>1, BeginsJob DEF JobsInv
<1>13. ASSUME InTable("client"), Closed("client"), apc' = apc, cpc' \in {"idle", "ask"},
              content' = content \/ opened["req"] = "client"
       PROVE  JobsInv'
  <2>1. apc' = "req_open" /\ job["agent"].at = "open" => content'["req"] # NoFile
    BY <1>0, <1>13, OpenJobLemma DEF JobsInv, InTable
  <2> QED BY <1>0, <1>13, <2>1, ClosedJob DEF JobsInv
<1>14. ASSUME NEW f \in BOOLEAN, ClientWrite(f) PROVE JobsInv'
  <2>1. /\ InTable("client") /\ Closed("client") /\ cpc' = "ask" /\ apc' = apc
        /\ cpc = "send"
    BY <1>14 DEF ClientWrite, WriteAndClose, InTable, agentVars
  <2>2. opened["req"] = "client"
    BY <1>0, <2>1, OpenJobLemma DEF JobsInv
  <2> QED BY <1>13, <2>1, <2>2
<1>15. ASSUME ClientWriteFailed \/ ClientRead PROVE JobsInv'
  <2>1. /\ InTable("client") /\ Closed("client") /\ cpc' \in {"idle", "ask"} /\ apc' = apc
        /\ content' = content
    BY <1>15 DEF ClientWriteFailed, ClientRead, CloseFile, InTable, agentVars
  <2> QED BY <1>13, <2>1
<1>16. ASSUME NEW t \in Threads, Opening(t) PROVE JobsInv'
  <2>1. apc' = apc /\ cpc' = cpc
    BY <1>16 DEF Opening, agentVars, clientVars
  <2>2. ASSUME NEW f \in BOOLEAN, TryOpen(t, f) PROVE JobsInv'
    <3>1. \A g, m : job[t] \in OpenJobs(g, m) => job'[t] \in OpenJobs(g, m)
      BY <2>2, TryJob, OpenJobLemma DEF JobsInv
    <3>2. job[t].at = "try"
      BY <2>2 DEF TryOpen
    <3>3. job[t] # Idle
      BY <3>2 DEF Idle
    <3>4. apc = "req_open" /\ job'["agent"].at = "open" => content'["req"] # NoFile
      <4>1. CASE t = "agent" /\ apc = "req_open"
        <5>1. job[t].file = "req" /\ job[t].mode = "existing"
          BY <1>0, <4>1, OpenJobLemma DEF JobsInv
        <5> QED BY <2>2, <4>1, <5>1 DEF TryOpen, JobsInv, Jobs
      <4>2. CASE t = "client" /\ apc = "req_open" /\ job'["agent"].at = "open"
        <5>1. job["agent"].at = "open" /\ opened["req"] = "agent"
          BY <1>0, <2>2, <4>2, TryJob, OpenJobLemma DEF JobsInv, InTable
        <5>2. content' = content \/ content' = [content EXCEPT !["res"] = Empty]
          BY <1>0, <2>2, <4>2, <5>1 DEF TryOpen, JobsInv, Nobody, OpenJobs, Idle
        <5> QED BY <1>0, <4>2, <5>1, <5>2 DEF JobsInv, TypeInv
      <4> QED BY <1>0, <4>1, <4>2
    <3> QED BY <1>0, <2>1, <2>2, <3>1, <3>3, <3>4, TryJob DEF JobsInv
  <2>3. ASSUME CloseSeen(t) PROVE JobsInv'
    <3>1. \A g, m : job[t] \in OpenJobs(g, m) => job'[t] \in OpenJobs(g, m)
      BY <2>3, SeenJob, OpenJobLemma DEF JobsInv
    <3>2. job[t] # Idle /\ job'[t].at = "try"
      BY <2>3, SeenJob DEF Idle
    <3> QED BY <1>0, <2>1, <2>3, <3>1, <3>2, SeenJob DEF JobsInv
  <2> QED BY <1>16, <2>2, <2>3 DEF Opening
<1>17. CASE UNCHANGED vars
  BY <1>17 DEF vars, storageVars, agentVars, clientVars, JobsInv, InTable
<1> QED
  BY <1>1, <1>3, <1>4, <1>5, <1>6, <1>7, <1>8, <1>10, <1>11, <1>12, <1>14, <1>15, <1>16, <1>17
  DEF Next, AgentStep, ClientStep

-----------------------------------------------------------------------------
(* What the files hold                                                     *)

(* An open of req by the client, or of res by the agent, empties the file  *)
(* and leaves it with its File open; no other open changes a file.         *)
LEMMA OpeningFiles ==
    ASSUME TypeInv, JobsInv, NEW t \in Threads, Opening(t)
    PROVE  /\ \/ content'["req"] = content["req"]
              \/ /\ cpc = "send" /\ content'["req"] = Empty /\ job'["client"].at = "open"
                 /\ opened["req"] = Nobody
           /\ \/ content'["res"] = content["res"]
              \/ /\ apc = "write_open" /\ content'["res"] = Empty /\ job'["agent"].at = "open"
           /\ \A u \in Threads : job[u].at = "open" => job'[u].at = "open"
           /\ faults' = 0 => faults = 0
<1>0. Threads = {"agent", "client"} /\ Files = {"req", "res"}
  BY MailboxAssumption
<1>1. ASSUME CloseSeen(t), UNCHANGED faults
      PROVE  content' = content /\ (\A u \in Threads : job[u].at = "open" => job'[u].at = "open")
  BY <1>1, SeenJob
<1>2. ASSUME NEW f \in BOOLEAN, Fault(f), TryOpen(t, f)
      PROVE  /\ \/ content' = content
                \/ /\ content' = [content EXCEPT ![job[t].file] = Empty]
                   /\ job'[t].at = "open" /\ job[t].mode = "create"
                   /\ opened[job[t].file] = Nobody
             /\ \A u \in Threads : job[u].at = "open" => job'[u].at = "open"
             /\ faults' = 0 => faults = 0
  <2>1. job[t].at = "try" /\ job[t] \in Jobs
    BY <1>2 DEF TryOpen, JobsInv
  <2>2. \/ content' = content
        \/ /\ content' = [content EXCEPT ![job[t].file] = Empty]
           /\ job' = [job EXCEPT ![t].at = "open"] /\ job[t].mode = "create"
           /\ opened[job[t].file] = Nobody
    BY <1>2 DEF TryOpen
  <2>3. job' = [job EXCEPT ![t].at = "open"] => job'[t].at = "open"
    BY <2>1 DEF JobsInv, Jobs
  <2>4. \A u \in Threads : job[u].at = "open" => job'[u].at = "open"
    BY <1>2, <2>1, TryJob
  <2>5. faults' = 0 => faults = 0
    BY <1>2 DEF Fault, TypeInv
  <2> QED BY <2>2, <2>3, <2>4, <2>5
<1>3. job[t].mode = "create" => \/ t = "client" /\ cpc = "send" /\ job[t].file = "req"
                                \/ t = "agent" /\ apc = "write_open" /\ job[t].file = "res"
  BY <1>0, OpenJobLemma DEF JobsInv, Idle, Nobody, OpenJobs
<1>4. CASE \E f \in BOOLEAN : Fault(f) /\ TryOpen(t, f)
  BY <1>0, <1>2, <1>3, <1>4 DEF TypeInv
<1>5. CASE CloseSeen(t) /\ UNCHANGED faults
  BY <1>1, <1>5
<1> QED BY <1>4, <1>5 DEF Opening

(* The attempts to write end with the first success or the last attempt.   *)
LEMMA AttemptedLemma ==
    ASSUME TypeInv, WriteInv, apc = "write_open", NEW ok \in BOOLEAN, Attempted(ok)
    PROVE  /\ landed' = ok
           /\ \/ apc' = todo.next /\ tries' = 0 /\ apc' \in {"poll", "run"}
              \/ ~ok /\ apc' = "write" /\ todo' = todo /\ tries' \in 0 .. WriteAttempts - 1
<1>1. /\ tries \in 0 .. WriteAttempts - 1 /\ todo.next \in {"poll", "run"}
  BY DEF WriteInv, Writing
<1>2. CASE ok \/ tries + 1 = WriteAttempts
  BY <1>1, <1>2 DEF Attempted
<1>3. CASE ~(ok \/ tries + 1 = WriteAttempts)
  BY <1>1, <1>3, AttemptsAssumption DEF Attempted
<1> QED BY <1>2, <1>3

LEMMA WriteStep == IInv /\ [Next]_vars => WriteInv'
<1> SUFFICES ASSUME IInv, [Next]_vars PROVE WriteInv'
  OBVIOUS
<1> USE DEF IInv, WriteInv, Writing
<1>1. ASSUME NEW f \in BOOLEAN, BootRemove(f) PROVE WriteInv'
  <2>1. 0 \in 0 .. WriteAttempts - 1
    BY AttemptsAssumption
  <2> QED BY <1>1, <2>1 DEF BootRemove, StartWrite
<1>2. ASSUME NEW f \in BOOLEAN, PollRemove(f) PROVE WriteInv'
  <2>1. 0 \in 0 .. WriteAttempts - 1
    BY AttemptsAssumption
  <2> QED BY <1>2, <2>1 DEF PollRemove, StartWrite
<1>3. ASSUME NEW ok \in BOOLEAN, apc = "write_open", Attempted(ok), taken' = taken
      PROVE  WriteInv'
  <2>1. 0 \in 0 .. ReqAttempts - 1
    BY AttemptsAssumption
  <2> QED BY <1>3, <2>1, AttemptedLemma
<1>4. ASSUME NEW f \in BOOLEAN, WriteData(f) PROVE WriteInv'
  BY <1>3, <1>4 DEF WriteData
<1>5. ASSUME WriteOpenFailed PROVE WriteInv'
  BY <1>3, <1>5 DEF WriteOpenFailed
<1>6. ASSUME WriteOpen \/ PollOpen \/ PollFailed PROVE WriteInv'
  BY <1>6 DEF WriteOpen, PollOpen, PollFailed
<1>7. ASSUME NEW f \in BOOLEAN, PollRead(f) PROVE WriteInv'
  BY <1>7 DEF PollRead
<1>8. ASSUME PollExists PROVE WriteInv'
  <2>1. tries' \in 0 .. ReqAttempts - 1
    BY <1>8, AttemptsAssumption DEF PollExists
  <2> QED BY <1>8, <2>1 DEF PollExists
<1>9. ASSUME Run PROVE WriteInv'
  <2>1. 0 \in 0 .. WriteAttempts - 1
    BY AttemptsAssumption
  <2> QED BY <1>9, <2>1 DEF Run, StartWrite
<1>10. ASSUME RunReboot \/ Crash PROVE WriteInv'
  BY <1>10 DEF RunReboot, Crash, Restarted
<1>11. ASSUME UNCHANGED agentVars PROVE WriteInv'
  BY <1>11 DEF agentVars
<1>12. ASSUME ClientSend \/ ClientStep \/ ClientGivesUp PROVE WriteInv'
  BY <1>11, <1>12
  DEF ClientSend, ClientStep, ClientWrite, ClientWriteFailed, ClientAsk, ClientRead,
      ClientGivesUp
<1>13. ASSUME NEW t \in Threads, Opening(t) PROVE WriteInv'
  BY <1>11, <1>13 DEF Opening
<1>14. CASE UNCHANGED vars
  BY <1>11, <1>14 DEF vars
<1> QED
  BY <1>1, <1>2, <1>4, <1>5, <1>6, <1>7, <1>8, <1>9, <1>10, <1>12, <1>13, <1>14
  DEF Next, AgentStep

(* The client changes req alone, while it sends a request, and has no File *)
(* left then but the one it has begun to open.                             *)
LEMMA ClientFiles ==
    ASSUME TypeInv, JobsInv, ClientSend \/ ClientStep \/ ClientGivesUp
    PROVE  /\ UNCHANGED <<agentVars, restarts>> /\ content'["res"] = content["res"]
           /\ \/ content'["req"] = content["req"]
              \/ cpc = "send" /\ cpc' = "ask" /\ content'["req"] = Req(asked) /\ asked' = asked
           /\ job'["agent"] = job["agent"]
           /\ faults' = 0 => faults = 0
<1>0. Threads = {"agent", "client"} /\ Files = {"req", "res"}
  BY MailboxAssumption
<1>1. ASSUME NEW f \in BOOLEAN, ClientWrite(f)
      PROVE  /\ UNCHANGED <<agentVars, restarts>> /\ content'["res"] = content["res"]
             /\ \/ content'["req"] = content["req"]
                \/ cpc = "send" /\ cpc' = "ask" /\ content'["req"] = Req(asked) /\ asked' = asked
             /\ job'["agent"] = job["agent"]
             /\ faults' = 0 => faults = 0
  <2>1. job["client"].file = "req"
    BY <1>1 DEF ClientWrite, JobsInv, OpenJobs
  <2>2. content' = content \/ content' = [content EXCEPT !["req"] = Req(asked)]
    BY <1>1, <2>1 DEF ClientWrite, WriteAndClose
  <2>3. job'["agent"] = job["agent"]
    BY <1>0, <1>1 DEF ClientWrite, WriteAndClose, Closed, JobsInv
  <2>4. faults' = 0 => faults = 0
    BY <1>1 DEF ClientWrite, Fault, TypeInv
  <2> QED BY <1>0, <1>1, <2>2, <2>3, <2>4 DEF ClientWrite, TypeInv
<1>2. ASSUME ClientSend \/ ClientAsk
      PROVE  UNCHANGED <<agentVars, restarts, faults, content>> /\ job'["agent"] = job["agent"]
  BY <1>0, <1>2 DEF ClientSend, ClientAsk, OpenBegins, JobsInv
<1>3. ASSUME ClientWriteFailed \/ ClientRead
      PROVE  UNCHANGED <<agentVars, restarts, faults, content>> /\ job'["agent"] = job["agent"]
  BY <1>0, <1>3 DEF ClientWriteFailed, ClientRead, CloseFile, Closed, JobsInv
<1>4. ASSUME ClientGivesUp
      PROVE  UNCHANGED <<agentVars, restarts, faults, content>> /\ job'["agent"] = job["agent"]
  BY <1>4 DEF ClientGivesUp, storageVars
<1> QED BY <1>1, <1>2, <1>3, <1>4 DEF ClientStep

(* The agent writes res: on success res holds the data.                    *)
LEMMA WriteDataFiles ==
    ASSUME TypeInv, JobsInv, NEW f \in BOOLEAN, WriteData(f)
    PROVE  /\ content'["req"] = content["req"]
           /\ content'["res"] = IF f THEN content["res"] ELSE todo.data
           /\ faults' = 0 => faults = 0 /\ ~f
<1>0. Threads = {"agent", "client"} /\ Files = {"req", "res"}
  BY MailboxAssumption
<1>1. job["agent"].file = "res"
  BY DEF WriteData, JobsInv, OpenJobs
<1>2. content' = IF f THEN content ELSE [content EXCEPT !["res"] = todo.data]
  BY <1>1 DEF WriteData, WriteAndClose
<1>3. faults' = 0 => faults = 0 /\ ~f
  BY DEF WriteData, Fault, TypeInv
<1> QED BY <1>0, <1>2, <1>3 DEF TypeInv

(* The agent removes req, if it can.                                       *)
LEMMA RemoveFiles ==
    ASSUME TypeInv, NEW f \in BOOLEAN, RemoveFile("req", f)
    PROVE  /\ content'["res"] = content["res"]
           /\ content'["req"] = IF Removable("req") /\ ~f THEN NoFile ELSE content["req"]
  BY MailboxAssumption DEF RemoveFile, TypeInv

LEMMA AnswerStep == IInv /\ [Next]_vars => AnswerInv'
<1> SUFFICES ASSUME IInv, [Next]_vars PROVE AnswerInv'
  OBVIOUS
<1> USE DEF IInv, AnswerInv
<1>1. ASSUME NEW f \in BOOLEAN, BootRemove(f) \/ PollRemove(f) PROVE AnswerInv'
  BY <1>1 DEF BootRemove, PollRemove, StartWrite
<1>2. ASSUME NEW f \in BOOLEAN, WriteData(f) PROVE AnswerInv'
  <2>1. /\ apc = "write_open" /\ Attempted(~f) /\ taken' = taken
    BY <1>2 DEF WriteData
  <2>2. CASE f
    BY <2>1, <2>2, AttemptedLemma
  <2>3. CASE ~f
    <3>1. apc' = todo.next
      BY <2>1, <2>3, AttemptedLemma
    <3>2. content'["res"] = todo.data
      BY <1>2, <2>3, WriteDataFiles
    <3> QED BY <2>1, <3>1, <3>2 DEF WriteInv, Writing
  <2> QED BY <2>2, <2>3
<1>3. ASSUME WriteOpenFailed PROVE AnswerInv'
  BY <1>3, AttemptedLemma DEF WriteOpenFailed
<1>4. ASSUME WriteOpen \/ (\E f \in BOOLEAN : PollRead(f)) \/ Run PROVE AnswerInv'
  BY <1>4 DEF WriteOpen, PollRead, Run, StartWrite
<1>5. ASSUME PollOpen \/ PollFailed \/ PollExists PROVE AnswerInv'
  BY <1>5 DEF PollOpen, PollFailed, PollExists, OpenBegins, CloseFile, storageVars
<1>6. ASSUME RunReboot \/ Crash PROVE AnswerInv'
  BY <1>6 DEF RunReboot, Crash, Restarted
<1>7. ASSUME ClientSend \/ ClientStep \/ ClientGivesUp PROVE AnswerInv'
  BY <1>7, ClientFiles DEF agentVars
<1>8. ASSUME NEW t \in Threads, Opening(t) PROVE AnswerInv'
  BY <1>8, OpeningFiles DEF Opening, agentVars
<1>9. CASE UNCHANGED vars
  BY <1>9 DEF vars, storageVars, agentVars
<1> QED
  BY <1>1, <1>2, <1>3, <1>4, <1>5, <1>6, <1>7, <1>8, <1>9 DEF Next, AgentStep

LEMMA TornStep == IInv /\ [Next]_vars => TornInv'
<1> SUFFICES ASSUME IInv, [Next]_vars PROVE TornInv'
  OBVIOUS
<1> USE DEF IInv, TornInv
<1>1. ASSUME NEW f \in BOOLEAN, BootRemove(f) \/ PollRemove(f) PROVE TornInv'
  <2>1. content'["res"] = content["res"]
    BY <1>1, RemoveFiles DEF BootRemove, PollRemove
  <2>2. faults' = 0 => faults = 0
    BY <1>1 DEF BootRemove, PollRemove, Fault, TypeInv
  <2> QED BY <1>1, <2>1, <2>2 DEF BootRemove, PollRemove, clientVars
<1>2. ASSUME NEW f \in BOOLEAN, WriteData(f) PROVE TornInv'
  <2>1. faults' = 0 => content'["res"] = todo.data
    BY <1>2, WriteDataFiles
  <2>2. todo.data # Empty
    BY <1>2, Texts, Answers DEF WriteData, WriteInv, Writing, TypeInv
  <2> QED BY <1>2, <2>1, <2>2 DEF WriteData, clientVars
<1>3. ASSUME WriteOpenFailed PROVE TornInv'
  BY <1>3 DEF WriteOpenFailed, CloseFile, clientVars
<1>4. ASSUME WriteOpen \/ PollOpen \/ PollFailed \/ PollExists \/ Run PROVE TornInv'
  BY <1>4
  DEF WriteOpen, PollOpen, PollFailed, PollExists, Run, OpenBegins, CloseFile,
      clientVars, storageVars
<1>11. ASSUME NEW f \in BOOLEAN, PollRead(f) PROVE TornInv'
  <2>1. faults' = 0 => faults = 0
    BY <1>11 DEF PollRead, Fault, TypeInv
  <2> QED BY <1>11, <2>1 DEF PollRead, CloseFile, clientVars
<1>5. ASSUME RunReboot \/ Crash PROVE TornInv'
  <2>1. restarts' # 0
    BY <1>5, AttemptsAssumption DEF RunReboot, Crash, Restarted, TypeInv
  <2> QED BY <1>5, <2>1 DEF RunReboot, Crash, Restarted
<1>6. ASSUME ClientRead PROVE TornInv'
  <2>1. tornRead' = FALSE
    <3>1. ASSUME job["client"].at = "open", content["res"] = Empty, faults = 0, restarts = 0
          PROVE  FALSE
      <4>1. opened["res"] = "client"
        BY <1>6, <3>1, MailboxAssumption DEF ClientRead, JobsInv, InTable, OpenJobs
      <4>2. opened["res"] = "agent"
        BY <3>1, MailboxAssumption DEF JobsInv, InTable, OpenJobs
      <4> QED BY <4>1, <4>2
    <3> QED BY <1>6, <3>1, Texts DEF ClientRead, TypeInv
  <2> QED BY <1>6, <2>1, ClientFiles DEF ClientStep, agentVars
<1>7. ASSUME ClientSend \/ ClientStep \/ ClientGivesUp, tornRead' = tornRead PROVE TornInv'
  BY <1>7, ClientFiles DEF agentVars
<1>8. ASSUME NEW t \in Threads, Opening(t) PROVE TornInv'
  BY <1>8, OpeningFiles, MailboxAssumption DEF Opening, agentVars, clientVars
<1>9. CASE UNCHANGED vars
  BY <1>9 DEF vars, storageVars, agentVars, clientVars
<1>10. ASSUME ClientSend \/ ClientStep \/ ClientGivesUp PROVE ClientRead \/ tornRead' = tornRead
  BY <1>10
  DEF ClientSend, ClientStep, ClientWrite, ClientWriteFailed, ClientAsk, ClientGivesUp
<1> QED
  BY <1>1, <1>2, <1>3, <1>4, <1>5, <1>6, <1>7, <1>8, <1>9, <1>10, <1>11
  DEF Next, AgentStep

-----------------------------------------------------------------------------
(* The requests                                                            *)

(* A request that was not removed is never forgotten.                      *)
LEMMA RemoveFailedStays ==
    ASSUME TypeInv, [Next]_vars, ~removeFailed' PROVE ~removeFailed
<1>1. ASSUME NEW f \in BOOLEAN, PollRemove(f) PROVE ~removeFailed
  BY <1>1 DEF PollRemove
<1>2. ASSUME UNCHANGED removeFailed PROVE ~removeFailed
  BY <1>2
<1>3. ASSUME AgentStep PROVE ~removeFailed
  BY <1>1, <1>2, <1>3
  DEF AgentStep, BootRemove, WriteData, WriteOpen, WriteOpenFailed, PollOpen, PollRead,
      PollFailed, PollExists, Run, RunReboot, Restarted
<1>4. ASSUME ClientSend \/ ClientStep \/ ClientGivesUp PROVE UNCHANGED removeFailed
  BY <1>4
  DEF ClientSend, ClientStep, ClientWrite, ClientWriteFailed, ClientAsk, ClientRead,
      ClientGivesUp, agentVars
<1>5. ASSUME Crash \/ (\E t \in Threads : Opening(t)) \/ UNCHANGED vars
      PROVE  UNCHANGED removeFailed
  BY <1>5 DEF Crash, Restarted, Opening, vars, agentVars
<1> QED BY <1>2, <1>3, <1>4, <1>5 DEF Next

(* A request that the agent takes is the client's last, and the client is  *)
(* waiting for its answer.                                                 *)
LEMMA TakenIsLast ==
    ASSUME TypeInv, JobsInv, OnceInv, MailInv, NEW f \in BOOLEAN, PollRead(f)
    PROVE  /\ content["req"] \in {Empty, Req(asked)}
           /\ content["req"] # NoFile
           /\ cpc \in {"ask", "asking"}
<1>1. content["req"] # NoFile /\ opened["req"] = "agent"
  BY MailboxAssumption DEF PollRead, JobsInv, InTable, OpenJobs
<1>2. content["req"] \in {Empty, Req(asked)}
  BY <1>1 DEF TypeInv, ReqTexts, OnceInv
<1>3. ASSUME cpc = "send", job["client"].at = "open" PROVE FALSE
  BY <1>1, <1>3, MailboxAssumption DEF JobsInv, InTable, OpenJobs
<1> QED BY <1>1, <1>2, <1>3 DEF TypeInv, MailInv

LEMMA OnceStep ==
    ASSUME IInv, [Next]_vars, ~removeFailed'
    PROVE  OnceInv'
<1>0. TypeInv /\ JobsInv /\ WriteInv /\ OnceInv /\ MailInv /\ ~removeFailed
  BY RemoveFailedStays DEF IInv
<1> SUFFICES ASSUME NEW k \in Requests
             PROVE  /\ executed'[k] <= 1
                    /\ content'["req"] = Req(k) =>
                         /\ executed'[k] = 0 /\ asked' = k /\ cpc' # "send"
                         /\ taken' = Req(k) => Removing'
                    /\ (Removing' \/ Running') /\ taken' = Req(k) => executed'[k] = 0
                    /\ k > asked' \/ (k = asked' /\ cpc' = "send")
                         => executed'[k] = 0 /\ taken' # Req(k)
  BY DEF OnceInv
<1> DEFINE Goal == /\ executed'[k] <= 1
                   /\ content'["req"] = Req(k) =>
                        /\ executed'[k] = 0 /\ asked' = k /\ cpc' # "send"
                        /\ taken' = Req(k) => Removing'
                   /\ (Removing' \/ Running') /\ taken' = Req(k) => executed'[k] = 0
                   /\ k > asked' \/ (k = asked' /\ cpc' = "send")
                        => executed'[k] = 0 /\ taken' # Req(k)
<1>a. /\ executed[k] <= 1
      /\ content["req"] = Req(k) =>
           executed[k] = 0 /\ asked = k /\ cpc # "send" /\ (taken = Req(k) => Removing)
      /\ (Removing \/ Running) /\ taken = Req(k) => executed[k] = 0
      /\ k > asked \/ (k = asked /\ cpc = "send") => executed[k] = 0 /\ taken # Req(k)
  BY <1>0 DEF OnceInv
<1>b. /\ NoFile # Req(k) /\ Empty # Req(k)
      /\ k \in Nat /\ asked \in Nat
      /\ \A j \in Requests : Req(j) = Req(k) => j = k
  <2>1. NoFile # Req(k) /\ Empty # Req(k) /\ \A j \in Requests : Req(j) = Req(k) => j = k
    BY Texts
  <2>2. k \in Nat /\ asked \in Nat
    BY <1>0 DEF Requests, TypeInv
  <2> QED BY <2>1, <2>2
<1>1. ASSUME executed' = executed, asked' = asked, cpc' = cpc, taken' = taken,
             content'["req"] \in {content["req"], NoFile},
             Removing => Removing' \/ content'["req"] = NoFile,
             Removing' \/ Running' => Removing \/ Running
      PROVE  Goal
  BY <1>1, <1>a, <1>b
<1>2. ASSUME NEW f \in BOOLEAN, BootRemove(f) \/ PollRemove(f) PROVE Goal
  <2>1. content'["req"] \in {content["req"], NoFile}
    BY <1>0, <1>2, RemoveFiles DEF BootRemove, PollRemove
  <2>2. PollRemove(f) => content'["req"] = NoFile
    BY <1>0, <1>2, RemoveFiles, RemoveFailedStays DEF PollRemove
  <2>3. /\ Removing => PollRemove(f)
        /\ Removing' \/ Running' => Removing
    BY <1>2 DEF BootRemove, PollRemove, StartWrite, Removing, Running, Writing
  <2> QED BY <1>1, <1>2, <2>1, <2>2, <2>3 DEF BootRemove, PollRemove, clientVars
<1>3. ASSUME NEW ok \in BOOLEAN, apc = "write_open", Attempted(ok)
      PROVE  ~Removing /\ ~Removing' /\ (Running' => Running)
  BY <1>0, <1>3, AttemptedLemma DEF Removing, Running, Writing
<1>4. ASSUME NEW f \in BOOLEAN, WriteData(f) PROVE Goal
  <2>1. content'["req"] = content["req"]
    BY <1>0, <1>4, WriteDataFiles
  <2> QED BY <1>1, <1>3, <1>4, <2>1 DEF WriteData, clientVars
<1>5. ASSUME WriteOpenFailed PROVE Goal
  BY <1>1, <1>3, <1>5 DEF WriteOpenFailed, CloseFile, clientVars
<1>6. ASSUME WriteOpen \/ PollOpen \/ PollFailed \/ PollExists PROVE Goal
  <2>1. ~Removing /\ ~Removing' /\ (Running' => Running)
    BY <1>6 DEF WriteOpen, PollOpen, PollFailed, PollExists, Removing, Running, Writing
  <2> QED
    BY <1>1, <1>6, <2>1
    DEF WriteOpen, PollOpen, PollFailed, PollExists, OpenBegins, CloseFile, clientVars,
        storageVars
<1>7. ASSUME NEW f \in BOOLEAN, PollRead(f) PROVE Goal
  <2>1. /\ taken' \in {Empty, content["req"]} /\ content' = content /\ Removing'
        /\ UNCHANGED <<executed, asked, cpc>>
    BY <1>7 DEF PollRead, CloseFile, clientVars, Removing
  <2> QED BY <1>a, <1>b, <2>1
<1>8. ASSUME Running, Executes(taken), content' = content, asked' = asked,
             cpc' = "send" => cpc = "send", ~Removing', ~Running', taken' \in {taken, Empty}
      PROVE  Goal
  <2>1. content["req"] = NoFile
    BY <1>0, <1>8 DEF MailInv
  <2>2. /\ executed' \in [Requests -> 0 .. 2]
        /\ taken = Empty => executed' = executed
        /\ \A j \in Requests : taken = Req(j) =>
             executed' = [executed EXCEPT ![j] = IF @ = 2 THEN 2 ELSE @ + 1]
    BY <1>0, <1>8, ExecutesLemma
  <2>3. CASE taken = Req(k)
    <3>1. executed'[k] = 1
      BY <1>0, <1>8, <1>a, <2>2, <2>3 DEF TypeInv
    <3> QED BY <1>8, <1>a, <1>b, <2>1, <2>3, <3>1
  <2>4. CASE taken # Req(k)
    <3>1. executed'[k] = executed[k]
      BY <1>0, <2>2, <2>4 DEF TypeInv
    <3> QED BY <1>8, <1>a, <1>b, <2>1, <2>4, <3>1
  <2> QED BY <2>3, <2>4
<1>9. ASSUME Run PROVE Goal
  <2>1. Running /\ ~Removing' /\ ~Running'
    BY <1>9 DEF Run, StartWrite, Removing, Running, Writing
  <2> QED BY <1>8, <1>9, <2>1 DEF Run, clientVars, storageVars
<1>10. ASSUME RunReboot PROVE Goal
  <2>1. Running /\ ~Removing' /\ ~Running'
    BY <1>10 DEF RunReboot, Restarted, Removing, Running, Writing
  <2> QED BY <1>8, <1>10, <2>1 DEF RunReboot, Restarted, StorageReset
<1>11. ASSUME Crash PROVE Goal
  <2>1. ~Removing' /\ ~Running' /\ taken' = Empty /\ content' = content /\ asked' = asked
    BY <1>11 DEF Crash, Restarted, StorageReset, Removing, Running, Writing
  <2>2. executed' = executed /\ cpc' # "send"
    BY <1>11 DEF Crash, Restarted
  <2> QED BY <1>a, <1>b, <2>1, <2>2
<1>12. ASSUME ClientSend PROVE Goal
  <2>1. /\ content' = content /\ asked' = asked + 1 /\ UNCHANGED <<executed, taken>>
        /\ Removing' = Removing /\ Running' = Running
    BY <1>12 DEF ClientSend, OpenBegins, agentVars, Removing, Running, Writing
  <2>2. content["req"] = NoFile
    BY <1>0, <1>12 DEF ClientSend, MailInv
  <2>3. k > asked' \/ k = asked' => k > asked
    BY <1>b, <2>1
  <2> QED BY <1>a, <1>b, <2>1, <2>2, <2>3
<1>13. ASSUME ClientStep \/ ClientGivesUp PROVE Goal
  <2>1. /\ \/ content'["req"] = content["req"]
           \/ cpc = "send" /\ content'["req"] = Req(asked)
        /\ UNCHANGED <<executed, taken>> /\ Removing' = Removing /\ Running' = Running
    BY <1>0, <1>13, ClientFiles DEF agentVars, Removing, Running, Writing
  <2>2. asked' = asked /\ cpc' # "send"
    BY <1>13
    DEF ClientStep, ClientWrite, ClientWriteFailed, ClientAsk, ClientRead, ClientGivesUp
  <2>3. cpc = "send" => asked \in Requests
    BY <1>0 DEF TypeInv
  <2> QED BY <1>a, <1>b, <2>1, <2>2, <2>3
<1>14. ASSUME NEW t \in Threads, Opening(t) PROVE Goal
  <2>1. content'["req"] \in {content["req"], Empty}
    BY <1>0, <1>14, OpeningFiles
  <2>2. UNCHANGED <<executed, taken, asked, cpc>> /\ Removing' = Removing /\ Running' = Running
    BY <1>14 DEF Opening, agentVars, clientVars, Removing, Running, Writing
  <2> QED BY <1>a, <1>b, <2>1, <2>2
<1>15. CASE UNCHANGED vars
  BY <1>1, <1>15 DEF vars, storageVars, agentVars, clientVars, Removing, Running, Writing
<1> QED
  BY <1>2, <1>4, <1>5, <1>6, <1>7, <1>9, <1>10, <1>11, <1>12, <1>13, <1>14, <1>15
  DEF Next, AgentStep

(* What keeps MailInv: no step makes the agent busy, or changes a file,    *)
(* the client and its history.                                             *)
LEMMA MailKept ==
    ASSUME MailInv, Running' => Running, Removing' => Removing, Answering' => Answering,
           content'["req"] = content["req"] \/ content'["req"] = NoFile,
           content'["res"] = content["res"], taken' = taken,
           job'["client"] = job["client"], UNCHANGED clientVars
    PROVE  MailInv'
  BY DEF MailInv, clientVars

LEMMA MailStep ==
    ASSUME IInv, [Next]_vars, ~removeFailed'
    PROVE  MailInv'
<1>0. TypeInv /\ JobsInv /\ WriteInv /\ OnceInv /\ MailInv /\ ~removeFailed
  BY RemoveFailedStays DEF IInv
<1>a. "agent" \in Threads /\ "client" \in Threads
  BY MailboxAssumption
<1>1. ASSUME NEW f \in BOOLEAN, BootRemove(f) PROVE MailInv'
  <2>1. /\ content'["res"] = content["res"]
        /\ content'["req"] = content["req"] \/ content'["req"] = NoFile
    BY <1>0, <1>1, RemoveFiles DEF BootRemove
  <2>2. ~Removing' /\ ~Running' /\ ~Answering'
    BY <1>1 DEF BootRemove, StartWrite, Removing, Running, Answering, Writing
  <2> QED BY <1>0, <1>1, <2>1, <2>2, MailKept DEF BootRemove, RemoveFile
<1>2. ASSUME NEW f \in BOOLEAN, PollRemove(f) PROVE MailInv'
  <2>1. content'["res"] = content["res"] /\ content'["req"] = NoFile
    BY <1>0, <1>2, RemoveFiles DEF PollRemove
  <2>2. ~Removing' /\ ~Answering' /\ Removing
    BY <1>2 DEF PollRemove, StartWrite, Removing, Running, Answering, Writing
  <2>3. UNCHANGED clientVars /\ taken' = taken /\ job' = job
    BY <1>2 DEF PollRemove, RemoveFile
  <2> QED BY <1>0, <2>1, <2>2, <2>3 DEF MailInv, clientVars
<1>3. ASSUME NEW ok \in BOOLEAN, apc = "write_open", Attempted(ok)
      PROVE  /\ ~Removing' /\ (Running' => Running) /\ (Answering' => Answering)
             /\ ok => ~Answering'
  BY <1>0, <1>3, AttemptedLemma DEF Removing, Running, Answering, Writing
<1>4. ASSUME NEW f \in BOOLEAN, WriteData(f) PROVE MailInv'
  <2>1. /\ content'["req"] = content["req"]
        /\ content'["res"] = IF f THEN content["res"] ELSE todo.data
    BY <1>0, <1>4, WriteDataFiles
  <2>2. /\ ~Removing' /\ (Running' => Running) /\ (Answering' => Answering)
        /\ ~f => ~Answering'
    BY <1>3, <1>4 DEF WriteData
  <2>3. UNCHANGED clientVars /\ taken' = taken /\ job'["client"] = job["client"]
    BY <1>0, <1>4, <1>a DEF WriteData, WriteAndClose, Closed, JobsInv
  <2>4. CASE f
    BY <1>0, <2>1, <2>2, <2>3, <2>4, MailKept
  <2>5. CASE ~f /\ todo.data = Pending
    BY <1>0, <2>1, <2>2, <2>3, <2>5 DEF MailInv, clientVars
  <2>6. CASE ~f /\ todo.data # Pending
    <3>1. Answering /\ ~Running /\ todo.data = Answer(taken)
      BY <1>0, <1>4, <2>6, Answers, Texts
      DEF WriteData, WriteInv, Answering, Running, Writing
    <3>2. taken \in {Empty, Req(asked)} /\ content["req"] = NoFile
      BY <1>0, <3>1 DEF MailInv
    <3>3. content'["res"] \in {Ans(0), Ans(asked)}
      BY <2>1, <2>6, <3>1, <3>2, Answers
    <3> QED BY <1>0, <2>1, <2>2, <2>3, <2>6, <3>1, <3>2, <3>3 DEF MailInv, clientVars
  <2> QED BY <2>4, <2>5, <2>6
<1>5. ASSUME WriteOpenFailed PROVE MailInv'
  <2>1. /\ ~Removing' /\ (Running' => Running) /\ (Answering' => Answering)
    BY <1>3, <1>5 DEF WriteOpenFailed
  <2>2. job'["client"] = job["client"]
    BY <1>0, <1>5, <1>a DEF WriteOpenFailed, CloseFile, Closed, JobsInv
  <2> QED BY <1>0, <1>5, <2>1, <2>2, MailKept DEF WriteOpenFailed, CloseFile
<1>6. ASSUME WriteOpen \/ PollOpen PROVE MailInv'
  <2>1. ~Removing' /\ (Running' => Running) /\ (Answering' => Answering)
    BY <1>6 DEF WriteOpen, PollOpen, Removing, Running, Answering, Writing
  <2>2. job'["client"] = job["client"]
    BY <1>0, <1>6, <1>a DEF WriteOpen, PollOpen, OpenBegins, JobsInv
  <2> QED BY <1>0, <1>6, <2>1, <2>2, MailKept DEF WriteOpen, PollOpen, OpenBegins
<1>7. ASSUME PollFailed \/ PollExists PROVE MailInv'
  <2>1. ~Removing' /\ ~Running' /\ ~Answering'
    BY <1>7 DEF PollFailed, PollExists, Removing, Running, Answering, Writing
  <2>2. job'["client"] = job["client"]
    BY <1>0, <1>7, <1>a DEF PollFailed, PollExists, CloseFile, Closed, storageVars, JobsInv
  <2> QED
    BY <1>0, <1>7, <2>1, <2>2, MailKept DEF PollFailed, PollExists, CloseFile, storageVars
<1>8. ASSUME NEW f \in BOOLEAN, PollRead(f) PROVE MailInv'
  <2>1. /\ taken' \in {Empty, content["req"]} /\ content' = content /\ UNCHANGED clientVars
        /\ ~Running' /\ ~Answering'
    BY <1>8 DEF PollRead, CloseFile, Running, Answering, Writing
  <2>2. /\ content["req"] \in {Empty, Req(asked)} /\ content["req"] # NoFile
        /\ cpc \in {"ask", "asking"}
    BY <1>0, <1>8, TakenIsLast
  <2> QED BY <1>0, <2>1, <2>2 DEF MailInv, clientVars
<1>9. ASSUME Run PROVE MailInv'
  <2>1. Running /\ ~Removing' /\ ~Running'
    BY <1>9 DEF Run, StartWrite, Removing, Running, Writing
  <2>2. UNCHANGED clientVars /\ content' = content /\ taken' = taken
    BY <1>9 DEF Run, storageVars
  <2> QED BY <1>0, <2>1, <2>2 DEF MailInv, clientVars
<1>10. ASSUME RunReboot \/ Crash PROVE MailInv'
  <2>1. /\ ~Removing' /\ ~Running' /\ ~Answering'
        /\ content' = content /\ UNCHANGED <<asked, sawPending, accepted>>
        /\ cpc' = IF cpc = "idle" THEN "idle" ELSE "ask"
    BY <1>10
    DEF RunReboot, Crash, Restarted, StorageReset, Removing, Running, Answering, Writing
  <2> QED BY <1>0, <2>1 DEF MailInv
<1>11. ASSUME ClientSend \/ ClientStep \/ ClientGivesUp
       PROVE  Removing' = Removing /\ Running' = Running /\ Answering' = Answering
  <2>1. apc' = apc /\ todo' = todo
    BY <1>0, <1>11, ClientFiles DEF agentVars
  <2> QED BY <2>1 DEF Removing, Running, Answering, Writing
<1>12. ASSUME ClientSend PROVE MailInv'
  <2>1. content' = content /\ cpc = "idle" /\ cpc' = "send" /\ ~sawPending'
        /\ accepted' = accepted
    BY <1>12 DEF ClientSend, OpenBegins
  <2> QED BY <1>0, <1>11, <1>12, <2>1 DEF MailInv
<1>13. ASSUME NEW f \in BOOLEAN, ClientWrite(f) PROVE MailInv'
  <2>1. cpc = "send" /\ cpc' = "ask" /\ UNCHANGED <<sawPending, accepted>>
    BY <1>13 DEF ClientWrite
  <2> QED BY <1>0, <1>11, <1>13, <2>1 DEF MailInv, ClientStep
<1>14. ASSUME ClientWriteFailed \/ ClientAsk PROVE MailInv'
  <2>1. /\ cpc' \in {"ask", "asking"} /\ content' = content
        /\ UNCHANGED <<sawPending, accepted, asked, taken>>
    BY <1>14 DEF ClientWriteFailed, ClientAsk, CloseFile, OpenBegins, agentVars
  <2> QED BY <1>0, <1>11, <1>14, <2>1 DEF MailInv, ClientStep
<1>15. ASSUME ClientRead PROVE MailInv'
  <2>1. PICK text : text = IF job["client"].at = "open" THEN content["res"] ELSE NoFile
    OBVIOUS
  <2> DEFINE answered == sawPending /\ text \notin {NoFile, Empty, Pending}
  <2>2. content' = content /\ UNCHANGED <<asked, taken>>
    BY <1>15 DEF ClientRead, CloseFile, agentVars
  <2>3. CASE answered
    <3>1. ~sawPending' /\ cpc' = "idle" /\ accepted' = [accepted EXCEPT ![asked] = text[2]]
      BY <1>15, <2>1, <2>3 DEF ClientRead
    <3>2. /\ text \in {Ans(0), Ans(asked)} /\ content["req"] = NoFile
          /\ ~Removing /\ ~Running /\ ~Answering
      BY <1>0, <2>1, <2>3 DEF MailInv
    <3>3. text[2] \in {0, asked}
      BY <3>2, Texts
    <3>4. \A k \in Requests : accepted'[k] \in {0, k}
      BY <1>0, <3>1, <3>3 DEF MailInv, TypeInv
    <3> QED BY <1>11, <1>15, <2>2, <3>1, <3>2, <3>4 DEF MailInv, ClientStep
  <2>4. CASE ~answered
    <3>1. cpc' = "ask" /\ accepted' = accepted /\ (sawPending' => sawPending \/ text = Pending)
      BY <1>15, <2>1, <2>4 DEF ClientRead
    <3>2. text = Pending => content["res"] = Pending
      BY <2>1, Texts
    <3> QED BY <1>0, <1>11, <1>15, <2>2, <3>1, <3>2 DEF MailInv, ClientStep
  <2> QED BY <2>3, <2>4
<1>16. ASSUME ClientGivesUp PROVE MailInv'
  <2>1. ~Removing /\ ~Running /\ ~Answering
    BY <1>16 DEF ClientGivesUp, Removing, Running, Answering, Writing
  <2>2. /\ content["req"] = NoFile /\ content' = content /\ cpc' = "idle" /\ ~sawPending'
        /\ accepted' = accepted
    BY <1>16 DEF ClientGivesUp, storageVars
  <2> QED BY <1>0, <1>11, <1>16, <2>1, <2>2 DEF MailInv
<1>17. ASSUME NEW t \in Threads, Opening(t) PROVE MailInv'
  <2>1. UNCHANGED <<cpc, asked, sawPending, accepted, taken>>
    BY <1>17 DEF Opening, agentVars, clientVars
  <2>2. Removing' = Removing /\ Running' = Running /\ Answering' = Answering
    BY <1>17 DEF Opening, agentVars, Removing, Running, Answering, Writing
  <2>3. /\ \/ content'["req"] = content["req"]
           \/ cpc = "send" /\ content'["req"] = Empty /\ job'["client"].at = "open"
        /\ content'["res"] \in {content["res"], Empty}
        /\ job["client"].at = "open" => job'["client"].at = "open"
    BY <1>0, <1>17, <1>a, OpeningFiles
  <2> QED BY <1>0, <2>1, <2>2, <2>3 DEF MailInv
<1>18. CASE UNCHANGED vars
  BY <1>0, <1>18, MailKept
  DEF vars, storageVars, agentVars, Removing, Running, Answering, Writing
<1> QED
  BY <1>1, <1>2, <1>4, <1>5, <1>6, <1>7, <1>8, <1>9, <1>10, <1>12, <1>13, <1>14, <1>15, <1>16,
     <1>17, <1>18 DEF Next, AgentStep, ClientStep

-----------------------------------------------------------------------------
(* The invariant of the mailbox: its types and Files, what is written and  *)
(* what res holds, and where a request may be.                             *)
THEOREM Invariance == Spec => []IInv
<1>1. IInv /\ [Next]_vars => IInv'
  BY TypeStep, JobsStep, WriteStep, AnswerStep, TornStep, OnceStep, MailStep DEF IInv
<1> QED BY InitInv, <1>1, PTL DEF Spec

(* For any number of requests, attempts, faults and restarts: the client   *)
(* reads no half-written res, the answer to the last request stays in res  *)
(* once it is written, and, as long as no removal of req has failed        *)
(* (nikita_agent.c:300 ignores it), a request is run at most once          *)
(* (agent_poll_mailbox, agent_write_res_bytes).                            *)
THEOREM MailboxIsSound == Spec => []MailboxSound
<1>1. IInv => MailboxSound
  <2> SUFFICES ASSUME IInv PROVE MailboxSound
    OBVIOUS
  <2>1. TypeOK
    <3>1. /\ opened \in [Files -> Threads \cup {Nobody}]
          /\ closed \in [Threads -> BOOLEAN]
          /\ content["req"] \in {NoFile, Empty} \cup {Req(k) : k \in 1 .. MaxRequests}
          /\ content["res"] \in ResTexts
      BY DEF IInv, TypeInv, JobsInv, ReqTexts, Requests
    <3>2. ASSUME NEW t \in Threads
          PROVE  /\ job[t] = Idle \/ job[t].at \in {"try", "wait", "open", "failed"}
                 /\ job[t].at \in {"open", "failed"} <=> \E f \in Files : opened[f] = t
                 /\ job[t].at \in {"open", "failed"} => opened[job[t].file] = t
      <4>1. \/ job[t] = Idle
            \/ /\ job[t].at \in {"try", "wait", "open", "failed"}
               /\ job[t].file \in Files
        BY MailboxAssumption, OpenJobLemma DEF IInv, JobsInv
      <4>2. Idle.at \notin {"open", "failed"}
        BY DEF Idle
      <4> QED BY <4>1, <4>2 DEF IInv, JobsInv, InTable
    <3>3. tries \in Nat /\ (tries < ReqAttempts \/ tries < WriteAttempts)
      BY AttemptsAssumption DEF IInv, TypeInv, WriteInv, Writing
    <3>4. /\ executed \in [1 .. MaxRequests -> 0 .. 2]
          /\ accepted \in [1 .. MaxRequests -> 0 .. MaxRequests]
      BY DEF IInv, TypeInv, Requests
    <3> QED BY <3>1, <3>2, <3>3, <3>4 DEF IInv, TypeInv, TypeOK
  <2>2. NoTornRead
    BY DEF IInv, TornInv, NoTornRead
  <2>3. AnswerStays
    BY DEF IInv, AnswerInv, AnswerStays
  <2>4. ExecutedOnce
    BY DEF IInv, OnceInv, ExecutedOnce, Requests
  <2> QED BY <2>1, <2>2, <2>3, <2>4 DEF MailboxSound
<1> QED BY <1>1, Invariance, PTL

(* The answer that the client takes is the one to its own request, although*)
(* nothing in res says to which request an answer belongs: whatever else   *)
(* fails, restarts or comes late, as long as no removal of req has failed  *)
(* (nikita_agent.c:300); after one, the old answer may be taken for the    *)
(* new one.                                                                *)
THEOREM AcceptedAnswersAreOwn == Spec => []AcceptedIsOwn
<1>1. IInv => AcceptedIsOwn
  BY DEF IInv, MailInv, AcceptedIsOwn, Requests
<1> QED BY <1>1, Invariance, PTL

-----------------------------------------------------------------------------
(* What the invariants say of steps and of waiting                         *)

(* A request is run only while the client waits for its answer, and for    *)
(* the first time.                                                         *)
RunWhileAwaited ==
    [][\A k \in Requests : ~removeFailed /\ executed'[k] # executed[k] =>
         k = asked /\ cpc \in {"ask", "asking"} /\ executed[k] = 0]_vars

(* As long as no removal of req has failed, agent_poll_mailbox runs a      *)
(* request that the client still waits for: not one that was given up or   *)
(* answered, and not one of before a restart that has been run already.    *)
THEOREM RunsAreAwaited == Spec => RunWhileAwaited
<1>1. ASSUME IInv, [Next]_vars, NEW k \in Requests, ~removeFailed, executed'[k] # executed[k]
      PROVE  k = asked /\ cpc \in {"ask", "asking"} /\ executed[k] = 0
  <2>0. TypeInv /\ OnceInv /\ MailInv
    BY <1>1 DEF IInv
  <2>1. Run \/ RunReboot
    BY <1>1
    DEF Next, AgentStep, BootRemove, WriteData, PollRemove, WriteOpen, WriteOpenFailed, PollOpen,
        PollRead, PollFailed, PollExists, ClientSend, ClientStep, ClientWrite, ClientWriteFailed,
        ClientAsk, ClientRead, ClientGivesUp, Crash, Opening, agentVars, vars
  <2>2. Running /\ Executes(taken)
    BY <2>1 DEF Run, RunReboot, Running
  <2>3. taken = Req(k)
    <3>1. ASSUME taken # Req(k) PROVE executed'[k] = executed[k]
      BY <2>0, <2>2, <3>1, ExecutesLemma DEF TypeInv
    <3> QED BY <1>1, <3>1
  <2>4. taken \in {Empty, Req(asked)} /\ cpc \notin {"idle", "send"}
    BY <2>0, <2>2 DEF MailInv
  <2>5. k = asked
    BY <2>3, <2>4, Texts
  <2> QED BY <2>0, <2>2, <2>3, <2>4, <2>5 DEF OnceInv, TypeInv
<1>2. IInv /\ [Next]_vars =>
        [\A k \in Requests : ~removeFailed /\ executed'[k] # executed[k] =>
           k = asked /\ cpc \in {"ask", "asking"} /\ executed[k] = 0]_vars
  BY <1>1
<1> QED BY <1>2, Invariance, PTL DEF Spec, RunWhileAwaited

(* Who waits for a path waits for another's File, or has been told of a    *)
(* close.                                                                  *)
WaitHasCause ==
    \A t \in Threads : job[t].at = "wait" => closed[t] \/ opened[job[t].file] # Nobody

(* What no storage call may do to a thread that waits.                     *)
LEMMA WaitStep == IInv /\ WaitHasCause /\ [Next]_vars => WaitHasCause'
<1> SUFFICES ASSUME IInv, WaitHasCause, [Next]_vars, NEW t \in Threads, job'[t].at = "wait"
             PROVE  closed'[t] \/ opened'[job'[t].file] # Nobody
  BY DEF WaitHasCause
<1> DEFINE Goal == closed'[t] \/ opened'[job'[t].file] # Nobody
<1>0. /\ Threads = {"agent", "client"} /\ Files = {"req", "res"}
      /\ TypeInv /\ JobsInv
      /\ job[t].at = "wait" => closed[t] \/ opened[job[t].file] # Nobody
  BY MailboxAssumption DEF IInv, WaitHasCause
<1>1. ASSUME UNCHANGED <<opened, job, closed>> PROVE Goal
  BY <1>0, <1>1
<1>2. ASSUME NEW u \in Threads, NEW f \in Files, NEW m \in {"create", "existing"},
             OpenBegins(u, f, m)
      PROVE  Goal
  <2>1. t # u /\ job'[t] = job[t] /\ opened' = opened
    BY <1>0, <1>2, BeginsJob
  <2> QED BY <1>0, <1>2, <2>1 DEF OpenBegins, TypeInv
<1>3. ASSUME NEW u \in Threads, InTable(u), Closed(u) PROVE Goal
  <2>1. t # u /\ job'[t] = job[t]
    BY <1>0, <1>3, ClosedJob DEF Idle
  <2> QED BY <1>3, <2>1 DEF Closed
<1>4. ASSUME NEW u \in Threads, NEW f \in BOOLEAN, TryOpen(u, f) PROVE Goal
  <2>1. job'[t].file = job[t].file /\ (t # u => job'[t] = job[t])
    BY <1>0, <1>4, TryJob
  <2>2. CASE opened[job[u].file] # Nobody
    BY <1>0, <1>4, <2>1, <2>2 DEF TryOpen
  <2>3. CASE opened[job[u].file] = Nobody
    <3>1. opened' = [opened EXCEPT ![job[u].file] = u] /\ closed' = [closed EXCEPT ![u] = FALSE]
      BY <1>4, <2>3 DEF TryOpen
    <3>2. t # u
      BY <1>0, <1>4, <2>3 DEF TryOpen, JobsInv, Jobs
    <3>3. u # Nobody
      BY <1>0 DEF Nobody
    <3>4. job[t].file \in Files
      BY <1>0, <2>1, <3>2, OpenJobLemma DEF JobsInv, Idle
    <3> QED BY <1>0, <2>1, <3>1, <3>2, <3>3, <3>4 DEF TypeInv, JobsInv
  <2> QED BY <2>2, <2>3
<1>5. ASSUME NEW u \in Threads, CloseSeen(u) PROVE Goal
  <2>1. t # u /\ job'[t] = job[t] /\ opened' = opened
    BY <1>0, <1>5, SeenJob
  <2> QED BY <1>0, <1>5, <2>1 DEF CloseSeen, TypeInv
<1>6. ASSUME Restarted PROVE Goal
  BY <1>6 DEF Restarted, StorageReset, Idle
<1>7. ASSUME AgentStep PROVE Goal
  <2>1. ASSUME NEW f \in BOOLEAN, BootRemove(f) \/ PollRemove(f) PROVE Goal
    BY <1>1, <2>1 DEF BootRemove, PollRemove, RemoveFile
  <2>2. ASSUME NEW f \in BOOLEAN, WriteData(f) PROVE Goal
    BY <1>0, <1>3, <2>2 DEF WriteData, WriteAndClose, InTable
  <2>3. ASSUME WriteOpenFailed \/ (\E f \in BOOLEAN : PollRead(f)) \/ PollFailed PROVE Goal
    BY <1>0, <1>3, <2>3 DEF WriteOpenFailed, PollRead, PollFailed, CloseFile, InTable
  <2>4. ASSUME WriteOpen \/ PollOpen PROVE Goal
    BY <1>0, <1>2, <2>4 DEF WriteOpen, PollOpen
  <2>5. ASSUME PollExists \/ Run PROVE Goal
    BY <1>1, <2>5 DEF PollExists, Run, storageVars
  <2> QED BY <1>6, <1>7, <2>1, <2>2, <2>3, <2>4, <2>5 DEF AgentStep, RunReboot
<1>8. ASSUME ClientSend \/ ClientStep \/ ClientGivesUp PROVE Goal
  <2>1. ASSUME ClientSend \/ ClientAsk PROVE Goal
    BY <1>0, <1>2, <2>1 DEF ClientSend, ClientAsk
  <2>2. ASSUME NEW f \in BOOLEAN, ClientWrite(f) PROVE Goal
    BY <1>0, <1>3, <2>2 DEF ClientWrite, WriteAndClose, InTable
  <2>3. ASSUME ClientWriteFailed \/ ClientRead PROVE Goal
    BY <1>0, <1>3, <2>3 DEF ClientWriteFailed, ClientRead, CloseFile, InTable
  <2>4. ASSUME ClientGivesUp PROVE Goal
    BY <1>1, <2>4 DEF ClientGivesUp, storageVars
  <2> QED BY <1>8, <2>1, <2>2, <2>3, <2>4 DEF ClientStep
<1>9. CASE UNCHANGED vars
  BY <1>1, <1>9 DEF vars, storageVars
<1> QED BY <1>4, <1>5, <1>6, <1>7, <1>8, <1>9 DEF Next, Opening, Crash

(* No close is missed by storage_file_open (storage_external_api.c): one   *)
(* that waits while its path is free has the event of a close set, however *)
(* the close came between its own subscription, its try and its wait.      *)
THEOREM WaitersAreWoken == Spec => []WaitHasCause
<1>1. Init => WaitHasCause
  BY DEF Init, StorageInit, WaitHasCause, Idle
<1> QED BY <1>1, WaitStep, Invariance, PTL DEF Spec
=============================================================================
