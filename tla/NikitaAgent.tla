---------------------------- MODULE NikitaAgent ----------------------------
(***************************************************************************)
(* The mailbox of the Nikita agent (applications/services/nikita_agent) on *)
(* the storage service: a client that has only file access writes a        *)
(* request to `req' and polls `res'; the agent's thread takes the request, *)
(* sets `res' to "pending", runs it and writes the answer.  The files are  *)
(* all the two share: there is no lock, no message and no request number.  *)
(*                                                                         *)
(* The client (a phone, through the RPC storage commands) is external.  It *)
(* is modelled as the comment above agent_res_pending expects it to be: it *)
(* knows the answer arrived when "pending" turns into something else.      *)
(* The card may fail, and the device may restart at any moment, by a       *)
(* request or on its own.                                                  *)
(***************************************************************************)
EXTENDS Naturals, Storage

CONSTANTS
    MaxRequests,    \* bound: requests the client sends
    Reboots,        \* the requests among them that are `sys.reboot'
    ReqAttempts,    \* 6: attempts to open req in one poll
    WriteAttempts,  \* 40: attempts to write res
    MaxFaults,      \* bound: failures of the card
    MaxRestarts     \* bound: restarts of the device, but for those it is asked for

\* The agent and its client share two files.
ASSUME MailboxAssumption ==
    Threads = {"agent", "client"} /\ Files = {"req", "res"}

ASSUME AttemptsAssumption ==
    /\ ReqAttempts \in Nat \ {0} /\ WriteAttempts \in Nat \ {0}
    /\ MaxRequests \in Nat /\ MaxFaults \in Nat /\ MaxRestarts \in Nat
    /\ Reboots \subseteq 1 .. MaxRequests

\* What the files hold.  A request without an `op:' line is answered too.
Req(k) == <<"req", k>>
Ans(k) == <<"ans", k>>
Pending == <<"pending">>

VARIABLES
    apc,           \* where the agent is
    tries,         \* `attempt' of its current loop
    taken,         \* the request it has read
    todo,          \* the data it is writing to res, and what it does then
    landed,        \* has the last write to res succeeded
    cpc,           \* where the client is
    asked,         \* the last request it has sent
    sawPending,    \* has it read "pending" since
    tornRead,      \* history: has it read an empty res without a fault or restart
    faults,        \* failures so far
    restarts,      \* restarts so far
    executed,      \* history: executed[k], how often request k was run, up to 2
    accepted,      \* history: accepted[k], the answer taken for request k
    removeFailed,  \* history: has a request been read that was not removed
    unread         \* history: the requests whose read failed

agentVars == <<apc, tries, taken, todo, landed, executed, removeFailed, unread>>
clientVars == <<cpc, asked, sawPending, tornRead, accepted>>
vars == <<storageVars, agentVars, clientVars, faults, restarts>>

NoTodo == [data |-> Empty, next |-> "poll"]

\* nikita_agent_on_system_start: a request of an earlier life is dropped.
Init ==
    /\ StorageInit
    /\ apc = "boot" /\ tries = 0 /\ taken = Empty /\ todo = NoTodo /\ landed = FALSE
    /\ cpc = "idle" /\ asked = 0 /\ sawPending = FALSE /\ tornRead = FALSE
    /\ faults = 0 /\ restarts = 0
    /\ executed = [k \in 1 .. MaxRequests |-> 0]
    /\ accepted = [k \in 1 .. MaxRequests |-> 0]
    /\ removeFailed = FALSE /\ unread = {}

\* A step of the card that may fail.
Fault(f) ==
    /\ f => faults < MaxFaults
    /\ faults' = IF f THEN faults + 1 ELSE faults

-----------------------------------------------------------------------------
(***************************************************************************)
(* The agent.                                                              *)
(***************************************************************************)

\* agent_write_res_bytes is called: `data', and what follows.
StartWrite(data, next) ==
    /\ apc' = "write" /\ tries' = 0
    /\ todo' = [data |-> data, next |-> next]

BootRemove(f) ==
    /\ apc = "boot" /\ Fault(f)
    /\ RemoveFile("req", f)
    /\ StartWrite(Pending, "poll")
    /\ UNCHANGED <<taken, landed, executed, removeFailed, unread, clientVars, restarts>>

\* One attempt of agent_write_res_bytes: open and truncate, write, close.
WriteOpen ==
    /\ apc = "write"
    /\ OpenBegins("agent", "res", "create")
    /\ apc' = "write_open"
    /\ UNCHANGED <<tries, taken, todo, landed, executed, removeFailed, unread, clientVars,
                   faults, restarts>>

\* The attempts end with the first success or with the last one.
Attempted(ok) ==
    /\ landed' = ok
    /\ IF ok \/ tries + 1 = WriteAttempts
       THEN apc' = todo.next /\ tries' = 0 /\ todo' = NoTodo
       ELSE apc' = "write" /\ tries' = tries + 1 /\ UNCHANGED todo

\* Mutant: the mailbox is emptied once more before the poll.
WriteData_Empties(f) ==
    /\ apc = "write_open" /\ Fault(f)
    /\ job["agent"].at = "open"
    /\ content' = [content EXCEPT !["res"] = IF f THEN @ ELSE todo.data,
                                  !["req"] = IF todo.next = "poll" THEN NoFile ELSE @]
    /\ Closed("agent")
    /\ Attempted(~f)
    /\ UNCHANGED <<taken, executed, removeFailed, unread, clientVars, restarts>>

WriteData(f) ==
    /\ apc = "write_open" /\ Fault(f)
    /\ WriteAndClose("agent", todo.data, f)
    /\ Attempted(~f)
    /\ UNCHANGED <<taken, executed, removeFailed, unread, clientVars, restarts>>

WriteOpenFailed ==
    /\ apc = "write_open" /\ job["agent"].at = "failed"
    /\ CloseFile("agent")
    /\ Attempted(FALSE)
    /\ UNCHANGED <<taken, executed, removeFailed, unread, clientVars, faults,
                   restarts>>

\* agent_poll_mailbox.
PollOpen ==
    /\ apc = "poll"
    /\ OpenBegins("agent", "req", "existing")
    /\ apc' = "req_open"
    /\ UNCHANGED <<tries, taken, todo, landed, executed, removeFailed, unread, clientVars,
                   faults, restarts>>

\* The count that storage_file_read returns is not checked: a read that fails, or
\* that ends before the request's `op:' line, gives a text without a request.
PollRead(f) ==
    /\ apc = "req_open" /\ Fault(f)
    /\ job["agent"].at = "open"
    /\ taken' = IF f THEN Empty ELSE content["req"]
    /\ unread' = IF f /\ content["req"] # Empty THEN unread \cup {content["req"][2]} ELSE unread
    /\ CloseFile("agent")
    /\ apc' = "remove" /\ tries' = 0
    /\ UNCHANGED <<todo, landed, executed, removeFailed, clientVars, restarts>>

\* The open failed: no request, or one that could not be opened this time.
PollFailed ==
    /\ apc = "req_open" /\ job["agent"].at = "failed"
    /\ CloseFile("agent")
    /\ apc' = "exists"
    /\ UNCHANGED <<tries, taken, todo, landed, executed, removeFailed, unread, clientVars,
                   faults, restarts>>

\* Without a request the poll is over, otherwise it is tried again, so many times.
PollExists ==
    /\ apc = "exists"
    /\ tries' = IF content["req"] = NoFile \/ tries + 1 = ReqAttempts
                THEN 0 ELSE tries + 1
    /\ apc' = "poll"
    /\ UNCHANGED <<storageVars, taken, todo, landed, executed, removeFailed, unread, clientVars,
                   faults, restarts>>

\* Mutant: the request is not removed.
PollRemove_Forgotten(f) ==
    /\ apc = "remove" /\ ~f
    /\ StartWrite(Pending, "run")
    /\ UNCHANGED <<storageVars, taken, landed, executed, removeFailed, unread, clientVars,
                   faults, restarts>>

\* The request is consumed, whatever storage_common_remove returns, ...
PollRemove(f) ==
    /\ apc = "remove" /\ Fault(f)
    /\ RemoveFile("req", f)
    /\ removeFailed' = (removeFailed \/ f \/ ~Removable("req"))
    /\ StartWrite(Pending, "run")
    /\ UNCHANGED <<taken, landed, executed, unread, clientVars, restarts>>

IsReboot(text) == IF text = Empty THEN FALSE ELSE text[2] \in Reboots

\* The answer of agent_run: to a request, or to a text without one.
Answer(text) == IF text = Empty THEN Ans(0) ELSE Ans(text[2])

Executes(text) ==
    executed' = IF text = Empty THEN executed
                ELSE [executed EXCEPT ![text[2]] = IF @ = 2 THEN 2 ELSE @ + 1]

\* ... run, and answered.
Run ==
    /\ apc = "run"
    /\ ~IsReboot(taken)
    /\ Executes(taken)
    /\ StartWrite(Answer(taken), "poll")
    /\ UNCHANGED <<storageVars, taken, landed, removeFailed, unread, clientVars, faults,
                   restarts>>

-----------------------------------------------------------------------------
(***************************************************************************)
(* Restarts.                                                               *)
(***************************************************************************)

\* What a restart leaves: the files, and a client that goes on asking.
Restarted ==
    /\ StorageReset
    /\ apc' = "boot" /\ tries' = 0 /\ taken' = Empty /\ todo' = NoTodo
    /\ landed' = FALSE
    /\ cpc' = IF cpc = "idle" THEN "idle" ELSE "ask"
    /\ restarts' = IF restarts > MaxRestarts THEN restarts ELSE restarts + 1
    /\ UNCHANGED <<asked, sawPending, tornRead, accepted, faults, removeFailed, unread>>

\* sys.reboot resets the device before an answer is written.
RunReboot ==
    /\ apc = "run" /\ IsReboot(taken)
    /\ Executes(taken)
    /\ Restarted

\* The device restarts on its own.
Crash ==
    /\ restarts < MaxRestarts
    /\ Restarted
    /\ UNCHANGED executed

-----------------------------------------------------------------------------
(***************************************************************************)
(* The client, through the RPC storage commands.                           *)
(***************************************************************************)

ClientSend ==
    /\ cpc = "idle" /\ asked < MaxRequests
    /\ OpenBegins("client", "req", "create")
    /\ asked' = asked + 1 /\ sawPending' = FALSE
    /\ cpc' = "send"
    /\ UNCHANGED <<agentVars, tornRead, accepted, faults, restarts>>

\* The write command ends; the client polls whether it was told of a failure or
\* not.
ClientWrite(f) ==
    /\ cpc = "send" /\ Fault(f)
    /\ WriteAndClose("client", Req(asked), f)
    /\ cpc' = "ask"
    /\ UNCHANGED <<agentVars, asked, sawPending, tornRead, accepted, restarts>>

ClientWriteFailed ==
    /\ cpc = "send" /\ job["client"].at = "failed"
    /\ CloseFile("client")
    /\ cpc' = "ask"
    /\ UNCHANGED <<agentVars, asked, sawPending, tornRead, accepted, faults, restarts>>

ClientAsk ==
    /\ cpc = "ask"
    /\ OpenBegins("client", "res", "existing")
    /\ cpc' = "asking"
    /\ UNCHANGED <<agentVars, asked, sawPending, tornRead, accepted, faults, restarts>>

\* A read of res that gives an answer after "pending" is taken as the answer.
ClientRead ==
    /\ cpc = "asking"
    /\ LET text == IF job["client"].at = "open" THEN content["res"] ELSE NoFile
           answered == sawPending /\ text \notin {NoFile, Empty, Pending} IN
       /\ tornRead' = (tornRead \/ (text = Empty /\ faults = 0 /\ restarts = 0))
       /\ sawPending' = (~answered /\ (sawPending \/ text = Pending))
       /\ accepted' = IF answered THEN [accepted EXCEPT ![asked] = text[2]] ELSE accepted
       /\ cpc' = IF answered THEN "idle" ELSE "ask"
    /\ CloseFile("client")
    /\ UNCHANGED <<agentVars, asked, faults, restarts>>

\* The client gives a request up.  Its patience is longer than the agent needs to
\* take a request and to answer it.
ClientGivesUp ==
    /\ cpc = "ask" /\ apc = "poll" /\ content["req"] = NoFile
    /\ cpc' = "idle" /\ sawPending' = FALSE
    /\ UNCHANGED <<storageVars, agentVars, asked, tornRead, accepted,
                   faults, restarts>>

-----------------------------------------------------------------------------

\* The steps of storage_file_open.
Opening(t) ==
    /\ \/ \E f \in BOOLEAN : Fault(f) /\ TryOpen(t, f)
       \/ CloseSeen(t) /\ UNCHANGED faults
    /\ UNCHANGED <<agentVars, clientVars, restarts>>

AgentStep ==
    \/ \E f \in BOOLEAN : BootRemove(f) \/ WriteData(f) \/ PollRead(f) \/ PollRemove(f)
    \/ WriteOpen \/ WriteOpenFailed
    \/ PollOpen \/ PollFailed \/ PollExists
    \/ Run \/ RunReboot

ClientStep ==
    \/ \E f \in BOOLEAN : ClientWrite(f)
    \/ ClientWriteFailed \/ ClientAsk \/ ClientRead

Next ==
    \/ \E t \in Threads : Opening(t)
    \/ AgentStep
    \/ ClientSend \/ ClientStep \/ ClientGivesUp
    \/ Crash

Spec == Init /\ [][Next]_vars

\* Every thread is scheduled, and who has a file open closes it.  A thread that
\* waits for a path that is free time and again wakes up, and gets it, while it is
\* free: the agent's thread has a high priority and sleeps between its polls, and a
\* client needs a round trip over its link between two uses of a file.
Fairness ==
    /\ WF_vars(AgentStep)
    /\ WF_vars(ClientStep)
    /\ \A t \in Threads :
         /\ WF_vars(Opening(t))
         /\ SF_vars(Opening(t) /\ job[t].at = "wait" /\ opened[job[t].file] = Nobody)
         /\ SF_vars(Opening(t) /\ job[t].at = "try" /\ opened[job[t].file] = Nobody)

FairSpec == Spec /\ Fairness

-----------------------------------------------------------------------------
(***************************************************************************)
(* Properties.                                                             *)
(***************************************************************************)

ResTexts == {NoFile, Empty, Pending} \cup {Ans(k) : k \in 0 .. MaxRequests}

\* Every variable has its type.  A File that is open or has failed to open is the
\* one entry of its path in the storage's table.
TypeOK ==
    /\ opened \in [Files -> Threads \cup {Nobody}]
    /\ content["req"] \in {NoFile, Empty} \cup {Req(k) : k \in 1 .. MaxRequests}
    /\ content["res"] \in ResTexts
    /\ \A t \in Threads :
         /\ job[t] = Idle \/ job[t].at \in {"try", "wait", "open", "failed"}
         /\ job[t].at \in {"open", "failed"} <=> \E f \in Files : opened[f] = t
         /\ job[t].at \in {"open", "failed"} => opened[job[t].file] = t
    /\ closed \in [Threads -> BOOLEAN]
    /\ apc \in {"boot", "write", "write_open", "poll", "req_open", "exists", "remove",
                "run"}
    /\ tries \in Nat /\ (tries < ReqAttempts \/ tries < WriteAttempts)
    /\ cpc \in {"idle", "send", "ask", "asking"}
    /\ tornRead \in BOOLEAN /\ unread \subseteq 1 .. MaxRequests
    /\ faults \in 0 .. MaxFaults /\ restarts \in 0 .. MaxRestarts + 1
    /\ executed \in [1 .. MaxRequests -> 0 .. 2]
    /\ accepted \in [1 .. MaxRequests -> 0 .. MaxRequests]

\* The client never reads a half-written res: it is truncated and written while
\* the path is taken.  Only a failing card or a restart in between shows it empty.
NoTornRead ==
    ~tornRead

\* A request is run at most once, unless a removal has failed: its result is
\* ignored (nikita_agent.c:300), and the request is taken again.
ExecutedOnce ==
    ~removeFailed => \A k \in 1 .. MaxRequests : executed[k] <= 1

\* An answer the client has taken is the answer to what it asked, although the
\* answers carry no number and res keeps the old one until the agent has taken
\* the request.  The code ignores a failed removal (nikita_agent.c:300), after
\* which this need not hold; the answer to a text without a request, when the read
\* failed, has no owner and is 0.
AcceptedIsOwn ==
    ~removeFailed => \A k \in 1 .. MaxRequests : accepted[k] \in {0, k}

\* When the agent is back at its poll, res holds the answer to the request it has
\* taken last, and never "pending", if the write has succeeded.
AnswerStays ==
    apc = "poll" /\ taken # Empty /\ landed => content["res"] = Answer(taken)

\* The two files are a mailbox: what is read is whole, what is answered stays, and
\* a request is run once, until a removal fails.
MailboxSound ==
    TypeOK /\ NoTornRead /\ AnswerStays /\ ExecutedOnce

\* A request the client has written is run, with three exceptions the code makes:
\* the device restarts (a request that is there when the agent starts is dropped);
\* an earlier request could not be removed (the agent takes that one again, and
\* removes what the client has written in the meantime); its own read failed
\* (nikita_agent.c:286: it is removed all the same, and answered as no request).
RequestIsRun ==
    \A k \in 1 .. MaxRequests, r \in 0 .. MaxRestarts :
        (content["req"] = Req(k) /\ cpc = "ask" /\ apc # "boot" /\ restarts = r)
            ~> (executed[k] > 0 \/ restarts > r \/ removeFailed \/ k \in unread)

\* Nobody waits for ever to open a file: the agent's polls, which fail whenever
\* there is no request, do not lock the client out, nor the client the agent.
OpenEnds ==
    \A t \in Threads : (job[t].at = "wait") ~> (job[t].at # "wait" /\ job[t].at # "try")

=============================================================================
