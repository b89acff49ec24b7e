--------------------------- MODULE RpcSessionProofs ---------------------------
(***************************************************************************)
(* Proofs about RpcSession, for any owners, size of the stream and number  *)
(* of tokens: no thread meets memory of the session that is not there yet  *)
(* or no more, no callback outlives rpc_session_close, and what was fed is *)
(* handled.  The last is a matter of counting: LedgerInv keeps, per place  *)
(* of the stream, how many messages have been accepted up to it.           *)
(***************************************************************************)
EXTENDS RpcSession, TLAPS

Callbacks == {"context", "send", "closed", "empty", "terminated"}

(* The worker holds callbacks_mutex exactly while it calls an installed    *)
(* callback; and it ends only when nothing more can be fed.                *)
WorkerInv ==
    /\ got # None => wp \in {"check", "emptying", "got"}
    /\ wp \in {"act", "sending", "closing"} => acts # <<>>
    /\ mutex <=> wp \in {"sending", "closing"}
    /\ wp = "sending" => "send" \in installed
    /\ wp = "closing" => "closed" \in installed
    /\ "Disconnect" \in flags => tp \in {"await", "closed"}
    /\ wp = "exit" => tp \in {"await", "closed"} /\ stream = <<>>

(* Until the context is there, nothing is installed that the worker may    *)
(* call: the worker does not run while Bluetooth installs.                 *)
ContextInv ==
    /\ tp # "install" => "context" \in installed
    /\ tp = "install" =>
         /\ todo # <<>>
         /\ \/ todo = Installs(owner) /\ installed = {}
            \/ owner # "ble" /\ "context" \in installed
            \/ owner = "ble" /\ todo \in {<<"empty", "context">>, <<"context">>}

(* What rpc_session_close has cleared, as far as it has come.              *)
ClearInv ==
    /\ tp = "close" =>
         \/ todo = Clears
         \/ todo = <<"closed", "empty">> /\ "send" \notin installed
         \/ todo = <<"empty">> /\ {"send", "closed"} \cap installed = {}
         \/ todo = <<>> /\ {"send", "closed"} \cap installed = {}
    /\ tp \in {"await", "closed"} => {"send", "closed"} \cap installed = {}

Complete(t) == IF t \in {"cmd", "stop"} THEN 1 ELSE 0

(* c[i]: how many messages were accepted up to the i-th token of s; those  *)
(* before s are base.                                                      *)
IsLedger(c, s, base, total) ==
    /\ c \in [0 .. Len(s) -> 0 .. total]
    /\ c[0] = base /\ c[Len(s)] = total
    /\ \A i \in 1 .. Len(s) : c[i] = c[i - 1] + Complete(s[i])

LedgerInv ==
    /\ accepted + (IF tp = "send" THEN 1 ELSE 0) <= feeds
    /\ handled <= accepted
    /\ ~decodeError =>
         \E c \in [0 .. Len(stream) -> 0 .. accepted] :
            IsLedger(c, stream, handled + Complete(got), accepted)

IInv == SessionSound /\ WorkerInv /\ ContextInv /\ ClearInv /\ LedgerInv

-----------------------------------------------------------------------------
LEMMA ConcatLemma ==
    ASSUME NEW S, NEW u \in Seq(S), NEW v \in Seq(S), u # <<>>
    PROVE  u \o v \in Seq(S) /\ u \o v # <<>>
<1>1. u \o v \in Seq(S) /\ Len(u \o v) = Len(u) + Len(v)
  OBVIOUS
<1>2. Len(u) \in Nat /\ Len(u) # 0 /\ Len(v) \in Nat
  OBVIOUS
<1>3. Len(u \o v) # 0
  BY <1>1, <1>2
<1> QED BY <1>1, <1>3

(* The answers to a message.                                               *)
LEMMA ActsLemma ==
    ASSUME NEW t \in {"cmd", "stop", "junk"}
    PROVE  ActsFor(t) \in Seq({"send", "closed", "restore"}) /\ ActsFor(t) # <<>>
<1>1. CASE t = "cmd"
  BY <1>1 DEF ActsFor
<1>2. CASE t = "stop"
  BY <1>2 DEF ActsFor
<1>3. CASE t = "junk"
  <2>1. /\ <<"send", "closed">> \in Seq({"send", "closed", "restore"})
        /\ <<"send", "closed">> # <<>>
    OBVIOUS
  <2>2. (IF owner = "ble" THEN <<"restore">> ELSE <<>>) \in Seq({"send", "closed", "restore"})
    <3>1. CASE owner = "ble"
      BY <3>1
    <3>2. CASE owner # "ble"
      BY <3>2
    <3> QED BY <3>1, <3>2
  <2>3. ActsFor(t) = <<"send", "closed">> \o (IF owner = "ble" THEN <<"restore">> ELSE <<>>)
    BY <1>3 DEF ActsFor
  <2> QED BY <2>1, <2>2, <2>3, ConcatLemma
<1> QED BY <1>1, <1>2, <1>3

(* What a transport installs.                                              *)
LEMMA InstallsLemma ==
    ASSUME NEW o \in Owners
    PROVE  Installs(o) \in Seq(Callbacks) /\ Installs(o) # <<>>
<1>1. CASE o = "usb"
  BY <1>1 DEF Installs, Callbacks
<1>2. CASE o = "uart"
  BY <1>2 DEF Installs, Callbacks
<1>3. CASE o = "ble"
  BY <1>3 DEF Installs, Callbacks
<1> QED BY <1>1, <1>2, <1>3, RpcSessionAssumption

(* A stream that has a first token.                                        *)
LEMMA StreamLemma ==
    ASSUME TypeOK
    PROVE  /\ stream \in Seq(Tokens) /\ Len(stream) \in Nat
           /\ stream # <<>> => /\ Head(stream) \in Tokens /\ Head(stream) = stream[1]
                               /\ Tail(stream) \in Seq(Tokens)
                               /\ Len(stream) > 0 /\ Len(Tail(stream)) = Len(stream) - 1
                               /\ \A i \in 1 .. (Len(stream) - 1) : Tail(stream)[i] = stream[i + 1]
<1>1. stream \in Seq(Tokens)
  BY DEF TypeOK
<1> QED BY <1>1

-----------------------------------------------------------------------------
(* The ledger                                                              *)

(* A token more: one place more.                                           *)
LEMMA LedgerAppend ==
    ASSUME NEW s \in Seq(Tokens), NEW t \in Tokens, NEW base \in Nat, NEW total \in Nat,
           NEW c, IsLedger(c, s, base, total)
    PROVE  \E d \in [0 .. Len(Append(s, t)) -> 0 .. (total + Complete(t))] :
              IsLedger(d, Append(s, t), base, total + Complete(t))
<1> DEFINE n == Len(s)
           w == Append(s, t)
           d == [i \in 0 .. (n + 1) |-> IF i <= n THEN c[i] ELSE total + Complete(t)]
<1>1. n \in Nat /\ Complete(t) \in Nat
  BY DEF Complete
<1>2. Len(w) = n + 1 /\ w[n + 1] = t /\ \A i \in 1 .. n : w[i] = s[i]
  OBVIOUS
<1> HIDE DEF w
<1>3. /\ \A i \in 0 .. n : c[i] \in 0 .. total
      /\ c[0] = base /\ c[n] = total
      /\ \A i \in 1 .. n : c[i] = c[i - 1] + Complete(s[i])
  BY DEF IsLedger
<1> HIDE DEF n
<1>4. d \in [0 .. (n + 1) -> 0 .. (total + Complete(t))]
  BY <1>1, <1>3
<1>5. d[0] = base /\ d[n + 1] = total + Complete(t)
  BY <1>1, <1>3
<1>6. ASSUME NEW i \in 1 .. (n + 1) PROVE d[i] = d[i - 1] + Complete(w[i])
  <2>1. CASE i \in 1 .. n
    <3>1. d[i] = c[i] /\ d[i - 1] = c[i - 1] /\ w[i] = s[i]
      BY <1>1, <1>2, <2>1
    <3> QED BY <1>3, <2>1, <3>1
  <2>2. CASE i = n + 1
    <3>1. d[i] = total + Complete(t) /\ d[i - 1] = c[n] /\ w[i] = t
      BY <1>1, <1>2, <2>2
    <3> QED BY <1>3, <3>1
  <2> QED BY <1>1, <2>1, <2>2
<1>7. IsLedger(d, w, base, total + Complete(t))
  BY <1>2, <1>4, <1>5, <1>6 DEF IsLedger
<1> QED BY <1>2, <1>4, <1>7 DEF w

(* The first token taken: what it stood for is counted before the rest.    *)
LEMMA LedgerTail ==
    ASSUME NEW s \in Seq(Tokens), s # <<>>, NEW base \in Nat, NEW total \in Nat,
           NEW c, IsLedger(c, s, base, total)
    PROVE  \E d \in [0 .. Len(Tail(s)) -> 0 .. total] :
              IsLedger(d, Tail(s), base + Complete(Head(s)), total)
<1> DEFINE n == Len(s)
           w == Tail(s)
           d == [i \in 0 .. (n - 1) |-> c[i + 1]]
<1>1. n \in Nat /\ n > 0 /\ Head(s) = s[1]
  OBVIOUS
<1>2. Len(w) = n - 1 /\ \A i \in 1 .. (n - 1) : w[i] = s[i + 1]
  OBVIOUS
<1> HIDE DEF w
<1>3. /\ \A i \in 0 .. n : c[i] \in 0 .. total
      /\ c[0] = base /\ c[n] = total
      /\ \A i \in 1 .. n : c[i] = c[i - 1] + Complete(s[i])
  BY DEF IsLedger
<1> HIDE DEF n
<1>4. d \in [0 .. (n - 1) -> 0 .. total]
  BY <1>1, <1>3
<1>5. d[0] = base + Complete(Head(s)) /\ d[n - 1] = total
  <2>1. d[0] = c[1] /\ d[n - 1] = c[n] /\ 1 \in 1 .. n
    BY <1>1
  <2>2. c[1] = c[1 - 1] + Complete(s[1])
    BY <1>3, <2>1
  <2> QED BY <1>1, <1>3, <2>1, <2>2
<1>6. ASSUME NEW i \in 1 .. (n - 1) PROVE d[i] = d[i - 1] + Complete(w[i])
  <2>1. /\ d[i] = c[i + 1] /\ d[i - 1] = c[i] /\ w[i] = s[i + 1]
        /\ i + 1 \in 1 .. n /\ (i + 1) - 1 = i
    BY <1>1, <1>2
  <2> QED BY <1>3, <2>1
<1>7. IsLedger(d, w, base + Complete(Head(s)), total)
  BY <1>2, <1>4, <1>5, <1>6 DEF IsLedger
<1> QED BY <1>2, <1>4, <1>7 DEF w

-----------------------------------------------------------------------------
(* The invariant                                                           *)

LEMMA InitInv == Init => IInv
<1> SUFFICES ASSUME Init PROVE IInv
  OBVIOUS
<1>1. Installs(owner) \in Seq(Callbacks) /\ Installs(owner) # <<>>
  BY InstallsLemma DEF Init
<1>2. stream \in Seq(Tokens) /\ Len(stream) = 0 /\ acts \in Seq({"send", "closed", "restore"})
  BY DEF Init
<1>3. TypeOK
  <2>1. /\ todo \in Seq({"context", "send", "closed", "empty", "terminated"})
        /\ Len(stream) <= StreamSize /\ window \in 0 .. StreamSize
        /\ feeds \in 0 .. MaxFeeds /\ accepted \in 0 .. MaxFeeds /\ handled \in 0 .. MaxFeeds
    BY <1>1, <1>2, RpcSessionAssumption DEF Init, Callbacks
  <2>2. /\ owner \in Owners /\ installed = {} /\ mutex = FALSE /\ flags = {} /\ tp = "install"
        /\ token = None /\ closeRequest = FALSE /\ rpcEvent = {} /\ wp = "read" /\ got = None
        /\ decodeError = FALSE /\ freed = "nothing" /\ semaphore \in 0 .. 1
    BY DEF Init
  <2> QED BY <1>2, <2>1, <2>2 DEF TypeOK
<1>4. LedgerInv
  <2>1. IsLedger([i \in 0 .. 0 |-> 0], stream, handled + Complete(got), accepted)
    BY <1>2 DEF Init, IsLedger, Complete, None
  <2>2. [i \in 0 .. 0 |-> 0] \in [0 .. Len(stream) -> 0 .. accepted]
    BY <1>2 DEF Init
  <2> QED BY <2>1, <2>2 DEF Init, LedgerInv
<1> QED
  BY <1>1, <1>3, <1>4
  DEF Init, IInv, SessionSound, CallbackHasContext, FreedIsUnused, WorkerInv, ContextInv, ClearInv

LEMMA TypeStep == IInv /\ [Next]_vars => TypeOK'
<1> SUFFICES ASSUME IInv, [Next]_vars PROVE TypeOK'
  OBVIOUS
<1>0. TypeOK
  BY DEF IInv, SessionSound
<1> USE <1>0 DEF TypeOK, transportVars, workerVars, bleVars, endVars
<1>1. ASSUME NEW t \in Tokens, ReceiveBytes(t) PROVE TypeOK'
  <2>1. Clears \in Seq({"context", "send", "closed", "empty", "terminated"})
    BY DEF Clears
  <2>2. window' \in 0 .. StreamSize /\ feeds' \in 0 .. MaxFeeds
    BY <1>1, RpcSessionAssumption DEF ReceiveBytes
  <2> QED BY <1>1, <2>1, <2>2 DEF ReceiveBytes, Tokens, None
<1>2. CASE StartClose
  <2>1. Clears \in Seq({"context", "send", "closed", "empty", "terminated"})
    BY DEF Clears
  <2>2. window' \in 0 .. StreamSize
    BY <1>2, RpcSessionAssumption DEF StartClose
  <2> QED BY <1>2, <2>1, <2>2 DEF StartClose
<1>3. CASE InstallNext
  <2>1. todo \in Seq(Callbacks) /\ todo # <<>>
    BY <1>3 DEF IInv, ContextInv, InstallNext, Callbacks
  <2>2. Head(todo) \in Callbacks /\ Tail(todo) \in Seq(Callbacks)
    BY <2>1
  <2>3. installed' \subseteq Callbacks /\ todo' \in Seq(Callbacks)
    BY <1>3, <2>2 DEF InstallNext, Callbacks
  <2> QED BY <1>3, <2>3, RpcSessionAssumption DEF InstallNext, Callbacks
<1>4. CASE FeedSend
  <2>1. token \in Tokens
    BY <1>4 DEF FeedSend
  <2>2. stream' \in Seq(Tokens) /\ Len(stream') <= StreamSize
    BY <1>4, <2>1, RpcSessionAssumption DEF FeedSend
  <2>3. accepted' \in 0 .. MaxFeeds
    BY <1>4, RpcSessionAssumption DEF FeedSend, IInv, LedgerInv
  <2> QED BY <1>4, <2>2, <2>3 DEF FeedSend, None
<1>5. CASE FeedTimeout
  BY <1>5 DEF FeedTimeout
<1>6. CASE FeedFlag
  BY <1>6 DEF FeedFlag
<1>7. CASE ClearNext
  <2>1. Tail(todo) \in Seq(Callbacks)
    BY <1>7 DEF ClearNext, Callbacks
  <2> QED BY <1>7, <2>1 DEF ClearNext, Callbacks
<1>8. CASE Disconnect
  BY <1>8 DEF Disconnect
<1>9. CASE AwaitTerminated
  <2>1. semaphore' \in 0 .. 1
    BY <1>9 DEF AwaitTerminated
  <2> QED BY <1>9, <2>1 DEF AwaitTerminated
<1>10. CASE Acknowledge
  BY <1>10 DEF Acknowledge
<1>11. CASE Receive
  <2>1. stream' \in Seq(Tokens) /\ Len(stream') <= StreamSize /\ got' \in Tokens \cup {None}
    <3>1. CASE stream = <<>>
      BY <1>11, <3>1 DEF Receive
    <3>2. CASE stream # <<>>
      <4>1. /\ got' = Head(stream) /\ stream' = Tail(stream)
            /\ Len(stream) <= StreamSize /\ Len(stream) \in Nat /\ StreamSize \in Nat
        BY <1>11, <3>2, StreamLemma, RpcSessionAssumption DEF Receive
      <4> QED BY <3>2, <4>1, StreamLemma
    <3> QED BY <3>1, <3>2
  <2> QED BY <1>11, <2>1 DEF Receive
<1>12. CASE CheckEmpty
  BY <1>12 DEF CheckEmpty
<1>13. CASE BufferIsEmpty
  <2>1. window' \in 0 .. StreamSize
    BY <1>13, RpcSessionAssumption DEF BufferIsEmpty
  <2> QED BY <1>13, <2>1 DEF BufferIsEmpty
<1>14. CASE Decode
  <2>1. CASE Usable \in {None, "part"}
    BY <1>14, <2>1 DEF Decode
  <2>2. CASE Usable \notin {None, "part"}
    <3>1. Usable \in {"cmd", "stop", "junk"} /\ Usable = got /\ ~decodeError
      BY <2>2 DEF Usable, Tokens
    <3>2. acts' \in Seq({"send", "closed", "restore"})
      BY <1>14, <2>2, <3>1, ActsLemma DEF Decode
    <3>3. handled' \in 0 .. MaxFeeds
      <4>1. got # "junk" => Complete(got) = 1
        BY <3>1 DEF Complete
      <4>2. \E c \in [0 .. Len(stream) -> 0 .. accepted] : c[0] = handled + Complete(got)
        BY <3>1 DEF IInv, LedgerInv, IsLedger
      <4>3. 0 \in 0 .. Len(stream)
        BY StreamLemma
      <4>4. handled + Complete(got) <= accepted
        BY <4>2, <4>3
      <4> QED BY <1>14, <2>2, <3>1, <4>1, <4>4, RpcSessionAssumption DEF Decode
    <3>4. stream' \in Seq(Tokens) /\ Len(stream') <= StreamSize
      <4>1. stream' \in {<<>>, stream}
        BY <1>14, <2>2 DEF Decode
      <4>2. <<>> \in Seq(Tokens) /\ Len(<<>>) = 0
        OBVIOUS
      <4>3. CASE stream' = <<>>
        BY <4>2, <4>3, RpcSessionAssumption
      <4>4. CASE stream' = stream
        BY <4>4
      <4> QED BY <4>1, <4>3, <4>4
    <3>5. got' = None /\ wp' = "act" /\ decodeError' \in BOOLEAN
      BY <1>14, <2>2 DEF Decode
    <3> QED BY <1>14, <3>2, <3>3, <3>4, <3>5 DEF Decode
  <2> QED BY <2>1, <2>2
<1>15. CASE Wait
  <2>1. flags' \subseteq {"NewData", "Disconnect"} /\ wp' \in {"read", "exit"}
    BY <1>15 DEF Wait
  <2> QED BY <1>15, <2>1 DEF Wait
<1>16. CASE EnterSend
  <2>1. acts # <<>>
    BY <1>16 DEF EnterSend, EnterCallback, Acted, IInv, WorkerInv
  <2>2. Tail(acts) \in Seq({"send", "closed", "restore"})
    BY <2>1
  <2> QED BY <1>16, <2>2 DEF EnterSend, EnterCallback, Acted
<1>17. CASE SendReturns
  <2>1. acts # <<>>
    BY <1>17 DEF SendReturns, Acted, IInv, WorkerInv
  <2>2. Tail(acts) \in Seq({"send", "closed", "restore"})
    BY <2>1
  <2> QED BY <1>17, <2>2 DEF SendReturns, Acted
<1>18. CASE EnterClosed
  <2>1. acts # <<>>
    BY <1>18 DEF EnterClosed, EnterCallback, Acted, IInv, WorkerInv
  <2>2. Tail(acts) \in Seq({"send", "closed", "restore"})
    BY <2>1
  <2> QED BY <1>18, <2>2 DEF EnterClosed, EnterCallback, Acted
<1>19. CASE ClosedReturns
  <2>1. acts # <<>>
    BY <1>19 DEF ClosedReturns, Acted, IInv, WorkerInv
  <2>2. Tail(acts) \in Seq({"send", "closed", "restore"})
    BY <2>1
  <2> QED BY <1>19, <2>2 DEF ClosedReturns, Acted
<1>20. CASE RestoreProfile
  <2>1. acts # <<>>
    BY <1>20 DEF RestoreProfile, Acted, IInv, WorkerInv
  <2>2. Tail(acts) \in Seq({"send", "closed", "restore"})
    BY <2>1
  <2> QED BY <1>20, <2>2 DEF RestoreProfile, Acted
<1>21. CASE FreeSystems
  <2>1. stream' \in Seq(Tokens) /\ Len(stream') <= StreamSize
    BY <1>21, RpcSessionAssumption DEF FreeSystems
  <2> QED BY <1>21, <2>1 DEF FreeSystems
<1>22. CASE FreeSession
  <2>1. semaphore' \in 0 .. 1
    BY <1>22 DEF FreeSession
  <2> QED BY <1>22, <2>1 DEF FreeSession
<1>23. CASE UNCHANGED vars
  BY <1>23 DEF vars
<1> QED
  BY <1>1, <1>2, <1>3, <1>4, <1>5, <1>6, <1>7, <1>8, <1>9, <1>10, <1>11, <1>12,
     <1>13, <1>14, <1>15, <1>16, <1>17, <1>18, <1>19, <1>20, <1>21, <1>22, <1>23
  DEF Next, Transport, Worker, Timer

LEMMA ContextStep == IInv /\ [Next]_vars => ContextInv'
<1> SUFFICES ASSUME IInv, [Next]_vars PROVE ContextInv'
  OBVIOUS
<1>0. ContextInv /\ TypeOK
  BY DEF IInv, SessionSound
<1> USE <1>0 DEF ContextInv, transportVars, workerVars, bleVars, endVars
<1>1. ASSUME NEW t \in Tokens, ReceiveBytes(t) PROVE ContextInv'
  BY <1>1 DEF ReceiveBytes
<1>2. CASE StartClose
  BY <1>2 DEF StartClose
<1>3. CASE InstallNext
  <2>1. /\ installed' = installed \cup {Head(todo)} /\ todo' = Tail(todo) /\ owner' = owner
        /\ tp = "install" /\ tp' = IF Tail(todo) = <<>> THEN "idle" ELSE "install"
        /\ todo # <<>>
    BY <1>3 DEF InstallNext
  <2>2. CASE todo = Installs(owner) /\ installed = {}
    <3>1. CASE owner = "ble"
      <4>1. Tail(todo) = <<"empty", "context">>
        BY <2>2, <3>1 DEF Installs
      <4> QED BY <2>1, <3>1, <4>1
    <3>2. CASE owner # "ble"
      <4>1. Head(todo) = "context"
        BY <2>2, <3>2, RpcSessionAssumption DEF Installs, TypeOK
      <4> QED BY <2>1, <3>2, <4>1
    <3> QED BY <3>1, <3>2
  <2>3. CASE owner # "ble" /\ "context" \in installed
    BY <2>1, <2>3
  <2>4. CASE owner = "ble" /\ todo = <<"empty", "context">>
    <3>1. Tail(todo) = <<"context">>
      BY <2>4
    <3> QED BY <2>1, <2>4, <3>1
  <2>5. CASE owner = "ble" /\ todo = <<"context">>
    <3>1. Tail(todo) = <<>> /\ Head(todo) = "context"
      BY <2>5
    <3> QED BY <2>1, <3>1
  <2> QED BY <2>1, <2>2, <2>3, <2>4, <2>5
<1>4. CASE FeedSend
  BY <1>4 DEF FeedSend
<1>5. CASE FeedTimeout
  BY <1>5 DEF FeedTimeout
<1>6. CASE FeedFlag
  BY <1>6 DEF FeedFlag
<1>7. CASE ClearNext
  <2>1. todo \in {Clears, <<"closed", "empty">>, <<"empty">>}
    BY <1>7 DEF ClearNext, IInv, ClearInv
  <2>2. Head(todo) # "context"
    BY <2>1 DEF Clears
  <2> QED BY <1>7, <2>2 DEF ClearNext
<1>8. CASE Disconnect
  BY <1>8 DEF Disconnect
<1>9. CASE AwaitTerminated
  BY <1>9 DEF AwaitTerminated
<1>10. CASE Acknowledge
  BY <1>10 DEF Acknowledge
<1>11. CASE Receive
  BY <1>11 DEF Receive
<1>12. CASE CheckEmpty
  BY <1>12 DEF CheckEmpty
<1>13. CASE BufferIsEmpty
  BY <1>13 DEF BufferIsEmpty
<1>14. CASE Decode
  BY <1>14 DEF Decode
<1>15. CASE Wait
  BY <1>15 DEF Wait
<1>16. CASE EnterSend
  BY <1>16 DEF EnterSend, EnterCallback, Acted
<1>17. CASE SendReturns
  BY <1>17 DEF SendReturns, Acted
<1>18. CASE EnterClosed
  BY <1>18 DEF EnterClosed, EnterCallback, Acted
<1>19. CASE ClosedReturns
  BY <1>19 DEF ClosedReturns, Acted
<1>20. CASE RestoreProfile
  BY <1>20 DEF RestoreProfile, Acted
<1>21. CASE FreeSystems
  BY <1>21 DEF FreeSystems
<1>22. CASE FreeSession
  BY <1>22 DEF FreeSession
<1>23. CASE UNCHANGED vars
  BY <1>23 DEF vars
<1> QED
  BY <1>1, <1>2, <1>3, <1>4, <1>5, <1>6, <1>7, <1>8, <1>9, <1>10, <1>11, <1>12,
     <1>13, <1>14, <1>15, <1>16, <1>17, <1>18, <1>19, <1>20, <1>21, <1>22, <1>23
  DEF Next, Transport, Worker, Timer

LEMMA ClearStep == IInv /\ [Next]_vars => ClearInv'
<1> SUFFICES ASSUME IInv, [Next]_vars PROVE ClearInv'
  OBVIOUS
<1>0. ClearInv
  BY DEF IInv
<1> USE <1>0 DEF ClearInv, transportVars, workerVars, bleVars, endVars
<1>1. ASSUME NEW t \in Tokens, ReceiveBytes(t) PROVE ClearInv'
  BY <1>1 DEF ReceiveBytes
<1>2. CASE StartClose
  BY <1>2 DEF StartClose
<1>3. CASE InstallNext
  BY <1>3 DEF InstallNext
<1>4. CASE FeedSend
  BY <1>4 DEF FeedSend
<1>5. CASE FeedTimeout
  BY <1>5 DEF FeedTimeout
<1>6. CASE FeedFlag
  BY <1>6 DEF FeedFlag
<1>7. CASE ClearNext
  <2>1. tp' = "close" /\ todo' = Tail(todo) /\ installed' = installed \ {Head(todo)}
        /\ tp = "close" /\ todo # <<>>
    BY <1>7 DEF ClearNext
  <2>2. CASE todo = Clears
    <3>1. Head(todo) = "send" /\ Tail(todo) = <<"closed", "empty">>
      BY <2>2 DEF Clears
    <3> QED BY <2>1, <3>1
  <2>3. CASE todo = <<"closed", "empty">> /\ "send" \notin installed
    <3>1. Head(todo) = "closed" /\ Tail(todo) = <<"empty">>
      BY <2>3
    <3> QED BY <2>1, <2>3, <3>1
  <2>4. CASE todo = <<"empty">> /\ {"send", "closed"} \cap installed = {}
    <3>1. Tail(todo) = <<>>
      BY <2>4
    <3> QED BY <2>1, <2>4, <3>1
  <2> QED BY <2>1, <2>2, <2>3, <2>4
<1>8. CASE Disconnect
  <2>1. {"send", "closed"} \cap installed = {}
    <3>1. todo = <<>> /\ tp = "close"
      BY <1>8 DEF Disconnect
    <3>2. Clears # <<>> /\ <<"closed", "empty">> # <<>> /\ <<"empty">> # <<>>
      BY DEF Clears
    <3> QED BY <3>1, <3>2
  <2> QED BY <1>8, <2>1 DEF Disconnect
<1>9. CASE AwaitTerminated
  BY <1>9 DEF AwaitTerminated
<1>10. CASE Acknowledge
  BY <1>10 DEF Acknowledge
<1>11. CASE Receive
  BY <1>11 DEF Receive
<1>12. CASE CheckEmpty
  BY <1>12 DEF CheckEmpty
<1>13. CASE BufferIsEmpty
  BY <1>13 DEF BufferIsEmpty
<1>14. CASE Decode
  BY <1>14 DEF Decode
<1>15. CASE Wait
  BY <1>15 DEF Wait
<1>16. CASE EnterSend
  BY <1>16 DEF EnterSend, EnterCallback, Acted
<1>17. CASE SendReturns
  BY <1>17 DEF SendReturns, Acted
<1>18. CASE EnterClosed
  BY <1>18 DEF EnterClosed, EnterCallback, Acted
<1>19. CASE ClosedReturns
  BY <1>19 DEF ClosedReturns, Acted
<1>20. CASE RestoreProfile
  BY <1>20 DEF RestoreProfile, Acted
<1>21. CASE FreeSystems
  BY <1>21 DEF FreeSystems
<1>22. CASE FreeSession
  BY <1>22 DEF FreeSession
<1>23. CASE UNCHANGED vars
  BY <1>23 DEF vars
<1> QED
  BY <1>1, <1>2, <1>3, <1>4, <1>5, <1>6, <1>7, <1>8, <1>9, <1>10, <1>11, <1>12,
     <1>13, <1>14, <1>15, <1>16, <1>17, <1>18, <1>19, <1>20, <1>21, <1>22, <1>23
  DEF Next, Transport, Worker, Timer

LEMMA WorkerStep == IInv /\ [Next]_vars => WorkerInv'
<1> SUFFICES ASSUME IInv, [Next]_vars PROVE WorkerInv'
  OBVIOUS
<1>0. WorkerInv /\ TypeOK /\ mutex \in BOOLEAN
  BY DEF IInv, SessionSound, TypeOK
<1> USE <1>0 DEF WorkerInv, transportVars, workerVars, bleVars, endVars
<1>1. ASSUME NEW t \in Tokens, ReceiveBytes(t) PROVE WorkerInv'
  BY <1>1 DEF ReceiveBytes
<1>2. CASE StartClose
  BY <1>2 DEF StartClose
<1>3. CASE InstallNext
  <2>1. UNCHANGED <<mutex, stream, flags, wp, got, acts>> /\ ~mutex /\ tp = "install"
    BY <1>3 DEF InstallNext
  <2> QED BY <2>1
<1>4. CASE FeedSend
  <2>1. UNCHANGED <<installed, mutex, flags, wp, got, acts>> /\ tp = "send" /\ tp' = "flag"
    BY <1>4 DEF FeedSend
  <2> QED BY <2>1
<1>5. CASE FeedTimeout
  BY <1>5 DEF FeedTimeout
<1>6. CASE FeedFlag
  BY <1>6 DEF FeedFlag
<1>7. CASE ClearNext
  <2>1. UNCHANGED <<mutex, stream, flags, tp, wp, got, acts>> /\ ~mutex
    BY <1>7 DEF ClearNext
  <2> QED BY <2>1
<1>8. CASE Disconnect
  BY <1>8 DEF Disconnect
<1>9. CASE AwaitTerminated
  BY <1>9 DEF AwaitTerminated
<1>10. CASE Acknowledge
  BY <1>10 DEF Acknowledge
<1>11. CASE Receive
  <2>1. /\ UNCHANGED <<installed, mutex, flags, tp, acts>>
        /\ wp = "read" /\ wp' = "check"
    BY <1>11 DEF Receive
  <2> QED BY <2>1
<1>12. CASE CheckEmpty
  BY <1>12 DEF CheckEmpty
<1>13. CASE BufferIsEmpty
  BY <1>13 DEF BufferIsEmpty
<1>14. CASE Decode
  <2>1. CASE Usable \in {None, "part"}
    BY <1>14, <2>1 DEF Decode
  <2>2. CASE Usable \notin {None, "part"}
    <3>1. Usable \in {"cmd", "stop", "junk"}
      BY <2>2 DEF Usable, Tokens, TypeOK
    <3>2. acts' # <<>>
      BY <1>14, <2>2, <3>1, ActsLemma DEF Decode
    <3> QED BY <1>14, <2>2, <3>2 DEF Decode
  <2> QED BY <2>1, <2>2
<1>15. CASE Wait
  BY <1>15 DEF Wait
<1>16. CASE EnterSend
  BY <1>16 DEF EnterSend, EnterCallback, Acted
<1>17. CASE SendReturns
  BY <1>17 DEF SendReturns, Acted
<1>18. CASE EnterClosed
  BY <1>18 DEF EnterClosed, EnterCallback, Acted
<1>19. CASE ClosedReturns
  BY <1>19 DEF ClosedReturns, Acted
<1>20. CASE RestoreProfile
  BY <1>20 DEF RestoreProfile, Acted
<1>21. CASE FreeSystems
  <2>1. UNCHANGED <<installed, mutex, flags, tp, wp, got, acts>> /\ stream' = <<>>
    BY <1>21 DEF FreeSystems
  <2> QED BY <2>1
<1>22. CASE FreeSession
  BY <1>22 DEF FreeSession
<1>23. CASE UNCHANGED vars
  BY <1>23 DEF vars
<1> QED
  BY <1>1, <1>2, <1>3, <1>4, <1>5, <1>6, <1>7, <1>8, <1>9, <1>10, <1>11, <1>12,
     <1>13, <1>14, <1>15, <1>16, <1>17, <1>18, <1>19, <1>20, <1>21, <1>22, <1>23
  DEF Next, Transport, Worker, Timer

(* The worker only finds callbacks when the context is there too.          *)
LEMMA InstalledLemma ==
    ASSUME IInv, ~Preempted, NEW cb \in installed
    PROVE  "context" \in installed
<1>1. CASE tp # "install"
  BY <1>1 DEF IInv, ContextInv
<1>2. CASE tp = "install"
  <2>1. owner = "ble" => Installs(owner) \notin {<<"empty", "context">>, <<"context">>}
    BY DEF Installs
  <2> QED BY <1>2, <2>1 DEF IInv, ContextInv, Preempted
<1> QED BY <1>1, <1>2

LEMMA SoundStep == IInv /\ [Next]_vars => (CallbackHasContext /\ FreedIsUnused)'
<1> SUFFICES ASSUME IInv, [Next]_vars PROVE (CallbackHasContext /\ FreedIsUnused)'
  OBVIOUS
<1>0. CallbackHasContext /\ FreedIsUnused
  BY DEF IInv, SessionSound
<1> USE <1>0 DEF CallbackHasContext, FreedIsUnused, transportVars, workerVars, bleVars, endVars
<1>1. ASSUME NEW t \in Tokens, ReceiveBytes(t) PROVE (CallbackHasContext /\ FreedIsUnused)'
  BY <1>1 DEF ReceiveBytes
<1>2. CASE StartClose
  BY <1>2 DEF StartClose
<1>3. CASE InstallNext
  BY <1>3 DEF InstallNext
<1>4. CASE FeedSend
  BY <1>4 DEF FeedSend
<1>5. CASE FeedTimeout
  BY <1>5 DEF FeedTimeout
<1>6. CASE FeedFlag
  BY <1>6 DEF FeedFlag
<1>7. CASE ClearNext
  <2>1. "context" \in installed /\ Head(todo) # "context"
    <3>1. todo \in {Clears, <<"closed", "empty">>, <<"empty">>}
      BY <1>7 DEF ClearNext, IInv, ClearInv
    <3>2. Head(todo) # "context"
      BY <3>1 DEF Clears
    <3> QED BY <1>7, <3>2 DEF ClearNext, IInv, ContextInv
  <2> QED BY <1>7, <2>1 DEF ClearNext
<1>8. CASE Disconnect
  BY <1>8 DEF Disconnect
<1>9. CASE AwaitTerminated
  BY <1>9 DEF AwaitTerminated
<1>10. CASE Acknowledge
  BY <1>10 DEF Acknowledge
<1>11. CASE ~Preempted /\ Receive
  BY <1>11 DEF Receive
<1>12. CASE ~Preempted /\ CheckEmpty
  BY <1>12, InstalledLemma DEF CheckEmpty
<1>13. CASE ~Preempted /\ BufferIsEmpty
  BY <1>13 DEF BufferIsEmpty
<1>14. CASE ~Preempted /\ Decode
  BY <1>14 DEF Decode
<1>15. CASE ~Preempted /\ Wait
  BY <1>15 DEF Wait
<1>16. CASE ~Preempted /\ EnterSend
  BY <1>16, InstalledLemma DEF EnterSend, EnterCallback, Acted
<1>17. CASE ~Preempted /\ SendReturns
  BY <1>17 DEF SendReturns, Acted
<1>18. CASE ~Preempted /\ EnterClosed
  BY <1>18, InstalledLemma DEF EnterClosed, EnterCallback, Acted
<1>19. CASE ~Preempted /\ ClosedReturns
  BY <1>19 DEF ClosedReturns, Acted
<1>20. CASE ~Preempted /\ RestoreProfile
  BY <1>20 DEF RestoreProfile, Acted
<1>21. CASE FreeSystems
  BY <1>21 DEF FreeSystems, IInv, WorkerInv
<1>22. CASE FreeSession
  BY <1>22 DEF FreeSession
<1>23. CASE UNCHANGED vars
  BY <1>23 DEF vars
<1> QED
  BY <1>1, <1>2, <1>3, <1>4, <1>5, <1>6, <1>7, <1>8, <1>9, <1>10, <1>11, <1>12,
     <1>13, <1>14, <1>15, <1>16, <1>17, <1>18, <1>19, <1>20, <1>21, <1>22, <1>23
  DEF Next, Transport, Worker, Timer

LEMMA LedgerStep == IInv /\ [Next]_vars => LedgerInv'
<1> SUFFICES ASSUME IInv, [Next]_vars PROVE LedgerInv'
  OBVIOUS
<1>0. /\ LedgerInv /\ TypeOK /\ accepted \in Nat /\ handled \in Nat /\ feeds \in Nat
      /\ stream \in Seq(Tokens)
  BY RpcSessionAssumption DEF IInv, SessionSound, TypeOK
<1> USE <1>0 DEF LedgerInv, transportVars, workerVars, bleVars, endVars
<1>1. ASSUME NEW t \in Tokens, ReceiveBytes(t) PROVE LedgerInv'
  <2>1. /\ UNCHANGED <<stream, got, handled, accepted, decodeError>>
        /\ feeds' = feeds + 1 /\ tp = "idle" /\ tp' \in {"close", "send"}
    BY <1>1 DEF ReceiveBytes
  <2> QED BY <2>1
<1>2. CASE StartClose
  BY <1>2 DEF StartClose
<1>3. CASE InstallNext
  BY <1>3 DEF InstallNext
<1>4. CASE FeedSend
  <2>1. /\ token \in Tokens /\ stream' = Append(stream, token)
        /\ accepted' = accepted + Complete(token)
        /\ UNCHANGED <<got, handled, feeds, decodeError>> /\ tp = "send" /\ tp' = "flag"
    BY <1>4 DEF FeedSend, TypeOK, Complete
  <2>2. accepted' <= feeds /\ handled <= accepted'
    BY <2>1 DEF Complete
  <2>3. ASSUME ~decodeError
        PROVE  \E d \in [0 .. Len(stream') -> 0 .. accepted'] :
                  IsLedger(d, stream', handled + Complete(got), accepted')
    <3>1. PICK c : IsLedger(c, stream, handled + Complete(got), accepted)
      BY <2>3
    <3>2. handled + Complete(got) \in Nat
      BY DEF Complete
    <3> QED BY <2>1, <3>1, <3>2, LedgerAppend
  <2> QED BY <2>1, <2>2, <2>3
<1>5. CASE FeedTimeout
  BY <1>5 DEF FeedTimeout
<1>6. CASE FeedFlag
  BY <1>6 DEF FeedFlag
<1>7. CASE ClearNext
  BY <1>7 DEF ClearNext
<1>8. CASE Disconnect
  BY <1>8 DEF Disconnect
<1>9. CASE AwaitTerminated
  BY <1>9 DEF AwaitTerminated
<1>10. CASE Acknowledge
  BY <1>10 DEF Acknowledge
<1>11. CASE Receive
  <2>1. UNCHANGED <<feeds, tp, accepted, handled, decodeError>> /\ got = None
    BY <1>11 DEF Receive, IInv, WorkerInv
  <2>2. CASE stream = <<>>
    BY <1>11, <2>1, <2>2 DEF Receive
  <2>3. CASE stream # <<>>
    <3>1. got' = Head(stream) /\ stream' = Tail(stream) /\ Complete(got) = 0
      BY <1>11, <2>1, <2>3 DEF Receive, Complete, None
    <3>2. ASSUME ~decodeError
          PROVE  \E d \in [0 .. Len(stream') -> 0 .. accepted] :
                    IsLedger(d, stream', handled + Complete(got'), accepted)
      <4>1. PICK c : IsLedger(c, stream, handled, accepted)
        BY <3>1, <3>2
      <4> QED BY <2>3, <3>1, <4>1, LedgerTail
    <3> QED BY <2>1, <3>2
  <2> QED BY <2>2, <2>3
<1>12. CASE CheckEmpty
  BY <1>12 DEF CheckEmpty
<1>13. CASE BufferIsEmpty
  BY <1>13 DEF BufferIsEmpty
<1>14. CASE Decode
  <2>1. UNCHANGED <<feeds, tp, accepted>> /\ got' = None /\ Complete(got') = 0
    BY <1>14 DEF Decode, Complete, None
  <2>2. CASE Usable \in {None, "part"}
    <3>1. UNCHANGED <<stream, decodeError, handled>>
      BY <1>14, <2>2 DEF Decode
    <3>2. ~decodeError => Complete(got) = 0
      BY <2>2 DEF Usable, Complete, None
    <3> QED BY <2>1, <3>1, <3>2
  <2>3. CASE Usable = "junk"
    <3>1. decodeError' /\ handled' = handled
      BY <1>14, <2>3 DEF Decode, None
    <3> QED BY <2>1, <3>1
  <2>4. CASE Usable \notin {None, "part", "junk"}
    <3>1. Usable \in {"cmd", "stop"} /\ Usable = got /\ ~decodeError
      BY <2>4 DEF Usable, Tokens, TypeOK
    <3>2. Complete(got) = 1 /\ handled' = handled + 1 /\ stream' = stream
      BY <1>14, <2>4, <3>1 DEF Decode, Complete
    <3>3. PICK c \in [0 .. Len(stream) -> 0 .. accepted] :
             IsLedger(c, stream, handled + 1, accepted)
      BY <3>1, <3>2
    <3>4. handled + 1 <= accepted
      <4>1. c[0] = handled + 1 /\ 0 \in 0 .. Len(stream)
        BY <3>3, StreamLemma DEF IsLedger
      <4> QED BY <3>3, <4>1
    <3>5. handled' + Complete(got') = handled + 1
      BY <2>1, <3>2
    <3> QED BY <2>1, <3>2, <3>3, <3>4, <3>5
  <2> QED BY <2>2, <2>3, <2>4
<1>15. CASE Wait
  BY <1>15 DEF Wait
<1>16. CASE EnterSend
  BY <1>16 DEF EnterSend, EnterCallback, Acted
<1>17. CASE SendReturns
  BY <1>17 DEF SendReturns, Acted
<1>18. CASE EnterClosed
  BY <1>18 DEF EnterClosed, EnterCallback, Acted
<1>19. CASE ClosedReturns
  BY <1>19 DEF ClosedReturns, Acted
<1>20. CASE RestoreProfile
  BY <1>20 DEF RestoreProfile, Acted
<1>21. CASE FreeSystems
  <2>1. stream = <<>>
    BY <1>21 DEF FreeSystems, IInv, WorkerInv
  <2> QED BY <1>21, <2>1 DEF FreeSystems
<1>22. CASE FreeSession
  BY <1>22 DEF FreeSession
<1>23. CASE UNCHANGED vars
  BY <1>23 DEF vars
<1> QED
  BY <1>1, <1>2, <1>3, <1>4, <1>5, <1>6, <1>7, <1>8, <1>9, <1>10, <1>11, <1>12,
     <1>13, <1>14, <1>15, <1>16, <1>17, <1>18, <1>19, <1>20, <1>21, <1>22, <1>23
  DEF Next, Transport, Worker, Timer

(* The inductive invariant of a session.                                   *)
THEOREM Invariance == Spec => []IInv
<1>1. IInv /\ [Next]_vars => IInv'
  BY TypeStep, ContextStep, ClearStep, WorkerStep, SoundStep, LedgerStep DEF IInv, SessionSound
<1> QED BY InitInv, <1>1, PTL DEF Spec

(* Neither the worker, which runs before the callbacks are installed, nor  *)
(* the transport, nor the timer task that frees the session meets memory   *)
(* that is not there, in whichever order the three run.                    *)
THEOREM SessionIsSound == Spec => []SessionSound
<1>1. IInv => SessionSound
  BY DEF IInv
<1> QED BY <1>1, Invariance, PTL

(* When rpc_session_close has returned, neither the send nor the closed    *)
(* callback is under way, and none will be: both are called under          *)
(* callbacks_mutex.  Of buffer_is_empty_callback, which is called without  *)
(* it (rpc.c:212), and of the terminated callback (rpc.c:374) it says      *)
(* nothing.                                                                *)
THEOREM CloseEndsCallbacks == Spec => []NoCallbackAfterClose
<1>1. IInv => NoCallbackAfterClose
  BY DEF IInv, WorkerInv, ClearInv, NoCallbackAfterClose
<1> QED BY <1>1, Invariance, PTL

(* The worker ends with every message handled that rpc_session_feed put    *)
(* into the stream, unless it met something it could not decode.           *)
THEOREM FedMessagesHandled == Spec => []FedIsHandled
<1>1. ASSUME IInv PROVE FedIsHandled
  <2> SUFFICES ASSUME wp = "exit", ~decodeError PROVE handled = accepted
    BY DEF FedIsHandled
  <2>1. Len(stream) = 0 /\ got = None /\ Complete(got) = 0
    BY <1>1 DEF IInv, WorkerInv, Complete, None
  <2>2. PICK c : IsLedger(c, stream, handled + Complete(got), accepted)
    BY <1>1 DEF IInv, LedgerInv
  <2>3. c[0] = handled + 0 /\ c[0] = accepted
    BY <2>1, <2>2 DEF IsLedger
  <2> QED BY <1>1, <2>3 DEF IInv, SessionSound, TypeOK
<1> QED BY <1>1, Invariance, PTL

-----------------------------------------------------------------------------
(* No wake-up of the worker or of the transport is lost                    *)

(* What is in the stream is being read, was announced or will be.          *)
StreamWoken ==
    stream # <<>> /\ ~decodeError =>
        \/ wp \in {"read", "act", "sending", "closing"}
        \/ got # None \/ flags # {} \/ tp = "flag"

(* A used-up window goes with bytes to read, or with an emptying to come.  *)
WindowWoken ==
    /\ owner = "ble" /\ tp = "install" /\ todo = <<"context">> => "empty" \in installed
    /\ owner = "ble" /\ Registered => "empty" \in installed
    /\ owner = "ble" /\ Registered /\ window = 0 /\ ~decodeError =>
         stream # <<>> \/ tp = "send" \/ wp \in {"check", "emptying"}

(* The request to end is kept until it is obeyed, and the end is told to   *)
(* the command line, whose terminated_callback is never cleared.           *)
CloseWoken ==
    /\ tp \in {"await", "closed"} => "Disconnect" \in flags \/ wp = "exit"
    /\ owner = "usb" /\ tp = "install" =>
         todo \in {Installs("usb"), <<"send", "closed", "terminated">>,
                   <<"closed", "terminated">>, <<"terminated">>}
    /\ owner = "usb" /\ tp # "install" => "terminated" \in installed
    /\ tp = "await" => owner = "usb" /\ (freed = "session" => semaphore = 1)

WakeInv == StreamWoken /\ WindowWoken /\ CloseWoken

(* A worker that waits without a flag has read what was fed, has opened    *)
(* the window of the Bluetooth peer and was not told to end; and the       *)
(* command line does not wait for a semaphore that will not be released.   *)
NoLostWakeup ==
    /\ wp = "wait" /\ flags = {} /\ tp = "idle" /\ ~decodeError =>
         stream = <<>> /\ (owner = "ble" => window > 0)
    /\ wp = "wait" /\ flags = {} => tp \notin {"await", "closed"}
    /\ tp = "await" /\ freed = "session" => semaphore = 1

(* The invariant on wake-ups, action by action.                            *)
LEMMA WakeStep == IInv /\ WakeInv /\ [Next]_vars => WakeInv'
<1> SUFFICES ASSUME IInv, WakeInv, [Next]_vars PROVE WakeInv'
  OBVIOUS
<1>0. WorkerInv /\ ContextInv /\ TypeOK /\ FreedIsUnused
  BY DEF IInv, SessionSound
<1> USE <1>0 DEF WakeInv, StreamWoken, WindowWoken, CloseWoken, Registered, WorkerInv,
        FreedIsUnused, transportVars, workerVars, bleVars, endVars
<1>1. ASSUME NEW t \in Tokens, ReceiveBytes(t) PROVE WakeInv'
  BY <1>1 DEF ReceiveBytes
<1>2. CASE StartClose
  BY <1>2 DEF StartClose
<1>3. CASE InstallNext
  <2>1. /\ installed' = installed \cup {Head(todo)} /\ todo' = Tail(todo) /\ tp = "install"
        /\ tp' = IF Tail(todo) = <<>> THEN "idle" ELSE "install"
        /\ window' = IF owner = "ble" /\ Tail(todo) = <<>> THEN StreamSize ELSE window
        /\ UNCHANGED <<owner, stream, flags, wp, got, decodeError, freed, semaphore>>
    BY <1>3 DEF InstallNext
  <2>2. CASE owner = "ble"
    <3>1. todo \in {Installs("ble"), <<"empty", "context">>, <<"context">>}
      BY <2>1, <2>2 DEF ContextInv
    <3>2. CASE todo = <<"context">>
      <4>1. Tail(todo) = <<>>
        BY <3>2
      <4>2. "empty" \in installed' /\ tp' = "idle" /\ window' > 0
        BY <2>1, <2>2, <3>2, <4>1, RpcSessionAssumption
      <4> QED BY <2>1, <2>2, <4>2
    <3>3. CASE todo = <<"empty", "context">>
      <4>1. Tail(todo) = <<"context">> /\ Head(todo) = "empty"
        BY <3>3
      <4> QED BY <2>1, <2>2, <4>1
    <3>4. CASE todo = Installs("ble")
      <4>1. Tail(todo) = <<"empty", "context">> /\ Tail(todo) # <<>>
        BY <3>4 DEF Installs
      <4>2. <<"empty", "context">> # <<"context">>
        OBVIOUS
      <4> QED BY <2>1, <2>2, <4>1, <4>2
    <3> QED BY <3>1, <3>2, <3>3, <3>4
  <2>3. CASE owner = "usb"
    <3>1. CASE todo = Installs("usb")
      <4>1. Tail(todo) = <<"send", "closed", "terminated">>
        BY <3>1 DEF Installs
      <4> QED BY <2>1, <2>3, <4>1
    <3>2. CASE todo = <<"send", "closed", "terminated">>
      <4>1. Tail(todo) = <<"closed", "terminated">>
        BY <3>2
      <4> QED BY <2>1, <2>3, <4>1
    <3>3. CASE todo = <<"closed", "terminated">>
      <4>1. Tail(todo) = <<"terminated">>
        BY <3>3
      <4> QED BY <2>1, <2>3, <4>1
    <3>4. CASE todo = <<"terminated">>
      <4>1. Tail(todo) = <<>> /\ Head(todo) = "terminated"
        BY <3>4
      <4> QED BY <2>1, <2>3, <4>1
    <3> QED BY <2>1, <2>3, <3>1, <3>2, <3>3, <3>4
  <2>4. CASE owner \notin {"ble", "usb"}
    BY <2>1, <2>4
  <2> QED BY <2>2, <2>3, <2>4
<1>4. CASE FeedSend
  <2>1. stream' # <<>> /\ tp = "send" /\ tp' = "flag"
    BY <1>4, StreamLemma DEF FeedSend, TypeOK
  <2> QED BY <1>4, <2>1 DEF FeedSend
<1>5. CASE FeedTimeout
  <2>1. stream # <<>>
    BY <1>5, RpcSessionAssumption DEF FeedTimeout
  <2> QED BY <1>5, <2>1 DEF FeedTimeout
<1>6. CASE FeedFlag
  BY <1>6 DEF FeedFlag
<1>7. CASE ClearNext
  <2>1. todo \in {Clears, <<"closed", "empty">>, <<"empty">>}
    BY <1>7 DEF ClearNext, IInv, ClearInv
  <2>2. Head(todo) # "terminated"
    BY <2>1 DEF Clears
  <2> QED BY <1>7, <2>2 DEF ClearNext
<1>8. CASE Disconnect
  BY <1>8 DEF Disconnect
<1>9. CASE AwaitTerminated
  BY <1>9 DEF AwaitTerminated
<1>10. CASE Acknowledge
  BY <1>10 DEF Acknowledge
<1>11. CASE Receive
  <2>1. stream # <<>> => got' # None
    BY <1>11, StreamLemma DEF Receive, Tokens, None
  <2>2. /\ wp' = "check" /\ (stream = <<>> => stream' = <<>>)
        /\ UNCHANGED <<owner, installed, flags, tp, todo, window, decodeError, freed, semaphore>>
    BY <1>11 DEF Receive
  <2>3. wp = "read"
    BY <1>11 DEF Receive
  <2> QED BY <2>1, <2>2, <2>3
<1>12. CASE CheckEmpty
  BY <1>12 DEF CheckEmpty
<1>13. CASE BufferIsEmpty
  <2>1. owner = "ble" /\ Registered => window' # 0
    BY <1>13, RpcSessionAssumption DEF BufferIsEmpty
  <2> QED BY <1>13, <2>1 DEF BufferIsEmpty
<1>14. CASE Decode
  <2>1. CASE Usable \in {None, "part"}
    BY <1>14, <2>1 DEF Decode, Usable, None
  <2>2. CASE Usable = "junk"
    BY <1>14, <2>2 DEF Decode, None
  <2>3. CASE Usable \in {"cmd", "stop"}
    BY <1>14, <2>3 DEF Decode, Usable, None
  <2>4. Usable \in {None, "part", "junk", "cmd", "stop"}
    BY DEF Usable, TypeOK, Tokens
  <2> QED BY <2>1, <2>2, <2>3, <2>4
<1>15. CASE Wait
  BY <1>15 DEF Wait
<1>16. CASE EnterSend
  BY <1>16 DEF EnterSend, EnterCallback, Acted
<1>17. CASE SendReturns
  BY <1>17 DEF SendReturns, Acted
<1>18. CASE EnterClosed
  BY <1>18 DEF EnterClosed, EnterCallback, Acted
<1>19. CASE ClosedReturns
  BY <1>19 DEF ClosedReturns, Acted
<1>20. CASE RestoreProfile
  BY <1>20 DEF RestoreProfile, Acted
<1>21. CASE FreeSystems
  BY <1>21 DEF FreeSystems
<1>22. CASE FreeSession
  BY <1>22 DEF FreeSession
<1>23. CASE UNCHANGED vars
  BY <1>23 DEF vars
<1> QED
  BY <1>1, <1>2, <1>3, <1>4, <1>5, <1>6, <1>7, <1>8, <1>9, <1>10, <1>11, <1>12,
     <1>13, <1>14, <1>15, <1>16, <1>17, <1>18, <1>19, <1>20, <1>21, <1>22, <1>23
  DEF Next, Transport, Worker, Timer

(* No wake-up is lost between rpc_session_feed (rpc.c:172-187), which puts *)
(* and then sets the flag, rpc_session_close and the worker's reading and  *)
(* waiting (rpc.c:194-245), nor between the end of the session and the     *)
(* command line.  It is the safety half of FedIsRead, WindowOpens and      *)
(* CloseEndsSession.                                                       *)
THEOREM WakeupsNotLost == Spec => []NoLostWakeup
<1>1. Init => WakeInv
  BY DEF Init, WakeInv, StreamWoken, WindowWoken, CloseWoken, Registered, Installs
<1>2. ASSUME IInv, WakeInv PROVE NoLostWakeup
  <2>1. window \in Nat /\ (wp = "wait" => got = None)
    BY <1>2 DEF IInv, SessionSound, TypeOK, WorkerInv
  <2> QED
    BY <1>2, <2>1
    DEF NoLostWakeup, WakeInv, StreamWoken, WindowWoken, CloseWoken, Registered
<1> QED BY <1>1, <1>2, WakeStep, Invariance, PTL DEF Spec
=============================================================================
