----------------------------- MODULE RpcSession -----------------------------
(***************************************************************************)
(* One RPC session, from rpc_session_open to the release of its memory     *)
(* (applications/services/rpc/rpc.c), with the transport that owns it: the *)
(* `start_rpc_session' command of the USB command line (rpc_cli.c), the    *)
(* expansion worker (expansion_worker.c) or one Bluetooth peer (bt.c and   *)
(* the serial service below it).                                           *)
(*                                                                         *)
(* Three threads meet here.  The transport feeds bytes and closes; the     *)
(* session worker decodes, handles and answers; and the timer task frees   *)
(* the session once the worker's thread has stopped.  They share the byte  *)
(* stream, the worker's thread flags, the callbacks (under                 *)
(* callbacks_mutex, with one exception: buffer_is_empty_callback) and, for *)
(* Bluetooth, the receive window of the peer.                              *)
(*                                                                         *)
(* Bytes are abstracted to tokens: "cmd" and "stop" complete a message,    *)
(* "part" is the beginning of one, "junk" cannot be decoded.               *)
(***************************************************************************)
EXTENDS Naturals, Sequences

CONSTANTS
    Owners,       \* the RpcOwners that open a session
    StreamSize,   \* RPC_BUFFER_SIZE, in tokens
    MaxFeeds      \* bound: tokens received in one session

ASSUME RpcSessionAssumption ==
    /\ Owners \subseteq {"usb", "uart", "ble"}
    /\ StreamSize \in Nat \ {0} /\ MaxFeeds \in Nat

Tokens == {"cmd", "stop", "part", "junk"}

None == "none"

VARIABLES
    owner,         \* session->owner
    installed,     \* which callbacks, and whether the context, are set
    mutex,         \* does the worker hold callbacks_mutex
    stream,        \* session->stream
    flags,         \* the worker's thread flags
    tp,            \* where the transport is
    todo,          \* the callbacks it has still to set or to clear
    token,         \* what it is feeding
    feeds,         \* tokens received so far
    closeRequest,  \* CliRpc.session_close_request
    window,        \* SerialServicePeer.bytes_ready_to_receive
    rpcEvent,      \* BtPeer.rpc_event
    wp,            \* where the worker is
    got,           \* what the last furi_stream_buffer_receive returned
    acts,          \* what it has still to do about the last message
    decodeError,   \* session->decode_error
    freed,         \* what rpc_session_thread_pending_callback has freed
    semaphore,     \* CliRpc.terminate_semaphore
    accepted,      \* history: complete messages the stream has accepted
    handled        \* history: messages handled

transportVars == <<tp, todo, token, feeds, accepted>>
workerVars == <<wp, got, acts, decodeError, handled>>
bleVars == <<window, rpcEvent>>
endVars == <<freed, semaphore>>
vars == <<owner, installed, mutex, stream, flags, transportVars, closeRequest,
          bleVars, workerVars, endVars>>

-----------------------------------------------------------------------------
(***************************************************************************)
(* Opening.                                                                *)
(***************************************************************************)

\* Mutant: Bluetooth forgets its buffer_is_empty_callback.
Installs_NoEmpty(o) ==
    CASE o = "usb"  -> <<"context", "send", "closed", "terminated">>
      [] o = "uart" -> <<"context", "send">>
      [] o = "ble"  -> <<"send", "context">>

\* What each transport installs, in its order: Bluetooth gives the context last.
Installs(o) ==
    CASE o = "usb"  -> <<"context", "send", "closed", "terminated">>
      [] o = "uart" -> <<"context", "send">>
      [] o = "ble"  -> <<"send", "empty", "context">>

\* rpc_session_open starts the worker before any callback is installed.
Init ==
    /\ owner \in Owners
    /\ installed = {} /\ mutex = FALSE
    /\ stream = <<>> /\ flags = {}
    /\ tp = "install" /\ todo = Installs(owner) /\ token = None
    /\ feeds = 0 /\ closeRequest = FALSE
    /\ window = 0 /\ rpcEvent = {}
    /\ wp = "read" /\ got = None /\ acts = <<>> /\ decodeError = FALSE
    /\ freed = "nothing" /\ semaphore = 0
    /\ accepted = 0 /\ handled = 0

-----------------------------------------------------------------------------
(***************************************************************************)
(* The transport.                                                          *)
(***************************************************************************)

\* The rpc_session_set_..._callback functions and rpc_session_set_context: one
\* assignment under callbacks_mutex.  When Bluetooth has installed its context
\* it registers the serial peer, whose window starts full.
InstallNext ==
    /\ tp = "install" /\ ~mutex
    /\ installed' = installed \cup {Head(todo)}
    /\ todo' = Tail(todo)
    /\ tp' = IF Tail(todo) = <<>> THEN "idle" ELSE "install"
    /\ window' = IF owner = "ble" /\ Tail(todo) = <<>> THEN StreamSize ELSE window
    /\ UNCHANGED <<owner, mutex, stream, flags, token, feeds, accepted,
                   closeRequest, rpcEvent, workerVars, endVars>>

\* What rpc_session_close has to clear, in its order.
Clears == <<"send", "closed", "empty">>

\* The transport receives a token.  The command line looks at
\* session_close_request only now, and then drops what it has received; a
\* Bluetooth client sends within its window.
ReceiveBytes(t) ==
    /\ tp = "idle" /\ feeds < MaxFeeds
    /\ owner = "ble" => window > 0
    /\ feeds' = feeds + 1
    /\ IF closeRequest
       THEN tp' = "close" /\ todo' = Clears /\ UNCHANGED <<token, window>>
       ELSE /\ tp' = "send" /\ token' = t
            /\ window' = IF owner = "ble" THEN window - 1 ELSE window
            /\ UNCHANGED todo
    /\ UNCHANGED <<owner, installed, mutex, stream, flags, accepted, closeRequest,
                   rpcEvent, workerVars, endVars>>

\* rpc_session_feed, first half: furi_stream_buffer_send waits for room, ...
FeedSend ==
    /\ tp = "send" /\ Len(stream) < StreamSize
    /\ stream' = Append(stream, token)
    /\ accepted' = IF token \in {"cmd", "stop"} THEN accepted + 1 ELSE accepted
    /\ tp' = "flag" /\ token' = None
    /\ UNCHANGED <<owner, installed, mutex, flags, todo, feeds, closeRequest,
                   bleVars, workerVars, endVars>>

\* ... but not for ever: what does not fit in time is dropped.
FeedTimeout ==
    /\ tp = "send" /\ Len(stream) = StreamSize
    /\ tp' = "flag" /\ token' = None
    /\ UNCHANGED <<owner, installed, mutex, stream, flags, todo, feeds, accepted,
                   closeRequest, bleVars, workerVars, endVars>>

\* rpc_session_feed, second half: the worker is woken.
FeedFlag ==
    /\ tp = "flag"
    /\ flags' = flags \cup {"NewData"}
    /\ tp' = "idle"
    /\ UNCHANGED <<owner, installed, mutex, stream, todo, token, feeds, accepted,
                   closeRequest, bleVars, workerVars, endVars>>

\* Mutant: the connection is not marked as lost before the session is closed.
StartClose_NoEvent ==
    /\ tp = "idle"
    /\ tp' = "close" /\ todo' = Clears
    /\ window' = 0
    /\ UNCHANGED <<owner, installed, mutex, stream, flags, token, feeds, accepted,
                   closeRequest, rpcEvent, workerVars, endVars>>

\* The transport is lost or gives up (broken pipe, expansion module gone, link
\* dropped, profile changed): bt_close_rpc_connection_peer unregisters the serial
\* peer and raises BT_RPC_EVENT_DISCONNECTED before it closes the session.
StartClose ==
    /\ tp = "idle"
    /\ tp' = "close" /\ todo' = Clears
    /\ window' = 0
    /\ rpcEvent' = IF owner = "ble" THEN rpcEvent \cup {"disconnected"} ELSE rpcEvent
    /\ UNCHANGED <<owner, installed, mutex, stream, flags, token, feeds, accepted,
                   closeRequest, workerVars, endVars>>

\* rpc_session_close: each callback is cleared under callbacks_mutex ...
ClearNext ==
    /\ tp = "close" /\ todo # <<>> /\ ~mutex
    /\ installed' = installed \ {Head(todo)}
    /\ todo' = Tail(todo)
    /\ UNCHANGED <<owner, mutex, stream, flags, tp, token, feeds, accepted,
                   closeRequest, bleVars, workerVars, endVars>>

\* Mutant: the worker may be told before every callback is cleared.
Disconnect_Early ==
    /\ tp = "close"
    /\ flags' = flags \cup {"Disconnect"}
    /\ tp' = IF todo # <<>> THEN "close" ELSE IF owner = "usb" THEN "await" ELSE "closed"
    /\ UNCHANGED <<owner, installed, mutex, stream, todo, token, feeds, accepted,
                   closeRequest, bleVars, workerVars, endVars>>

\* ... and the worker is told at the end.  Only the command line then waits for
\* the session's end.
Disconnect ==
    /\ tp = "close" /\ todo = <<>>
    /\ flags' = flags \cup {"Disconnect"}
    /\ tp' = IF owner = "usb" THEN "await" ELSE "closed"
    /\ UNCHANGED <<owner, installed, mutex, stream, todo, token, feeds, accepted,
                   closeRequest, bleVars, workerVars, endVars>>

\* rpc_cli_command_start_session acquires the terminate_semaphore and returns.
AwaitTerminated ==
    /\ tp = "await" /\ semaphore = 1
    /\ semaphore' = 0
    /\ tp' = "closed"
    /\ UNCHANGED <<owner, installed, mutex, stream, flags, todo, token, feeds,
                   accepted, closeRequest, bleVars, workerVars, freed>>

\* The client confirms a packet: bt_serial_event_callback on the GAP thread, which
\* is also the thread that feeds and closes.
Acknowledge ==
    /\ owner = "ble" /\ tp = "idle"
    /\ wp = "sending" /\ "sent" \notin rpcEvent
    /\ rpcEvent' = rpcEvent \cup {"sent"}
    /\ UNCHANGED <<owner, installed, mutex, stream, flags, transportVars, closeRequest,
                   window, workerVars, endVars>>

-----------------------------------------------------------------------------
(***************************************************************************)
(* The session worker.                                                     *)
(***************************************************************************)

\* The GAP thread has a higher priority than the worker and does not block while
\* it installs the callbacks, so the worker does not run in between.
Preempted == owner = "ble" /\ tp = "install" /\ todo # Installs(owner)

\* rpc_pb_stream_read: furi_stream_buffer_receive takes what there is.
Receive ==
    /\ wp = "read"
    /\ IF stream = <<>>
       THEN got' = None /\ UNCHANGED stream
       ELSE got' = Head(stream) /\ stream' = Tail(stream)
    /\ wp' = "check"
    /\ UNCHANGED <<owner, installed, mutex, flags, transportVars, closeRequest,
                   bleVars, acts, decodeError, handled, endVars>>

\* The buffer is tested and, without callbacks_mutex, the callback is read.
CheckEmpty ==
    /\ wp = "check"
    /\ wp' = IF stream = <<>> /\ "empty" \in installed THEN "emptying" ELSE "got"
    /\ UNCHANGED <<owner, installed, mutex, stream, flags, transportVars, closeRequest,
                   bleVars, got, acts, decodeError, handled, endVars>>

\* The serial service's mutex is held from the receipt of a packet until
\* rpc_session_feed has returned.
SerialLocked == owner = "ble" /\ tp \in {"send", "flag"}

\* The serial peer exists from the end of the installation to the close.
Registered == tp \in {"idle", "send", "flag"}

\* buffer_is_empty_callback (Bluetooth): an exhausted window is opened again,
\* unless the peer is gone.
BufferIsEmpty ==
    /\ wp = "emptying" /\ ~SerialLocked
    /\ window' = IF window = 0 /\ Registered THEN StreamSize ELSE window
    /\ wp' = "got"
    /\ UNCHANGED <<owner, installed, mutex, stream, flags, transportVars, closeRequest,
                   rpcEvent, got, acts, decodeError, handled, endVars>>

\* After a decode error nothing that is received counts.
Usable == IF decodeError THEN None ELSE got

\* What a complete message is answered with.
ActsFor(t) ==
    CASE t = "cmd"  -> <<"send">>
      [] t = "stop" -> <<"send", "closed">>
      [] t = "junk" -> <<"send", "closed">> \o
                       (IF owner = "ble" THEN <<"restore">> ELSE <<>>)

\* Mutant: the flags are cleared before the worker waits for them.
Decode_ClearsFlags ==
    /\ wp = "got"
    /\ IF Usable \in {None, "part"}
       THEN /\ wp' = IF Usable = None THEN "wait" ELSE "read"
            /\ flags' = IF Usable = None THEN flags \ {"NewData"} ELSE flags
            /\ UNCHANGED <<stream, acts, decodeError, handled>>
       ELSE /\ wp' = "act"
            /\ acts' = ActsFor(Usable)
            /\ handled' = IF Usable = "junk" THEN handled ELSE handled + 1
            /\ stream' = IF Usable = "junk" THEN <<>> ELSE stream
            /\ decodeError' = (Usable = "junk")
            /\ UNCHANGED flags
    /\ got' = None
    /\ UNCHANGED <<owner, installed, mutex, transportVars, closeRequest,
                   bleVars, endVars>>

\* Enough has been read for a message: it is handled, or it cannot be decoded,
\* which empties the stream and marks the session.
Decode ==
    /\ wp = "got"
    /\ IF Usable \in {None, "part"}
       THEN /\ wp' = IF Usable = None THEN "wait" ELSE "read"
            /\ UNCHANGED <<stream, acts, decodeError, handled>>
       ELSE /\ wp' = "act"
            /\ acts' = ActsFor(Usable)
            /\ handled' = IF Usable = "junk" THEN handled ELSE handled + 1
            /\ stream' = IF Usable = "junk" THEN <<>> ELSE stream
            /\ decodeError' = (Usable = "junk")
    /\ got' = None
    /\ UNCHANGED <<owner, installed, mutex, flags, transportVars, closeRequest,
                   bleVars, endVars>>

\* Mutant: Disconnect ends the session whatever is in the stream.
Wait_DropsRest ==
    /\ wp = "wait" /\ flags # {}
    /\ flags' = {}
    /\ wp' = IF "Disconnect" \in flags THEN "exit" ELSE "read"
    /\ UNCHANGED <<owner, installed, mutex, stream, transportVars, closeRequest,
                   bleVars, got, acts, decodeError, handled, endVars>>

\* Not enough: the worker sleeps.  A Disconnect that finds bytes in the stream is
\* kept for later; one that finds none ends the session, whatever was begun.
Wait ==
    /\ wp = "wait" /\ flags # {}
    /\ LET keep == "Disconnect" \in flags /\ stream # <<>> IN
       /\ flags' = IF keep THEN {"Disconnect"} ELSE {}
       /\ wp' = IF "Disconnect" \in flags /\ ~keep THEN "exit" ELSE "read"
    /\ UNCHANGED <<owner, installed, mutex, stream, transportVars, closeRequest,
                   bleVars, got, acts, decodeError, handled, endVars>>

\* The next thing the answer consists of, done: on to the following one, or to the
\* next message.
Acted ==
    /\ acts' = Tail(acts)
    /\ wp' = IF Tail(acts) = <<>> THEN "read" ELSE "act"

\* Before a Bluetooth packet is sent, an old confirmation is forgotten.
SendStarts == owner = "ble" /\ "disconnected" \notin rpcEvent

\* Mutant: the callback is called without callbacks_mutex.
EnterCallback_NoLock(cb, pc) ==
    /\ wp = "act" /\ Head(acts) = cb
    /\ IF cb \in installed
       THEN /\ wp' = pc
            /\ rpcEvent' = IF cb = "send" /\ SendStarts THEN {} ELSE rpcEvent
            /\ UNCHANGED <<acts, mutex>>
       ELSE Acted /\ UNCHANGED <<mutex, rpcEvent>>
    /\ UNCHANGED <<owner, installed, stream, flags, transportVars, closeRequest,
                   window, got, decodeError, handled, endVars>>

\* rpc_send, and the calls of closed_callback: the callback is read and called
\* with callbacks_mutex held.
EnterCallback(cb, pc) ==
    /\ wp = "act" /\ Head(acts) = cb
    /\ ~mutex
    /\ IF cb \in installed
       THEN /\ mutex' = TRUE /\ wp' = pc
            /\ rpcEvent' = IF cb = "send" /\ SendStarts THEN {} ELSE rpcEvent
            /\ UNCHANGED acts
       ELSE Acted /\ UNCHANGED <<mutex, rpcEvent>>
    /\ UNCHANGED <<owner, installed, stream, flags, transportVars, closeRequest,
                   window, got, decodeError, handled, endVars>>

EnterSend == EnterCallback("send", "sending")

EnterClosed == EnterCallback("closed", "closing")

\* send_bytes_callback returns: for Bluetooth once the packet is confirmed or the
\* connection is marked as lost.
SendReturns ==
    /\ wp = "sending"
    /\ owner = "ble" => rpcEvent # {}
    /\ rpcEvent' = rpcEvent \ {"sent"}
    /\ mutex' = FALSE
    /\ Acted
    /\ UNCHANGED <<owner, installed, stream, flags, transportVars, closeRequest,
                   window, got, decodeError, handled, endVars>>

\* rpc_cli_session_close_callback.
ClosedReturns ==
    /\ wp = "closing"
    /\ closeRequest' = TRUE
    /\ mutex' = FALSE
    /\ Acted
    /\ UNCHANGED <<owner, installed, stream, flags, transportVars, bleVars,
                   got, decodeError, handled, endVars>>

\* After a decode error over Bluetooth the worker restarts the serial profile and
\* waits for it: the restart closes this session's connection first.
RestoreProfile ==
    /\ wp = "act" /\ Head(acts) = "restore"
    /\ tp = "closed"
    /\ Acted
    /\ UNCHANGED <<owner, installed, mutex, stream, flags, transportVars, closeRequest,
                   bleVars, got, decodeError, handled, endVars>>

-----------------------------------------------------------------------------
(***************************************************************************)
(* The end: the worker's thread has stopped, and the timer task runs       *)
(* rpc_session_thread_pending_callback.                                    *)
(***************************************************************************)

FreeSystems ==
    /\ wp = "exit" /\ freed = "nothing"
    /\ freed' = "systems"
    /\ stream' = <<>>
    /\ UNCHANGED <<owner, installed, mutex, flags, transportVars, closeRequest,
                   bleVars, workerVars, semaphore>>

FreeSession ==
    /\ freed = "systems" /\ ~mutex
    /\ semaphore' = IF "terminated" \in installed THEN 1 ELSE semaphore
    /\ freed' = "session"
    /\ UNCHANGED <<owner, installed, mutex, stream, flags, transportVars, closeRequest,
                   bleVars, workerVars>>

-----------------------------------------------------------------------------

\* The transport finishes what it has begun.
Transport ==
    \/ InstallNext \/ FeedSend \/ FeedTimeout \/ FeedFlag
    \/ ClearNext \/ Disconnect \/ AwaitTerminated

Worker ==
    /\ ~Preempted
    /\ \/ Receive \/ CheckEmpty \/ BufferIsEmpty \/ Decode \/ Wait
       \/ EnterSend \/ SendReturns \/ EnterClosed \/ ClosedReturns
       \/ RestoreProfile

Timer == FreeSystems \/ FreeSession

Next ==
    \/ \E t \in Tokens : ReceiveBytes(t)
    \/ StartClose
    \/ Transport
    \/ Acknowledge
    \/ Worker
    \/ Timer

Spec == Init /\ [][Next]_vars

\* The profile restart the worker asked for.
RestartCloses == wp = "act" /\ Head(acts) = "restore" /\ StartClose

\* Every thread is scheduled; a connected client confirms what it is sent; a
\* profile restart is carried out.  Nothing makes a client send or hang up.
Fairness ==
    /\ WF_vars(Transport)
    /\ WF_vars(Acknowledge)
    /\ WF_vars(Worker)
    /\ WF_vars(Timer)
    /\ WF_vars(RestartCloses)

FairSpec == Spec /\ Fairness

-----------------------------------------------------------------------------
(***************************************************************************)
(* Properties.                                                             *)
(***************************************************************************)

\* Every variable has its type.  In particular the window of a Bluetooth peer
\* stays within the buffer it was given.
TypeOK ==
    /\ owner \in Owners
    /\ installed \subseteq {"context", "send", "closed", "empty", "terminated"}
    /\ mutex \in BOOLEAN
    /\ stream \in Seq(Tokens) /\ Len(stream) <= StreamSize
    /\ flags \subseteq {"NewData", "Disconnect"}
    /\ tp \in {"install", "idle", "send", "flag", "close", "await", "closed"}
    /\ todo \in Seq({"context", "send", "closed", "empty", "terminated"})
    /\ token \in Tokens \cup {None} /\ (tp = "send" <=> token # None)
    /\ feeds \in 0 .. MaxFeeds
    /\ closeRequest \in BOOLEAN
    /\ window \in 0 .. StreamSize
    /\ rpcEvent \subseteq {"sent", "disconnected"}
    /\ wp \in {"read", "check", "emptying", "got", "wait", "act", "sending",
               "closing", "exit"}
    /\ got \in Tokens \cup {None}
    /\ acts \in Seq({"send", "closed", "restore"})
    /\ decodeError \in BOOLEAN
    /\ freed \in {"nothing", "systems", "session"}
    /\ semaphore \in 0 .. 1
    /\ accepted \in 0 .. MaxFeeds /\ handled \in 0 .. MaxFeeds

\* A callback is never called before its context is there, although the worker
\* runs from rpc_session_open on and Bluetooth installs the context last.
CallbackHasContext ==
    wp \in {"emptying", "sending", "closing"} => "context" \in installed

\* Once rpc_session_close has returned, no send_bytes_callback and no
\* closed_callback is under way: the expansion worker frees the semaphore its
\* callback waits on, and a Bluetooth peer's slot is used again, right after it.
NoCallbackAfterClose ==
    tp \in {"await", "closed"} => wp \notin {"sending", "closing"}

\* The memory of a session is only freed when neither the transport, in
\* rpc_session_feed or rpc_session_close, nor the worker can touch it any more.
FreedIsUnused ==
    freed # "nothing" => tp \in {"await", "closed"} /\ wp = "exit"

\* Neither a callback nor a thread meets memory that is not there yet or no more.
SessionSound ==
    TypeOK /\ CallbackHasContext /\ FreedIsUnused

\* A message that was fed before the session was closed is handled before the
\* worker ends, unless a decode error has discarded what followed it.
FedIsHandled ==
    wp = "exit" /\ ~decodeError => handled = accepted

\* What is in the stream is read: no wake-up is lost between the two halves of
\* rpc_session_feed and the worker's wait.
FedIsRead ==
    (stream # <<>> /\ ~decodeError) ~> (stream = <<>> \/ decodeError)

\* A Bluetooth client whose window is used up gets a new one, or is closed.
WindowOpens ==
    (owner = "ble" /\ tp = "idle" /\ window = 0) ~> (window > 0 \/ tp = "closed")

\* A close that was begun always ends, and with it the session: the worker is
\* never left with callbacks_mutex, a full stream or a flag that was taken.
CloseEndsSession ==
    (tp = "close") ~> (tp = "closed" /\ freed = "session")

=============================================================================
