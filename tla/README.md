# Nikita-V8 in TLA+

Nikita-V8 is a firmware for the Flipper Zero: a small real-time system (FreeRTOS
on one Cortex-M4 core) with its own threading and event library, *Furi*, and a
set of services, each a thread that serves a message queue. This directory holds
TLA+ models of the concurrent core of that system, TLC configurations for
bounded instances, and proofs, checked by TLAPS, for every instance.

`PROJECT.json` holds the details: the source lines behind every definition
("map"), the runs, one mutant per property, the hazards and the findings.

## 1. The system

| Part | State it keeps | Operations | Interacts with |
|---|---|---|---|
| Event loop (`furi/core/event_loop.c`, `event_loop_timer.c`) | tree of subscribed items, waiting list, notification flags, timer list and request queue, pended functions | subscribe, unsubscribe, run, stop, pend, timer start/stop/restart/free, thread-flag subscription | message queues and other primitives call `furi_event_loop_link_notify` from any thread or interrupt |
| Threads (`furi/core/thread.c`) | state, state callback, static task memory; the scrub queue | alloc, start, join, free, body, scrub | the low-priority scrub thread delivers `Stopped` to state callbacks |
| Thread flags (`furi/core/thread.c`) | a task notification value and the kernel's notification state | set, clear, get, wait | any thread or interrupt |
| Expansion service (`applications/services/expansion`) | service state, serial, worker, a queue of eight | enable, disable, set serial, is connected, reload settings, detection, worker life | API callers, serial control, its worker thread, the storage card |
| Loader (`applications/services/loader`) | application thread or lock, insomnia, deferred launches, menu and browser threads, a queue of one | start, lock, unlock, enqueue and clear launches, menu, queries, application end | API callers, its two panels, the scrub thread |
| Input (`applications/services/input`) | per pin: debounce counter, level, press timer and its counter | scan, publish, timer expiry | pin interrupts, the timer task and its command queue, the GUI through a pubsub |
| GUI (`applications/services/gui/gui.c`, `view_port.c`) | layers of view ports, the keys under way and the port they belong to, lockdown, direct draw, a queue of events | add, remove, enable, reorder, lock, draw, dispatch input | input, the callbacks of the ports' owners |
| View dispatcher (`gui/view_dispatcher.c`) | registered views, current view, the keys under way and their view, a queue of events | add, remove, switch, run, stop, free | the GUI thread puts, the application's event loop takes |
| RPC session (`rpc/rpc.c`) | byte stream, callbacks and their mutex, decode error, worker thread | open, feed, decode, answer, close, termination | the USB command line, the expansion worker or a Bluetooth peer; the timer task frees it |
| Storage (`applications/services/storage`) | table of open files, the card | open (waiting for a file that is taken), close, read, write, remove | one thread serves all callers; a close wakes those that wait |
| Nikita agent (`applications/services/nikita_agent`) | two files, `req` and `res` | poll, take, run, answer | a client that has only file access |
| Record, PubSub, software timer (`furi/core`) | holders, subscribers, kernel timer | create/open/close/destroy, publish, start/stop | all services |
| Power, command line, desktop, notification, dolphin ... (`applications/services`) | their own | message loops, callbacks | records, queues, event loops |
| HAL, radio, protocol libraries, applications, vendored code | hardware and data | I/O, decoding | services |

What is hard here is concurrency by hand: a thread is preempted between changing
an object and announcing it; callbacks change the structure that is calling
them; flags are taken all at once and must be given back; a thread waits for
another that waits for a place in the first one's queue; threads are freed as
soon as someone believes that they have ended. "hazards" in `PROJECT.json` lists
these places line by line.

What makes each modelled part correct:

* event loop: an item is never used after it is freed nor leaked, no
  level-triggered event is slept on, no callback comes after its cancellation,
  requests to timers take effect before anything fires, busy objects do not
  starve others, a stop ends the loop;
* threads: task memory is not reused under a live task, state callbacks are
  told every state in order, each exit becomes visible and each join ends;
* thread flags: a flag that is set is seen and ends its wait, unless a clear of
  others wipes it, a wait for all gives it up, or an earlier wait has left it
  unnoticed;
* expansion: detection, worker and its buffer follow the service state, a worker
  that has ended is freed, and calls return but for three ways in which the
  control thread waits for ever (section 6);
* loader: the loader's idea of the application is true, the end of an
  application is handled once, locks are not overrun, sleep inhibition is
  paired, and the browser is not left waiting when a chain of launches fails, only
  when a deferred launch of the browser itself ends the chain;
* input: bounces and timers that race a release do not disturb the grammar of a
  key's events, and the level a pin settles at is told;
* GUI and view dispatcher: who got the Press of a key gets its Release, whatever
  happens to layers and views meanwhile; nobody removed or freed is called; the
  wait for the last Release ends;
* RPC session: what was accepted into the stream is handled before the worker ends,
  the send and closed callbacks are not called after the close, memory is freed when
  the last of three threads has let go of it, a close always ends;
* Nikita agent: until the removal of a request fails, a request is run at most once
  and no other answer is taken for its own; it is run unless its read fails or the
  device restarts; and the two sides do not lock each other out.

## 2. Modules

All models are written at the grain of what can be preempted: a critical
section, one kernel call, or a stretch of a thread's code nobody else observes.
`furi_check` failures are the state "crashed" where the code can reach them.
Definitions whose names end in `_Something`, marked "Mutant", are the broken
variants that show that a property can fail; no specification uses them.

* **EventLoop** – one loop, its owner thread, objects (message queues; the other
  primitives use the same contract), timers and pended functions. `Change`
  (`Put`, `Get`, `Reset`) and `LinkNotify` are separate steps of any thread. The
  `Take...` actions are the branches of `furi_event_loop_run` after
  `xTaskNotifyWait`, in the code's priority; `GetWaitingItem`, `ProcessOnce`,
  `ProcessEvent`, `ProcessStaleEvent`, `EventCallbackReturns` are the Event branch
  split where other threads can intervene. While a callback runs (and before the
  loop runs) the user may subscribe, unsubscribe, request timers, pend functions
  and free, in any order. Time is abstracted: an active timer may expire whenever
  the loop sleeps. Heap addresses are `Items`, reused after a free.
* **FuriThread** – `FuriThread` instances, their owners, their tasks and the scrub
  thread. `furi_thread_set_state` is two steps: the write and the callback.
  A join polls the state and nothing else. `Waiters` are the threads whose owner
  starts or frees them again only after the `Stopped` callback (the loader).
* **ThreadFlags** – one owner, with any waits and clears, and its setters over the
  kernel's notification value *and* notification state, one kernel call per step;
  `furi_thread_flags_clear` is a query and an overwrite. Two histories keep what the
  calls lose: `dropped`, the flags wiped or given up, and `unnoticed`, those a wait left
  in the value when it took the notification.
* **Expansion** – callers, card events, detection interrupts, control thread and
  workers around one queue. A worker step is one frame, one flag or one
  put; frame contents are reduced to what the worker does with them (rejected,
  baud rate, control command, part of a frame). A worker has a receive buffer; one
  that uses it after it was freed goes on or crashes (`UseFreedBuffer`). `forgot` is
  the history of a stop flag taken in the middle of a frame.
* **Loader** – callers, the loader thread and its queue of one place, menu and
  Applications threads ("panels"), the application's thread and the scrub thread.
  A start succeeds, fails to load or is refused as the code may; which name or
  path it was is kept only as far as the code distinguishes it: a deferred launch of
  the Applications browser (`LaunchApplications`) starts no application.
* **KeySource** – abstract: what the input service promises about the events of a
  key (Press, then Short or Long Repeat\*, then Release).
* **Input** – pins, the scan of the service thread, its interrupt flag, and the
  press timers, whose start and stop go through the timer task's queue. It
  implements KeySource (`ImplementsKeySource`; the phase of a key is read off
  `state`, `press_counter` and where the scan is).
* **Gui** – over KeySource: an event is queued and then announced by a flag; the
  GUI thread takes it, finds the port and calls it with the mutex held. All
  operations on layers and ports are single steps under the mutex.
* **PortSource** – abstract: what the callback of one view port sees. Gui implements
  it for an application's port (`ImplementsPortSource`).
* **ViewDispatcher** – over PortSource: the port's callback puts into the
  dispatcher's queue, the application's thread takes, hands to a view and lets
  the application switch, add and remove views or stop; after the stop come the
  wait for the last Releases, the removal of the views, the free, and another
  application.
* **RpcSession** – one session with the transport that owns it (one of three, with
  their different ways to install callbacks, feed, and close), the worker and the
  timer task. Bytes are tokens: a whole message, the session's end, a part of a
  message, or something undecodable. A callback is split into its begin (under
  `callbacks_mutex`) and its end, except `buffer_is_empty_callback`, which the code
  calls without the mutex.
* **Storage** – the open-file table and the wait of `storage_file_open` as actions
  with the calling thread as parameter; a module for others to extend.
* **NikitaAgent** – over Storage: agent and client as threads, each storage call a
  step, with the agent's retry loops, failures of the card at any open, read, write or
  removal, and restarts. `removeFailed` and `unread` are the histories of the failures
  the code ignores.

Three layers are thus stacked by their promises, Input under KeySource under Gui
under PortSource under ViewDispatcher, so that no run has to hold all three.

The `...Proofs` modules (EventLoop, FuriThread, Expansion, Loader, Gui,
ViewDispatcher, RpcSession, NikitaAgent) extend a component's module with the
inductive invariant, the lemmas and the theorems of section 5; they add nothing to
the model. Two hold the proofs of a neighbour as well: FuriThreadProofs extends
ThreadFlags too, GuiProofs Input, whose top-level names therefore carry a prefix
(`FlagsSpec`, `InputSpec`, ...).

`MC...` modules add only the values a configuration file cannot write and the
symmetry sets.

## 3. Runs

Passing runs:

| Run | Shows | Instance |
|---|---|---|
| `event_loop_safety` | `NoDanglingItem`, `NoLeakedItem`, `LevelNotLost`, `NoFireAfterRequest`, `PendedAfterTimerCommands`, `NoCallbackAfterUnsubscribe`, `TypeOK` | two queues of one place, level and edge events in both directions, two item addresses, so that an address is reused while the other item waits, one other thread, a periodic timer, one pended function |
| `event_loop_liveness` | `LevelServed`, `StopReturns`, `ThreadFlagNotLost` | two queues that stay busy, one-shot subscriptions, a thread that sets flags, no pended functions (with them a flag is lost, section 6) |
| `thread_lifecycle` | `ThreadsSound` (task memory is not reused under a task, the code's checks hold, nobody touches a freed thread), `CallbackInOrder`, `JoinEnds` | three threads and a scrub queue of one, so that exits do wait for a place (the code has eight places and many more threads) |
| `thread_flags` | `FlagsSound` (a flag is lost only in the overwrite of a clear of others or with a wait for all that gives up; a wait blocks on a set flag only if an earlier wait left it unnoticed), `SetFlagEndsWait` | two flags, two setters, waits for any or all of both with each kind of timeout, for one of them, and with `FuriFlagNoClear`; clears of one and of both |
| `expansion_service` | `ServiceSound` (detection follows the state, no unknown worker runs, a worker that receives has its buffer unless it is freed for the message of an earlier one), `CallsReturn` (unless `JoinDeadlock`, `StopForgotten` or `FreesLiveWorker` lasts for ever), `EndedIsFreed` | one caller, two serials, a queue of three, so that it does fill, and two falling edges, so that a second connection meets the messages of the first worker |
| `loader_service` | `LoaderSound` (ends are reported once, locks are not overrun, insomnia is paired), `AppIsTheThread`, `WatchEnds` (unless the last deferred launch was of the browser, `silent`) | two callers, both panels, two deferred launches, so that a launch fails in the middle of a chain |
| `input` | `ImplementsKeySource`, `LevelReported`, `InputTypeOK` | two pins, so that one bounces while the scan waits for the other's timer; the code's four debounce ticks |
| `gui` | `GuiSound` (no removed port is called or keeps the input), `PressStaysWithPort`, `ImplementsPortSource` | two keys, three ports (desktop, an application, a dialog on the same layer as the application), a queue of one, so that publishers do wait |
| `view_dispatcher` | `DispatcherSound` (neither the freed queue nor a removed view is used), `PressStaysWithView`, `DrainEnds` | two keys that a rotation exchanges, three views, one of them vertical, a queue of two, at most two events given and not handled |
| `rpc_session` | `SessionSound` (callbacks find their context, memory in use is not freed), `NoCallbackAfterClose` (of the send and closed callbacks), `FedIsHandled` (what was accepted into the stream), `FedIsRead`, `WindowOpens`, `CloseEndsSession` | each of the three transports, a stream of two tokens and five received, so that the stream fills and empties more than twice |
| `nikita_mailbox` | `MailboxSound` (no half-written answer is read, answers stay, a request is run at most once until a removal fails), `AcceptedIsOwn` (until a removal fails), `RequestIsRun` (unless its read or a removal fails, or the device restarts), `OpenEnds` | two requests, the second a reboot; two attempts where the code makes 6 and 40; two failures of the card and a restart, so that one of them meets the retry after the other |

An invariant named `...Sound` is the conjunction of a module's type invariant and
of the bookkeeping facts defined above it, each with its own comment.

Bounds: `Capacity`, `MaxPending`, `MaxRuns`, `ScrubDepth`, `QueueSize`, `MaxEdges`,
`LaunchQueueSize`, `QueueLen`, `MaxBacklog`, `StreamSize`, `MaxFeeds`, `MaxRequests`,
`ReqAttempts`, `WriteAttempts`, `MaxFaults`, `MaxRestarts` and the sizes of the sets.
One object more than a callback is about, one thread that interferes and one
address that can be reused suffice for the races named in the hazards; for the safety
properties of every model the proofs of section 5 remove the bounds. Queues are shorter than in the code where
what matters is that they are full. The symmetries are sound
because addresses and queues, and in Gui keys, are only compared; only safety (in `gui` with
the safety part of a refinement) is checked under them.

Deadlock is not checked in `loader_service` and `expansion_service`, because both
services really have one (section 6), and in `rpc_session`, because a session ends.

One run ends in a violation, a disagreement between the code and sentences of the
repository that "findings" quotes: in `event_loop_once`, a FlagOnce item is freed by
its own unsubscription before the callback is called through it
(`event_loop.c:123`).

## 4. Fairness

* EventLoop: the owner is scheduled (WF on the branches of the loop), a thread
  preempted before its notification runs again (WF per thread), and user
  callbacks return (SF, since a callback may be in the middle of a put when it
  could return); the header requires that callbacks never block. Nothing makes
  objects change or timers expire.
* FuriThread: WF for the tasks, the scrub thread and the polling owner; SF for a
  thread that waits for a place in the scrub queue, because FreeRTOS wakes the
  highest-priority, longest waiting sender. Owners are never forced to join.
* ThreadFlags: WF for an owner the kernel has unblocked.
* Expansion: WF for control thread and workers, SF for taking the stop flag,
  which is looked at whenever a receive finds no byte. A module never has to fall
  silent or to pause between frames.
* Loader: WF for the loader, the scrub thread and the browser's wake-up, SF for
  the puts of the panels. Users, callers and applications may do nothing forever.
  (`loader_service` checks safety only and needs none of it.)
* Input: WF for the service thread and for the timer task's commands; pins never
  have to change and timers never have to expire.
* Gui: none, only safety is checked.
* ViewDispatcher: WF for the put of the GUI thread and for the application's
  thread. `DrainEnds` assumes in its statement that the user lets go of the keys.
* RpcSession: WF for transport, worker and timer task, for the confirmations of a
  connected client, and for the profile restart a worker asks for. Clients never
  have to send or hang up.
* NikitaAgent: WF for both sides, SF for an open that finds its path free time and
  again: the agent's thread has a high priority and sleeps 500 ms between polls,
  and the client needs a round trip over its link between two uses of a file.
  Faults and restarts are never forced.

## 5. Proofs

Everything below is checked by TLAPS for every value of the constants. What an
assumption says of the constants is in the module that declares them, and TLC
evaluates it on every run:

* `EventLoopAssumption`, `FuriThreadAssumption`, `ExpansionAssumption`,
  `LoaderAssumption`, `InputAssumption`, `GuiAssumption`: sizes are positive numbers,
  NULL is no member of the sets, each port has its layer, the debounce time is even
  (half of it is the initial counter);
* `ThreadFlagsAssumption`: the calls are calls the interface allows;
* `RpcSessionAssumption`: the owners are among the three transports of the code;
* `MailboxAssumption` and `AttemptsAssumption` (NikitaAgent): the threads and files are
  the agent and its client, `req` and `res`; the numbers of attempts are positive, and
  those of requests, failures and restarts are any numbers;
* `NullAssumption` (Gui) and the last part of `ViewDispatcherAssumption`: NULL is not
  an event or a call, as a null pointer is not a record;
* `ViewDispatcherAssumption`: the rotation maps different keys to different keys, as
  each row of the table in `view_port.c:25` does.

| Theorem | Statement |
|---|---|
| EventLoop `TypeCorrect` | `Spec => []TypeOK` |
| `ItemsNotLeaked` | `Spec => []NoLeakedItem` |
| `UnsubscribeIsFinal` | `Spec => NoCallbackAfterUnsubscribe` |
| `ItemsNotDangling` | without one-shot events (which break it, `event_loop_once`), `Spec => []NoDanglingItem` |
| `LevelsNotLost` | for a loop run at most once, `Spec => [](LevelNotLost /\ WaitingListSignalled)` |
| `RequestsComeFirst`, `PendedComeAfter` | for a loop run at most once, `Spec => NoFireAfterRequest`, `Spec => PendedAfterTimerCommands` |
| `ThreadFlagsReported` | for a loop run at most once without pended functions, `Spec => []ThreadFlagNotLost` |
| FuriThread `ThreadsAreSound`, `CallbacksInOrder` | `Spec => []ThreadsSound`, `Spec => CallbackInOrder` |
| ThreadFlags `FlagsAreSound` | for any waits and clears, `FlagsSpec => []FlagsSound` |
| `NotBlockedWithFlags` | if all waits are for one mask and clear what they return (`OneMask`; any clears), `FlagsSpec => []BlockedOnlyWithoutFlags`: a thread is blocked only with no flag of the mask set |
| `WholeMaskKeepsFlags` | if moreover no wait is for all of the mask and a clear is of all flags (`WholeMask`), `FlagsSpec => []FlagsNotLost`: no flag is lost |
| Expansion `ServiceIsSound` | `Spec => []ServiceSound` |
| `NothingIsMissed` | `Spec => []NothingMissed`: a caller that waits has its request queued or in hand, and a worker that has ended is being joined or its message is queued or in hand |
| Loader `LoaderIsSound`, `AppIsItsThread`, `BrowserWakes` | `Spec => []LoaderSound`, `[]AppIsTheThread`, `[]WatchEnds` (the browser waits for an event to come, unless the last deferred launch was of the browser) |
| Input `InputTypeCorrect`, `KeysAsPromised` | `InputSpec => []InputTypeOK`, `InputSpec => ImplementsKeySource` |
| `SleepsSettled` | the service thread sleeps for good only when each key is told to be as its pin is |
| Gui `GuiIsSound`, `PressesStay`, `PortsAsPromised` | `Spec => []GuiSound`, `[]PressStaysWithPort`, `Spec => ImplementsPortSource` |
| ViewDispatcher `DispatcherIsSound`, `PressesStayWithView` | `Spec => []DispatcherSound`, `[]PressStaysWithView` |
| `DrainsForCause` | for a rotation that reaches every key, each key the final wait is about is down, in the call under way or in the queue |
| RpcSession `SessionIsSound`, `CloseEndsCallbacks`, `FedMessagesHandled` | `Spec => []SessionSound`, `[]NoCallbackAfterClose` (the send and closed callbacks, not the two others of section 6), `[]FedIsHandled` (of what was accepted into the stream) |
| `WakeupsNotLost` | a worker that waits without a flag has nothing to read, no window to open and was not told to end; the command line does not wait for a semaphore that is not released |
| NikitaAgent `MailboxIsSound`, `AcceptedAnswersAreOwn` | `Spec => []MailboxSound`, `Spec => []AcceptedIsOwn`; that a request is run at most once and gets its own answer is stated, and true, only until a removal fails |
| `RunsAreAwaited` | unless a removal failed, a request is run for the first time and while its client waits |
| `WaitersAreWoken` | a `storage_file_open` that waits has another File open on its path, or its event set |

None of these is inductive as it stands. Each module has one inductive invariant
`IInv`, whose preservation is proved action by action (`Invariance`, a lemma or a
theorem), and the results follow from it. What each `IInv` adds is the argument why
the component is correct:

* **EventLoop**: `TypeOK /\ Bookkeeping /\ NoLostLevel`. `Bookkeeping` ties tree, links,
  waiting list, current item and heap together: what is in the tree is owned and
  allocated, the waiting list has no duplicates and holds only subscribed items, the
  popped item is either subscribed or was unsubscribed by its own callback, and
  nothing else is allocated. `NoLostLevel` is the argument of the loop: a level that
  is there is on the waiting list, in the loop's hands, or known to a thread that has
  not notified yet. It says nothing of the flags; `Signalled`, `TimerSignalled` and
  `ThreadFlagSignalled` add them: a waiting list, a request queue or a thread flag
  has its flag raised, or among those a branch will restore. These hold until the
  first stop only, since the Stop branch drops the other flags, hence `MaxRuns <= 1`;
  and the Pending branch drops a thread flag, hence `MaxPending = 0` in
  `ThreadFlagsReported` (both are observations of section 6).
* **FuriThread**: `LifeInv` reads the state of a thread off where its owner, its task
  and the scrub thread are; `QueueInv` says that the scrub queue holds exactly the
  suspended tasks not yet taken, once each; `WaiterInv` says which state the callback
  of a waiting owner was told last. Without the first two a task could be put into
  the queue twice; the third is needed because the owner may free the thread at once.
* **Expansion**: `WorkerInv` (a worker is allocated exactly in the two active states
  and while a disconnected one is joined, and then it is the only one), `BufferInv` (its
  buffer goes only when the control thread frees it), `ControlInv`
  (what the control thread has in hand while it joins) and `MessageInv` (a request to
  listen names a serial all the way through the queue). A stale message of an
  earlier worker may be in the queue at any time; the invariant shows that it is
  harmless for the detection and the bookkeeping of workers, and that the running
  worker's buffer is the one thing it takes away (`FreesLiveWorker`).
* **Loader**: `MessageInv` and `PanelInv` say which messages in the one place of the
  queue and in the loader's hands exclude each other, and that a panel waits for the
  one message it has sent; `TaskInv` that the scrub thread meets the application's
  thread once and that deferred launches start with no application. With them the
  end of an application cannot be reported twice, nor an unlock find no lock. That the
  browser waits with nothing to come only after a silent end of the launches
  (`silent`) follows from where the loader is when it watches.
* **Input**: `TimerInv`, when a press timer may be started, active or have counted: only
  within a press that was published, or while the release waits for the stop.
  A callback outside of that would publish a Long on its own, which is the race the
  refinement of KeySource excludes. The refinement is proved step by step: each action
  is a step of KeySource or leaves the mapped phases unchanged.
* **Gui** and **ViewDispatcher**: `KeysInv` looks through the queue: `DownAfter` is what the
  reader will hold of a key when it has handled the first n events, and a Press comes
  only where that is "up". It rests on the promise of the layer below (KeySource,
  PortSource); without it a second Press could move to another port. `LayersInv` keeps
  a port in its own layer, so that a removal takes it out of all. In ViewDispatcher the
  invariant holds until a rotation meets held keys (`sacrificed`), and `OffInv` says
  that a dispatcher that is not there has no input. `PortsAsPromised` maps Gui to
  PortSource; Gui has the application's port as one of its ports, ViewDispatcher is
  written over PortSource.
* **RpcSession**: `WorkerInv` (who holds the callbacks' mutex and why), `ContextInv` and
  `ClearInv` (what is installed as far as the transport has come with installing and
  with closing) and `LedgerInv`, a count: for each place of the stream, how many
  messages were accepted up to it. Only with the whole sequence of counts does the
  end of the stream say that nothing is left.
* **ThreadFlags**: the kernel keeps a value and a notification state, and a wait looks at
  the value only when a notification was received. `NoticedInv` ties the two: without
  a notification, what is in the value is what a wait left unnoticed. `FlagsAccounted` is
  inductive with the types: each flag not seen yet is in the value, with the wait that
  received it, or was lost in one of the two ways that `dropped` records. Two theorems say
  which services are spared. `MaskInv(m)`: when all waits are for one mask, none of its
  flags is ever left unnoticed. `KeptInv`: when the clears are of all flags and no wait is
  for all of several, nothing is dropped. The GUI thread, which clears one of its two
  flags (`gui.c:587`), satisfies the first and not the second.
* **NikitaAgent**: the invariant follows a request through the mailbox. `JobsInv` says which
  File each thread has in the storage's table at each place of its code; `WriteInv` what
  the agent is about to write; `AnswerInv` that the last answer stays in `res` until
  another request is taken; `TornInv` that a half-written text is only there while its
  writer is not done. `OnceInv` and `MailInv` say that no request that was run is there
  to be taken again and that the one under way is the client's last; both hold until
  the removal of `req` fails (`removeFailed`), since the code ignores that. A failed read
  loses a request and breaks neither. A restart may
  come at every step; that the agent has nothing in hand when it starts
  (`apc = "boot" => taken = Empty`) had to be added to be inductive.

Beyond the runs' safety properties, some theorems state the safety half of a liveness
property, which TLC checks as a whole: that whoever waits, waits for something that is
still to come. They have invariants of their own on top of `IInv`: `HeldInv` (Expansion:
the messages held, and a worker is stopped by the user only while it is joined),
`ScanInv` (Input: a pin the scan has read has the level that is told, unless another scan
is due), `WakeInv` (RpcSession: each of stream, window and close has its flag, its
reader or its setter), `WaitHasCause` (NikitaAgent). `LevelsNotLost`,
`NotBlockedWithFlags`, `DrainsForCause` and `BrowserWakes` are of the same kind.

Lemmas say what the operators do (`NotifiedListLemma`, `UnlinkedListLemma`,
`DetachLemma`, `RemoveAtLemma`, `AppendLemma`, `TailLemma`, `SentPut`, `PutLemma`,
`AddressedLemma` ...); the step lemmas go through the actions. Every `IInv` was first
checked by TLC on the instance of the component's run, that of NikitaAgent also with
three requests, three failures and two restarts; so were `HeldInv` of Expansion (with
two callers and a queue of three) and `WakeInv`.

Only model-checked is liveness (`LevelServed`, `StopReturns`, `JoinEnds`,
`SetFlagEndsWait`, `CallsReturn`, `EndedIsFreed`, `LevelReported`, `DrainEnds`, `FedIsRead`,
`WindowOpens`, `CloseEndsSession`, `RequestIsRun`, `OpenEnds`): it needs fairness and
ENABLED, which are out of the prover's reach. Of `StopReturns`, `JoinEnds` and
`RequestIsRun` no safety half is stated: they depend on scheduling, not on a wake-up
that could be missed.

## 6. Observations without a run

Met while modelling. Those of the first list restrict what a property says: by a bound
of its run, or by an exception that the property names exactly and its run reaches. The
others are smaller or no disagreement with a text.

* The Pending branch of the loop drops a ThreadFlag that was taken together with
  it (`event_loop.c:244`; `event_loop.h:316` promises the callback), hence no pended
  functions in `event_loop_liveness`.
* `furi_thread_flags_clear` is a query and an overwrite (`thread.c:526`): a flag set
  in between disappears, also one that is not in the mask, although `thread.h:423`
  speaks of the flags to clear. Most services wait with the full mask and clear nothing;
  the GUI thread (`gui.c:587`) clears one of two, and can so sleep on a queued key.
  A wait for all of several flags that gives up has taken those it received
  (`thread.c:591`, `:618`). `FlagsNotLost` fails for both reasons; `FlagsAccounted` excepts them
  (`dropped`).
* A thread that waits for one of its flags, then for another, may block although
  the other is set: the kernel's notification state was consumed (`thread.c:581`).
  `BlockedOnlyWithoutFlags` fails; `BlockedOnlyUnnoticed` and `SetFlagEndsWait` except it
  (`unnoticed`).
* When the expansion queue is full, the control thread joins a worker that waits
  to put its ModuleDisconnected (`expansion.c:93`, `:84`), although a comment says
  that the API is not locked here to avoid a deadlock (`JoinDeadlock`). With the
  code's eight places it takes six falling edges, a call and a card mount.
* A stop flag taken in the middle of a frame is forgotten by the expansion worker
  (`expansion_worker.c:102`, `expansion_protocol.h:324`), so `expansion_disable`
  waits until the module pauses (`StopForgotten`).
* Worker messages carry no identity: a stale `ConnectionEstablished` is taken for
  the next worker's, and a stale `ModuleDisconnected` frees the receive buffer of the
  next worker before it is joined (`expansion_worker.c:399`), which then runs without
  one, or crashes (`FreesLiveWorker`).
* A deferred launch of the Applications browser ends the chain of launches
  without an event (`loader.c:703`), so a browser that waits for it waits on
  (`silent`).
* The loader joins its menu or browser thread while the scrub thread, the only one
  that can declare it stopped, waits for a place in the loader's queue
  (`loader.c:349`), so a thread whose callback has returned does not become joinable,
  as `thread.h:332` lets one expect: `ReturnedIsJoinable` of Loader fails.
* Nikita agent: the result of removing `req` is ignored, so a request that could not
  be removed is run again, and the removal after that may delete the client's next
  one (`nikita_agent.c:300`); without request numbers the old answer is then taken
  for the new one (`:304`; `removeFailed`). The number of bytes read is not looked at
  either (`:286`): a request whose read fails is removed, and answered as one
  without an operation (`unread`).

* A loop that is stopped and run again (as `view_dispatcher_run` allows) has lost
  the flags taken with Stop (`event_loop.c:232`): waiting items and timer
  requests are only noticed at the next notification.
* A function pended by a pended function runs in the same pass, before timer
  requests made in that pass (`event_loop.h:180` speaks of all preceding ones).
* `furi_event_loop_timer_get_remaining_time` of a stopped timer is computed from
  its old start (`event_loop_timer.c:16`), where `event_loop_timer.h:95` promises 0.
* `furi_thread_set_state` publishes `Stopped` before it reads the callback
  (`thread.c:96`), so an owner that only joins may free the thread under the
  scrub thread, which `thread.h:24` calls safe.
* `furi_thread_flags_set` returns the value read by a second call
  (`thread.c:502`), which may lack the flags just set.
* The wait of `furi_thread_flags_wait` decrements its timeout also when it is
  `FuriWaitForever` (`thread.c:608`): after a notification that does not end it, the
  wait has an end (`UpdateTimeout`).
* `loader_enqueue_launch` with a NULL name is documented as cancelling, and the
  code copies the name (`loader.c:308`).
* A ShowMenu that is handled while the menu closes is dropped (`loader.c:625`).
* `input.h:27` says that Short is emitted after Release; the code emits it before.
* A switch to a view with another orientation forgets the keys that are held
  (`view_dispatcher.c:362`, whose comment accepts it); what is queued was mapped the
  old way, so a key may stay in `ongoing_input`, and the final wait goes on until it
  is pressed again (`sacrificed` in ViewDispatcher).
* The GUI thread waits for a place in an application's queue with the GUI's mutex
  held; the application must not wait for that mutex meanwhile without taking from
  its queue (`view_dispatcher.c:253`).
* `rpc_session_close` promises that no callback is called after it
  (`rpc.h:70`); `buffer_is_empty_callback` is called without the mutex (`rpc.c:212`),
  and may run after the close, or reopen the window of a Bluetooth peer on an
  emptiness that is over.
* A session that ends on the USB command line is noticed at the next byte only
  (`rpc_cli.c:72`).
* Two threads may close the session of one Bluetooth peer (`bt.c:449`).
* `busy_mutex` is held during `storage_file_open` (`rpc.c:288`, `rpc_storage.c:443`),
  which waits for a file that another session may keep open between two messages.
* `sys.reboot` is never answered by the Nikita agent (`nikita_agent.c:170`), and a
  request that is there at the start is dropped (`:466`).

## 7. Not modelled

`components` in `PROJECT.json` gives the reason for each part. In short: time and
tick, the heap, formatting and logging, hardware and radio access, signal
decoders, file formats, user interface applications, vendored libraries and
build tools are I/O, data processing or someone else's code. Of the modelled
parts the following is left out: thread signals, stdio and enumeration; RPC and
OTG control of a connected expansion module; the loading screen, dialogs,
arguments and the CLI of the loader; vibration, settings and the CLI of input;
the status bar layers (which get no input), canvas, drawing, scene manager and view
holder of the GUI; the handlers of RPC commands, `busy_mutex`, several sessions and
a second closer of a Bluetooth peer; the bytes a feed that timed out has already
put (the token counts as dropped); directories, seeking, renaming, mounting and
the file systems of storage; the operations, command line and GPIO watch of the
agent. FreeRTOS queues, notifications and critical
sections, the insomnia counter and the serial control are modelled from how this
code uses them.

## 8. Plan

1. **Done**: EventLoop with its proofs, FuriThread, ThreadFlags, Expansion, Loader,
   the input path (KeySource, Input, Gui, PortSource, ViewDispatcher), RpcSession,
   Storage, NikitaAgent.
2. **Proofs, done**: every safety property the runs check, the refinements of KeySource
   and PortSource, and the safety halves of ten of the thirteen liveness properties.
3. **Record** (holders, waiting openers, destruction) and **PubSub**, the two
   primitives all services share.
4. **Promise of the event loop**: a small abstract specification (every level of
   a subscribed object is pending until reported or cancelled) and EventLoop shown
   to implement it.
5. Power, scene manager, several RPC sessions with `busy_mutex` over Storage, and
   Loader over FuriThread with thread signals to a closing application.
