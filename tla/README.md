# A verification project for connio

connio is a C library for synchronous and asynchronous connections: plain and SSL sockets,
listeners, buffered reads and writes, timeouts, and an event queue that lets a consumer hand a
whole conversation ("transaction") to worker threads and be called back when it has ended.
Paths below are those of the repository (`src/queue.c`, `include/connio.h`).

## 1. Inventory

| Component | Source | State | Operations | Interacts with |
|---|---|---|---|---|
| Asynchronous event queue | `src/queue.c`, `src/conninline.h` | `conn->state`, `conn->activeEvent`, `async.transaction` (queue, free list, problem, thread count, sslEnabled), under the event lock `conn->mutex` | `EventEnqueue`, `EventEnqueueFailure`, `EventsSubmit`, `ConnEventsProcess`, `EventQueueAbort`, `QueueCompleteCallback`, `AsyncEventCallback` | is called by the API, calls event processing, is called back by the socket event engine, calls the consumer |
| Conn event processing | `src/process.c` | the conn event (`status`, `error`, buffers) | `ConnEventProcess`: connect, handshake, read, write, flush, disconnect | the socket layer; without the event lock |
| Asynchronous API | `src/connio.c`, `include/connio.h` | buffered write data, `shuttingDown` | `ConnA*`, `ConnASubmit`, `ConnKill` | the queue |
| Socket event engine | `src/sockcommon.c`, `src/sockunix.c`, `src/sockinline.h` | three socket events per socket (link, flags, error) under `slock`; epoll handles; poll threads | `SocketEventWaitEx`, `SocketEventKill`, `_socketEventHandle`, `_PollThread`, `HandleSocketEvent` | epoll; hands events to worker threads |
| Timeout wheel | `src/sockunix.c` | `SOCKET_TIMEOUT_LISTS` lists under a lock of their own | add, delete, walk | poll thread takes list lock, then `slock`; add and delete the other way round |
| Synchronous I/O | `src/connio.c` | the same three slots, state `SYNCHRONOUS`; the send buffer, without a lock | insert and remove for connect, receive and send; buffered writes, implicit flushes | one thread may read while another writes; every call that is not a write flushes first |
| Handle shutdown and lifecycle | `src/connio.c` | `shuttingDown`, `inUse`, `inCleanup` | `ConnHandleShutdown` (wait, abort, wait, close, wait), `ConnFree` | the queue of every connection |
| Connection cache | `src/connio.c` | cached connections and accept events | `ConnAllocCB`, `ConnRecycle` | lifecycle |
| Listeners and throttling | `src/sockcommon.c`, `src/sockunix.c`, `src/throttle.c` | listener flags (killed, suspended, paused), `inAccept` | accept, suspend, resume, throttle, kill | engine, thread count |
| Listener manager | `src/connio.c` | lists of listeners of a handle | add, remove, start, stop, reconfigure | listeners, children |
| Thread engine | `src/threadengine.c` | pools of threads, counts | begin, count, shutdown | an external thread pool |
| Read and write data | `src/process.c`, `src/connio.c` | receive and send buffer, client buffer of an event | reads, peeks, tests and eats by data, count or pattern; forwards to a callback or a connection; flushes and writes | event processing, the socket layer, the consumer's callbacks |
| Callbacks, tracing, logging, crypto, debugging | `src/callbacks.c`, `src/trace.c`, `src/connlog.c`, `src/socklog.c`, `src/tlog.c`, `src/crypto.c`, `src/debug.c` | – | output and registration | – |
| Windows engine | `src/sockwin.c` | completion ports | as the Unix engine | – |

What is hard here:

- *Several threads work on one queue.* `ConnEventsProcess` releases the event lock around each event,
  so the consumer's thread and any number of workers are in it together; events change hands through
  epoll; the last thread out must recognise itself.
- *What is done without the lock*: the look at `problem` before an event waits, the store of `ce->error`
  by a worker, the destruction of grabbed free lists.
- *Failure in the middle*: an event fails, times out or is killed while others are queued or in epoll;
  allocations fail half way through a sequence; the handle shuts down while events are being queued.
- *Order*: sends and receives overtake each other, and nothing else may.
- *Socket events are not conn events*: on Unix a connect waits on the send socket event, and with SSL a
  read may wait for writable.
- *Pointers kept without a lock*: the poll thread works through what epoll reported, and through the timeout
  lists it has detached, while the events are killed, wait again, or lose their sockets.
- *Two kinds of locks in two orders*: timeout list and socket.
- *Lifetimes*: a handle is freed under the last `ConnFree`, a listener is released with accept threads under way,
  the entry of a managed listener is removed while the callback of its connection runs.
- *A stream comes and goes in pieces*: a read blocks in the middle of an end of line, hands on early what it can, meets a full
  buffer; a write starts again at its top after a flush that blocked.
- *Walks of a list that changes*: a shutdown walks the connections under the handle's mutex, and they come and go
  under another one.

What makes each component correct:

- queue: each event in progress is in one pair of hands; conflicting events never run together or out of
  order; a submitted transaction is called back exactly once, after its last event, with success only if
  everything succeeded; a kill stops what can be stopped; an SSL session is closed before its connection;
- socket event engine: a linked socket event is delivered exactly once, a timeout hits only the wait it
  was set for, and its locks cannot deadlock;
- synchronous I/O: a slot is given back by who took it, and the state is IDLE only when all are free;
  what is written is sent once, in order, and under the protection it was written for;
- data: a read means the same however its bytes arrive, TLS never starts over bytes received in the clear, and a write puts
  its bytes on the wire once and in order;
- lifecycle: the handle is not freed while a thread still uses it, what a shutdown has aborted stays aborted, and
  a shutdown ends;
- listeners: a listener is never lost nor ended twice, its accept threads do not outlive it, pauses and kills end;
- listener manager: a callback finds the entry of its connection, and a stopped listener loses its connection.

`PROJECT.json` lists the hazards line by line, with the property that would notice each.

## 2. Modules

| Module | Models |
|---|---|
| `ConnQueue` | the event queue of one connection with event processing, the hand-over to and from epoll, the consumer's calls, `ConnKill` and the abort of a handle shutdown |
| `AsyncTransaction` | what a consumer is promised: a transaction is built, submitted, and called back once, with the first problem, when nothing of it is pending |
| `SyncSlots` | the synchronous calls of one connection: the slots, the send buffer and its flushes, `ConnFree` and `ConnKill` |
| `EventData` | what processing one event does to the data: every read, peek, test, eat, forward, flush and write, the start and end of TLS, the draining of a disconnect |
| `SocketEngine` | the Unix engine below `ConnQueue`: the poll thread, its timeout wheel, both kinds of locks, waits, kills, sockets closed and freed |
| `Listener` | one asynchronous listener: accept, suspension, throttling, kill, and the workers that carry it |
| `HandleShutdown` | all connections of a handle: allocation, `connFreeEx`, `ConnChildrenShutdown` and `ConnHandleShutdown` |
| `ListenerManager` | the entries of the listeners a handle manages, above `Listener` |
| `MC...` | instances for TLC |
| `ConnQueueProofs` | the inductive invariants of the queue: ownership and completion, order, truth of success, no stall, kills, SSL sessions |
| `ConnQueueRefinement` | `ConnQueue` implements `AsyncTransaction` |
| `SocketEngineProofs`, `ListenerProofs`, `HandleShutdownProofs`, `SyncSlotsProofs`, `EventDataProofs`, `ListenerManagerProofs` | the inductive invariants of the other modules, and every safety property of their runs as a theorem |

The modules overlap at the seams. What `EventData` models is the choice between success, failure and blocking of
`IOSucceeds`, `IOFails` and `IOBlocks` in `ConnQueue`. What `SocketEngine` models in detail is `SocketReady`, `SocketTimeout` and the kill in
`ConnQueue`; what `ConnQueue` models is the pair `waiting` and `problem` in `HandleShutdown`; `ListenerManager` assumes as
fairness that a killed listener comes out of the engine, which is `KillEnds` of `Listener`. An operator whose comment
begins with "As if" is a plausible bug, used to see that a property notices it; it is not part of a model.

### ConnQueue: state

The variables of `ConnQueue` are the fields of the code under the same names, with few exceptions.
`lock` is the holder of the event lock between two actions. `seArg`, `inEngine` and `seError` are `cb.arg`,
`FSE_IN_ENGINE` and `error` of the three socket events. `socket` is "fresh" for a connection that
`ConnAConnect` has just allocated, "open", or "closed" (`SOCKET_INVALID`). `completions` counts the
completion callbacks handed to the consumer's thread engine. `log`, the events of the transaction in
queueing order, is a history variable for the ordering property and the proofs. `pc`, `ev` and `err` are
where each thread is and the local variables it carries there.

### ConnQueue: actions

A stretch of code under the event lock is one action, or several of the thread in `lock`; what is done
without the lock is separate.

| Action | Code |
|---|---|
| `ConnACall`, `EventEnqueue` | a `ConnA*` function up to `EventEnqueue`, then `EventEnqueue` under the lock: implicit flush, implicit ssl disconnect, `EventEngineQueueAdd`, and into `ConnEventsProcess` unless the handle waits for the submit. A large `ConnAWriteFromBuffer` is a FLUSH call followed by a WRITE call |
| `ConnANoop`, `EventEnqueueFailure`, `ConnAWrite`, `EventsSubmit` | the functions of these names (`ConnASubmit` for the last) |
| `StartEvent`, `Relock`, `FinishEvent`, `LeaveQueue` | the parts of the loop of `ConnEventsProcess` between lock and unlock: take the next event; come back after a hand-over; come back after an end (clear the slot, abort the queue on a problem or a shutdown, recycle); leave, and complete the transaction |
| `QueueCompleteNotify`, `QueueCompleteCallback` | scheduling the callback, and `PrepareForCallback` |
| `ProcessCancelled`, `ProcessDone`, `ProcessFails`, `ProcessBlocks` | `EventProcess`: the error of a cancelled event, and the three outcomes of `socketEventProcess` |
| `CheckProblem`, `SocketEventWait` | the look at the problem, then `SocketEventWaitEx` |
| `SocketReady`, `SocketTimeout` | a poll thread completes a socket event |
| `HandleSocketEvent`, `AsyncEventCallback`, `EnterQueue` | a worker takes a socket event, stores its error, enters `ConnEventsProcess` |
| `ConnKill`, `HandleShutdown`, `ConnectionsAbort` | other threads of the program |
| `ConnReplace` | `ConnFree` of an idle connection, and a new one |

The data is abstracted. An event has a type (all reads are READ, all writes WRITE; `TLS_CONNECT` stands
for every handshake that does not set `sslEnabled`), a timeout or none, and perhaps
`CONN_READ_PARTIAL_OK`. I/O succeeds, fails or blocks nondeterministically where the code for that type
can. `EIO` stands for every error without a meaning of its own here.

### SyncSlots

`conn->activeEvent` holds conn events that live on the stacks of the calling threads, so `active` names the
thread. `frame` is the locals of the call a thread is in: its function, its slot (`flushHappened` of a read),
the `sendBuffer` it has read but not cleared, the buffer it owns, what a `ConnWrite` has left to copy. `wire`
is what was sent and under which protection; `mark`, the protection in force when an item was written, and
`overtaken`, that a read has ended beside the event in the send slot, and `beside`, that the connection has seen a call beside one that
writes, are history variables. All reads are READ; ssl accept, tls accept and tls connect are SSL_CONNECT.

| Action | Code |
|---|---|
| `BeginCall` | the consumer calls a function, within the contract its assertions state (`MayCall`) |
| `SendDataRead`, `SendDataClear`, `NoMemory` | `bufferedSendDataGet` in two steps, because only `SynchronousReceiveEventInsert` calls it with the lock; a failing `IOBAlloc` |
| `writeClientData` | one turn of its loop: copy, keep what fits, or flush |
| `Synchronous...EventInsert`, `ReceiveEventSet` | the three insert functions; the receive one in two steps around the race on the send buffer |
| `writeFromCB`, `flushSendBuffer`, `FlushDone`, `FlushFails`, `Work` | `ConnEventProcess` without the event lock |
| `Synchronous...EventRemove`, `ConnRecycle` | the remove functions and the end of the call; the end of `connFreeEx` |
| `ConnKill`, `ConnAlloc` | another thread kills the connection; the cached connection is allocated again |

### EventData

One event at a time: the slots make the events of a class serial (`SlotsSerialise`, `SlotExclusion`), and the classes share no data.
A byte is the number of its place in the stream. `text` is what the peer sends before it closes; `rcvd` and `freed` are how far the
receive buffer has got and what it has given up, so the buffer is what lies between. `given`, `sent` and `wire` are the same for
what an event sends. `ce` is the conn event with the fields of the code (`remaining` of the client buffer, `args.cb.count` as `count`,
`transferred`, `status`, `error`); `start`, `then`, `done` and `again` are history and the place a flush returns to. `plain` is
how much was received before TLS started.

The IOB library is external: a buffer is a bounded queue whose used part is contiguous, and `IOBSearch` finds the first spelling of
a pattern (a line feed with or without a carriage return before it, which is how `SEARCH_IGNORE_CR` is used) or else what cannot be
the beginning of one. The peer, the kernel and the callbacks choose how many bytes move, when a call blocks, and what a callback answers.

| Action | Code |
|---|---|
| `Begin`, `BeginWrite` with `SyncReads` ... `Connects` | the API functions, each with its type, mode, flags, pattern and size |
| `SatisfyEvent`, `fillRecvBuffer` | one turn of `conditionalReadProcess`, and the first step of an event that comes back |
| `readToCallbackProcess`, `readToConnProcess` | one turn of their loops |
| `Flush`, `flushSendBuffer`, `sendFromClientBuffer`, `writeFromCB` | one turn of their loops; `then` says whether a flush ends the event |
| `StartTLS`, `SSLDisconnect`, `drainReceiveBuffer`, `drainWire` | the cases of `socketEventProcess` for handshakes and disconnects, with `SocketSSLAbort` |
| `Resume`, `WaitFails`, `Return`, `ConnReset` | the wait ends; the event is freed; the connection is used again |

### SocketEngine

One socket event per socket, that of the direction the poll thread serves. `flags`, `error`, `timeoutList`, `number` and
`arg` (`cb.arg`) are fields of the code. `slock` and `held` are the locks that stay taken between two steps: a socket's,
while its holder waits for a timeout list, and a list's, while the poll thread works through it. `batch`, `todo` and
`events` are the pointers the poll thread keeps: what epoll reported, what it has still to collect, what it has
collected. `now` is the clock as of the poll thread's last look, modulo one turn of the wheel, and `lag` the time since.
`left` and `killed` are history: seconds before a wait may time out, and events killed while in the poll thread's hands.

| Action | Code |
|---|---|
| `SocketEventWait`, `SocketEventWaitFails`, `SocketTimeoutAdd` | `SocketEventWaitEx` with `sockEventAdd`, up to and after the timeout list's lock |
| `SocketEventKill`, `SocketTimeoutDelete` | `SocketEventKill`, up to and after that lock |
| `HandleSocketEvent`, `SocketClose`, `SocketRelease`, `SocketAlloc` | a worker takes the event; the socket is closed by a shutdown, freed with its connection, used again |
| `EpollWait`, `SocketEventHandle`, `ReadClock`, `Collect`, `Collected`, `Expire`, `Expired` | the parts of one turn of `_PollThread` |
| `Tick` | time |

### Listener

`flags` are those of the listen socket event; `armed` and `reported` are epoll's side of it (one shot); `handed` the
threads begun for it; `pc` where each worker is in `HandleSocketEvent`. `load` is the number of threads there really are,
`count` the number `AThreadCountUpdate` last found. `touched` is history: who used `cs->listener` after its release.

| Action | Code |
|---|---|
| `ConnAListen`, `SocketListenerSuspend`, `SocketListenerResume`, `SocketEventKill` | the consumer; the kill wakes epoll by a connect that may fail |
| `EpollReports`, `HandleKilled`, `HandleAccept`, `HandleAcceptFails` | the poll thread; `listenerShouldThrottle` and `listenerStartThrottling` decide between a pause and epoll |
| `acceptPickup` | an accept thread after the consumer's callback |
| `HandleSocketEvent`, `sockEventListenerRequeue`, `ListenerStarted` | the worker of a paused listener: spin, put back or hand on, notify without the lock |
| `AcceptsDrained`, `asyncListenerRelease`, `AsyncListenerCallback` | the worker of a listener that failed or was killed |
| `Connect`, `LoadChanges`, `CountUpdated` | peers, other threads |

### HandleShutdown

`list` is the handle's list of connections in use and `stale` the next pointers of connections that have left it, because the walks
follow both. `freeing` is how far `connFreeEx` has come with a connection, `recycled` counts threads that have given
it back and still have to decrement `inCleanup`. `waiting` and `problem` abstract the transaction. `op`, `pc`, `cur` and `found` are the
shutdown call; there is one at a time. `aborted` and `intruder` are history.

| Action | Code |
|---|---|
| `ConnConnect`, `ConnAListenChecks`, `ConnAListen`, `AcceptReady`, `AcceptCallback` | whatever allocates a connection, each with its check of `shuttingDown`, or without one |
| `EventEnqueue`, `TransactionDone`, `QueueCompleteNotify`, `ListenerShutdown`, `AsyncListenerCallback` | transactions and listeners, one step each |
| `FreeBegin`, `SocketRelease`, `ConnListRemove`, `ConnRecycle`, `FreeEnd` | `connFreeEx` |
| `Shutdown`, `WaitHead`, `WaitCleanup`, `ReturnEarly`, `PreventNewEvents`, `WalkEnds`, `CountConn`, `CountEnds` | the stages of the two shutdown functions; a wait gives up at any time |
| `AbortConn`, `CloseConn`, `NextConn`, `Crash` | one connection of a walk, its next pointer, and the dereference of a socket that is gone |

`ENGINE` stands for both asynchronous states of a transaction, blocking calls are part of IDLE, and flush and disconnect events, which a
shutdown lets pass, are left out. Event locks and the handle's mutex are taken to be recursive, as
`synchronousListenerClose` inside a walk requires.

### ListenerManager

`list`, `state`, `conn` (`pub.conn`), `data` (`client.data`) and `preventNew` are the code's; `life` is the life of a connection,
`callback` a callback that has freed its connection and waits for the handle's mutex. One consumer thread makes the
calls, as the unlocked accesses of `ConnAAddListener`, `ConnAExpireListener` and `ConnAStartListener` require. The actions have the functions'
names; `Switch` is suspend and resume, `ConnAListenerStatus` one round of `ConnAListenerWaitForShutdown`. A start is three steps, because it
gives the mutex up to listen, and a callback two.

## 3. Runs

The runs of the queue instantiate `MCConnQueue`: a pool of events (each used at most once in a transaction, any number
of transactions one after the other), the consumer's thread and two workers (symmetric, except in the
liveness runs).

| Run | Events | Environment | Result |
|---|---|---|---|
| `QueueSafety` | partial-ok read, write, disconnect without timeout | noop, failing calls, kill, shutdown | pass: `TypeOK`, `SlotExclusion`, `OneOwner`, `EventPlaces`, `LastThreadOut`, and refinement of `AsyncTransaction` |
| `QueueOrder` | read, flush, write, disconnect | buffered writes, failing allocations, kill | pass: `OrderPreserved`, `SuccessIsTruthful`, `NoStall`, `KillEmptiesEngine` |
| `QueueSSL` | ssl connect, ssl disconnect, disconnect, read; the handle waits for the submit | failing allocations, kill | pass: `SecureDisconnect` |
| `QueueLive` | read, write | noop, kill | pass: `TransactionDelivered` under fairness |
| `ShutdownHang` | two reads, write; one worker | shutdown | violated: `TransactionDelivered` under fairness |

The runs of the other modules:

| Run | Instance | Result |
|---|---|---|
| `SyncCalls` | three threads, three items, a buffer of two; one thread at a time writes, also beside the others | pass: `TypeOK`, `SlotsSerialise`, `SlotsComeBack`, `DataOnce`, `ProtectionKept` |
| `EventData` | streams of up to four bytes, buffers of two, client buffers and counts of one and three | pass: `TypeOK`, `ReadMeaning`, `NoClearAfterTLS`, `WriteMeaning` |
| `SocketEngine` | two sockets, one thread that waits and kills, two lists of two seconds, timeouts of half a second and three seconds | pass: `TypeOK`, `OneFuture`, `StaleOnlyByKill`, `TruthfulError`, and `WaitEnds` under fairness |
| `EngineDeadlock` | the same | violated: `NoLockCycle` |
| `Listener` | two workers, threshold 1, load up to 2, two accept threads, a backlog of two | pass: `TypeOK`, `OnePlace`, `AcceptSafe`, `SuspensionKept`, and `KillEnds`, `PauseEnds` under fairness |
| `HandleShutdown` | two pool entries, three allocations | pass: `TypeOK`, `HandleQuiet`, `AbortSticks`, and `ShutdownEnds` under fairness |
| `ListenerManager` | two entries, two connections | pass: `TypeOK`, `CameOutRight`, and `StopEnds` under fairness |

**Bounds.** Three threads are enough for every pair of events in progress to be in different hands while a
third thread enters or leaves; `conn->activeEvent` never holds more than two events. Three or four events
give every combination of a receive and a send in progress with something queued behind them. The pool
bound is `PoolSuffices`; no counter needs another one, because `LastThreadOut` bounds `threads` and
`completions`. Timeouts may come at any time once an event with a timeout is in epoll. In `SyncSlots` three threads
let two calls collide with one that holds a slot, and three items with a buffer of two (`MaxItems`, `BufferSize`) give a full buffer, a
partial one and a write that spans both. Once a call has been
beside one that writes, `DataOnce` and `ProtectionKept` have ended (`~beside`), and the `VIEW` of the run (`SlotView`) leaves out `wire`, `lost` and the
values in `mark`: no guard reads them, only how many items were written. A connection that is allocated again begins anew.

`EventData`: a stream longer than the buffer (`IOBSize`) makes reads hand on what they have; a client buffer of one byte is too small for
most lines and one of three is larger than the receive buffer; three bytes in every combination have every end of line in every place,
and two streams of four have one that begins where the buffer ends. `MaxGiven` bounds what a callback without a count gives; it is more than the
buffer holds. Larger instances (all streams of four bytes; sizes `{1, 2, 3}`; a buffer of three with sizes `{1, 4}`) pass as well.

`SocketEngine`: two sockets give one in a timeout list beside one the poll thread holds; one thread is enough because it can
leave a wait in the engine and kill the other. Two lists make every list both the one just walked and the next
one; `Timeouts` has one below a second and one of more than a list; `MaxLag` is the length of a list: the poll thread may find the clock where it was or in the next list, at any second of
it, but not beyond. `ErrorsAreTruthful` needs no such bound. `WaitEnds` does: with `MaxLag = 3` it fails, because nothing then keeps the poll thread
from skipping the same list in every turn. In the code a list is 32 seconds long and the poll thread looks every 2 (`EPOLL_TIMEOUT`). Time is kept modulo a turn,
so there is no bound on it. `Listener`: with two workers a listener that was put back can fail while the first worker is still in its
notification; a threshold of 1 and loads of 0 to 2 give both sides; `MaxBacklog` and `MaxAccepts` bound queues that only repeat. `HandleShutdown`: two
entries and three allocations (`MaxCalls`) let a walk stand on a connection that is freed and allocated again, a listener have a child, and a
connection appear after the wait has looked. `ListenerManager`: two connections let an entry be started again while the
callback of its first connection runs. The connections are the handle's pool and come back to it when they are freed, so a start may be
given one that another entry still names, or whose callback is not over.

Deadlock checking is off where the system may stop: `SocketEngine` has its lock cycle, and a handle that is shut down or a
process that has crashed does nothing more (`HandleShutdown`, `ListenerManager`).

**What the violated runs show.** Each contradicts a comment quoted in `PROJECT.json`.
`ShutdownHang`: a problem is recorded by `SetAsyncProblem` alone; the queue keeps events that `ConnEventNext` will not start and
`EventQueueAbort` will no longer remove, so the callback never comes. `EngineDeadlock`: a kill of an event just as the poll
thread comes to its timeout list; `_SocketTimeoutAdd` is never part of the cycle, because the event it adds is in no list.

**Disagreements that have no run.** They came up while modelling, and can be reproduced by changing a configuration or, where
the text says so, a property:

- `CONN_EVENT_PARTIAL` (`src/queue.c:484`) records a problem without aborting the queue, against `src/conniop.h:371` ("When 'problem' has a
  value, the queue has been aborted"): with the events `{r1, w1, w2}` and `PartialOK = {r1}` a problem meets a queue that is not empty.
- A transaction that begins with `ConnAWrite` does not notice an SSL session (`src/connio.c:4476`): `SecureDisconnect` fails for
  `{s1, u1, d1, f1}` with `Calls = {"write"}`. Neither does `sslDisconnectEventNeeded` count a TLS connect in the same transaction.
- Two events of one SSL connection may wait for the same socket event, against the assertion in `SeLinkCe` (`src/sockinline.h:35`): with the events
  `{s1, r1, w1}` a read and a write both wait for readable.
- `ConnAListenSuspend` "causes an active asynchronous listener to stop pulling new connections from the backlog" (`src/connio.c:2578`). The
  poll thread pauses a listener only if `listenerStartThrottling` agrees (`src/throttle.c:53`), which needs the suspension and a thread count above
  the threshold: below it, or without one, a suspended listener goes back to epoll and keeps accepting (`HandleAccept`).
- An asynchronous eat does not count what it throws away when its data comes in pieces (`src/process.c:362`): `ConnAEatCount` of 3
  that finds 2 bytes discards them and still wants 3. `ReadMeaning` says of an eat only that it takes at least its count. The synchronous
  `ConnEatCount` passes a size of 0 (`src/connio.c:3838`) and eats nothing.
- The callback of `ConnWriteFromCB` is called again after `CONN_IOCBR_DONE` if it gave nothing and the flush of what was buffered before it
  blocks: `cb.count` becomes `transferred`, which is 0, the value that means no count. The comment at `src/process.c:152` says that
  this assignment prevents it. `WriteMeaning` excepts a callback that gave nothing.
- `ConnAPeekLine` and `ConnAPeekAnswer` have the flag for including the line feed the other way round than `ConnPeekLine` and
  `ConnPeekAnswer`; `ConnATestRead` passes a size of 0, so its event completes with 0 transferred; a line that does not fit (`EMSGSIZE`) leaves the
  client's buffer without a terminator.
- Only the synchronous calls look whether a connection is secured already. An asynchronous handshake on a secured connection fails, and
  `SocketSSLAbort` then frees the session it had (`src/sockcommon.c:673`).
- A kill of a connecting connection does not reach the socket event it waits on (`src/queue.c:271`): `KillEmptiesEngine` fails for `{c1}`
  with `Calls = {"kill"}`.
- A read that ends while another thread writes sets the state to IDLE (`SynchronousReceiveEventRemove`, `src/connio.c:2142`), and the write's removal
  then refuses to touch a connection that is not SYNCHRONOUS, although it is written for the overlap (`:2196`) and `startWriter` asks for one writer
  only (`:4448`). Its event, on a stack that is gone, stays in the slot; when both calls are over `ConnIsIdle` is false, against the assertion of
  `connFreeEx` (`:2386`), and the connection can neither be written to, disconnected nor freed. `SlotsComeBack` excepts this (`overtaken`), and fails
  without the exception.
- The send buffer is handed over without a lock (`src/connio.c:53`). Without their condition `~beside`, `DataOnce` and `ProtectionKept` fail; `conniop.h` leaves
  that buffer to the consumer's calls.
- `ConnAListenerCallback` frees the connection of its entry before it clears `pub.conn` (`src/connio.c:2709`). `ConnAStopListener` and `ConnARemoveListener`
  call `ConnAListenerShutdown` on `pub.conn` whatever has become of it (`:2874`, `:3061`): in between it may be the connection of another entry's listener,
  which is killed although nobody stopped it, and whose own callback concludes that "some other error has occurred" (`:2717`). In
  `ListenerManager`, the action property that a call puts a connection into `killed` only if the entry in its `data` is STOPPED fails.
- A kill that arrives between the look at the problem and the wait (`CheckProblem`, `SocketEventWait`) is lost on the event,
  which stays in epoll until it is ready or times out.
- Timeouts are milliseconds (`include/connio.h:128`) but counted in whole seconds from the poll thread's last look at
  the clock. One below a second, chosen when that look was the first of its list, or stored after the poll thread has moved on, goes into
  the list just walked and waits a full turn (2048 s); so do the events of a list a late poll thread skips. One that is longer than
  the wheel can hold for every starting time (2017 s) may come early; `TruthfulError` is about those it can hold.
- An event that was killed after the poll thread had collected it, and waits again, is timed out at once; and if its socket is freed
  meanwhile, the poll thread uses memory that is gone. `StaleOnlyByKill` says that nothing but a kill leads there.
- `HandleSocketEvent` reads `cs->listener` after the unlock (`src/sockcommon.c:1469`) and releases it without the lock (`:1494`), beside
  suspend, resume and kill: the two exceptions of `AcceptSafe`. A kill whose wake-up connect fails ends only with the next client.
- A walk of a shutdown may dereference the socket of a connection that `connFreeEx` has released (`Crash`), or end early at
  a connection that has left the list (`src/connio.c:832`). Calls that allocate a connection before the flag is set, or without a
  look at it, may leave connections behind a shutdown that has returned (`intruder`).
- `ConnAStartListener` called without a handle, as the callback's "Attempt to restart it" (`src/connio.c:2719`) and `ConnARestartListener`
  do, dereferences the null handle in `newListenersAllowed`; the model ends there (`crashed`). A callback that comes before `client.data` is
  set leaves `pub.conn` pointing to a freed connection, which a later stop or suspend uses. `ConnAListenerStatus` ends its loop after it
  has freed an entry, so the wait for shutdown may return with listeners active. A failed restart does not restore the
  entry's state.

**Where the passing runs stop short of these.** `QueueLive` has no partial-ok reads and no shutdown, `QueueSSL` no TLS
connect and no `ConnAWrite`, `QueueOrder` no connect. `SlotsComeBack` excepts
the send that a read has overtaken, and the data properties of `SyncCalls` end where a call is beside one that writes. `WaitEnds`
excepts the lock cycle and has a poll thread that skips no list, `ShutdownEnds` excepts stuck transactions and the
crash. A third event in `QueueLive`, or a write in `QueueSSL`, makes the runs too long.

**Fairness** (`Fairness`). Weak fairness of the steps of each thread: threads of the process are scheduled,
and the event lock is held for bounded stretches only. Weak fairness of a worker taking a socket event:
the thread engine creates threads on demand. Weak fairness of `SocketTimeout`: the poll thread walks the
timeout lists every `EPOLL_TIMEOUT`; `QueueLive` gives every event a timeout, without one a silent peer may
hold a transaction for ever. Strong fairness of an event ending while it is processed again and again:
it moves finite buffers, so it does not block for ever while the peer keeps it ready. Weak fairness of
the callback and of the abort that follows `shuttingDown`. Nothing is assumed of the consumer, of the peer
or of kills.

`SocketEngine`: time goes on, the poll thread runs, workers run, and a thread in a call ends it; strong fairness where a lock has
to be obtained that is free again and again. Nothing obliges epoll to report, so `WaitEnds` rests on the timeout wheel. `Listener`: the poll thread, the
workers and the accept threads run (the consumer's accept callbacks return); nothing obliges peers to connect, so
`KillEnds` is about listeners epoll has something to report on. `HandleShutdown`: the shutdown thread runs, transactions that are not stuck end (`TransactionDelivered`),
and the consumer does what the shutdown is there for: it frees connections whose calls fail, shuts its
listeners down, and ends calls it has begun. `ListenerManager`: killed listeners come out of the engine (`KillEnds`), and workers run.

## 4. Proofs

Every safety property that a passing run checks, invariants and action properties alike, is also a theorem, checked by
TLAPS for all values of the constants that the named assumptions allow. The runs came first: each inductive invariant
below was model-checked on the instances of section 3 before it was proved.

| Module | Assumptions | Theorems |
|---|---|---|
| `ConnQueueProofs` | `QueueAssumption`, `FiniteWorkers`: any events of any types, finitely many workers, any of the environment's calls | `Invariance`, `TypeCorrect`, `SlotsExclusive`, `OwnedOnce`, `NoEventFreedInUse`, `CompletedByTheLast`, `SuccessMeansSuccess`, `EventsRunInOrder`, `StallsOnlyBehindAProblem`; with hypotheses of their own `NeverStalls`, `KillStopsWaiting`, `DisconnectsAreSecure` |
| `ConnQueueRefinement` | the same | `Refinement`: `Spec => TransactionSpec` |
| `SocketEngineProofs` | `EngineAssumption`: any sockets and threads, a wheel of any size, any timeouts | `EngineTypeCorrect`, `EventsHaveOneFuture`, `PointersStaleOnlyByKill`, `ErrorsAreTruthful` |
| `ListenerProofs` | `ListenerAssumption`: any workers, thresholds and bounds | `ListenerTypeCorrect`, `ListenerInOnePlace`, `AcceptsAreSafe`, `SuspensionsAreKept` |
| `HandleShutdownProofs` | `HandleAssumption`: any pool, any number of calls | `HandleTypeCorrect`, `ListAndCleanupAreExact`, `AbortsStick`, `ShutdownLeavesQuiet` |
| `SyncSlotsProofs` | `SyncAssumption`: any threads, any number of items, a buffer of any size | `SyncTypeCorrect`, `SlotsDoSerialise`, `SlotsDoComeBack`, `ItemsGoOutOnce`, `ProtectionIsKept` |
| `EventDataProofs` | `DataAssumption`: any streams, sizes and a buffer of any size | `DataTypeCorrect`, `ReadsAreFaithful`, `TLSIsClean`, `WritesAreFaithful` |
| `ListenerManagerProofs` | `ManagerAssumption`: any entries, any number of connections | `ManagerTypeCorrect`, `CallbacksFindTheirEntry` |

### ConnQueue

**Ownership and completion** (`QueueInvariant`). `OneOwner` alone is not inductive. That `FinishEvent` clears a slot only of its own
event needs `OneOwner` and `SlotExclusion` together; that a started event is in no other hands needs `EventPlaces` (it was queued once
and was not in progress); that queueing keeps `EventPlaces` needs the history (`Logged`: everything queued, in
progress or freed is in the log; `Queueing`: the event about to be queued is not). That the last thread out
leaves nothing behind needs `ThreadsCounted` as a cardinality: with one thread inside, and no event in a
slot, `OneOwner` says that no thread and no socket event holds one. `LockHolder` ties the thread in the loop
to the lock, so that there is only one. The proof has one lemma for each action that disturbs these parts,
one (`QuietStep`) for those that do not, and one (`OwnerStep`) for those that only move the owner of an event
along. The lemmas `WithoutFacts` and `ConcatFacts` say what removing from and appending to the queue
do to the set and the uniqueness of its elements.

The refinement maps `state` to the phase, the queue and the slots to the pending events and `problem` to
the verdict. It uses `Invariance`: `QueueCompleteCallback` is a `Callback` step because nothing is pending then,
and `FinishEvent` ends an event that was pending.

**Order and success.** As long as no problem is recorded, a step does one of five things to log, queue, slots and statuses
(`StepKinds`): nothing, start the event `ConnEventNext` returns, finish an event that is COMPLETE, append new events, or clear
everything. `SuccessMeansSuccess` follows with `Truth` (an event of the log is queued, in progress or COMPLETE) and `Ended`
(a thread on its way back has the final status of its event). `EventsRunInOrder` needs `Ordered`: the queue is in the order of the log,
and of two conflicting events of the log the second is still queued unless the first is over. It is stated with the relation `Before`,
so that only three lemmas deal with positions. Here `NextPassesNone`, what the three searches of `ConnEventNext` skip, is the heart
of the matter.

**No stall.** `StallsOnlyBehindAProblem` holds for all constants: if a submitted transaction has nobody to work on it, then a problem is
recorded and events are still queued. The case to think about is the thread that leaves: another one is inside, or an event in
progress is owned or linked (`OneOwner`), or the first queued event could have been started. `NeverStalls` adds `Flushed`, that a
problem empties the queue, which is true without partial reads (`PartialOK = {}`) and without a shutdown (`"shutdown" \notin Calls`). Neither
hypothesis can be dropped: these are the two ways to record a problem and keep the queue, the run `ShutdownHang` and the first
item of the disagreements above.

**Kills.** `KillStopsWaiting` is about connections whose events are reads, writes, flushes and disconnects, without a shutdown. `PlainLinks`
says that such an event waits on the socket event of its own slot, which is the one `CancelEventsInProgress` kills. A connect waits on
another one, and so may anything under SSL, and there the property is false.

**SSL sessions.** `DisconnectsAreSecure` assumes that there is no handshake which leaves `sslEnabled` alone (no TLS_CONNECT) and no
`ConnAWrite`; for both `SecureDisconnect` is false (section 3). `EventEnqueue` decides from `sslEnabled` whether a disconnect needs an
ssl disconnect before it, and the decision is used much later. The invariant `Sessions` therefore follows the session along the queue:
whatever may leave one behind, the socket as it is, the event in progress or a queued ssl connect, is followed by an event that ends it
before a disconnect comes, and before the end of the queue unless `sslEnabled` is set. `Connects` says that a connect is the only
one, on a new socket, so that none of them opens a socket over an old session.

### The other modules

**SocketEngine.** `EngineInv` adds to the properties which locks a thread between two steps holds (`LockTie`), what it has already done to
its event (`Holders`), and what the poll thread keeps in each phase of its turn (`Phases`). `Wheel` adds the time: an event with `left`
seconds to go is in the list that comes up when they are over. `ErrorsAreTruthful` is the arithmetic of `TIMEOUT_INDEX`: the remainder of a division
is not changed by a full turn, and a list the poll thread comes to is one whose events are due.

**Listener.** The listener is in exactly one of five places (`Place`), and only a worker that carries it can be in the places that use it.
`Linked` and `Life` tie `cb.arg` and the listener's memory to the place.

**HandleShutdown.** `PoolInv` ties the list to the states of the connections and `inCleanup` to the number of connections between removal and
recycling, as a cardinality; `QuietInv` says what the last wait of a shutdown has seen and that nothing but an `intruder` can undo it.
`AbortInv` needs neither.

**SyncSlots.** `SlotInv` says what the slots tell of the threads, for any consumer: a slot is taken by the thread that has it, or is the send slot
of an event that was overtaken (`Taken`); the connect slot excludes the others, and so does a read that is about to take one, because with data to flush
it will take the connect slot (`Exclusive`); the state is SYNCHRONOUS while a slot other than that of an overtaken send is in use (`States`). `Exclusive`
rests on `Emptied`: a send at work has taken the connection's buffer, so that a read beside it finds nothing to flush. `Apart` is what the assertions of
the code ask of the consumer, one writer at a time. `LoneInv` is about connections on which no call was beside one that writes: there a call that writes is the
only one (`Alone`), and `DataInv` ties the send buffer to its one owner: `Settled` says that what is pending is the tail of the items written, and `Sole` that
whoever touches the buffer is the only one who may. That a connection which is allocated again satisfies it, whatever was done to it before, follows
from `SlotInv` alone: it is idle, and its buffer was freed.

**EventData.** `DataInv` says that what was handed over is the stretch of the stream from where the event began, that the pattern's place
in the rest of the stream lies behind what was handed over, and how counts and sizes relate to it. The proof's core is that a search of what is buffered
and a search of the whole stream agree: a place found in the buffer is the first one in the stream, and what is handed on
early cannot be the beginning of a match. The specification of the place is by least elements, not by recursion, so this is proved for
every stream. The proof also showed that three CASE expressions of the model had arms that overlapped; they are IF ... ELSE now, in
the order of the code.

**ListenerManager.** `ManagerInv` adds that the entry a start works on stays in the list while the mutex is given up (`AtWork`), that a connection
knows an entry only while it lives, and never one whose callback has freed it before and is not over (`Lives`; a connection of the pool may have
several such callbacks), and what a restart has put aside (`PutAside`). What the removal of entries leaves of the list is a recursive function; its
facts are proved by a least counterexample.

### Only model-checked

Liveness (`TransactionDelivered`, `WaitEnds`, `KillEnds`, `PauseEnds`, `ShutdownEnds`, `StopEnds`), which is outside what the prover handles;
and the violated properties, `NoLockCycle`, and `TransactionDelivered` during a shutdown, of which a theorem cannot be stated.
`NeverStalls`, `EventsHaveOneFuture`, `ListenerInOnePlace` and `CallbacksFindTheirEntry` are the safety parts that the first, second, third and last of
the liveness properties rest on.

## 5. Plan for the proofs

1. A theorem in which cases `NoLockCycle` can fail at all: every cycle is a kill waiting for the list the poll thread walks, and
   `_SocketTimeoutAdd` is never part of one.
2. `DisconnectsAreSecure` with TLS_CONNECT among the types, for transactions that do not queue a disconnect behind one.
3. `KillStopsWaiting` during a shutdown, for kills by `ConnKill` only.
4. The safety half of `KillEnds` and `ShutdownEnds` as action properties: nothing puts a killed listener back into epoll, and nothing but an
   `intruder` makes the number of connections grow while a shutdown waits.

## 6. Not modelled

- Of the data: fragmented buffers (`IOBDefrag`, `IOBIncreaseFree` beyond "it may make room"), the replacement of NUL bytes, `SEARCH_ANY_CR` beyond a CR LF, and
  formatted writes, all of which belong to external libraries; and the file callbacks of `src/callbacks.c`.
- The start and stop of the engine, the cache of accept events, `ConnHandleFree` and the global list of handles, thread engines as objects: set-up and
  tear-down around the modelled parts, on top of external pools.
- Synchronous listeners: one thread in a blocking accept.
- `ConnAListenerConfigure`, `ConnARestartListener` with the address the listener has, and consumers that manage listeners from several threads.
- The Windows engine (another platform's implementation of the same interface), tracing, logging, debugging aids, callbacks and the OpenSSL helpers
  (output and registration).
