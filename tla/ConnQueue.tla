----------------------------- MODULE ConnQueue -----------------------------
(***************************************************************************)
(* The asynchronous event queue of one connio connection (queue.c), with   *)
(* the part of process.c that runs a conn event and the part of the socket *)
(* layer (sockcommon.c, sockunix.c) that parks a blocked event in epoll    *)
(* and hands it back to a worker thread.                                   *)
(*                                                                         *)
(* A consumer builds a transaction by calling the ConnA* functions, each   *)
(* of which queues a conn event, and gives it to the engine with           *)
(* ConnASubmit.  The consumer's own thread and the worker threads all run  *)
(* ConnEventsProcess: they take the next event that may start, release the *)
(* event lock while they work on it, and take the lock back to account for *)
(* it.  The last thread out schedules the one completion callback.         *)
(*                                                                         *)
(* Atomicity.  A region of code that holds the event lock (conn->mutex)    *)
(* from beginning to end is one action, or a chain of actions of the       *)
(* thread recorded in "lock".  What the code reads or writes without the   *)
(* lock (the error of an event, the problem pointer, the socket events)    *)
(* is done by actions of its own, that interleave with the holder's.       *)
(*                                                                         *)
(* An operator commented as a mistake is not part of the model: it is what *)
(* the definition after it would be with a plausible bug in the code, and  *)
(* serves to show that the properties notice.                              *)
(***************************************************************************)
EXTENDS Naturals, Sequences, FiniteSets

CONSTANTS
    Event,          \* the conn events a transaction can be made of
    Kind,           \* Kind[e]: the type of event e
    PartialOK,      \* the reads queued with CONN_READ_PARTIAL_OK
    Timed,          \* the events with a timeout other than 0
    Worker,         \* the threads of the internal thread engine
    App,            \* the consumer's thread
    NoEvent, NoThread,
    WaitForSubmit,  \* CONN_HANDLE_DYN_FLAG_WAIT_FOR_SUBMIT is set
    Calls           \* the optional operations the environment uses

\* The types of events that the queue tells apart.  READ and WRITE stand for all
\* reads and writes, TLS_CONNECT also for SSL_ACCEPT and TLS_ACCEPT: handshakes
\* that do not set sslEnabled.
ConnectKind == {"CONNECT", "DISCONNECT", "SSL_CONNECT", "TLS_CONNECT",
                "SSL_DISCONNECT"}
SendKind == {"WRITE", "FLUSH"}
EventKind == ConnectKind \cup SendKind \cup {"READ"}

\* What the environment may do besides queueing events and submitting them.
Call == {"write", "noop", "failure", "nomem", "kill", "shutdown"}

ASSUME QueueAssumption ==
    /\ Kind \in [Event -> EventKind]
    /\ PartialOK \subseteq Event
    /\ Timed \subseteq Event
    /\ App \notin Worker
    /\ NoEvent \notin Event
    /\ NoThread \notin Worker \cup {App}
    /\ WaitForSubmit \in BOOLEAN
    /\ Calls \subseteq Call

ASSUME FiniteWorkers == IsFiniteSet(Worker)

Thread == Worker \cup {App}

\* eventClass of an event, and the name of its slot in conn->activeEvent.
\* conn->sp->event has socket events of the same three names.
Class == {"connect", "receive", "send"}
EventClass(e) == IF Kind[e] \in ConnectKind THEN "connect"
                 ELSE IF Kind[e] \in SendKind THEN "send" ELSE "receive"

\* Events that are still accepted and still run while the handle shuts down.
ShutdownKind == {"FLUSH", "SSL_DISCONNECT", "DISCONNECT"}

\* Events whose API function does not look at shuttingDown before it queues
\* them (WRITE: ConnAWriteFromCB and ConnAWriteFromBuffer).
UnguardedKind == ShutdownKind \cup {"WRITE"}

State == {"IDLE", "CLIENT", "ENGINE", "COMPLETE"}
Failure == {"FAILED", "TIMED_OUT", "KILLED", "PARTIAL"}
Status == {"QUEUED", "IN_PROGRESS", "COMPLETE", "FAILED", "TIMED_OUT", "PARTIAL"}
Error == {"none", "ECANCELED", "ETIMEDOUT", "EMSGSIZE", "ECONNRESET", "EBUSY", "EIO"}

VARIABLES
    \* protected by the event lock
    lock,        \* the thread that holds conn->mutex across actions
    state,       \* conn->state
    queue,       \* async.transaction.queue
    active,      \* conn->activeEvent
    freeList,    \* async.transaction.freeList
    problem,     \* async.transaction.problem: "none", or the status it records
    threads,     \* async.transaction.threads
    sslEnabled,  \* async.transaction.sslEnabled
    log,         \* history: the events of this transaction, in queueing order
    \* the events themselves
    status,      \* ce->status
    error,       \* ce->error, until the event is over
    \* the socket, and its events in the epoll engine (protected by slock)
    socket,      \* "open", "closed" (SOCKET_INVALID), or "fresh": invalid, on a
                 \* conn that ConnAConnect has just allocated
    sslConn,     \* socket->ssl.conn is not NULL
    seArg,       \* se->cb.arg: the conn event linked to a socket event
    inEngine,    \* the socket events with FSE_IN_ENGINE
    seError,     \* se->error, while the socket event is linked
    \* everything else
    sendBuffer,  \* there is buffered write data
    shuttingDown,\* connHandle->shuttingDown
    pc, ev, err, \* per thread: where it is, its conn event, a captured error
    completions  \* QueueCompleteCallback runs handed to the consumer's engine

transaction == <<queue, freeList, problem, threads, sslEnabled, log>>
events == <<status, error>>
socketEvents == <<seArg, inEngine, seError>>
locals == <<pc, ev, err>>
handle == <<sendBuffer, shuttingDown>>
vars == <<lock, state, active, transaction, events, socket, sslConn,
          socketEvents, handle, locals, completions>>

ElementsOf(s) == {s[i] : i \in DOMAIN s}
Without(s, i) == SubSeq(s, 1, i - 1) \o SubSeq(s, i + 1, Len(s))

\* The slots of conn->activeEvent with e in its slot, and without it.
ConnEventInProgressSet(e) == [active EXCEPT ![EventClass(e)] = e]
\* Mistake: the slot is not cleared.
SlotKept(e) == active
ConnEventInProgressClear(e) == [active EXCEPT ![EventClass(e)] = NoEvent]

ActiveEvents == {active[c] : c \in Class} \ {NoEvent}
ConnEventsInProgress == ActiveEvents # {}

\* Where a thread holds a conn event that it may touch without the lock.
OwnerPC == {"callback", "enter", "process", "check", "wait", "finish"}
\* Where a thread is counted in async.transaction.threads.
InsidePC == {"process", "check", "wait", "handedOff", "finish", "loop"}
PC == OwnerPC \cup InsidePC \cup {"idle", "enqueue", "notify"}

TypeOK ==
    /\ lock \in Thread \cup {NoThread}
    /\ state \in State
    /\ queue \in Seq(Event)
    /\ active \in [Class -> Event \cup {NoEvent}]
    /\ freeList \subseteq Event
    /\ problem \in Failure \cup {"none"}
    /\ threads \in Nat
    /\ sslEnabled \in BOOLEAN
    /\ log \in Seq(Event)
    /\ status \in [Event -> Status]
    /\ error \in [Event -> Error]
    /\ socket \in {"fresh", "open", "closed"}
    /\ sslConn \in BOOLEAN
    /\ seArg \in [Class -> Event \cup {NoEvent}]
    /\ inEngine \subseteq Class
    /\ seError \in [Class -> Error]
    /\ sendBuffer \in BOOLEAN
    /\ shuttingDown \in BOOLEAN
    /\ pc \in [Thread -> PC]
    /\ ev \in [Thread -> Event \cup {NoEvent}]
    /\ err \in [Thread -> Error]
    /\ completions \in Nat

Init ==
    /\ lock = NoThread
    /\ state = "IDLE"
    /\ queue = <<>>
    /\ active = [c \in Class |-> NoEvent]
    /\ freeList = {}
    /\ problem = "none"
    /\ threads = 0
    /\ sslEnabled = FALSE
    /\ log = <<>>
    /\ status = [e \in Event |-> "QUEUED"]
    /\ error = [e \in Event |-> "none"]
    /\ socket \in {"fresh", "open"}
    /\ sslConn = FALSE
    /\ seArg = [c \in Class |-> NoEvent]
    /\ inEngine = {}
    /\ seError = [c \in Class |-> "none"]
    /\ sendBuffer = FALSE
    /\ shuttingDown = FALSE
    /\ pc = [t \in Thread |-> "idle"]
    /\ ev = [t \in Thread |-> NoEvent]
    /\ err = [t \in Thread |-> "none"]
    /\ completions = 0

Goto(t, label) == pc' = [pc EXCEPT ![t] = label]

-----------------------------------------------------------------------------
(* Aborting the queue.                                                     *)

\* Mistake: the receive event is not cancelled.
SendCancelledOnly(act, current) ==
    IF socket # "open" THEN {} ELSE {act["send"]} \ {NoEvent, current}

\* The events CancelEventsInProgress marks ECANCELED.  The socket events of
\* the same names are killed, which on Unix is not always the socket event
\* that the conn event is waiting on.
CancelledEvents(act, current) ==
    IF socket # "open" THEN {}
    ELSE IF act["connect"] \notin {NoEvent, current}
         THEN {e \in {act["connect"]} : Kind[e] \notin {"DISCONNECT", "SSL_DISCONNECT"}}
         ELSE {act["send"], act["receive"]} \ {NoEvent, current}

CancelEventsInProgress(act, current) ==
    LET cancelled == CancelledEvents(act, current)
        killed == {EventClass(e) : e \in cancelled}
    IN  /\ error' = [e \in Event |-> IF e \in cancelled THEN "ECANCELED"
                                     ELSE IF e = current THEN "none" ELSE error[e]]
        /\ seError' = [c \in Class |-> IF c \in killed /\ seArg[c] # NoEvent
                                       THEN "ECANCELED" ELSE seError[c]]
        /\ inEngine' = inEngine \ killed

\* EventQueueAbort, with act the active events at the time of the call and
\* also the events that the caller itself puts on the free list.
EventQueueAbort(act, current, why, also) ==
    IF problem = "none"
    THEN /\ problem' = why
         /\ queue' = <<>>
         /\ freeList' = freeList \cup ElementsOf(queue) \cup also
         /\ CancelEventsInProgress(act, current)
    ELSE /\ freeList' = freeList \cup also
         /\ UNCHANGED <<problem, queue, error, seError, inEngine>>

-----------------------------------------------------------------------------
(* The consumer's calls: building and submitting a transaction.            *)

queueingPermitted == state \in {"IDLE", "CLIENT"}

ConsumerMayCall == pc[App] = "idle" /\ queueingPermitted

\* FlushAEventNeededEx: buffered writes go out before a read or a connect
\* class event.
FlushNeeded(e) == sendBuffer /\ EventClass(e) # "send"

\* Mistake: the ssl session of an earlier transaction is forgotten.
StatusNotInitialised == sslEnabled

\* AsyncQueueStatusInit
SSLEnabledNow == sslEnabled \/ (state = "IDLE" /\ socket = "open" /\ sslConn)

\* sslDisconnectEventNeeded, and the flag it leaves behind
SSLDisconnectNeeded(e) == Kind[e] = "DISCONNECT" /\ SSLEnabledNow
SSLEnabledAfter(e) ==
    CASE Kind[e] = "SSL_CONNECT" -> TRUE
      [] Kind[e] \in {"SSL_DISCONNECT", "DISCONNECT"} -> FALSE
      [] OTHER -> SSLEnabledNow

\* The events of kind k that can still be allocated next to e, and the ways
\* the allocation of an inserted event can go: a new event, or NoEvent.
Unused(k, e) == {f \in Event \ (ElementsOf(log) \cup {e}) : Kind[f] = k}
Allocations(k, needed, e) ==
    IF ~needed THEN {NoEvent}
    ELSE Unused(k, e) \cup (IF "nomem" \in Calls THEN {NoEvent} ELSE {})

\* Bound: a transaction has no more events than the model's pool holds.
PoolSuffices(e) ==
    /\ e \notin ElementsOf(log)
    /\ FlushNeeded(e) => Unused("FLUSH", e) # {}
    /\ SSLDisconnectNeeded(e) => Unused("SSL_DISCONNECT", e) # {}

\* A ConnA* function: it looks at shuttingDown, allocates its event and goes
\* on to EventEnqueue.  ConnAConnect is the first call on the conn it
\* allocates.  A flush takes the buffered data, and so does a write: its event
\* starts with that data.
ConnACall(e) ==
    /\ ConsumerMayCall
    /\ PoolSuffices(e)
    /\ Kind[e] \in UnguardedKind \/ ~shuttingDown
    /\ (Kind[e] = "CONNECT") <=> (socket = "fresh")
    /\ Kind[e] = "FLUSH" => sendBuffer
    /\ sendBuffer' = (sendBuffer /\ EventClass(e) # "send")
    /\ socket' = IF socket = "fresh" THEN "closed" ELSE socket
    /\ ev' = [ev EXCEPT ![App] = e]
    /\ Goto(App, "enqueue")
    /\ UNCHANGED <<lock, state, active, transaction, events, sslConn, socketEvents,
                   shuttingDown, err, completions>>

\* Mistake: the thread is not counted.
EntryNotCounted(t) ==
    /\ lock' = t
    /\ Goto(t, "loop")
    /\ UNCHANGED threads

\* ConnEventsProcess: the entry of a thread without an event of its own.  It
\* keeps the event lock and starts looking for work.
ConnEventsProcess(t) ==
    /\ threads' = threads + 1
    /\ lock' = t
    /\ Goto(t, "loop")

ConnEventsProcessUnlessWaiting(t) ==
    IF WaitForSubmit
    THEN Goto(t, "idle") /\ UNCHANGED <<threads, lock>>
    ELSE ConnEventsProcess(t)

SeqOf(f) == IF f = NoEvent THEN <<>> ELSE <<f>>

\* EventEngineQueueAdd for the inserted events and then e.
EventEngineQueueAdd(inserted, e, noMemory) ==
    LET new == inserted \o <<e>> IN
    IF noMemory \/ problem # "none"
    THEN EventQueueAbort(active, NoEvent, "FAILED", ElementsOf(new))
    ELSE IF shuttingDown /\ Kind[e] \notin ShutdownKind
    THEN /\ problem' = "KILLED"
         /\ queue' = queue \o inserted
         /\ freeList' = freeList \cup {e}
         /\ UNCHANGED <<error, seError, inEngine>>
    ELSE /\ queue' = queue \o new
         /\ UNCHANGED <<problem, freeList, error, seError, inEngine>>

EventEnqueue ==
    /\ pc[App] = "enqueue"
    /\ lock = NoThread
    /\ LET e == ev[App] IN
       \E flush \in Allocations("FLUSH", FlushNeeded(e), e),
          sslDisconnect \in Allocations("SSL_DISCONNECT", SSLDisconnectNeeded(e), e) :
          LET inserted == SeqOf(flush) \o SeqOf(sslDisconnect)
              noMemory == \/ FlushNeeded(e) /\ flush = NoEvent
                          \/ SSLDisconnectNeeded(e) /\ sslDisconnect = NoEvent
          IN  /\ EventEngineQueueAdd(inserted, e, noMemory)
              /\ log' = log \o inserted \o <<e>>
              /\ status' = [f \in Event |-> IF f \in {flush, sslDisconnect, e}
                                            THEN "QUEUED" ELSE status[f]]
              /\ sendBuffer' = (sendBuffer /\ ~FlushNeeded(e))
              /\ sslEnabled' = SSLEnabledAfter(e)
    /\ state' = "CLIENT"
    /\ ev' = [ev EXCEPT ![App] = NoEvent]
    /\ ConnEventsProcessUnlessWaiting(App)
    /\ UNCHANGED <<active, socket, sslConn, seArg, shuttingDown, err, completions>>

\* ConnANoop: EventEnqueue without an event.
ConnANoop ==
    /\ "noop" \in Calls
    /\ ConsumerMayCall
    /\ socket # "fresh"
    /\ lock = NoThread
    /\ state' = "CLIENT"
    /\ sslEnabled' = SSLEnabledNow
    /\ ConnEventsProcessUnlessWaiting(App)
    /\ UNCHANGED <<active, queue, freeList, problem, log, events, socket, sslConn,
                   socketEvents, handle, ev, err, completions>>

\* A ConnA* function that could not queue its event.
EventEnqueueFailure ==
    /\ "failure" \in Calls
    /\ ConsumerMayCall
    /\ socket # "fresh"
    /\ lock = NoThread
    /\ state' = "CLIENT"
    /\ sslEnabled' = SSLEnabledNow
    /\ EventQueueAbort(active, NoEvent, "FAILED", {})
    /\ UNCHANGED <<lock, active, threads, log, status, socket, sslConn, seArg,
                   handle, locals, completions>>

\* ConnAWrite: the data is buffered.  The state changes without the event
\* lock and without AsyncQueueStatusInit.
ConnAWrite ==
    /\ "write" \in Calls
    /\ ConsumerMayCall
    /\ socket # "fresh"
    /\ state' = "CLIENT"
    /\ sendBuffer' = TRUE
    /\ UNCHANGED <<lock, active, transaction, events, socket, sslConn, socketEvents,
                   shuttingDown, locals, completions>>

\* ConnASubmit.  Without queued events the failure callback will be called.
EventsSubmit ==
    /\ ConsumerMayCall
    /\ socket # "fresh"
    /\ lock = NoThread
    /\ problem' = IF state = "IDLE" /\ problem = "none" THEN "FAILED" ELSE problem
    /\ state' = "ENGINE"
    /\ ConnEventsProcess(App)
    /\ UNCHANGED <<active, queue, freeList, sslEnabled, log, events, socket, sslConn,
                   socketEvents, handle, ev, err, completions>>

-----------------------------------------------------------------------------
(* ConnEventsProcess: the loop, with the event lock held.                  *)

\* The position of the event that each of the searches returns.
GetNextEnqueuedEvent(i) == i = 1
GetNextEnqueuedSendEvent(i) ==
    /\ EventClass(queue[i]) = "send"
    /\ \A j \in 1 .. i - 1 : EventClass(queue[j]) = "receive"
\* Mistake: the search for a receive event passes a connect class event.
ReceivePastBarrier(i) ==
    /\ EventClass(queue[i]) = "receive"
    /\ \A j \in 1 .. i - 1 : EventClass(queue[j]) # "receive"
GetNextEnqueuedReceiveEvent(i) ==
    /\ EventClass(queue[i]) = "receive"
    /\ \A j \in 1 .. i - 1 : EventClass(queue[j]) = "send"

\* Mistake: a free slot is all that an event needs.
AnyFreeSlot(i) == problem = "none" /\ active[EventClass(queue[i])] = NoEvent

\* ConnEventNext returns the event at position i.
ConnEventNext(i) ==
    /\ problem = "none"
    /\ active["connect"] = NoEvent
    /\ \/ /\ active["receive"] # NoEvent
          /\ active["send"] = NoEvent
          /\ GetNextEnqueuedSendEvent(i)
       \/ /\ active["receive"] = NoEvent
          /\ active["send"] # NoEvent
          /\ GetNextEnqueuedReceiveEvent(i)
       \/ /\ active["receive"] = NoEvent
          /\ active["send"] = NoEvent
          /\ GetNextEnqueuedEvent(i)

\* Start an event, and release the lock to work on it.
StartEvent(t) ==
    /\ pc[t] = "loop"
    /\ \E i \in 1 .. Len(queue) :
          /\ ConnEventNext(i)
          /\ queue' = Without(queue, i)
          /\ active' = ConnEventInProgressSet(queue[i])
          /\ ev' = [ev EXCEPT ![t] = queue[i]]
    /\ freeList' = {}
    /\ lock' = NoThread
    /\ Goto(t, "process")
    /\ UNCHANGED <<state, problem, threads, sslEnabled, log, events, socket, sslConn,
                   socketEvents, handle, err, completions>>

\* Mistakes: other threads are not waited for, events in progress are not waited
\* for, the thread that leaves is not counted out.
DoneBesideThreads == queue = <<>> /\ ~ConnEventsInProgress /\ state # "CLIENT"
DoneWhileInProgress == queue = <<>> /\ state # "CLIENT" /\ threads - 1 = 0
DoneOffByOne == DoneBesideThreads /\ threads = 0

\* The submitted transaction is over when this thread leaves.
QueueDone ==
    /\ queue = <<>>
    /\ ~ConnEventsInProgress
    /\ state # "CLIENT"
    /\ threads - 1 = 0

\* Nothing can be started: leave.
LeaveQueue(t) ==
    /\ pc[t] = "loop"
    /\ \A i \in 1 .. Len(queue) : ~ConnEventNext(i)
    /\ threads' = threads - 1
    /\ lock' = NoThread
    /\ state' = IF QueueDone THEN "COMPLETE" ELSE state
    /\ Goto(t, IF QueueDone THEN "notify" ELSE "idle")
    /\ UNCHANGED <<active, queue, freeList, problem, sslEnabled, log, events, socket,
                   sslConn, socketEvents, handle, ev, err, completions>>

\* The last thread out, after it released the lock.
QueueCompleteNotify(t) ==
    /\ pc[t] = "notify"
    /\ completions' = completions + 1
    /\ Goto(t, "idle")
    /\ UNCHANGED <<lock, state, active, transaction, events, socket, sslConn,
                   socketEvents, handle, ev, err>>

\* The consumer's callback.  PrepareForCallback clears the transaction first,
\* and the last of its events are destroyed.
QueueCompleteCallback ==
    /\ completions > 0
    /\ lock = NoThread
    /\ completions' = completions - 1
    /\ state' = "IDLE"
    /\ queue' = <<>>
    /\ freeList' = {}
    /\ problem' = "none"
    /\ threads' = 0
    /\ sslEnabled' = FALSE
    /\ log' = <<>>
    /\ status' = [e \in Event |-> "QUEUED"]
    /\ UNCHANGED <<lock, active, error, socket, sslConn, socketEvents, handle, locals>>

-----------------------------------------------------------------------------
(* ConnEventProcess: working on an event without the event lock.           *)

\* socketEventComplete and socketEventAbort: what the end of an event does to
\* the socket.
EndSocket(e, ok) ==
    /\ socket' = CASE Kind[e] = "CONNECT" -> IF ok THEN "open" ELSE "closed"
                   [] Kind[e] = "DISCONNECT" -> "closed"
                   [] OTHER -> socket
    /\ sslConn' = CASE Kind[e] \in {"SSL_CONNECT", "TLS_CONNECT"} -> ok
                    [] Kind[e] = "SSL_DISCONNECT" -> FALSE
                    [] OTHER -> sslConn

\* The status EventProcess returns for an error.
StatusOf(e, why) ==
    CASE why = "ETIMEDOUT" -> "TIMED_OUT"
      [] why = "EMSGSIZE" /\ e \in PartialOK -> "PARTIAL"
      [] OTHER -> "FAILED"

\* The event of thread t ends with an error.
FailEvent(t, why) ==
    /\ error' = [error EXCEPT ![ev[t]] = why]
    /\ status' = [status EXCEPT ![ev[t]] = StatusOf(ev[t], why)]
    /\ EndSocket(ev[t], FALSE)
    /\ Goto(t, "finish")

\* The errors of the I/O functions themselves.
IOErrors(e) == IF Kind[e] = "READ" THEN {"EIO", "EMSGSIZE"} ELSE {"EIO"}

\* socketEventProcess can be successful.
IOSucceeds(e) ==
    CASE Kind[e] \in {"SSL_CONNECT", "TLS_CONNECT"} -> socket = "open" /\ ~sslConn
      [] Kind[e] = "SSL_DISCONNECT" -> sslConn
      [] Kind[e] = "DISCONNECT" -> socket # "open" \/ status[e] = "IN_PROGRESS"
      [] OTHER -> TRUE

\* A connect that comes out of the engine is done, and a disconnect that is
\* only starting cannot fail.
IOFails(e) ==
    CASE Kind[e] = "CONNECT" -> status[e] # "IN_PROGRESS"
      [] Kind[e] = "DISCONNECT" -> socket = "open" /\ status[e] = "IN_PROGRESS"
      [] OTHER -> TRUE

\* socketEventProcess can return EWOULDBLOCK ...
IOBlocks(e) ==
    CASE Kind[e] = "CONNECT" -> status[e] # "IN_PROGRESS"
      [] Kind[e] \in {"SSL_CONNECT", "TLS_CONNECT"} -> socket = "open" /\ ~sslConn
      [] Kind[e] = "SSL_DISCONNECT" -> socket = "open" /\ sslConn
      [] OTHER -> socket = "open"

\* ... and name one of these socket events.  sockEventTranslate turns CONNECT
\* into WRITABLE and DISCONNECT into READABLE; OpenSSL may want either.
BlockedOn(e) ==
    CASE Kind[e] = "CONNECT" -> {"send"}
      [] Kind[e] = "DISCONNECT" -> {"receive"}
      [] Kind[e] \in {"READ", "WRITE", "FLUSH"} /\ ~sslConn -> {EventClass(e)}
      [] OTHER -> {"receive", "send"}

ProcessCancelled(t) ==
    /\ pc[t] = "process"
    /\ error[ev[t]] # "none"
    /\ FailEvent(t, error[ev[t]])
    /\ UNCHANGED <<lock, state, active, transaction, socketEvents, handle, ev, err,
                   completions>>

ProcessDone(t) ==
    /\ pc[t] = "process"
    /\ error[ev[t]] = "none"
    /\ IOSucceeds(ev[t])
    /\ status' = [status EXCEPT ![ev[t]] = "COMPLETE"]
    /\ EndSocket(ev[t], TRUE)
    /\ Goto(t, "finish")
    /\ UNCHANGED <<lock, state, active, transaction, error, socketEvents, handle, ev,
                   err, completions>>

ProcessFails(t) ==
    /\ pc[t] = "process"
    /\ error[ev[t]] = "none"
    /\ IOFails(ev[t])
    /\ \E why \in IOErrors(ev[t]) : FailEvent(t, why)
    /\ UNCHANGED <<lock, state, active, transaction, socketEvents, handle, ev, err,
                   completions>>

\* EWOULDBLOCK.  The socket of a connect exists from here on.
ProcessBlocks(t) ==
    /\ pc[t] = "process"
    /\ error[ev[t]] = "none"
    /\ IOBlocks(ev[t])
    /\ socket' = IF Kind[ev[t]] = "CONNECT" THEN "open" ELSE socket
    /\ Goto(t, "check")
    /\ UNCHANGED <<lock, state, active, transaction, events, sslConn, socketEvents,
                   handle, ev, err, completions>>

\* EventProcess looks at the problem, without the event lock, before it waits.
CheckProblem(t) ==
    /\ pc[t] = "check"
    /\ IF problem # "none"
       THEN FailEvent(t, "ECANCELED")
       ELSE /\ status' = [status EXCEPT ![ev[t]] = "IN_PROGRESS"]
            /\ Goto(t, "wait")
            /\ UNCHANGED <<error, socket, sslConn>>
    /\ UNCHANGED <<lock, state, active, transaction, socketEvents, handle, ev, err,
                   completions>>

\* SeLinkCe and SeUnlinkCe: a socket event gets a conn event, and gives it back.
SeLinkCe(c, e) ==
    /\ seArg' = [seArg EXCEPT ![c] = e]
    /\ seError' = [seError EXCEPT ![c] = "none"]
\* Mistake: the socket event is not unlinked.
LinkKept(c) == UNCHANGED <<seArg, seError>>
SeUnlinkCe(c) ==
    /\ seArg' = [seArg EXCEPT ![c] = NoEvent]
    /\ seError' = [seError EXCEPT ![c] = "none"]

\* SocketEventWaitEx links the event to a socket event and adds it to epoll.
SocketEventWait(t) ==
    /\ pc[t] = "wait"
    /\ \E c \in BlockedOn(ev[t]) :
          IF socket # "open"
          THEN FailEvent(t, "EIO") /\ UNCHANGED socketEvents
          ELSE IF seArg[c] # NoEvent
          THEN FailEvent(t, "EBUSY") /\ UNCHANGED socketEvents
          ELSE /\ SeLinkCe(c, ev[t])
               /\ inEngine' = inEngine \cup {c}
               /\ Goto(t, "handedOff")
               /\ UNCHANGED <<events, socket, sslConn>>
    /\ ev' = [ev EXCEPT ![t] = IF pc'[t] = "handedOff" THEN NoEvent ELSE ev[t]]
    /\ UNCHANGED <<lock, state, active, transaction, handle, err, completions>>

\* Back with the lock after CONN_EVENT_IN_PROGRESS: look for other work.
Relock(t) ==
    /\ pc[t] = "handedOff"
    /\ lock = NoThread
    /\ lock' = t
    /\ Goto(t, "loop")
    /\ UNCHANGED <<state, active, transaction, events, socket, sslConn, socketEvents,
                   handle, ev, err, completions>>

\* The results that abort the queue.
\* Mistake: a timeout does not count.
TimeoutForgotten == {"FAILED", "KILLED"}
AbortStatus == {"TIMED_OUT", "FAILED", "KILLED"}

\* Back with the lock after the event ended, one way or another.
FinishEvent(t) ==
    LET e == ev[t]
        act == ConnEventInProgressClear(e)
    IN
    /\ pc[t] = "finish"
    /\ lock = NoThread
    /\ lock' = t
    /\ active' = act
    /\ IF problem = "none" /\ status[e] \in AbortStatus
       THEN EventQueueAbort(act, e, status[e], {e})
       ELSE IF problem = "none" /\ status[e] = "COMPLETE" /\ shuttingDown
               /\ Kind[e] \notin ShutdownKind
       THEN EventQueueAbort(act, e, "KILLED", {e})
       ELSE /\ problem' = IF problem = "none" /\ status[e] = "PARTIAL" THEN "PARTIAL"
                          ELSE problem
            /\ freeList' = freeList \cup {e}
            /\ error' = [error EXCEPT ![e] = "none"]
            /\ UNCHANGED <<queue, seError, inEngine>>
    /\ ev' = [ev EXCEPT ![t] = NoEvent]
    /\ Goto(t, "loop")
    /\ UNCHANGED <<state, threads, sslEnabled, log, status, socket, sslConn, seArg,
                   handle, err, completions>>

-----------------------------------------------------------------------------
(* The epoll threads and the workers that serve them.                      *)

\* SocketEventComplete: a socket event leaves the engine with error e, and
\* HandleSocketEvent is scheduled for it.
SocketEventComplete(c, why) ==
    /\ c \in inEngine
    /\ inEngine' = inEngine \ {c}
    /\ seError' = [seError EXCEPT ![c] = why]
    /\ UNCHANGED <<lock, state, active, transaction, events, socket, sslConn, seArg,
                   handle, locals, completions>>

\* epoll reports the socket event.
SocketReady(c) == \E why \in {"none", "ECONNRESET", "EIO"} : SocketEventComplete(c, why)

\* The timeout list of the socket event comes up.
SocketTimeout(c) == seArg[c] \in Timed /\ SocketEventComplete(c, "ETIMEDOUT")

\* A worker picks up a socket event that left the engine and unlinks it.
HandleSocketEvent(t, c) ==
    /\ t \in Worker
    /\ pc[t] = "idle"
    /\ seArg[c] # NoEvent
    /\ c \notin inEngine
    /\ ev' = [ev EXCEPT ![t] = seArg[c]]
    /\ err' = [err EXCEPT ![t] = seError[c]]
    /\ SeUnlinkCe(c)
    /\ Goto(t, "callback")
    /\ UNCHANGED <<lock, state, active, transaction, events, socket, sslConn, inEngine,
                   handle, completions>>

\* AsyncEventCallback stores the error before it takes the event lock (a reset
\* is what a disconnect asked for) ...
AsyncEventCallback(t) ==
    /\ pc[t] = "callback"
    /\ error' = [error EXCEPT ![ev[t]] =
                    IF Kind[ev[t]] = "DISCONNECT" /\ err[t] = "ECONNRESET"
                    THEN "none" ELSE err[t]]
    /\ err' = [err EXCEPT ![t] = "none"]
    /\ Goto(t, "enter")
    /\ UNCHANGED <<lock, state, active, transaction, status, socket, sslConn,
                   socketEvents, handle, ev, completions>>

\* ... and enters ConnEventsProcess with the event it was given.
EnterQueue(t) ==
    /\ pc[t] = "enter"
    /\ lock = NoThread
    /\ threads' = threads + 1
    /\ freeList' = {}
    /\ Goto(t, "process")
    /\ UNCHANGED <<lock, state, active, queue, problem, sslEnabled, log, events, socket,
                   sslConn, socketEvents, handle, ev, err, completions>>

-----------------------------------------------------------------------------
(* Other threads of the program.                                           *)

\* What a kill or an abort does to a conn, by its state.
ConnAbort(abortStates) ==
    /\ lock = NoThread
    /\ \/ /\ state \in abortStates
          /\ EventQueueAbort(active, NoEvent, "KILLED", {})
          /\ UNCHANGED socket
       \/ /\ state = "IDLE"
          /\ socket' = IF socket = "open" THEN "closed" ELSE socket
          /\ UNCHANGED <<problem, queue, freeList, error, seError, inEngine>>
    /\ UNCHANGED <<lock, state, active, threads, sslEnabled, log, status, sslConn, seArg,
                   handle, locals, completions>>

\* ConnKill, which any thread may call at any time.
ConnKill == "kill" \in Calls /\ ConnAbort({"CLIENT", "ENGINE", "COMPLETE"})

\* ConnHandleShutdown prevents new events first ...
HandleShutdown ==
    /\ "shutdown" \in Calls
    /\ ~shuttingDown
    /\ shuttingDown' = TRUE
    /\ UNCHANGED <<lock, state, active, transaction, events, socket, sslConn,
                   socketEvents, sendBuffer, locals, completions>>

\* ... and then aborts what the conn is doing.
ConnectionsAbort == shuttingDown /\ ConnAbort({"CLIENT", "ENGINE"})

\* ConnFree of an idle conn, and a new one: accepted, or allocated by
\* ConnAConnect.
ConnReplace ==
    /\ state = "IDLE"
    /\ pc[App] = "idle"
    /\ ~shuttingDown
    /\ lock = NoThread
    /\ socket' \in {"fresh", "open"}
    /\ sslConn' = FALSE
    /\ sendBuffer' = FALSE
    /\ UNCHANGED <<lock, state, active, transaction, events, socketEvents, shuttingDown,
                   locals, completions>>

-----------------------------------------------------------------------------
ProcessEvent(t) ==
    \/ ProcessCancelled(t) \/ ProcessDone(t) \/ ProcessFails(t) \/ ProcessBlocks(t)
    \/ CheckProblem(t) \/ SocketEventWait(t)

QueueStep(t) ==
    \/ StartEvent(t) \/ LeaveQueue(t) \/ QueueCompleteNotify(t)
    \/ Relock(t) \/ FinishEvent(t) \/ AsyncEventCallback(t) \/ EnterQueue(t)

Consumer ==
    \/ \E e \in Event : ConnACall(e)
    \/ EventEnqueue \/ ConnANoop \/ EventEnqueueFailure \/ ConnAWrite \/ EventsSubmit
    \/ ConnReplace

Next ==
    \/ Consumer
    \/ \E t \in Thread : ProcessEvent(t) \/ QueueStep(t)
    \/ \E t \in Worker, c \in Class : HandleSocketEvent(t, c)
    \/ \E c \in Class : SocketReady(c) \/ SocketTimeout(c)
    \/ QueueCompleteCallback
    \/ ConnKill \/ HandleShutdown \/ ConnectionsAbort

Spec == Init /\ [][Next]_vars

-----------------------------------------------------------------------------
(* Properties.                                                             *)

Owns(t, e) == pc[t] \in OwnerPC /\ ev[t] = e
Linked(c, e) == seArg[c] = e
Inside == {t \in Thread : pc[t] \in InsidePC}

\* ConnEventNext never starts an event next to one it conflicts with: an event
\* that changes the state of the connection runs alone, and each slot of
\* conn->activeEvent holds an event of its class.
SlotExclusion ==
    /\ \A c \in Class : active[c] # NoEvent => EventClass(active[c]) = c
    /\ active["connect"] # NoEvent => \A c \in Class \ {"connect"} : active[c] = NoEvent

\* An event in progress is in the hands of exactly one thread, or linked to
\* exactly one socket event, and whatever a thread or the epoll engine refers to
\* is in progress.  This is the hand-over rule of CONN_EVENT_IN_PROGRESS, and
\* why nobody touches an event that another thread has destroyed.
OneOwner ==
    /\ \A t \in Thread : pc[t] \in OwnerPC => ev[t] \in ActiveEvents
    /\ \A c \in Class : seArg[c] # NoEvent => seArg[c] \in ActiveEvents
    /\ \A e \in ActiveEvents :
          /\ (\E t \in Thread : Owns(t, e)) \/ (\E c \in Class : Linked(c, e))
          /\ \A t, u \in Thread : Owns(t, e) /\ Owns(u, e) => t = u
          /\ \A c, d \in Class : Linked(c, e) /\ Linked(d, e) => c = d
          /\ \A t \in Thread, c \in Class : ~(Owns(t, e) /\ Linked(c, e))

\* An event is queued, in progress or on the free list, and nowhere twice: an
\* event that another thread is about to destroy is not in use.
EventPlaces ==
    /\ \A i, j \in DOMAIN queue : queue[i] = queue[j] => i = j
    /\ ElementsOf(queue) \cap ActiveEvents = {}
    /\ freeList \cap (ElementsOf(queue) \cup ActiveEvents) = {}

\* async.transaction.threads counts the threads in ConnEventsProcess.
ThreadsCounted == threads = Cardinality(Inside)

\* The completion of a transaction is signalled once, by one thread.
CompletedOnce ==
    IF state = "COMPLETE"
    THEN \/ completions = 1 /\ \A t \in Thread : pc[t] # "notify"
         \/ /\ completions = 0
            /\ \E t \in Thread : \A u \in Thread : pc[u] = "notify" <=> u = t
    ELSE completions = 0 /\ \A t \in Thread : pc[t] # "notify"

\* While the transaction waits for its callback, and until the consumer starts
\* another one, nothing of it is left in the queue, in a slot, in a thread or in
\* the socket engine: what PrepareForCallback and QueueCompleteNotify assert.
NothingLeftBehind ==
    state \in {"IDLE", "COMPLETE"} =>
        /\ queue = <<>>
        /\ ~ConnEventsInProgress
        /\ \A t \in Thread : pc[t] \in {"idle", "enqueue", "notify"}
        /\ \A c \in Class : seArg[c] = NoEvent

\* Only the last thread out completes a transaction, only when it has ended, and
\* the completion is signalled once.
LastThreadOut == ThreadsCounted /\ CompletedOnce /\ NothingLeftBehind

\* The inductive invariant: the properties above, and why they hold.
\*  - The thread between two actions of a locked region is the lock's holder.
\*  - Events are queued once in a transaction: what is queued, in progress or
\*    over is in the log, and the event the consumer is about to queue is not.
\*  - Only the consumer's thread queues events, and only before the submit.
LockHolder == \A t \in Thread : pc[t] = "loop" <=> lock = t
Logged == ElementsOf(queue) \cup ActiveEvents \cup freeList \subseteq ElementsOf(log)
Queueing ==
    \A t \in Thread : pc[t] = "enqueue" =>
        /\ t = App
        /\ state \in {"IDLE", "CLIENT"}
        /\ ev[t] \in Event \ ElementsOf(log)
QueueInvariant ==
    /\ TypeOK
    /\ LockHolder
    /\ Logged
    /\ Queueing
    /\ EventPlaces
    /\ SlotExclusion
    /\ OneOwner
    /\ ThreadsCounted
    /\ CompletedOnce
    /\ NothingLeftBehind

Conflict(e, f) ==
    EventClass(e) = EventClass(f) \/ "connect" \in {EventClass(e), EventClass(f)}

\* Events run in the order in which they were queued wherever that matters: of
\* two events of one class, or of which one changes the state of the connection,
\* the second does not start before the first has ended.
OrderPreserved ==
    problem = "none" =>
        \A i, j \in DOMAIN log :
            (i < j /\ Conflict(log[i], log[j]) /\ log[j] \notin ElementsOf(queue))
                => log[i] \notin ElementsOf(queue) \cup ActiveEvents

\* The success callback tells the truth: when a transaction completes without a
\* problem, every event of it ran and was successful.
SuccessIsTruthful ==
    state = "COMPLETE" /\ problem = "none" =>
        \A i \in DOMAIN log : status[log[i]] = "COMPLETE"

\* A submitted transaction never stalls: while no thread is working on it, some
\* event of it is in the hands of the socket engine or of the consumer's engine.
NoStall ==
    state \in {"ENGINE", "COMPLETE"} =>
        \/ \E t \in Thread : pc[t] # "idle"
        \/ \E c \in Class : seArg[c] # NoEvent
        \/ completions > 0

\* A disconnect never runs on an open connection that still has its SSL session:
\* an ssl disconnect, explicit or inserted by EventEnqueue, came first.
SecureDisconnect ==
    (active["connect"] # NoEvent /\ socket = "open" /\ sslConn)
        => Kind[active["connect"]] # "DISCONNECT"

\* Nothing to stop: a disconnect is what a killed connection needs.
Stopped(c) == c \in inEngine => Kind[seArg[c]] \in {"DISCONNECT", "SSL_DISCONNECT"}

\* Killing an open connection takes what it waits for out of the epoll engine.
KillEmptiesEngine ==
    [][problem = "none" /\ problem' = "KILLED" /\ socket = "open"
          => \A c \in Class : Stopped(c)']_vars

-----------------------------------------------------------------------------
(* Fairness: the threads of the process run, the consumer's engine runs its *)
(* callbacks, epoll's timeout lists are walked, a shutdown goes on to abort *)
(* the connection, and an event whose I/O is tried again and again ends     *)
(* (its buffers are finite).                                                *)
Fairness ==
    /\ \A t \in Thread :
          /\ WF_vars(ProcessEvent(t))
          /\ SF_vars(ProcessDone(t) \/ ProcessFails(t))
          /\ WF_vars(QueueStep(t))
    /\ \A c \in Class :
          /\ WF_vars(\E t \in Worker : HandleSocketEvent(t, c))
          /\ WF_vars(SocketTimeout(c))
    /\ WF_vars(QueueCompleteCallback)
    /\ WF_vars(ConnectionsAbort)

FairSpec == Spec /\ Fairness

\* What the queue promises to the consumer, see AsyncTransaction.
Transaction == INSTANCE AsyncTransaction WITH
    phase <- CASE state = "IDLE" -> "idle" [] state = "CLIENT" -> "building"
               [] OTHER -> "submitted",
    pending <- ElementsOf(queue) \cup ActiveEvents,
    verdict <- problem

\* The queue implements the transaction the consumer sees: the callback comes
\* once per submit, never before the last event has ended, and with the first
\* problem that the transaction met.
TransactionSpec == Transaction!Spec

\* Every submitted transaction ends with its callback.
TransactionDelivered == Transaction!Delivery
=============================================================================
