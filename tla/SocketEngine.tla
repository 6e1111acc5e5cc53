---- MODULE SocketEngine ----
(***************************************************************************)
(* The Unix socket event engine below ConnQueue: one poll thread, the      *)
(* socket events it watches, its wheel of timeout lists, and the threads   *)
(* that wait on socket events and kill them.                               *)
(*                                                                         *)
(* Each SOCK has one socket event here, the one of the direction the poll  *)
(* thread serves (receive for pollIn, send for pollOut).  A timeout list   *)
(* is the set of events whose timeoutList names it.  Lists are locked      *)
(* across steps only by the poll thread, sockets only by the others.       *)
(* Time is counted in seconds, modulo one turn of the wheel.  An operator  *)
(* whose comment begins with "As if" is not part of the model: it is the   *)
(* definition after it with a plausible bug.                               *)
(***************************************************************************)
EXTENDS Naturals, FiniteSets

CONSTANTS
    Sock,         \* sockets
    Thread,       \* threads that wait and kill: workers and consumers
    NoOne,        \* no holder of a lock, no list
    Granularity,  \* SOCKET_TIMEOUT_GRANULARITY, in seconds
    Lists,        \* SOCKET_TIMEOUT_LISTS
    Second,       \* units of a timeout in a second (1000)
    Timeouts,     \* timeouts the callers ask for, in those units
    MaxLag        \* how far the clock may run ahead of the poll thread's now

ASSUME EngineAssumption ==
    /\ {Granularity, Lists, Second, MaxLag} \subseteq Nat \ {0}
    /\ Timeouts \subseteq Nat \ {0}
    /\ NoOne \notin Thread \cup Nat

VARIABLES
    slock,    \* per socket, the thread that holds it between two steps
    number,   \* per socket "open", "closed" (SOCKET_INVALID) or "freed"
    arg,      \* cb.arg: sockets whose event is linked to a conn event
    flags,    \* flags of the socket event
    error,    \* error of the socket event
    timeoutList, \* the list the event is in
    handed,   \* calls of AThreadBegin for the event that no worker has taken
    pc,       \* where each thread is
    at,       \* the socket it works on, and the list it has chosen
    poll,     \* where the poll thread is
    batch,    \* what epoll_wait reported and is still to be handled
    held,     \* the timeout list the poll thread has locked
    todo,     \* events of that list it has still to collect
    events,   \* events collected, still to be completed
    now,      \* pollInfo->now
    timeoutIndex, \* pollInfo->timeoutIndex
    lag,      \* time( NULL ) - now
    left,     \* history: seconds before the wait may time out
    killed    \* history: in the poll thread's hands and killed since

threadVars == <<pc, at>>
pollVars == <<poll, batch, held, todo, events, now, timeoutIndex, lag>>
seVars == <<arg, flags, error, timeoutList, handed>>
history == <<left, killed>>
vars == <<slock, number, seVars, threadVars, pollVars, history>>

Turn == Granularity * Lists
\* As if the index did not wrap.
EndlessWheel(t) == t \div Granularity

TIMEOUT_INDEX(t) == (t \div Granularity) % Lists
\* As if a timeout were rounded down to its list.
RoundedDown(t) == TIMEOUT_INDEX(now + t \div Second)

\* The list of a wait that begins now.
TimeoutListFor(t) == TIMEOUT_INDEX(now + t \div Second + (Granularity - 1))

\* Raw pointers the poll thread keeps without a lock.
Hands == batch \cup todo \cup events
Unlocked(s) == slock[s] = NoOne
MarkKilled(s) == killed' = IF s \in Hands THEN killed \cup {s} ELSE killed
Drop(s) == killed' = killed \ {s}
Less(x, y) == IF x < y THEN 0 ELSE x - y

\* Timeouts the wheel can hold, whatever the time they begin at.
InWheel(t) == t \div Second <= Turn - (Granularity - 1)

Init ==
    /\ slock = [s \in Sock |-> NoOne]
    /\ number = [s \in Sock |-> "open"]
    /\ arg = {}
    /\ flags = [s \in Sock |-> {}]
    /\ error = [s \in Sock |-> "none"]
    /\ timeoutList = [s \in Sock |-> NoOne]
    /\ handed = [s \in Sock |-> 0]
    /\ pc = [t \in Thread |-> "idle"]
    /\ at = [t \in Thread |-> NoOne]
    /\ poll = "wait"
    /\ batch = {} /\ todo = {} /\ events = {} /\ killed = {}
    /\ held = NoOne
    /\ now \in 0 .. Turn - 1
    /\ timeoutIndex = TIMEOUT_INDEX(now)
    /\ lag = 0
    /\ left = [s \in Sock |-> 0]

-----------------------------------------------------------------------------
(* Completing a socket event; the caller holds its lock. *)

\* As if a worker were started whether or not the event was in the engine.
CompleteAnyway(s) ==
    /\ timeoutList' = [timeoutList EXCEPT ![s] = NoOne]
    /\ flags' = [flags EXCEPT ![s] = {}]
    /\ handed' = [handed EXCEPT ![s] = @ + 1]
    /\ left' = [left EXCEPT ![s] = 0]

\* SocketEventComplete once the event is off its timeout list: an event in
\* the engine leaves it and is given to a worker.
Complete(s) ==
    /\ timeoutList' = [timeoutList EXCEPT ![s] = NoOne]
    /\ flags' = [flags EXCEPT ![s] = {}]
    /\ handed' = [handed EXCEPT ![s] = @ + (IF "IN_ENGINE" \in flags[s] THEN 1 ELSE 0)]
    /\ left' = [left EXCEPT ![s] = 0]

-----------------------------------------------------------------------------
(* Threads that use the engine. *)

\* SocketEventWaitEx up to the timeout: link the event, add it to epoll, choose
\* its list.  The conn layer waits on a socket event only when it is free.
SocketEventWait(t, s, msec) ==
    /\ pc[t] = "idle" /\ Unlocked(s) /\ s \notin arg
    /\ number[s] = "open"
    /\ arg' = arg \cup {s}
    /\ error' = [error EXCEPT ![s] = "none"]
    /\ flags' = [flags EXCEPT ![s] = @ \cup {"IN_ENGINE"}]
    /\ slock' = [slock EXCEPT ![s] = t]
    /\ pc' = [pc EXCEPT ![t] = "add"]
    /\ at' = [at EXCEPT ![t] = <<s, TimeoutListFor(msec)>>]
    /\ left' = [left EXCEPT ![s] = IF InWheel(msec) THEN msec \div Second ELSE 0]
    /\ UNCHANGED <<number, timeoutList, handed, pollVars, killed>>

\* SocketEventWaitEx when epoll_ctl refuses: the event is linked and unlinked.
SocketEventWaitFails(t, s) ==
    /\ pc[t] = "idle" /\ Unlocked(s) /\ s \notin arg
    /\ number[s] = "open"
    /\ error' = [error EXCEPT ![s] = "none"]
    /\ UNCHANGED <<slock, number, arg, flags, timeoutList, handed, threadVars, pollVars, history>>

\* _SocketTimeoutAdd once it has the list's lock, and the end of the wait call.
SocketTimeoutAdd(t) ==
    /\ pc[t] = "add"
    /\ at[t][2] # held
    /\ LET s == at[t][1]
       IN  /\ timeoutList' = [timeoutList EXCEPT ![s] = at[t][2]]
           /\ flags' = [flags EXCEPT ![s] = @ \cup {"TIMEOUT_PENDING"}]
           /\ slock' = [slock EXCEPT ![s] = NoOne]
    /\ pc' = [pc EXCEPT ![t] = "idle"]
    /\ at' = [at EXCEPT ![t] = NoOne]
    /\ UNCHANGED <<number, arg, error, handed, pollVars, history>>

\* SocketEventKill up to the timeout list's lock, which an event needs that
\* still has a timeout.
SocketEventKill(t, s) ==
    /\ pc[t] = "idle" /\ Unlocked(s)
    /\ number[s] # "freed"
    /\ error' = [error EXCEPT ![s] = "ECANCELED"]
    /\ IF "TIMEOUT_PENDING" \in flags[s]
       THEN /\ slock' = [slock EXCEPT ![s] = t]
            /\ pc' = [pc EXCEPT ![t] = "del"]
            /\ at' = [at EXCEPT ![t] = <<s, timeoutList[s]>>]
            /\ UNCHANGED <<flags, timeoutList, handed, history>>
       ELSE Complete(s) /\ MarkKilled(s) /\ UNCHANGED <<slock, threadVars>>
    /\ UNCHANGED <<number, arg, pollVars>>

\* _SocketTimeoutDelete once it has the list's lock, and the rest of the kill.
SocketTimeoutDelete(t) ==
    /\ pc[t] = "del"
    /\ at[t][2] # held
    /\ Complete(at[t][1]) /\ MarkKilled(at[t][1])
    /\ slock' = [slock EXCEPT ![at[t][1]] = NoOne]
    /\ pc' = [pc EXCEPT ![t] = "idle"]
    /\ at' = [at EXCEPT ![t] = NoOne]
    /\ UNCHANGED <<number, arg, error, pollVars>>

\* A worker takes the socket event and unlinks it; its callback follows.
HandleSocketEvent(s) ==
    /\ handed[s] > 0 /\ Unlocked(s)
    /\ handed' = [handed EXCEPT ![s] = @ - 1]
    /\ arg' = arg \ {s}
    /\ UNCHANGED <<slock, number, flags, error, timeoutList, threadVars, pollVars, history>>

\* The handle's shutdown closes a socket under whatever waits on it: epoll
\* forgets it.
SocketClose(s) ==
    /\ Unlocked(s) /\ number[s] = "open"
    /\ number' = [number EXCEPT ![s] = "closed"]
    /\ UNCHANGED <<slock, seVars, threadVars, pollVars, history>>

\* The connection is freed once no event of it is left, and its SOCK with it.
SocketRelease(s) ==
    /\ Unlocked(s) /\ number[s] # "freed"
    /\ s \notin arg /\ handed[s] = 0
    /\ number' = [number EXCEPT ![s] = "freed"]
    /\ error' = [error EXCEPT ![s] = "none"]
    /\ flags' = [flags EXCEPT ![s] = {}]
    /\ UNCHANGED <<slock, arg, timeoutList, handed, threadVars, pollVars, history>>

\* The memory serves another connection.
SocketAlloc(s) ==
    /\ number[s] = "freed"
    /\ number' = [number EXCEPT ![s] = "open"]
    /\ UNCHANGED <<slock, seVars, threadVars, pollVars, history>>

-----------------------------------------------------------------------------
(* _PollThread *)

Tick ==
    /\ lag < MaxLag
    /\ lag' = lag + 1
    /\ UNCHANGED <<slock, number, seVars, threadVars, poll, batch, held, todo, events, now, timeoutIndex, history>>

\* epoll_wait reports some of the events it watches, or times out.
EpollWait ==
    /\ poll = "wait"
    /\ batch' \in SUBSET {s \in Sock : "IN_ENGINE" \in flags[s] /\ number[s] = "open"}
    /\ poll' = "batch"
    /\ UNCHANGED <<slock, number, seVars, threadVars, held, todo, events, now, timeoutIndex, lag, history>>

\* One entry of the array: _socketEventHandle, or a spurious event that is
\* thrown away.
SocketEventHandle(s) ==
    /\ poll = "batch" /\ s \in batch /\ Unlocked(s)
    /\ batch' = batch \ {s}
    /\ Drop(s)
    /\ IF "IN_ENGINE" \in flags[s]
       THEN /\ error' \in {error, [error EXCEPT ![s] = "EIO"]}
            /\ Complete(s)
       ELSE UNCHANGED <<error, flags, timeoutList, handed, left>>
    /\ UNCHANGED <<slock, number, arg, threadVars, poll, held, todo, events, now, timeoutIndex, lag>>

\* As if the last index were replaced before the new one is compared with it.
ComparedTooLate ==
    /\ poll = "batch" /\ batch = {}
    /\ now' = (now + lag) % Turn
    /\ lag' = 0
    /\ left' = [s \in Sock |-> Less(left[s], lag)]
    /\ timeoutIndex' = TIMEOUT_INDEX(now')
    /\ poll' = "wait"
    /\ UNCHANGED <<slock, number, seVars, threadVars, batch, held, todo, events, killed>>

\* The time of this turn of the loop: when it has reached another list, the
\* list is locked and detached.
ReadClock ==
    /\ poll = "batch" /\ batch = {}
    /\ now' = (now + lag) % Turn
    /\ lag' = 0
    /\ left' = [s \in Sock |-> Less(left[s], lag)]
    /\ timeoutIndex' = TIMEOUT_INDEX(now')
    /\ IF timeoutIndex' = timeoutIndex
       THEN poll' = "wait" /\ UNCHANGED <<held, todo>>
       ELSE /\ poll' = "collect"
            /\ held' = timeoutIndex'
            /\ todo' = {s \in Sock : timeoutList[s] = timeoutIndex'}
    /\ UNCHANGED <<slock, number, seVars, threadVars, batch, events, killed>>

\* As if the first loop completed the events and the second did it again.
CompletedAtOnce(s) ==
    /\ poll = "collect" /\ s \in todo /\ Unlocked(s)
    /\ Complete(s)
    /\ todo' = todo \ {s}
    /\ events' = events \cup {s}
    /\ UNCHANGED <<slock, number, arg, error, threadVars, poll, batch, held, now, timeoutIndex, lag, killed>>

\* The first loop over the list takes each socket's lock while it holds the
\* list's.
Collect(s) ==
    /\ poll = "collect" /\ s \in todo /\ Unlocked(s)
    /\ flags' = [flags EXCEPT ![s] = @ \ {"TIMEOUT_PENDING"}]
    /\ timeoutList' = [timeoutList EXCEPT ![s] = NoOne]
    /\ todo' = todo \ {s}
    /\ events' = events \cup {s}
    /\ UNCHANGED <<slock, number, arg, error, handed, threadVars, poll, batch, held, now, timeoutIndex, lag, history>>

\* The list's lock is released.
Collected ==
    /\ poll = "collect" /\ todo = {}
    /\ held' = NoOne
    /\ poll' = "expire"
    /\ UNCHANGED <<slock, number, seVars, threadVars, batch, todo, events, now, timeoutIndex, lag, history>>

\* The second loop: whatever the event has become since.
Expire(s) ==
    /\ poll = "expire" /\ s \in events /\ Unlocked(s)
    /\ events' = events \ {s}
    /\ Drop(s)
    /\ error' = [error EXCEPT ![s] = "ETIMEDOUT"]
    /\ Complete(s)
    /\ UNCHANGED <<slock, number, arg, threadVars, poll, batch, held, todo, now, timeoutIndex, lag>>

Expired ==
    /\ poll = "expire" /\ events = {}
    /\ poll' = "wait"
    /\ UNCHANGED <<slock, number, seVars, threadVars, batch, held, todo, events, now, timeoutIndex, lag, history>>

-----------------------------------------------------------------------------
PollThread ==
    \/ EpollWait \/ ReadClock \/ Collected \/ Expired
    \/ \E s \in Sock : SocketEventHandle(s) \/ Collect(s) \/ Expire(s)

Next ==
    \/ \E t \in Thread :
        \/ \E s \in Sock :
            \/ \E msec \in Timeouts : SocketEventWait(t, s, msec)
            \/ SocketEventWaitFails(t, s)
            \/ SocketEventKill(t, s)
        \/ SocketTimeoutAdd(t) \/ SocketTimeoutDelete(t)
    \/ \E s \in Sock : HandleSocketEvent(s) \/ SocketClose(s) \/ SocketRelease(s) \/ SocketAlloc(s)
    \/ Tick
    \/ PollThread

Spec == Init /\ [][Next]_vars

\* Threads that have begun a call end it, the pool runs what it was given, the
\* poll thread runs and time goes on.  A lock that is free again and again is
\* obtained.
Fairness ==
    /\ WF_vars(Tick)
    /\ SF_vars(PollThread)
    /\ \A s \in Sock : SF_vars(HandleSocketEvent(s))
    /\ \A t \in Thread : SF_vars(SocketTimeoutAdd(t) \/ SocketTimeoutDelete(t))

FairSpec == Spec /\ Fairness

-----------------------------------------------------------------------------
(* Properties *)

TypeOK ==
    /\ slock \in [Sock -> Thread \cup {NoOne}]
    /\ number \in [Sock -> {"open", "closed", "freed"}]
    /\ arg \subseteq Sock
    /\ flags \in [Sock -> SUBSET {"IN_ENGINE", "TIMEOUT_PENDING"}]
    /\ error \in [Sock -> {"none", "EIO", "ECANCELED", "ETIMEDOUT"}]
    /\ timeoutList \in [Sock -> 0 .. Lists - 1 \cup {NoOne}]
    /\ handed \in [Sock -> 0 .. 1]
    /\ pc \in [Thread -> {"idle", "add", "del"}]
    /\ at \in [Thread -> (Sock \X (0 .. Lists - 1)) \cup {NoOne}]
    /\ poll \in {"wait", "batch", "collect", "expire"}
    /\ UNION {batch, todo, events, killed} \subseteq Sock
    /\ held \in 0 .. Lists - 1 \cup {NoOne}
    /\ now \in 0 .. Turn - 1
    /\ timeoutIndex \in 0 .. Lists - 1
    /\ lag \in 0 .. MaxLag
    /\ left \in [Sock -> 0 .. Turn]

\* A linked socket event has one future: it is in the engine, or one worker has
\* been started for it; an event that is not linked has none and no flags.
\* Kill, readiness, timeout and a late report all complete events, and none may
\* lose one or complete it twice (SocketEventComplete, HandleSocketEvent).  What
\* the asserts of the two loops over a timeout list rely on: an event is in a
\* list exactly when it has FSE_TIMEOUT_PENDING, only while it is in the engine,
\* and what the poll thread has still to collect is in the list it has locked.
OneFuture ==
    /\ \A s \in Sock : Unlocked(s) =>
        IF s \in arg THEN handed[s] = (IF "IN_ENGINE" \in flags[s] THEN 0 ELSE 1)
                     ELSE handed[s] = 0 /\ flags[s] = {}
    /\ \A s \in Sock :
        /\ ("TIMEOUT_PENDING" \in flags[s]) = (timeoutList[s] # NoOne)
        /\ "TIMEOUT_PENDING" \in flags[s] => "IN_ENGINE" \in flags[s]
    /\ todo # {} => todo = {s \in Sock : timeoutList[s] = held}

\* The pointers the poll thread keeps without a lock are to waits in progress,
\* and to sockets that still exist, unless the event was killed since it took
\* them: nothing but SocketEventKill gets between epoll_wait or the first loop
\* and the step that completes the event.
StaleOnlyByKill == \A s \in Hands \ killed :
    s \in arg /\ "IN_ENGINE" \in flags[s] /\ number[s] # "freed"

\* What a wait reports is true.  It does not time out before its time by the poll
\* thread's clock, if the wheel is large enough for it and no earlier wait of the
\* same socket event was killed after the poll thread had collected it; and an
\* error stored in a linked socket event is replaced by another or delivered,
\* never lost: a killed or timed out wait is not reported as a success.
TruthfulError == [][
    /\ \A s \in arg \ killed :
        error'[s] = "ETIMEDOUT" /\ error[s] # "ETIMEDOUT" => left[s] = 0
    /\ \A s \in arg \cap arg' : error[s] # "none" => error'[s] # "none"]_vars

\* The poll thread waits for the lock of a socket whose holder waits for the
\* list the poll thread has locked.
LockCycle == \E t \in Thread :
    /\ pc[t] \in {"add", "del"} /\ at[t][2] = held
    /\ at[t][1] \in todo

\* "We can't afford to block in this thread": the poll thread never waits for
\* a lock whose holder waits for it.
NoLockCycle == ~LockCycle

\* Every wait ends, by readiness, kill or timeout, even on a socket that was
\* closed under it, unless the locks deadlock.
WaitEnds == \A s \in Sock : s \in arg ~> (s \notin arg \/ LockCycle)
====
