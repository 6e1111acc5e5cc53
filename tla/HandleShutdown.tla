---- MODULE HandleShutdown ----
(***************************************************************************)
(* The connections of one ConnHandle, from allocation to the return of     *)
(* their memory to the pool, and the thread that shuts the handle or the   *)
(* children of its listeners down.                                         *)
(*                                                                         *)
(* What ConnQueue models of a transaction is here one state change per     *)
(* call: "waiting" tells which conns have events.  The flush and           *)
(* disconnect events a shutdown lets pass are left out.  The list of conns *)
(* in use is changed under its own mutex and walked under the handle's, so *)
(* the walk has a step for each conn and one for each pointer it follows.  *)
(* Event locks and the handle's mutex are recursive.  An operator whose    *)
(* comment begins with "As if" is not part of the model: it is the         *)
(* definition after it with a plausible bug.                               *)
(***************************************************************************)
EXTENDS Naturals, Sequences, SequencesExt

CONSTANTS
    Conn,     \* entries of the pool
    Nil,      \* the null pointer
    MaxCalls  \* bound on the calls that allocate a conn

ASSUME HandleAssumption == Nil \notin Conn /\ MaxCalls \in Nat

VARIABLES
    list,         \* handle->inUse, head first
    stale,        \* list.next of conns that are not in it
    state,        \* conn->state; "ENGINE" is ASYNCHRONOUS_CLIENT too, "FREE" is CACHED
    sp,           \* conn->sp: "null", "open", or "closed" (number is -1)
    waiting,      \* conns with events in their queue or in progress
    problem,      \* conns whose transaction has a problem
    killed,       \* listeners marked FSE_LISTENER_KILLED
    accepts,      \* per listener, accept threads that have not ended
    children,     \* conns with a listenerID
    freeing,      \* per conn, how far connFreeEx has come
    recycled,     \* threads between ConnRecycle and the end of connFreeEx
    inCleanup,    \* handle->inCleanup
    shuttingDown, \* handle->shuttingDown
    calls,        \* allocations so far
    listens,      \* ConnAListen calls past their checks
    op,           \* the shutdown call in progress
    pc, cur,      \* where it is, and the conn its walk has come to
    found,        \* connectionWaitCount > 0
    aborted,      \* history: conns the walk of a handle's shutdown aborted
    intruder      \* history: a call allocated a conn when the wait had seen none

connVars == <<state, sp, waiting, problem, killed, accepts, children, freeing>>
handleVars == <<inCleanup, recycled, shuttingDown>>
opVars == <<op, pc, cur, found>>
vars == <<list, stale, connVars, handleVars, calls, listens, opVars, aborted, intruder>>

Init ==
    /\ list = <<>>
    /\ stale = [c \in Conn |-> Nil]
    /\ state = [c \in Conn |-> "FREE"]
    /\ sp = [c \in Conn |-> "null"]
    /\ waiting = {} /\ problem = {} /\ killed = {} /\ children = {} /\ aborted = {}
    /\ accepts = [c \in Conn |-> 0]
    /\ freeing = [c \in Conn |-> "no"]
    /\ recycled = 0 /\ inCleanup = 0 /\ calls = 0 /\ listens = 0
    /\ shuttingDown = FALSE /\ found = FALSE /\ intruder = FALSE
    /\ op = "none" /\ pc = "idle" /\ cur = Nil

Move(c, from, to) == state[c] = from /\ state' = [state EXCEPT ![c] = to]
Idle(c) == state[c] = "IDLE" /\ freeing[c] = "no"

Position(c) == CHOOSE i \in DOMAIN list : list[i] = c

\* conn->list.next
NextOf(c) ==
    IF Contains(list, c)
    THEN IF Position(c) = Len(list) THEN Nil ELSE list[Position(c) + 1]
    ELSE stale[c]

-----------------------------------------------------------------------------
(* The consumer and the engine *)

\* _ConnAllocEx: a conn from the pool at the end of the list.
_ConnAlloc(c, st) ==
    /\ Move(c, "FREE", st)
    /\ sp' = [sp EXCEPT ![c] = "open"]
    /\ list' = Append(list, c)
    /\ calls < MaxCalls /\ calls' = calls + 1

Seen == op = "handle" /\ pc \in {"cleanup1", "cleanup2", "cleanup3", "flag", "returned"}

\* ConnConnect looks at shuttingDown only when it has its conn.  The consumer
\* does not begin calls on a handle whose shutdown has returned: it frees it.
ConnConnect(c) ==
    /\ pc # "returned"
    /\ _ConnAlloc(c, "IDLE")
    /\ intruder' = (intruder \/ Seen)
    /\ UNCHANGED <<stale, waiting, problem, killed, accepts, children, freeing, handleVars, listens, opVars, aborted>>

\* ConnAListen checks the handle first, then takes a conn and listens.
ConnAListenChecks ==
    /\ ~shuttingDown /\ pc # "returned"
    /\ listens = 0 /\ calls < MaxCalls
    /\ listens' = 1
    /\ UNCHANGED <<list, stale, connVars, handleVars, calls, opVars, aborted, intruder>>

ConnAListen(c) ==
    /\ listens = 1 /\ listens' = 0
    /\ _ConnAlloc(c, "LISTENER")
    /\ intruder' = (intruder \/ Seen)
    /\ UNCHANGED <<stale, waiting, problem, killed, accepts, children, freeing, handleVars, opVars, aborted>>

\* The poll thread accepts for a listener and starts a thread.
AcceptReady(l) ==
    /\ state[l] = "LISTENER" /\ l \notin killed /\ accepts[l] = 0
    /\ accepts' = [accepts EXCEPT ![l] = 1]
    /\ UNCHANGED <<list, stale, state, sp, waiting, problem, killed, children, freeing, handleVars, calls, listens, opVars, aborted, intruder>>

\* AcceptCallback in that thread: a conn for the child, or none (Nil).
AcceptCallback(l, c) ==
    /\ accepts[l] = 1
    /\ accepts' = [accepts EXCEPT ![l] = 0]
    /\ IF c = Nil THEN UNCHANGED <<list, state, sp, children, calls>>
                  ELSE _ConnAlloc(c, "IDLE") /\ children' = children \cup {c}
    /\ UNCHANGED <<stale, waiting, problem, killed, freeing, handleVars, listens, opVars, aborted, intruder>>

\* The consumer shuts its listener down.
ListenerShutdown(l) ==
    /\ state[l] = "LISTENER" /\ l \notin killed
    /\ killed' = killed \cup {l}
    /\ UNCHANGED <<list, stale, state, sp, waiting, problem, accepts, children, freeing, handleVars, calls, listens, opVars, aborted, intruder>>

\* AsyncListenerCallback for a listener that was killed or failed: its worker
\* has waited for the accept threads.
AsyncListenerCallback(l) ==
    /\ accepts[l] = 0
    /\ Move(l, "LISTENER", "IDLE")
    /\ killed' = killed \ {l}
    /\ sp' = [sp EXCEPT ![l] = "closed"]
    /\ UNCHANGED <<list, stale, waiting, problem, accepts, children, freeing, handleVars, calls, listens, opVars, aborted, intruder>>

\* As if the queue did not look for a shutdown again.
QueueAddAlways(c) ==
    /\ waiting' = IF c \in problem THEN waiting ELSE waiting \cup {c}
    /\ UNCHANGED problem

\* EventEngineQueueAdd: under the event lock the flag is read again; an event
\* that is refused leaves a problem in its place, and the events before it.
EventEngineQueueAdd(c) ==
    \/ c \in problem /\ UNCHANGED <<waiting, problem>>
    \/ /\ c \notin problem /\ ~shuttingDown
       /\ waiting' = waiting \cup {c} /\ UNCHANGED problem
    \/ /\ c \notin problem /\ shuttingDown
       /\ problem' = problem \cup {c} /\ UNCHANGED waiting

\* EventEnqueue, for a call that may have checked the handle long before.
EventEnqueue(c) ==
    /\ Idle(c) \/ state[c] = "ENGINE"
    /\ state' = [state EXCEPT ![c] = "ENGINE"]
    /\ EventEngineQueueAdd(c)
    /\ UNCHANGED <<list, stale, sp, killed, accepts, children, freeing, handleVars, calls, listens, opVars, aborted, intruder>>

\* The transaction is submitted and its last event ends, by itself, by its timeout or because it was aborted.
TransactionDone(c) ==
    /\ Move(c, "ENGINE", "COMPLETE")
    /\ waiting' = waiting \ {c}
    /\ UNCHANGED <<list, stale, sp, problem, killed, accepts, children, freeing, handleVars, calls, listens, opVars, aborted, intruder>>

\* QueueCompleteNotify, before the consumer's callback.
QueueCompleteNotify(c) ==
    /\ Move(c, "COMPLETE", "IDLE")
    /\ problem' = problem \ {c}
    /\ UNCHANGED <<list, stale, sp, waiting, killed, accepts, children, freeing, handleVars, calls, listens, opVars, aborted, intruder>>

-----------------------------------------------------------------------------
(* connFreeEx, by the consumer's thread *)

FreeBegin(c) ==
    /\ Idle(c)
    /\ state' = [state EXCEPT ![c] = "SYNC"]
    /\ freeing' = [freeing EXCEPT ![c] = "begun"]
    /\ UNCHANGED <<list, stale, sp, waiting, problem, killed, accepts, children, handleVars, calls, listens, opVars, aborted, intruder>>

\* As if the conn being freed were not counted.
ReleaseUncounted(c) ==
    /\ freeing[c] = "begun"
    /\ freeing' = [freeing EXCEPT ![c] = "released"]
    /\ sp' = [sp EXCEPT ![c] = "null"]
    /\ UNCHANGED <<list, stale, state, waiting, problem, killed, accepts, children, handleVars, calls, listens, opVars, aborted, intruder>>

\* SocketRelease leaves the conn without a socket; inCleanup is incremented
\* before the conn leaves the list.
SocketRelease(c) ==
    /\ freeing[c] = "begun"
    /\ freeing' = [freeing EXCEPT ![c] = "released"]
    /\ sp' = [sp EXCEPT ![c] = "null"]
    /\ inCleanup' = inCleanup + 1
    /\ UNCHANGED <<list, stale, state, waiting, problem, killed, accepts, children, recycled, shuttingDown, calls, listens, opVars, aborted, intruder>>

\* ConnListRemove up to the end of the list's mutex.
ConnListRemove(c) ==
    /\ freeing[c] = "released"
    /\ freeing' = [freeing EXCEPT ![c] = "removed"]
    /\ stale' = [stale EXCEPT ![c] = NextOf(c)]
    /\ list' = RemoveAt(list, Position(c))
    /\ UNCHANGED <<state, sp, waiting, problem, killed, accepts, children, handleVars, calls, listens, opVars, aborted, intruder>>

\* Its pointers are cleared, then the conn goes back to the pool.
ConnRecycle(c) ==
    /\ freeing[c] = "removed"
    /\ freeing' = [freeing EXCEPT ![c] = "no"]
    /\ stale' = [stale EXCEPT ![c] = Nil]
    /\ state' = [state EXCEPT ![c] = "FREE"]
    /\ recycled' = recycled + 1
    /\ children' = children \ {c} /\ aborted' = aborted \ {c}
    /\ UNCHANGED <<list, sp, waiting, problem, killed, accepts, inCleanup, shuttingDown, calls, listens, opVars, intruder>>

\* As if a conn that was freed stayed counted.
StillCounted ==
    /\ recycled > 0
    /\ recycled' = recycled - 1
    /\ UNCHANGED <<list, stale, connVars, inCleanup, shuttingDown, calls, listens, opVars, aborted, intruder>>

FreeEnd ==
    /\ recycled > 0
    /\ recycled' = recycled - 1
    /\ inCleanup' = inCleanup - 1
    /\ UNCHANGED <<list, stale, connVars, shuttingDown, calls, listens, opVars, aborted, intruder>>

-----------------------------------------------------------------------------
(* The shutdown calls *)

Quiet == <<list, stale, connVars, handleVars, calls, listens, aborted, intruder>>

Round == {1, 2, 3}
Walks == {"abort", "close", "count1", "count2", "count3"}

\* A walk begins at the head of the list.
Begin(p) == IF p \in Walks /\ list # <<>> THEN Head(list) ELSE Nil

\* ConnChildrenShutdown may come before ConnHandleShutdown.
\* The wait for the managed listeners that comes first is in ListenerManager.
Shutdown(what) ==
    /\ pc = "idle" /\ op # "handle"
    /\ op' = what
    /\ pc' = IF what = "handle" THEN "wait1" ELSE "count1"
    /\ cur' = Begin(pc')
    /\ found' = FALSE
    /\ UNCHANGED Quiet

Wait(n) == <<"wait1", "wait2", "wait3">>[n]
Cleanup(n) == <<"cleanup1", "cleanup2", "cleanup3">>[n]
Count(n) == <<"count1", "count2", "count3">>[n]

\* What follows a wait that has given up: the flag and the abort, the close, or
\* another look.
GiveUp(n) == <<"prevent", "close", IF op = "handle" THEN "wait3" ELSE "count3">>[n]

\* ConnHandleWaitForConnectionsToExit reads the list's head, then inCleanup.
WaitHead(n) ==
    /\ pc = Wait(n)
    /\ pc' \in IF list = <<>> THEN {Cleanup(n)} ELSE {Wait(n), GiveUp(n)}
    /\ pc' # pc
    /\ cur' = Begin(pc')
    /\ UNCHANGED <<op, found, Quiet>>

\* As if an empty list were enough.
IgnoresCleanup(n) ==
    /\ pc = Cleanup(n)
    /\ pc' = IF n = 1 THEN "flag" ELSE "returned"
    /\ UNCHANGED <<op, cur, found, Quiet>>

WaitCleanup(n) ==
    /\ pc = Cleanup(n)
    /\ pc' \in IF inCleanup = 0 THEN {IF n = 1 THEN "flag" ELSE "returned"} ELSE {Wait(n), GiveUp(n)}
    /\ cur' = Begin(pc')
    /\ UNCHANGED <<op, found, Quiet>>

\* ConnHandleShutdown after a first wait that saw the conns gone.
ReturnEarly ==
    /\ pc = "flag"
    /\ shuttingDown' = TRUE
    /\ pc' = "returned"
    /\ UNCHANGED <<op, cur, found, list, stale, connVars, inCleanup, recycled, calls, listens, aborted, intruder>>

\* "prevent new events", then the walk begins; ConnChildrenShutdown goes on to
\* the walk at once.
PreventNewEvents ==
    /\ pc = "prevent"
    /\ shuttingDown' = (shuttingDown \/ op = "handle")
    /\ pc' = "abort"
    /\ cur' = Begin(pc')
    /\ UNCHANGED <<op, found, list, stale, connVars, inCleanup, recycled, calls, listens, aborted, intruder>>

Chosen(c) == op = "handle" \/ c \in children
NoSocket(c) == sp[c] = "null" /\ state[c] # "FREE"

\* The walk dereferences the socket of a conn that connFreeEx has released, and
\* the process ends.
Crash ==
    /\ pc \in Walks
    /\ cur # Nil /\ NoSocket(cur)
    /\ pc' = "crashed"
    /\ UNCHANGED <<op, cur, found, Quiet>>

\* One conn of ConnHandleConnectionsAbort, under its event lock.  EventQueueAbort
\* does nothing to a transaction that has a problem.
AbortConn(c) ==
    /\ pc = "abort" /\ cur = c /\ ~NoSocket(c)
    /\ pc' = "abortNext"
    /\ \/ /\ state[c] \in {"IDLE", "SYNC"} /\ Chosen(c)
          /\ sp' = [sp EXCEPT ![c] = "closed"]
          /\ UNCHANGED <<waiting, problem, killed, aborted>>
       \/ /\ state[c] = "ENGINE" /\ Chosen(c) /\ c \notin problem
          /\ problem' = problem \cup {c}
          /\ waiting' = waiting \ {c}
          /\ aborted' = IF op = "handle" THEN aborted \cup {c} ELSE aborted
          /\ UNCHANGED <<sp, killed>>
       \/ /\ state[c] = "LISTENER"
          /\ killed' = killed \cup {c}
          /\ UNCHANGED <<sp, waiting, problem, aborted>>
       \/ /\ state[c] \in {"FREE", "COMPLETE"} \/ (state[c] # "LISTENER" /\ ~Chosen(c)) \/ c \in problem
          /\ UNCHANGED <<sp, waiting, problem, killed, aborted>>
    /\ UNCHANGED <<list, stale, state, accepts, children, freeing, handleVars, calls, listens, op, cur, found, intruder>>

\* One conn of ConnHandleConnectionsClose; its shutdown callback may have seen
\* to it.
CloseConn(c) ==
    /\ pc = "close" /\ cur = c /\ ~NoSocket(c)
    /\ pc' = "closeNext"
    /\ \/ UNCHANGED <<sp, killed>>
       \/ /\ state[c] \notin {"FREE", "LISTENER"} /\ Chosen(c)
          /\ sp' = [sp EXCEPT ![c] = "closed"]
          /\ UNCHANGED killed
       \/ /\ state[c] = "LISTENER"
          /\ killed' = killed \cup {c}
          /\ UNCHANGED sp
    /\ UNCHANGED <<list, stale, state, waiting, problem, accepts, children, freeing, handleVars, calls, listens, op, cur, found, aborted, intruder>>

\* One conn of ConnHandleWaitForChildrenToExit: connChild.
CountConn(n, c) ==
    /\ pc = Count(n) /\ cur = c /\ ~NoSocket(c)
    /\ found' = (found \/ (c \in children /\ state[c] \notin {"FREE", "LISTENER"}))
    /\ cur' = NextOf(c)
    /\ UNCHANGED <<op, pc, Quiet>>

\* conn = conn->list.next, whatever became of conn.
NextConn ==
    /\ pc \in {"abortNext", "closeNext"}
    /\ pc' = IF pc = "abortNext" THEN "abort" ELSE "close"
    /\ cur' = NextOf(cur)
    /\ UNCHANGED <<op, found, Quiet>>

\* The walk is over: wait again.
WalkEnds ==
    /\ pc \in {"abort", "close"} /\ cur = Nil
    /\ LET n == IF pc = "abort" THEN 2 ELSE 3
       IN  pc' = IF op = "handle" THEN Wait(n) ELSE Count(n)
    /\ cur' = Begin(pc') /\ found' = FALSE
    /\ UNCHANGED <<op, Quiet>>

\* The count is complete: the children are gone, or the wait goes on or gives up.
CountEnds(n) ==
    /\ pc = Count(n) /\ cur = Nil
    /\ pc' \in IF found THEN {Count(n), GiveUp(n)} ELSE {"idle"}
    /\ cur' = Begin(pc') /\ found' = FALSE
    /\ UNCHANGED <<op, Quiet>>

-----------------------------------------------------------------------------
ShutdownThread ==
    \/ \E n \in Round : WaitHead(n) \/ WaitCleanup(n) \/ CountEnds(n) \/ \E c \in Conn : CountConn(n, c)
    \/ ReturnEarly \/ PreventNewEvents \/ NextConn \/ WalkEnds \/ Crash
    \/ \E c \in Conn : AbortConn(c) \/ CloseConn(c)

Cleaning(c) == SocketRelease(c) \/ ConnListRemove(c) \/ ConnRecycle(c)

Engine(c) == TransactionDone(c) \/ QueueCompleteNotify(c)

\* Conns with events queued before one that a shutdown refused.
Stuck == problem \cap waiting

Alive == pc # "crashed"

OtherThreads ==
    \/ \E c \in Conn :
        \/ ConnConnect(c) \/ ConnAListen(c) \/ ListenerShutdown(c)
        \/ EventEnqueue(c)
        \/ FreeBegin(c) \/ Cleaning(c) \/ Engine(c)
        \/ AcceptReady(c) \/ AsyncListenerCallback(c)
        \/ \E d \in Conn \cup {Nil} : AcceptCallback(c, d)
    \/ ConnAListenChecks \/ FreeEnd

Next ==
    \/ Alive /\ OtherThreads
    \/ \E what \in {"children", "handle"} : Shutdown(what)
    \/ ShutdownThread

Spec == Init /\ [][Next]_vars

\* The shutdown thread runs, blocking calls and transactions end unless they are
\* stuck, accept callbacks return, and the consumer does its part: once calls on
\* a conn fail it frees the conn, it shuts down its listeners, and it ends a
\* ConnAListen it has begun.
Fairness ==
    /\ WF_vars(ShutdownThread) /\ WF_vars(Alive /\ FreeEnd)
    /\ WF_vars(Alive /\ \E c \in Conn : ConnAListen(c))
    /\ \A c \in Conn :
        /\ WF_vars(Alive /\ Cleaning(c)) /\ WF_vars(Alive /\ c \notin Stuck /\ Engine(c))
        /\ SF_vars(Alive /\ shuttingDown /\ FreeBegin(c))
        /\ WF_vars(Alive /\ op = "handle" /\ ListenerShutdown(c))
        /\ WF_vars(Alive /\ c \in killed /\ AsyncListenerCallback(c))
        /\ WF_vars(Alive /\ \E d \in Conn \cup {Nil} : AcceptCallback(c, d))

FairSpec == Spec /\ Fairness

-----------------------------------------------------------------------------
(* Properties *)

TypeOK ==
    /\ list \in SeqOf(Conn, MaxCalls) /\ IsInjective(list)
    /\ stale \in [Conn -> Conn \cup {Nil}]
    /\ state \in [Conn -> {"FREE", "IDLE", "SYNC", "ENGINE", "COMPLETE", "LISTENER"}]
    /\ sp \in [Conn -> {"null", "open", "closed"}]
    /\ UNION {waiting, problem, killed, children, aborted} \subseteq Conn
    /\ accepts \in [Conn -> 0 .. 1]
    /\ freeing \in [Conn -> {"no", "begun", "released", "removed"}]
    /\ {recycled, inCleanup, calls} \subseteq 0 .. MaxCalls /\ listens \in 0 .. 1
    /\ {shuttingDown, found, intruder} \subseteq BOOLEAN
    /\ op \in {"none", "children", "handle"}
    /\ cur \in Conn \cup {Nil}

\* When ConnHandleShutdown returns, no conn of the handle is in use, none is
\* being freed, and no thread still uses the handle for one, although the last
\* conn leaves the list before its thread is done with the handle and accept
\* threads bring in new ones without a look at shuttingDown.  Calls of the
\* consumer that allocate a conn while the wait is about to return are the one
\* exception.
HandleQuiet ==
    pc = "returned" /\ ~intruder =>
        /\ list = <<>> /\ inCleanup = 0 /\ recycled = 0
        /\ \A c \in Conn : state[c] = "FREE" /\ accepts[c] = 0

\* The queue of a conn that a handle's shutdown has aborted never again holds an
\* event other than the ones a shutdown lets pass, although calls that checked
\* the handle before enqueue after, in this transaction or in the next.
AbortSticks == aborted \cap waiting = {}

\* ConnHandleShutdown returns once the consumer gives up its conns, unless a
\* transaction is stuck behind an event the shutdown refused, or the walk has met
\* a conn without its socket.
ShutdownEnds == []<>(op = "handle" => pc \in {"returned", "crashed"} \/ Stuck # {})
====
