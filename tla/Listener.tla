---- MODULE Listener ----
(***************************************************************************)
(* One asynchronous listener, from ConnAListen to the callback that ends   *)
(* it: the poll thread that accepts for it, the accept threads it starts,  *)
(* suspension, throttling by load, the kill, and the worker that sits on   *)
(* the listener while it is paused or waits for the last accept.           *)
(*                                                                         *)
(* Everything done under the socket's lock is one step.  What is done to   *)
(* cs->listener without it (its release, the notification after a requeue) *)
(* is a step of its own; "touched" records who used a listener that was    *)
(* gone.  An operator whose comment begins with "As if" is not part of the *)
(* model: it is the definition after it with a plausible bug.              *)
(***************************************************************************)
EXTENDS Integers, FiniteSets

CONSTANTS
    Worker,      \* threads of the pool that run HandleSocketEvent
    Threshold,   \* throttlingThreshold, 0 for none
    MaxLoad,     \* bound on the number of threads in all engines
    MaxBacklog,  \* bound on connections the kernel holds for the listener
    MaxAccepts   \* bound on accept threads

ASSUME ListenerAssumption == {Threshold, MaxLoad, MaxBacklog, MaxAccepts} \subseteq Nat

VARIABLES
    conn,     \* "none", "listener" (ASYNCHRONOUS_LISTENER), "idle" once AsyncListenerCallback has run
    arg,      \* cb.arg: the socket event is linked
    flags,    \* flags of the connect socket event
    armed,    \* epoll will report the socket (EPOLLONESHOT)
    reported, \* the poll thread has its report
    backlog,  \* connections waiting in the kernel
    listener, \* cs->listener: "none", "alloc" or "freed" but still pointed to
    inAccept, \* listener->inAccept
    accepts,  \* accept threads begun and not ended
    handed,   \* calls of AThreadBegin for the socket event no worker has taken
    pc,       \* per worker
    load,     \* threads in all engines
    count,    \* ATHREAD.count, the number the last update found
    touched   \* history: who used the listener after its release

vars == <<conn, arg, flags, armed, reported, backlog, listener, inAccept, accepts, handed, pc, load, count, touched>>

Init ==
    /\ conn = "none" /\ arg = FALSE /\ flags = {}
    /\ armed = FALSE /\ reported = FALSE /\ backlog = 0
    /\ listener = "none" /\ inAccept = 0 /\ accepts = 0
    /\ handed = 0
    /\ pc = [k \in Worker |-> "none"]
    /\ load \in 0 .. MaxLoad /\ count = 0
    /\ touched = {}

Touch(who) == touched' = IF listener = "alloc" THEN touched ELSE touched \cup {who}

\* As if the threads of all engines were added to the last count.
AddedToLastCount == count' = count + load

\* AThreadCountUpdate
AThreadCountUpdate == count' = load

\* listenerThresholdExceeded, given the count it reads or has updated.
Exceeded(n) == n > Threshold

\* _SocketEventRequeue on a listener in the engine, then SocketEventComplete
\* when epoll refuses: the event leaves the engine and goes to a worker.
Requeued == armed' = TRUE /\ handed' = handed /\ flags' = flags
NotRequeued == armed' = armed /\ handed' = handed + 1 /\ flags' = flags \ {"IN_ENGINE"}

-----------------------------------------------------------------------------
(* The consumer *)

\* ConnAListenEx: a conn of its own, a listening socket, the event in epoll.
ConnAListen ==
    /\ conn = "none"
    /\ conn' = "listener"
    /\ listener' = "alloc" /\ inAccept' = 0
    /\ arg' = TRUE /\ flags' = {"IN_ENGINE"} /\ armed' = TRUE
    /\ UNCHANGED <<reported, backlog, accepts, handed, pc, load, count, touched>>

\* ConnAListenSuspend, as long as the listener has not been killed.
SocketListenerSuspend ==
    /\ conn # "none" /\ listener # "none"
    /\ "LISTENER_KILLED" \notin flags
    /\ flags' = flags \cup {"LISTENER_SUSPENDED"}
    /\ Touch("consumer")
    /\ UNCHANGED <<conn, arg, armed, reported, backlog, listener, inAccept, accepts, handed, pc, load, count>>

\* ConnAListenResume.
SocketListenerResume ==
    /\ conn # "none" /\ listener # "none"
    /\ "LISTENER_SUSPENDED" \in flags
    /\ flags' = flags \ {"LISTENER_SUSPENDED"}
    /\ Touch("consumer")
    /\ UNCHANGED <<conn, arg, armed, reported, backlog, listener, inAccept, accepts, handed, pc, load, count>>

\* ConnAListenerShutdown: SocketEventKill resumes the listener and marks it,
\* then killActiveListener connects to it so that epoll reports it.  The connect
\* fails when the backlog is full or there is no socket for it.
SocketEventKill ==
    /\ conn = "listener"
    /\ flags' = (flags \ {"LISTENER_SUSPENDED"}) \cup {"LISTENER_KILLED"}
    /\ IF listener # "none" /\ "LISTENER_SUSPENDED" \in flags THEN Touch("consumer") ELSE touched' = touched
    /\ backlog' \in {backlog, IF backlog < MaxBacklog THEN backlog + 1 ELSE backlog}
    /\ UNCHANGED <<conn, arg, armed, reported, listener, inAccept, accepts, handed, pc, load, count>>

-----------------------------------------------------------------------------
(* The environment *)

Connect ==
    /\ conn = "listener" /\ backlog < MaxBacklog
    /\ backlog' = backlog + 1
    /\ UNCHANGED <<conn, arg, flags, armed, reported, listener, inAccept, accepts, handed, pc, load, count, touched>>

LoadChanges ==
    /\ load' \in 0 .. MaxLoad
    /\ load' # load
    /\ UNCHANGED <<conn, arg, flags, armed, reported, backlog, listener, inAccept, accepts, handed, pc, count, touched>>

\* The poll thread of the send direction updates the count after each event it
\* handles, ConnStats when it is called.
CountUpdated ==
    /\ count # load
    /\ AThreadCountUpdate
    /\ UNCHANGED <<conn, arg, flags, armed, reported, backlog, listener, inAccept, accepts, handed, pc, load, touched>>

-----------------------------------------------------------------------------
(* The poll thread *)

EpollReports ==
    /\ armed /\ backlog > 0
    /\ armed' = FALSE /\ reported' = TRUE
    /\ UNCHANGED <<conn, arg, flags, backlog, listener, inAccept, accepts, handed, pc, load, count, touched>>

\* As if a listener that was killed went back to epoll.
KilledRequeued ==
    /\ reported /\ "LISTENER_KILLED" \in flags
    /\ reported' = FALSE
    /\ Requeued
    /\ UNCHANGED <<conn, arg, backlog, listener, inAccept, accepts, pc, load, count, touched>>

\* _socketEventHandle for a killed listener.
HandleKilled ==
    /\ reported /\ "LISTENER_KILLED" \in flags
    /\ reported' = FALSE
    /\ NotRequeued
    /\ Touch("poll")
    /\ UNCHANGED <<conn, arg, backlog, listener, inAccept, accepts, pc, load, count>>

listenerShouldThrottle ==
    \/ "LISTENER_SUSPENDED" \in flags
    \/ Threshold # 0 /\ Exceeded(count)

\* The conditions of listenerStartThrottling, in the code's order: the count is
\* updated only when the others hold.
MayThrottle == "LISTENER_SUSPENDED" \in flags /\ Threshold # 0
listenerStartThrottling == MayThrottle /\ Exceeded(load)

\* _socketEventHandle for a live listener: accept, start an accept thread if
\* there is an accept event to start it with, then pause or go on.
HandleAccept(started) ==
    /\ reported /\ "LISTENER_KILLED" \notin flags
    /\ backlog > 0
    /\ started => accepts < MaxAccepts
    /\ reported' = FALSE
    /\ backlog' = backlog - 1
    /\ inAccept' = inAccept + (IF started THEN 1 ELSE 0)
    /\ accepts' = accepts + (IF started THEN 1 ELSE 0)
    /\ Touch("poll")
    /\ IF listenerShouldThrottle /\ MayThrottle THEN AThreadCountUpdate ELSE count' = count
    /\ IF listenerShouldThrottle /\ listenerStartThrottling
       THEN armed' = armed /\ handed' = handed + 1 /\ flags' = flags \cup {"LISTENER_PAUSED"}
       ELSE Requeued \/ NotRequeued
    /\ UNCHANGED <<conn, arg, listener, pc, load>>

\* accept fails: the listener goes back without a look at the load.
HandleAcceptFails ==
    /\ reported /\ "LISTENER_KILLED" \notin flags
    /\ reported' = FALSE
    /\ Requeued \/ NotRequeued
    /\ UNCHANGED <<conn, arg, backlog, listener, inAccept, accepts, pc, load, count, touched>>

-----------------------------------------------------------------------------
(* Accept threads and the workers in HandleSocketEvent *)

\* acceptPickup: the consumer's callback for the child, then inAccept--.
acceptPickup ==
    /\ accepts > 0
    /\ accepts' = accepts - 1
    /\ inAccept' = inAccept - 1
    /\ touched' = IF listener = "alloc" /\ conn = "listener" THEN touched ELSE touched \cup {"accept"}
    /\ UNCHANGED <<conn, arg, flags, armed, reported, backlog, listener, handed, pc, load, count>>

listenerThrottling == "LISTENER_PAUSED" \in flags /\ "LISTENER_KILLED" \notin flags

\* The worker sits on a paused listener; one that failed or was killed is
\* unlinked.
HandleSocketEvent(k) ==
    /\ pc[k] = "none" /\ handed > 0
    /\ handed' = handed - 1
    /\ arg' = listenerThrottling
    /\ pc' = [pc EXCEPT ![k] = IF listenerThrottling THEN "spin" ELSE "drain"]
    /\ UNCHANGED <<conn, flags, armed, reported, backlog, listener, inAccept, accepts, load, count, touched>>

\* As if the spin did not look for a suspension.
SpinPastSuspension ==
    \/ "LISTENER_KILLED" \in flags /\ count' = count
    \/ "LISTENER_KILLED" \notin flags /\ AThreadCountUpdate /\ ~Exceeded(load)

\* As if the spin read the last count instead of counting again.
SpinOnLastCount ==
    \/ "LISTENER_KILLED" \in flags /\ count' = count
    \/ /\ {"LISTENER_KILLED", "LISTENER_SUSPENDED"} \cap flags = {}
       /\ count' = count
       /\ ~Exceeded(count)

\* When listenerSpinWhileThrottling stops: killed, or neither suspended nor
\* above the threshold.
SpinEnds ==
    \/ "LISTENER_KILLED" \in flags /\ count' = count
    \/ /\ {"LISTENER_KILLED", "LISTENER_SUSPENDED"} \cap flags = {}
       /\ AThreadCountUpdate
       /\ ~Exceeded(load)

\* As if a listener that cannot be put back were dropped.
DroppedOnFailure(k) ==
    /\ pc[k] = "spin"
    /\ SpinEnds
    /\ flags' = flags \ {"LISTENER_PAUSED", "LISTENER_SUSPENDED"}
    /\ \/ armed' = TRUE /\ pc' = [pc EXCEPT ![k] = "started"]
       \/ armed' = armed /\ pc' = [pc EXCEPT ![k] = "none"]
    /\ UNCHANGED <<conn, arg, reported, backlog, listener, inAccept, accepts, handed, load, touched>>

\* sockEventListenerRequeue after the spin, and another thread for the event
\* when epoll refuses.
sockEventListenerRequeue(k) ==
    /\ pc[k] = "spin"
    /\ SpinEnds
    /\ \/ /\ armed' = TRUE
          /\ handed' = handed
          /\ flags' = flags \ {"LISTENER_PAUSED", "LISTENER_SUSPENDED"}
          /\ pc' = [pc EXCEPT ![k] = "started"]
       \/ /\ armed' = armed
          /\ handed' = handed + 1
          /\ flags' = flags \ {"LISTENER_PAUSED", "LISTENER_SUSPENDED", "IN_ENGINE"}
          /\ pc' = [pc EXCEPT ![k] = "none"]
    /\ UNCHANGED <<conn, arg, reported, backlog, listener, inAccept, accepts, load, touched>>

\* The LISTENER_STARTED notification, after the lock was released.
ListenerStarted(k) ==
    /\ pc[k] = "started"
    /\ Touch("started")
    /\ pc' = [pc EXCEPT ![k] = "none"]
    /\ UNCHANGED <<conn, arg, flags, armed, reported, backlog, listener, inAccept, accepts, handed, load, count>>

\* As if the listener were released with accepts under way.
DrainAtOnce(k) ==
    /\ pc[k] = "drain"
    /\ pc' = [pc EXCEPT ![k] = "release"]
    /\ UNCHANGED <<conn, arg, flags, armed, reported, backlog, listener, inAccept, accepts, handed, load, count, touched>>

\* "give child conns time to get out of their accept callbacks"
AcceptsDrained(k) ==
    /\ pc[k] = "drain" /\ inAccept < 1
    /\ pc' = [pc EXCEPT ![k] = "release"]
    /\ UNCHANGED <<conn, arg, flags, armed, reported, backlog, listener, inAccept, accepts, handed, load, count, touched>>

\* asyncListenerRelease, without the lock: the memory first, then the pointer.
asyncListenerRelease(k) ==
    \/ /\ pc[k] = "release"
       /\ listener' = "freed"
       /\ pc' = [pc EXCEPT ![k] = "null"]
       /\ UNCHANGED <<conn, arg, flags, armed, reported, backlog, inAccept, accepts, handed, load, count, touched>>
    \/ /\ pc[k] = "null"
       /\ listener' = "none"
       /\ pc' = [pc EXCEPT ![k] = "callback"]
       /\ UNCHANGED <<conn, arg, flags, armed, reported, backlog, inAccept, accepts, handed, load, count, touched>>

\* AsyncListenerCallback: out of the listener state, the socket closed, then the
\* consumer's listen callback, which frees the conn.
AsyncListenerCallback(k) ==
    \/ /\ pc[k] = "callback" /\ conn = "listener"
       /\ conn' = "idle"
       /\ backlog' = 0
       /\ UNCHANGED <<arg, flags, armed, reported, listener, inAccept, accepts, handed, pc, load, count, touched>>
    \/ /\ pc[k] = "callback" /\ conn = "idle"
       /\ conn' = "none"
       /\ flags' = {}
       /\ pc' = [pc EXCEPT ![k] = "none"]
       /\ UNCHANGED <<arg, armed, reported, backlog, listener, inAccept, accepts, handed, load, count, touched>>

-----------------------------------------------------------------------------
Poll == EpollReports \/ HandleKilled \/ HandleAcceptFails \/ \E b \in BOOLEAN : HandleAccept(b)

Work(k) ==
    \/ HandleSocketEvent(k) \/ sockEventListenerRequeue(k) \/ ListenerStarted(k)
    \/ AcceptsDrained(k) \/ asyncListenerRelease(k) \/ AsyncListenerCallback(k)

Next ==
    \/ ConnAListen \/ SocketListenerSuspend \/ SocketListenerResume \/ SocketEventKill
    \/ Connect \/ LoadChanges \/ CountUpdated
    \/ Poll
    \/ acceptPickup
    \/ \E k \in Worker : Work(k)

Spec == Init /\ [][Next]_vars

\* The poll thread and the pool run, and the consumer's accept callbacks return.
Fairness ==
    /\ WF_vars(Poll)
    /\ WF_vars(acceptPickup)
    /\ \A k \in Worker : WF_vars(Work(k))

FairSpec == Spec /\ Fairness

-----------------------------------------------------------------------------
(* Properties *)

TypeOK ==
    /\ conn \in {"none", "listener", "idle"}
    /\ {arg, armed, reported} \subseteq BOOLEAN
    /\ flags \subseteq {"IN_ENGINE", "LISTENER_KILLED", "LISTENER_PAUSED", "LISTENER_SUSPENDED"}
    /\ backlog \in 0 .. MaxBacklog
    /\ listener \in {"none", "alloc", "freed"}
    /\ inAccept \in 0 .. MaxAccepts /\ accepts \in 0 .. MaxAccepts
    /\ handed \in 0 .. 1
    /\ pc \in [Worker -> {"none", "spin", "started", "drain", "release", "null", "callback"}]
    /\ load \in 0 .. MaxLoad /\ count \in 0 .. MaxLoad
    /\ touched \subseteq {"consumer", "poll", "accept", "started"}

At(where) == Cardinality({k \in Worker : pc[k] \in where})
One(b) == IF b THEN 1 ELSE 0

\* A listener is in one place: watched by epoll, with the poll thread, on its
\* way to a worker, or with the one worker that pauses it; once it is unlinked
\* one worker carries it to the one callback that ends it.  Whatever pauses,
\* kills and refusals of epoll happen, it is neither lost nor ended twice.
OnePlace ==
    /\ One(armed) + One(reported) + handed + At({"spin", "drain", "release", "null", "callback"})
         = One(conn # "none")
    /\ arg = (armed \/ reported \/ handed = 1 \/ At({"spin"}) = 1)

\* Accept threads and the poll thread never use a listener that was released,
\* although it fails and is killed with accepts under way; only the consumer's
\* own calls and the notification after a requeue are exposed to that.
AcceptSafe ==
    /\ touched \subseteq {"consumer", "started"}
    /\ accepts = inAccept

\* A suspension ends only when the consumer resumes or kills the listener: the
\* worker that puts the listener back does not drop one that came meanwhile.
SuspensionKept == [][
    "LISTENER_SUSPENDED" \in flags \ flags' =>
        SocketListenerResume \/ "LISTENER_KILLED" \in flags' \/ conn' = "none"]_vars

\* A killed listener that epoll has something to report about ends with its
\* callback, even if it was paused or suspended or cannot be put back.
KillEnds == (arg /\ "LISTENER_KILLED" \in flags /\ backlog > 0) ~> ~arg

\* A pause ends once the load stays low and nobody suspends the listener.
PauseEnds ==
    <>[]("LISTENER_SUSPENDED" \notin flags /\ ~Exceeded(load)) => []<>("LISTENER_PAUSED" \notin flags \/ ~arg)
====
