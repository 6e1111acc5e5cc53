------------------------ MODULE HandleShutdownProofs ------------------------
(***************************************************************************)
(* Proofs about HandleShutdown, for every set of pool entries and every    *)
(* number of calls.                                                        *)
(***************************************************************************)
EXTENDS HandleShutdown, FiniteSetTheorems, TLAPS

-----------------------------------------------------------------------------
(* The inductive invariants.                                               *)

\* What the walk of a handle's shutdown aborts was flagged before.
AbortInv ==
    /\ AbortSticks
    /\ aborted # {} => shuttingDown
    /\ pc \in {"abort", "abortNext"} /\ op = "handle" => shuttingDown

\* The stages of connFreeEx, and what a listener's accepts say of it.
Stages == \A c \in Conn :
    /\ freeing[c] # "no" => state[c] = "SYNC"
    /\ accepts[c] = 1 => state[c] = "LISTENER"

\* The list holds what is in use until connFreeEx removes it.
Listed == \A c \in Conn :
    Contains(list, c) <=> state[c] # "FREE" /\ freeing[c] # "removed"

\* inCleanup counts the threads between SocketRelease and the end of connFreeEx.
Used == {c \in Conn : state[c] # "FREE"}
Freed == {c \in Conn : freeing[c] \in {"released", "removed"}}
Counted ==
    /\ IsFiniteSet(Used) /\ Cardinality(Used) + recycled <= calls
    /\ inCleanup = Cardinality(Freed) + recycled

\* Between two conns of a walk there is one it has come to.
Walking == pc \in {"abortNext", "closeNext"} => cur \in Conn

\* TypeOK without its bounds, which follow from Counted and Listed.
Typed ==
    /\ list \in Seq(Conn) /\ IsInjective(list)
    /\ stale \in [Conn -> Conn \cup {Nil}]
    /\ state \in [Conn -> {"FREE", "IDLE", "SYNC", "ENGINE", "COMPLETE", "LISTENER"}]
    /\ sp \in [Conn -> {"null", "open", "closed"}]
    /\ UNION {waiting, problem, killed, children, aborted} \subseteq Conn
    /\ accepts \in [Conn -> 0 .. 1]
    /\ freeing \in [Conn -> {"no", "begun", "released", "removed"}]
    /\ recycled \in Nat /\ inCleanup \in Nat /\ calls \in 0 .. MaxCalls /\ listens \in 0 .. 1
    /\ {shuttingDown, found, intruder} \subseteq BOOLEAN
    /\ op \in {"none", "children", "handle"}
    /\ cur \in Conn \cup {Nil}

PoolInv == Typed /\ Stages /\ Listed /\ Counted /\ Walking

\* What the last wait has seen stays true unless the consumer begins a call.
Waiting == {"wait1", "wait2", "wait3"}
LookingAgain == {"cleanup1", "cleanup2", "cleanup3"}
Left == {"flag", "returned"}

QuietInv ==
    /\ pc \in Waiting \cup LookingAgain \cup Left => op = "handle"
    /\ pc \in LookingAgain \cup Left /\ ~intruder => list = <<>>
    /\ pc \in Left /\ ~intruder => inCleanup = 0

-----------------------------------------------------------------------------
(* Aborted queues stay empty.                                              *)

\* What the other threads do to an aborted conn.
LEMMA AbortOthers == ASSUME AbortInv, OtherThreads PROVE AbortInv'
<1> USE DEF AbortInv, AbortSticks
<1>1. ASSUME UNCHANGED <<waiting, aborted, shuttingDown, op, pc>>
      PROVE  AbortInv'
  BY <1>1
<1>2. ASSUME NEW c \in Conn, EventEnqueue(c)
      PROVE  AbortInv'
  BY <1>2 DEF EventEnqueue, EventEngineQueueAdd, handleVars, opVars
<1>3. ASSUME NEW c \in Conn, TransactionDone(c) \/ ConnRecycle(c)
      PROVE  AbortInv'
  BY <1>3 DEF TransactionDone, ConnRecycle, handleVars, opVars
<1>4. ASSUME NEW c \in Conn, ConnConnect(c) \/ ConnAListen(c) \/ ListenerShutdown(c)
      PROVE  AbortInv'
  BY <1>1, <1>4 DEF ConnConnect, ConnAListen, ListenerShutdown, handleVars, opVars
<1>5. ASSUME NEW c \in Conn, FreeBegin(c) \/ SocketRelease(c) \/ ConnListRemove(c) \/ QueueCompleteNotify(c)
      PROVE  AbortInv'
  BY <1>1, <1>5 DEF FreeBegin, SocketRelease, ConnListRemove, QueueCompleteNotify, handleVars, opVars
<1>6. ASSUME NEW c \in Conn, NEW d \in Conn \cup {Nil},
             AcceptReady(c) \/ AsyncListenerCallback(c) \/ AcceptCallback(c, d)
      PROVE  AbortInv'
  BY <1>1, <1>6 DEF AcceptReady, AsyncListenerCallback, AcceptCallback, handleVars, opVars
<1>7. CASE ConnAListenChecks \/ FreeEnd
  BY <1>1, <1>7 DEF ConnAListenChecks, FreeEnd, connVars, handleVars, opVars
<1>8. QED
  BY <1>2, <1>3, <1>4, <1>5, <1>6, <1>7 DEF OtherThreads, Cleaning, Engine

\* The shutdown thread flags the handle before it aborts.
LEMMA AbortShutdown ==
    ASSUME AbortInv, ShutdownThread \/ \E what \in {"children", "handle"} : Shutdown(what)
    PROVE  AbortInv'
<1> USE DEF AbortInv, AbortSticks, Quiet, connVars, handleVars
<1>1. ASSUME UNCHANGED <<waiting, aborted, shuttingDown>>, pc' \notin {"abort", "abortNext"}
      PROVE  AbortInv'
  BY <1>1
<1>2. ASSUME NEW what \in {"children", "handle"}, Shutdown(what)
      PROVE  AbortInv'
  BY <1>1, <1>2 DEF Shutdown
<1>3. ASSUME NEW n \in Round, WaitHead(n) \/ WaitCleanup(n) \/ CountEnds(n)
      PROVE  AbortInv'
  <2>1. pc' \notin {"abort", "abortNext"}
    BY <1>3 DEF Round, WaitHead, WaitCleanup, CountEnds, Wait, Cleanup, Count, GiveUp
  <2>2. QED
    BY <1>1, <1>3, <2>1 DEF WaitHead, WaitCleanup, CountEnds
<1>4. ASSUME NEW n \in Round, NEW c \in Conn, CountConn(n, c)
      PROVE  AbortInv'
  BY <1>4 DEF CountConn
<1>5. CASE PreventNewEvents
  BY <1>5 DEF PreventNewEvents
<1>6. CASE NextConn
  BY <1>6 DEF NextConn
<1>7. CASE ReturnEarly \/ WalkEnds \/ Crash
  BY <1>7 DEF ReturnEarly, WalkEnds, Wait, Count, Crash
<1>8. ASSUME NEW c \in Conn, AbortConn(c)
      PROVE  AbortInv'
  BY <1>8 DEF AbortConn
<1>9. ASSUME NEW c \in Conn, CloseConn(c)
      PROVE  AbortInv'
  BY <1>1, <1>9 DEF CloseConn
<1>10. QED
  BY <1>2, <1>3, <1>4, <1>5, <1>6, <1>7, <1>8, <1>9 DEF ShutdownThread

\* The queue of an aborted conn never again holds an event, whatever was checked
\* before the handle was flagged.
THEOREM AbortsStick == Spec => []AbortSticks
<1>1. Init => AbortInv
  BY DEF Init, AbortInv, AbortSticks
<1>2. AbortInv /\ [Next]_vars => AbortInv'
  <2> SUFFICES ASSUME AbortInv, [Next]_vars
               PROVE  AbortInv'
    OBVIOUS
  <2>1. CASE UNCHANGED vars
    BY <2>1 DEF vars, connVars, handleVars, opVars, AbortInv, AbortSticks
  <2>2. QED
    BY <2>1, AbortOthers, AbortShutdown DEF Next
<1>3. AbortInv => AbortSticks
  BY DEF AbortInv
<1>4. QED
  BY <1>1, <1>2, <1>3, PTL DEF Spec

-----------------------------------------------------------------------------
(* The list of conns.                                                      *)

\* Sequences of bounded length.
LEMMA SeqOfFacts ==
    ASSUME NEW S, NEW n \in Nat, NEW q \in Seq(S), Len(q) <= n
    PROVE  q \in SeqOf(S, n)
<1>1. q \in [1 .. Len(q) -> S] /\ Len(q) \in 0 .. n
  OBVIOUS
<1>2. QED
  BY <1>1 DEF SeqOf

\* A conn is added at the end of the list.
LEMMA AppendFacts ==
    ASSUME NEW S, NEW q \in Seq(S), NEW c \in S, IsInjective(q), ~Contains(q, c)
    PROVE  /\ Append(q, c) \in Seq(S) /\ IsInjective(Append(q, c)) /\ Append(q, c) # <<>>
           /\ \A x : Contains(Append(q, c), x) <=> Contains(q, x) \/ x = c
<1> DEFINE r == Append(q, c)
<1>1. /\ r \in Seq(S) /\ Len(r) = Len(q) + 1 /\ Len(q) \in Nat
      /\ r[Len(q) + 1] = c /\ \A i \in 1 .. Len(q) : r[i] = q[i]
      /\ DOMAIN r = 1 .. Len(q) + 1 /\ DOMAIN q = 1 .. Len(q)
  OBVIOUS
<1> HIDE DEF r
<1>2. IsInjective(r)
  BY <1>1 DEF IsInjective, Contains
<1>3. ASSUME NEW x
      PROVE  Contains(r, x) <=> Contains(q, x) \/ x = c
  BY <1>1 DEF Contains
<1>4. r # <<>>
  BY <1>1
<1>5. QED
  BY <1>1, <1>2, <1>3, <1>4 DEF r

\* A conn is taken out of the list.
LEMMA RemoveAtFacts ==
    ASSUME NEW S, NEW q \in Seq(S), IsInjective(q), NEW i \in 1 .. Len(q)
    PROVE  /\ RemoveAt(q, i) \in Seq(S) /\ IsInjective(RemoveAt(q, i))
           /\ \A x : Contains(RemoveAt(q, i), x) <=> Contains(q, x) /\ x # q[i]
<1> DEFINE a == SubSeq(q, 1, i - 1)
           b == SubSeq(q, i + 1, Len(q))
           w == a \o b
<1>1. /\ a \in Seq(S) /\ Len(a) = i - 1
      /\ \A k \in 1 .. i - 1 : a[k] = q[k]
  OBVIOUS
<1>2. /\ b \in Seq(S) /\ Len(b) = Len(q) - i
      /\ \A k \in 1 .. Len(q) - i : b[k] = q[k + i]
  <2>1. CASE i < Len(q)
    BY <2>1
  <2>2. CASE i = Len(q)
    BY <2>2
  <2>3. QED
    BY <2>1, <2>2
<1> HIDE DEF a, b
<1>3. w \in Seq(S) /\ Len(w) = Len(a) + Len(b)
  <2>1. a \in Seq(S) /\ b \in Seq(S)
    BY <1>1, <1>2
  <2>2. QED
    BY <2>1
<1>4. Len(w) = Len(q) - 1 /\ Len(q) \in Nat
  BY <1>1, <1>2, <1>3
<1>5. \A k \in 1 .. Len(w) : w[k] = IF k < i THEN q[k] ELSE q[k + 1]
  <2> SUFFICES ASSUME NEW k \in 1 .. Len(w)
               PROVE  w[k] = IF k < i THEN q[k] ELSE q[k + 1]
    OBVIOUS
  <2>1. CASE k < i
    BY <2>1, <1>1, <1>2, <1>4
  <2>2. CASE k >= i
    <3>1. k - (i - 1) \in 1 .. Len(q) - i
      BY <2>2, <1>4
    <3>2. w[k] = b[k - (i - 1)]
      BY <2>2, <1>1, <1>2, <1>4
    <3>3. b[k - (i - 1)] = q[(k - (i - 1)) + i]
      BY <3>1, <1>2
    <3>4. (k - (i - 1)) + i = k + 1
      BY <1>4
    <3>5. QED
      BY <2>2, <3>2, <3>3, <3>4
  <2>3. QED
    BY <2>1, <2>2, <1>4
<1>6. w = RemoveAt(q, i)
  BY DEF RemoveAt, a, b
<1> HIDE DEF w
<1>7. DOMAIN w = 1 .. Len(w) /\ DOMAIN q = 1 .. Len(q)
  BY <1>3
<1>8. \A k, l \in 1 .. Len(q) : q[k] = q[l] => k = l
  BY <1>7 DEF IsInjective
<1>9. IsInjective(w)
  <2> SUFFICES ASSUME NEW k \in 1 .. Len(w), NEW l \in 1 .. Len(w), w[k] = w[l]
               PROVE  k = l
    BY <1>7 DEF IsInjective
  <2> DEFINE m == IF k < i THEN k ELSE k + 1
             n == IF l < i THEN l ELSE l + 1
  <2>1. m \in 1 .. Len(q) /\ n \in 1 .. Len(q) /\ w[k] = q[m] /\ w[l] = q[n]
    BY <1>4, <1>5
  <2>2. m = n
    BY <2>1, <1>8
  <2>3. QED
    BY <2>2
<1>10. ASSUME NEW x, Contains(w, x)
       PROVE  Contains(q, x) /\ x # q[i]
  <2>1. PICK k \in 1 .. Len(w) : w[k] = x
    BY <1>10 DEF Contains
  <2> DEFINE m == IF k < i THEN k ELSE k + 1
  <2>2. m \in 1 .. Len(q) /\ m # i /\ q[m] = x
    BY <2>1, <1>4, <1>5
  <2>3. QED
    BY <2>2, <1>8 DEF Contains
<1>11. ASSUME NEW x, Contains(q, x), x # q[i]
       PROVE  Contains(w, x)
  <2>1. PICK m \in 1 .. Len(q) : q[m] = x
    BY <1>11 DEF Contains
  <2>2. CASE m < i
    BY <2>1, <2>2, <1>4, <1>5 DEF Contains
  <2>3. CASE m > i
    <3>1. m - 1 \in 1 .. Len(w) /\ ~(m - 1 < i) /\ (m - 1) + 1 = m
      BY <2>3, <1>4
    <3>2. w[m - 1] = q[m]
      BY <3>1, <1>5
    <3>3. QED
      BY <2>1, <3>1, <3>2 DEF Contains
  <2>4. QED
    BY <2>1, <2>2, <2>3, <1>11
<1>12. QED
  BY <1>3, <1>6, <1>9, <1>10, <1>11

\* Where a conn is in the list.
LEMMA PositionFacts ==
    ASSUME list \in Seq(Conn), NEW c, Contains(list, c)
    PROVE  Position(c) \in 1 .. Len(list) /\ list[Position(c)] = c
<1>1. \E i \in DOMAIN list : list[i] = c
  BY DEF Contains
<1>2. Position(c) \in DOMAIN list /\ list[Position(c)] = c
  BY <1>1 DEF Position
<1>3. QED
  BY <1>2

\* What conn->list.next may be.
LEMMA NextOfType ==
    ASSUME Typed, NEW c \in Conn
    PROVE  NextOf(c) \in Conn \cup {Nil}
<1>1. CASE Contains(list, c)
  <2>1. Position(c) \in 1 .. Len(list)
    BY <1>1, PositionFacts DEF Typed
  <2>2. Position(c) # Len(list) => Position(c) + 1 \in 1 .. Len(list)
    BY <2>1
  <2>3. QED
    BY <1>1, <2>2 DEF NextOf, Typed
<1>2. CASE ~Contains(list, c)
  BY <1>2 DEF NextOf, Typed
<1>3. QED
  BY <1>1, <1>2

\* The first conn of a walk.
LEMMA BeginType ==
    ASSUME list \in Seq(Conn), NEW p
    PROVE  Begin(p) \in Conn \cup {Nil}
  BY DEF Begin

-----------------------------------------------------------------------------
(* The pool, the list and the count, action by action.                     *)

\* Threads that free a conn free one in use.
LEMMA FreedBound ==
    ASSUME PoolInv
    PROVE  /\ IsFiniteSet(Used) /\ IsFiniteSet(Freed)
           /\ Cardinality(Used) \in Nat /\ Cardinality(Freed) \in Nat
           /\ Cardinality(Freed) <= Cardinality(Used)
<1>1. Freed \subseteq Used /\ IsFiniteSet(Used)
  BY DEF PoolInv, Counted, Stages, Typed, Freed, Used
<1>2. QED
  BY <1>1, FS_Subset, FS_CardinalityType

\* Steps that change neither the list nor who is in use and who is freed.
LEMMA PoolFrame ==
    ASSUME PoolInv, Typed', Stages', Walking',
           UNCHANGED <<list, recycled, inCleanup, calls>>,
           \A c \in Conn : /\ (state'[c] = "FREE") = (state[c] = "FREE")
                           /\ (freeing'[c] = "removed") = (freeing[c] = "removed")
                           /\ (freeing'[c] = "released") = (freeing[c] = "released")
    PROVE  PoolInv'
<1>1. Used' = Used
  BY DEF Used
<1>2. Freed' = Freed
  BY DEF Freed
<1>3. Counted'
  BY <1>1, <1>2 DEF PoolInv, Counted
<1>4. Listed'
  BY DEF PoolInv, Listed
<1>5. QED
  BY <1>3, <1>4 DEF PoolInv

\* A conn is allocated.
LEMMA PoolAlloc ==
    ASSUME PoolInv, NEW c \in Conn, NEW st \in {"IDLE", "LISTENER"}, _ConnAlloc(c, st),
           UNCHANGED <<freeing, recycled, inCleanup>>
    PROVE  /\ list' \in Seq(Conn) /\ IsInjective(list') /\ list' # <<>>
           /\ state' \in [Conn -> {"FREE", "IDLE", "SYNC", "ENGINE", "COMPLETE", "LISTENER"}]
           /\ sp' \in [Conn -> {"null", "open", "closed"}]
           /\ calls' \in 0 .. MaxCalls
           /\ Listed' /\ Counted' /\ freeing[c] = "no" /\ accepts[c] = 0
<1> USE DEF PoolInv, _ConnAlloc, Move
<1>1. state[c] = "FREE" /\ freeing[c] = "no" /\ accepts[c] = 0 /\ ~Contains(list, c)
  BY DEF Stages, Typed, Listed
<1>2. /\ list' \in Seq(Conn) /\ IsInjective(list') /\ list' # <<>>
      /\ \A x : Contains(list', x) <=> Contains(list, x) \/ x = c
  BY <1>1, AppendFacts DEF Typed
<1>3. /\ state' \in [Conn -> {"FREE", "IDLE", "SYNC", "ENGINE", "COMPLETE", "LISTENER"}]
      /\ sp' \in [Conn -> {"null", "open", "closed"}]
      /\ calls' \in 0 .. MaxCalls
  BY HandleAssumption DEF Typed
<1>4. Listed'
  BY <1>1, <1>2 DEF Listed, Typed
<1>5. Used' = Used \cup {c} /\ c \notin Used
  BY <1>1 DEF Used, Typed
<1>6. Freed' = Freed
  BY DEF Freed
<1>7. IsFiniteSet(Used') /\ Cardinality(Used') = Cardinality(Used) + 1
  BY <1>5, FreedBound, FS_AddElement
<1>8. Counted'
  BY <1>6, <1>7, FreedBound DEF Counted, Typed
<1>9. QED
  BY <1>1, <1>2, <1>3, <1>4, <1>8

\* The consumer takes a conn.
LEMMA AllocInv ==
    ASSUME PoolInv, NEW c \in Conn, ConnConnect(c) \/ ConnAListen(c)
    PROVE  PoolInv'
<1> DEFINE st == IF ConnConnect(c) THEN "IDLE" ELSE "LISTENER"
<1>1. st \in {"IDLE", "LISTENER"} /\ _ConnAlloc(c, st)
  BY DEF ConnConnect, ConnAListen
<1>2. UNCHANGED <<stale, waiting, problem, killed, accepts, children, freeing, handleVars, opVars, aborted>>
  BY DEF ConnConnect, ConnAListen
<1>3. /\ list' \in Seq(Conn) /\ IsInjective(list')
      /\ state' \in [Conn -> {"FREE", "IDLE", "SYNC", "ENGINE", "COMPLETE", "LISTENER"}]
      /\ sp' \in [Conn -> {"null", "open", "closed"}]
      /\ calls' \in 0 .. MaxCalls
      /\ Listed' /\ Counted' /\ freeing[c] = "no" /\ accepts[c] = 0
  BY <1>1, <1>2, PoolAlloc DEF handleVars
<1>4. listens' \in 0 .. 1 /\ intruder' \in BOOLEAN
  <2>1. listens' = listens \/ listens' = 0
    BY DEF ConnConnect, ConnAListen
  <2>2. intruder' = (intruder \/ Seen)
    BY DEF ConnConnect, ConnAListen
  <2>3. intruder' \in BOOLEAN
    BY <2>2
  <2>4. QED
    BY <2>1, <2>3 DEF PoolInv, Typed
<1>5. Typed'
  BY <1>2, <1>3, <1>4 DEF PoolInv, Typed, handleVars, opVars
<1>6. Stages'
  BY <1>1, <1>2, <1>3 DEF PoolInv, Typed, Stages, _ConnAlloc, Move
<1>7. Walking'
  BY <1>2 DEF PoolInv, Walking, opVars
<1>8. QED
  BY <1>3, <1>5, <1>6, <1>7 DEF PoolInv

\* A listener's accept thread takes a conn for its child, or gives up.
LEMMA AcceptInv ==
    ASSUME PoolInv, NEW l \in Conn, NEW c \in Conn \cup {Nil}, AcceptCallback(l, c)
    PROVE  PoolInv'
<1> USE DEF AcceptCallback, handleVars, opVars
<1>1. CASE c = Nil
  <2>1. Typed'
    BY <1>1 DEF PoolInv, Typed
  <2>2. Stages' /\ Walking'
    BY <1>1 DEF PoolInv, Typed, Stages, Walking
  <2>3. QED
    BY <1>1, <2>1, <2>2, PoolFrame
<1>2. CASE c \in Conn
  <2>1. _ConnAlloc(c, "IDLE") /\ children' = children \cup {c}
    BY <1>2, HandleAssumption
  <2>2. /\ list' \in Seq(Conn) /\ IsInjective(list')
        /\ state' \in [Conn -> {"FREE", "IDLE", "SYNC", "ENGINE", "COMPLETE", "LISTENER"}]
        /\ sp' \in [Conn -> {"null", "open", "closed"}]
        /\ calls' \in 0 .. MaxCalls
        /\ Listed' /\ Counted' /\ freeing[c] = "no" /\ accepts[c] = 0
    BY <1>2, <2>1, PoolAlloc
  <2>3. accepts' \in [Conn -> 0 .. 1] /\ children' \subseteq Conn
    BY <1>2, <2>1 DEF PoolInv, Typed
  <2>4. Typed'
    BY <1>2, <2>2, <2>3 DEF PoolInv, Typed
  <2>5. Stages'
    BY <1>2, <2>1, <2>2 DEF PoolInv, Typed, Stages, _ConnAlloc, Move
  <2>6. Walking'
    BY DEF PoolInv, Walking
  <2>7. QED
    BY <2>2, <2>4, <2>5, <2>6 DEF PoolInv
<1>3. QED
  BY <1>1, <1>2

\* Listeners and transactions: conns in use stay in use.
LEMMA LiveInv ==
    ASSUME PoolInv, NEW c \in Conn,
           \/ AcceptReady(c) \/ ListenerShutdown(c) \/ AsyncListenerCallback(c)
           \/ EventEnqueue(c) \/ TransactionDone(c) \/ QueueCompleteNotify(c) \/ FreeBegin(c)
    PROVE  PoolInv'
<1> USE DEF PoolInv, handleVars, opVars
<1>1. CASE AcceptReady(c) \/ ListenerShutdown(c)
  <2> USE DEF AcceptReady, ListenerShutdown
  <2>1. Typed'
    BY <1>1 DEF Typed
  <2>2. Stages' /\ Walking'
    BY <1>1 DEF Typed, Stages, Walking
  <2>3. QED
    BY <1>1, <2>1, <2>2, PoolFrame
<1>2. CASE AsyncListenerCallback(c) \/ TransactionDone(c) \/ QueueCompleteNotify(c)
  <2> USE DEF AsyncListenerCallback, TransactionDone, QueueCompleteNotify, Move
  <2>1. Typed'
    BY <1>2 DEF Typed
  <2>2. Stages' /\ Walking'
    BY <1>2 DEF Typed, Stages, Walking
  <2>3. \A d \in Conn : (state'[d] = "FREE") = (state[d] = "FREE")
    BY <1>2 DEF Typed
  <2>4. QED
    BY <1>2, <2>1, <2>2, <2>3, PoolFrame
<1>3. CASE EventEnqueue(c)
  <2> USE DEF EventEnqueue, EventEngineQueueAdd, Idle
  <2>1. Typed'
    BY <1>3 DEF Typed
  <2>2. Stages' /\ Walking'
    BY <1>3 DEF Typed, Stages, Walking
  <2>3. \A d \in Conn : (state'[d] = "FREE") = (state[d] = "FREE")
    BY <1>3 DEF Typed
  <2>4. QED
    BY <1>3, <2>1, <2>2, <2>3, PoolFrame
<1>4. CASE FreeBegin(c)
  <2> USE DEF FreeBegin, Idle
  <2>1. Typed'
    BY <1>4 DEF Typed
  <2>2. Stages' /\ Walking'
    BY <1>4 DEF Typed, Stages, Walking
  <2>3. \A d \in Conn : /\ (state'[d] = "FREE") = (state[d] = "FREE")
                        /\ (freeing'[d] = "removed") = (freeing[d] = "removed")
                        /\ (freeing'[d] = "released") = (freeing[d] = "released")
    BY <1>4 DEF Typed
  <2>4. QED
    BY <1>4, <2>1, <2>2, <2>3, PoolFrame
<1>5. QED
  BY <1>1, <1>2, <1>3, <1>4

\* connFreeEx counts itself in.
LEMMA SocketReleaseInv ==
    ASSUME PoolInv, NEW c \in Conn, SocketRelease(c)
    PROVE  PoolInv'
<1> USE DEF PoolInv, SocketRelease, opVars
<1>1. Typed' /\ Stages' /\ Walking'
  BY DEF Typed, Stages, Walking
<1>2. Listed'
  BY DEF Typed, Listed
<1>3. Used' = Used
  BY DEF Used
<1>4. Freed' = Freed \cup {c} /\ c \notin Freed
  BY DEF Freed, Typed
<1>5. Cardinality(Freed') = Cardinality(Freed) + 1
  BY <1>4, FreedBound, FS_AddElement
<1>6. Counted'
  BY <1>3, <1>5, FreedBound DEF Counted, Typed
<1>7. QED
  BY <1>1, <1>2, <1>6

\* The conn leaves the list.
LEMMA ListRemoveInv ==
    ASSUME PoolInv, NEW c \in Conn, ConnListRemove(c)
    PROVE  PoolInv'
<1> USE DEF PoolInv, ConnListRemove, handleVars, opVars
<1>1. Contains(list, c)
  BY DEF Typed, Stages, Listed
<1>2. Position(c) \in 1 .. Len(list) /\ list[Position(c)] = c
  BY <1>1, PositionFacts DEF Typed
<1>3. /\ list' \in Seq(Conn) /\ IsInjective(list')
      /\ \A x : Contains(list', x) <=> Contains(list, x) /\ x # c
  BY <1>2, RemoveAtFacts DEF Typed
<1>4. Typed'
  BY <1>3, NextOfType DEF Typed
<1>5. Stages' /\ Walking'
  BY DEF Typed, Stages, Walking
<1>6. Listed'
  BY <1>3 DEF Typed, Listed
<1>7. Used' = Used /\ Freed' = Freed
  BY DEF Used, Freed, Typed
<1>8. Counted'
  BY <1>7 DEF Counted
<1>9. QED
  BY <1>4, <1>5, <1>6, <1>8

\* The conn goes back to the pool; its thread is still counted.
LEMMA RecycleInv ==
    ASSUME PoolInv, NEW c \in Conn, ConnRecycle(c)
    PROVE  PoolInv'
<1> USE DEF PoolInv, ConnRecycle, opVars
<1>1. Typed'
  BY DEF Typed
<1>2. Stages' /\ Walking'
  BY DEF Typed, Stages, Walking
<1>3. Listed'
  BY DEF Typed, Stages, Listed
<1>4. Used' = Used \ {c} /\ c \in Used
  BY DEF Used, Typed, Stages
<1>5. Freed' = Freed \ {c} /\ c \in Freed
  BY DEF Freed, Typed
<1>6. /\ IsFiniteSet(Used') /\ Cardinality(Used') = Cardinality(Used) - 1
      /\ Cardinality(Freed') = Cardinality(Freed) - 1
  BY <1>4, <1>5, FreedBound, FS_RemoveElement
<1>7. Counted'
  BY <1>6, FreedBound DEF Counted, Typed
<1>8. QED
  BY <1>1, <1>2, <1>3, <1>7

\* The thread that freed a conn is done with the handle.
LEMMA FreeEndInv ==
    ASSUME PoolInv, FreeEnd
    PROVE  PoolInv'
<1> USE DEF PoolInv, FreeEnd, connVars, opVars
<1>1. inCleanup' \in Nat /\ recycled' \in Nat /\ Cardinality(Freed) \in Nat
  BY FreedBound DEF Typed, Counted
<1>2. Typed'
  BY <1>1 DEF Typed
<1>3. Stages' /\ Listed' /\ Walking'
  BY DEF Stages, Listed, Walking
<1>4. Used' = Used /\ Freed' = Freed
  BY DEF Used, Freed
<1>5. Counted'
  BY <1>4, FreedBound DEF Counted, Typed
<1>6. QED
  BY <1>2, <1>3, <1>5

\* ConnAListen checks the handle.
LEMMA ChecksInv ==
    ASSUME PoolInv, ConnAListenChecks
    PROVE  PoolInv'
<1> USE DEF PoolInv, ConnAListenChecks, connVars, handleVars, opVars
<1>1. Typed'
  BY DEF Typed
<1>2. Stages' /\ Walking'
  BY DEF Stages, Walking
<1>3. QED
  BY <1>1, <1>2, PoolFrame

\* The shutdown thread does not change the list.
LEMMA ShutdownInv ==
    ASSUME PoolInv, ShutdownThread \/ \E what \in {"children", "handle"} : Shutdown(what)
    PROVE  PoolInv'
<1> USE DEF PoolInv, Quiet, connVars, handleVars
<1>1. ASSUME UNCHANGED <<list, stale, state, accepts, children, freeing, recycled, inCleanup, calls, listens, intruder>>,
             sp' \in [Conn -> {"null", "open", "closed"}],
             UNION {waiting', problem', killed', aborted'} \subseteq Conn,
             shuttingDown' \in BOOLEAN, found' \in BOOLEAN,
             op' \in {"none", "children", "handle"}, cur' \in Conn \cup {Nil},
             pc' \in {"abortNext", "closeNext"} => cur' \in Conn
      PROVE  PoolInv'
  <2>1. Typed'
    BY <1>1 DEF Typed
  <2>2. Stages' /\ Walking'
    BY <1>1 DEF Stages, Walking
  <2>3. QED
    BY <1>1, <2>1, <2>2, PoolFrame
<1>2. ASSUME UNCHANGED Quiet, found' \in BOOLEAN,
             op' \in {"none", "children", "handle"}, cur' \in Conn \cup {Nil},
             pc' \in {"abortNext", "closeNext"} => cur' \in Conn
      PROVE  PoolInv'
  BY <1>1, <1>2 DEF Typed
<1>3. found \in BOOLEAN /\ op \in {"none", "children", "handle"} /\ list \in Seq(Conn)
  BY DEF Typed
<1>4. ASSUME NEW what \in {"children", "handle"}, Shutdown(what)
      PROVE  PoolInv'
  BY <1>2, <1>4, <1>3, BeginType DEF Shutdown
<1>5. ASSUME NEW n \in Round, WaitHead(n) \/ WaitCleanup(n) \/ CountEnds(n)
      PROVE  PoolInv'
  <2>1. pc' \notin {"abortNext", "closeNext"}
    BY <1>5 DEF Round, WaitHead, WaitCleanup, CountEnds, Wait, Cleanup, Count, GiveUp
  <2>2. cur' \in Conn \cup {Nil}
    BY <1>5, <1>3, BeginType DEF WaitHead, WaitCleanup, CountEnds
  <2>3. QED
    BY <1>2, <1>3, <1>5, <2>1, <2>2 DEF WaitHead, WaitCleanup, CountEnds
<1>6. ASSUME NEW n \in Round, NEW c \in Conn, CountConn(n, c)
      PROVE  PoolInv'
  <2>1. pc' \notin {"abortNext", "closeNext"}
    BY <1>6 DEF Round, CountConn, Count
  <2>2. cur' \in Conn \cup {Nil} /\ found' \in BOOLEAN
    BY <1>3, <1>6, NextOfType DEF CountConn
  <2>3. QED
    BY <1>2, <1>3, <1>6, <2>1, <2>2 DEF CountConn
<1>7. CASE NextConn
  <2>1. cur' \in Conn \cup {Nil}
    BY <1>7, NextOfType DEF NextConn, Walking
  <2>2. QED
    BY <1>2, <1>3, <1>7, <2>1 DEF NextConn
<1>8. CASE WalkEnds \/ Crash
  <2>1. cur' \in Conn \cup {Nil}
    BY <1>8, <1>3, BeginType DEF WalkEnds, Crash, Typed
  <2>2. pc' \notin {"abortNext", "closeNext"}
    BY <1>8 DEF WalkEnds, Crash, Wait, Count
  <2>3. QED
    BY <1>2, <1>3, <1>8, <2>1, <2>2 DEF WalkEnds, Crash
<1>9. CASE ReturnEarly \/ PreventNewEvents
  <2>1. cur' \in Conn \cup {Nil}
    BY <1>9, <1>3, BeginType DEF ReturnEarly, PreventNewEvents, Typed
  <2>2. shuttingDown' \in BOOLEAN
    BY <1>9 DEF ReturnEarly, PreventNewEvents
  <2>3. QED
    BY <1>1, <1>3, <1>9, <2>1, <2>2 DEF ReturnEarly, PreventNewEvents, Typed
<1>10. ASSUME NEW c \in Conn, AbortConn(c)
       PROVE  PoolInv'
  <2>1. /\ sp' \in [Conn -> {"null", "open", "closed"}]
        /\ UNION {waiting', problem', killed', aborted'} \subseteq Conn
    BY <1>10 DEF AbortConn, Typed
  <2>2. QED
    BY <1>1, <1>10, <2>1 DEF AbortConn, Typed
<1>11. ASSUME NEW c \in Conn, CloseConn(c)
       PROVE  PoolInv'
  <2>1. /\ sp' \in [Conn -> {"null", "open", "closed"}]
        /\ UNION {waiting', problem', killed', aborted'} \subseteq Conn
    BY <1>11 DEF CloseConn, Typed
  <2>2. QED
    BY <1>1, <1>11, <2>1 DEF CloseConn, Typed
<1>12. QED
  BY <1>4, <1>5, <1>6, <1>7, <1>8, <1>9, <1>10, <1>11 DEF ShutdownThread

\* Every step keeps the pool's invariant.
LEMMA PoolStep == PoolInv /\ [Next]_vars => PoolInv'
<1> SUFFICES ASSUME PoolInv, [Next]_vars
             PROVE  PoolInv'
  OBVIOUS
<1>1. CASE OtherThreads
  BY <1>1, AllocInv, AcceptInv, LiveInv, SocketReleaseInv, ListRemoveInv, RecycleInv, FreeEndInv, ChecksInv
     DEF OtherThreads, Cleaning, Engine
<1>2. CASE UNCHANGED vars
  <2>1. Typed'
    BY <1>2 DEF vars, connVars, handleVars, opVars, PoolInv, Typed
  <2>2. Stages' /\ Walking'
    BY <1>2 DEF vars, connVars, handleVars, opVars, PoolInv, Stages, Walking
  <2>3. QED
    BY <1>2, <2>1, <2>2, PoolFrame DEF vars, connVars, handleVars, opVars
<1>3. QED
  BY <1>1, <1>2, ShutdownInv DEF Next

\* The pool's invariant holds before the first call.
LEMMA PoolInit == Init => PoolInv
<1> SUFFICES ASSUME Init
             PROVE  PoolInv
  OBVIOUS
<1>1. Typed
  <2>1. {shuttingDown, found, intruder} \subseteq BOOLEAN
    BY DEF Init
  <2>2. list \in Seq(Conn) /\ IsInjective(list)
    BY DEF Init, IsInjective
  <2>3. QED
    BY <2>1, <2>2, HandleAssumption DEF Init, Typed
<1>2. Stages /\ Walking
  BY DEF Init, Stages, Walking
<1>3. Listed
  BY DEF Init, Listed, Contains
<1>4. Used = {} /\ Freed = {}
  BY DEF Init, Used, Freed
<1>5. Counted
  BY <1>4, FS_EmptySet DEF Init, Counted
<1>6. QED
  BY <1>1, <1>2, <1>3, <1>5 DEF PoolInv

\* The pool's inductive invariant holds in every reachable state.
THEOREM PoolSafe == Spec => []PoolInv
<1>1. QED
  BY PoolInit, PoolStep, PTL DEF Spec

-----------------------------------------------------------------------------
(* The bounds of TypeOK.                                                   *)

\* The list is no longer than the number of conns in use, and no more threads
\* free conns than there were calls that allocated one.
LEMMA PoolBounds == PoolInv => TypeOK
<1> SUFFICES ASSUME PoolInv
             PROVE  TypeOK
  OBVIOUS
<1>1. /\ Cardinality(Used) \in Nat /\ Cardinality(Freed) \in Nat /\ IsFiniteSet(Used)
      /\ Cardinality(Freed) <= Cardinality(Used)
  BY FreedBound
<1>2. /\ recycled \in Nat /\ inCleanup \in Nat /\ calls \in Nat /\ calls <= MaxCalls /\ MaxCalls \in Nat
      /\ Cardinality(Used) + recycled <= calls /\ inCleanup = Cardinality(Freed) + recycled
  BY HandleAssumption DEF PoolInv, Typed, Counted
<1>3. recycled <= MaxCalls /\ inCleanup <= MaxCalls /\ Cardinality(Used) <= MaxCalls
  BY <1>1, <1>2
<1>4. Len(list) <= Cardinality(Used)
  <2>1. list \in Seq(Conn) /\ Len(list) \in Nat /\ DOMAIN list = 1 .. Len(list)
    BY DEF PoolInv, Typed
  <2>2. \A i \in 1 .. Len(list) : list[i] \in Used
    <3> SUFFICES ASSUME NEW i \in 1 .. Len(list)
                 PROVE  list[i] \in Used
      OBVIOUS
    <3>1. list[i] \in Conn /\ Contains(list, list[i])
      BY <2>1 DEF Contains
    <3>2. QED
      BY <3>1 DEF PoolInv, Listed, Used
  <2>3. list \in [1 .. Len(list) -> Used]
    BY <2>1, <2>2
  <2>4. IsInjective(list)
    BY DEF PoolInv, Typed
  <2>5. list \in Injection(1 .. Len(list), Used)
    BY <2>3, <2>4 DEF Injection
  <2>6. IsFiniteSet(1 .. Len(list)) /\ Cardinality(1 .. Len(list)) = Len(list)
    BY <2>1, FS_Interval
  <2>7. QED
    BY <1>1, <2>5, <2>6, FS_Injection
<1>5. list \in SeqOf(Conn, MaxCalls)
  <2>1. list \in Seq(Conn) /\ Len(list) <= MaxCalls
    BY <1>1, <1>2, <1>3, <1>4 DEF PoolInv, Typed
  <2>2. QED
    BY <2>1, <1>2, SeqOfFacts
<1>6. QED
  BY <1>2, <1>3, <1>5 DEF PoolInv, Typed, TypeOK

\* Type correctness: the list never holds a conn twice, and it and inCleanup
\* never grow beyond the calls that allocated conns.
THEOREM HandleTypeCorrect == Spec => []TypeOK
<1>1. QED
  BY PoolSafe, PoolBounds, PTL

\* The counts behind it: the list holds the conns in use that connFreeEx has not
\* removed, and inCleanup is the number of threads that use the handle on their
\* way out of connFreeEx, so the last of them can be waited for.
THEOREM ListAndCleanupAreExact == Spec => [](Listed /\ Counted)
<1>1. PoolInv => Listed /\ Counted
  BY DEF PoolInv
<1>2. QED
  BY <1>1, PoolSafe, PTL

-----------------------------------------------------------------------------
(* What the last wait has seen.                                            *)

\* With the list empty and no thread counted, every conn is in the pool and no
\* accept thread is at work.
LEMMA EmptyMeansFree ==
    ASSUME PoolInv, list = <<>>
    PROVE  /\ \A c \in Conn : state[c] = "FREE" \/ freeing[c] = "removed"
           /\ \A c \in Conn : accepts[c] = 0 /\ freeing[c] \in {"no", "removed"}
           /\ inCleanup = 0 => recycled = 0 /\ \A c \in Conn : state[c] = "FREE"
<1>1. \A c \in Conn : state[c] = "FREE" \/ freeing[c] = "removed"
  BY DEF PoolInv, Listed, Contains
<1>2. \A c \in Conn : accepts[c] = 0 /\ freeing[c] \in {"no", "removed"}
  BY <1>1 DEF PoolInv, Stages, Typed
<1>3. ASSUME inCleanup = 0
      PROVE  recycled = 0 /\ \A c \in Conn : state[c] = "FREE"
  <2>1. Cardinality(Freed) = 0 /\ recycled = 0
    BY <1>3, FreedBound DEF PoolInv, Counted, Typed
  <2>2. Freed = {}
    BY <2>1, FreedBound, FS_EmptySet
  <2>3. QED
    BY <1>1, <2>1, <2>2 DEF Freed
<1>4. QED
  BY <1>1, <1>2, <1>3

\* Steps of the other threads: a conn comes into the list only by a call of the
\* consumer once the list has been seen empty, and the count only falls.
LEMMA QuietOthers ==
    ASSUME PoolInv, QuietInv, OtherThreads
    PROVE  QuietInv'
<1> USE DEF QuietInv, Waiting, LookingAgain, Left
<1>1. ASSUME UNCHANGED <<list, inCleanup, op, pc, intruder>>
      PROVE  QuietInv'
  BY <1>1
<1>2. ASSUME NEW c \in Conn, ConnConnect(c) \/ ConnAListen(c)
      PROVE  QuietInv'
  <2>1. UNCHANGED <<op, pc>> /\ intruder' = (intruder \/ Seen)
    BY <1>2 DEF ConnConnect, ConnAListen, opVars
  <2>2. pc \in LookingAgain \cup Left => intruder'
    BY <2>1 DEF Seen
  <2>3. QED
    BY <2>1, <2>2
<1>3. ASSUME NEW l \in Conn, NEW c \in Conn \cup {Nil}, AcceptCallback(l, c)
      PROVE  QuietInv'
  <2>1. UNCHANGED <<op, pc, intruder, inCleanup>> /\ accepts[l] = 1
    BY <1>3 DEF AcceptCallback, opVars, handleVars
  <2>2. list # <<>>
    BY <2>1, EmptyMeansFree
  <2>3. QED
    BY <2>1, <2>2
<1>4. ASSUME NEW c \in Conn, SocketRelease(c)
      PROVE  QuietInv'
  <2>1. UNCHANGED <<op, pc, intruder, list>> /\ freeing[c] = "begun"
    BY <1>4 DEF SocketRelease, opVars
  <2>2. list # <<>>
    BY <2>1, EmptyMeansFree
  <2>3. QED
    BY <2>1, <2>2
<1>5. ASSUME NEW c \in Conn, ConnListRemove(c)
      PROVE  QuietInv'
  <2>1. UNCHANGED <<op, pc, intruder, inCleanup>> /\ freeing[c] = "released"
    BY <1>5 DEF ConnListRemove, opVars, handleVars
  <2>2. list # <<>>
    BY <2>1, EmptyMeansFree
  <2>3. QED
    BY <2>1, <2>2
<1>6. CASE FreeEnd
  <2>1. UNCHANGED <<op, pc, intruder, list>> /\ recycled > 0
    BY <1>6 DEF FreeEnd, opVars
  <2>2. list = <<>> => inCleanup # 0
    BY <2>1, EmptyMeansFree
  <2>3. QED
    BY <2>1, <2>2
<1>7. ASSUME NEW c \in Conn,
             \/ AcceptReady(c) \/ ListenerShutdown(c) \/ AsyncListenerCallback(c)
             \/ EventEnqueue(c) \/ TransactionDone(c) \/ QueueCompleteNotify(c) \/ FreeBegin(c)
      PROVE  QuietInv'
  BY <1>1, <1>7 DEF AcceptReady, ListenerShutdown, AsyncListenerCallback, EventEnqueue,
     TransactionDone, QueueCompleteNotify, FreeBegin, handleVars, opVars
<1>8. ASSUME NEW c \in Conn, ConnRecycle(c)
      PROVE  QuietInv'
  BY <1>1, <1>8 DEF ConnRecycle, opVars
<1>9. CASE ConnAListenChecks
  BY <1>1, <1>9 DEF ConnAListenChecks, connVars, handleVars, opVars
<1>10. QED
  BY <1>2, <1>3, <1>4, <1>5, <1>6, <1>7, <1>8, <1>9 DEF OtherThreads, Cleaning, Engine

\* The shutdown thread looks at the list, then at the count.
LEMMA QuietShutdown ==
    ASSUME QuietInv, ShutdownThread \/ \E what \in {"children", "handle"} : Shutdown(what)
    PROVE  QuietInv'
<1> USE DEF QuietInv, Waiting, LookingAgain, Left, Quiet, handleVars
<1>1. ASSUME UNCHANGED <<list, inCleanup, intruder>>, pc' \notin Waiting \cup LookingAgain \cup Left
      PROVE  QuietInv'
  BY <1>1
<1>2. ASSUME NEW what \in {"children", "handle"}, Shutdown(what)
      PROVE  QuietInv'
  BY <1>2 DEF Shutdown
<1>3. ASSUME NEW n \in Round, WaitHead(n)
      PROVE  QuietInv'
  <2>1. pc \in Waiting
    BY <1>3 DEF WaitHead, Round, Wait
  <2>2. op = "handle" /\ op' = "handle" /\ UNCHANGED <<list, inCleanup, intruder>>
    BY <1>3, <2>1 DEF WaitHead
  <2>3. pc' \notin Left /\ (pc' \in LookingAgain => list = <<>>)
    BY <1>3, <2>2 DEF WaitHead, Round, Wait, Cleanup, GiveUp
  <2>4. QED
    BY <2>2, <2>3
<1>4. ASSUME NEW n \in Round, WaitCleanup(n)
      PROVE  QuietInv'
  <2>1. pc \in LookingAgain
    BY <1>4 DEF WaitCleanup, Round, Cleanup
  <2>2. op = "handle" /\ op' = "handle" /\ UNCHANGED <<list, inCleanup, intruder>>
    BY <1>4, <2>1 DEF WaitCleanup
  <2>3. pc' \notin LookingAgain /\ (pc' \in Left => inCleanup = 0)
    BY <1>4, <2>2 DEF WaitCleanup, Round, Wait, Cleanup, GiveUp
  <2>4. QED
    BY <2>1, <2>2, <2>3
<1>5. ASSUME NEW n \in Round, CountEnds(n)
      PROVE  QuietInv'
  <2>1. UNCHANGED <<op, list, inCleanup, intruder>>
    BY <1>5 DEF CountEnds
  <2>2. pc' \in {"idle", "count1", "count2", "count3", "prevent", "close"} \/ (pc' = "wait3" /\ op = "handle")
    BY <1>5 DEF CountEnds, Round, Count, GiveUp
  <2>3. QED
    BY <2>1, <2>2
<1>6. ASSUME NEW n \in Round, NEW c \in Conn, CountConn(n, c)
      PROVE  QuietInv'
  BY <1>6 DEF CountConn
<1>7. CASE ReturnEarly
  BY <1>7 DEF ReturnEarly
<1>8. CASE PreventNewEvents
  BY <1>1, <1>8 DEF PreventNewEvents
<1>9. CASE NextConn
  BY <1>1, <1>9 DEF NextConn
<1>10. CASE Crash
  BY <1>1, <1>10 DEF Crash
<1>11. CASE WalkEnds
  <2>1. UNCHANGED <<op, list, inCleanup, intruder>>
    BY <1>11 DEF WalkEnds
  <2>2. pc' \in {"count2", "count3"} \/ (pc' \in Waiting /\ op = "handle")
    BY <1>11 DEF WalkEnds, Wait, Count
  <2>3. QED
    BY <2>1, <2>2
<1>12. ASSUME NEW c \in Conn, AbortConn(c) \/ CloseConn(c)
       PROVE  QuietInv'
  BY <1>1, <1>12 DEF AbortConn, CloseConn
<1>13. QED
  BY <1>2, <1>3, <1>4, <1>5, <1>6, <1>7, <1>8, <1>9, <1>10, <1>11, <1>12 DEF ShutdownThread

\* When ConnHandleShutdown returns and no call of the consumer came in between,
\* every conn is back in the pool and no thread uses the handle for one.
THEOREM ShutdownLeavesQuiet == Spec => []HandleQuiet
<1>1. Init => QuietInv
  BY DEF Init, QuietInv, Waiting, LookingAgain, Left
<1>2. PoolInv /\ QuietInv /\ [Next]_vars => QuietInv'
  <2> SUFFICES ASSUME PoolInv, QuietInv, [Next]_vars
               PROVE  QuietInv'
    OBVIOUS
  <2>1. CASE UNCHANGED vars
    BY <2>1 DEF vars, handleVars, opVars, QuietInv
  <2>2. QED
    BY <2>1, QuietOthers, QuietShutdown DEF Next
<1>3. PoolInv /\ QuietInv => HandleQuiet
  BY EmptyMeansFree DEF QuietInv, HandleQuiet, LookingAgain, Left
<1>4. QED
  BY <1>1, <1>2, <1>3, PoolSafe, PTL DEF Spec

=============================================================================
