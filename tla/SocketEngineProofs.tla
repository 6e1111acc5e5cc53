------------------------- MODULE SocketEngineProofs -------------------------
(***************************************************************************)
(* Proofs about SocketEngine, for every set of sockets and threads, every  *)
(* size of the wheel and every timeout.                                    *)
(***************************************************************************)
EXTENDS SocketEngine, TLAPS

-----------------------------------------------------------------------------
(* The inductive invariant.                                                *)

\* A socket is locked between two steps exactly by the thread that works on it.
LockTie ==
    /\ \A t \in Thread : pc[t] # "idle" =>
        at[t] \in Sock \X (0 .. Lists - 1) /\ slock[at[t][1]] = t
    /\ \A s \in Sock : slock[s] # NoOne =>
        pc[slock[s]] # "idle" /\ at[slock[s]][1] = s

\* What a thread knows of the socket it holds while it waits for a list.
Adding(t) ==
    LET s == at[t][1]
    IN  /\ s \in arg /\ handed[s] = 0
        /\ flags[s] = {"IN_ENGINE"} /\ timeoutList[s] = NoOne

Deleting(t) ==
    LET s == at[t][1]
    IN  /\ s \in arg /\ handed[s] = 0
        /\ flags[s] = {"IN_ENGINE", "TIMEOUT_PENDING"}
        /\ timeoutList[s] = at[t][2]

Holders == \A t \in Thread :
    (pc[t] = "add" => Adding(t)) /\ (pc[t] = "del" => Deleting(t))

\* What the poll thread keeps in each phase of its loop.
Phases ==
    /\ poll # "batch" => batch = {}
    /\ poll # "collect" => todo = {}
    /\ (poll = "collect") = (held # NoOne)
    /\ poll \notin {"collect", "expire"} => events = {}
    /\ killed \subseteq Hands

\* Memory that was freed is not linked.
FreedQuiet == \A s \in arg : number[s] # "freed"

\* A wait that still has time is in the list its time ends in.
InTime(s, list) == left[s] > 0 =>
    /\ left[s] + (Granularity - 1) <= Turn
    /\ TIMEOUT_INDEX(now + left[s] + (Granularity - 1)) = list

Wheel ==
    /\ timeoutIndex = TIMEOUT_INDEX(now)
    /\ \A s \in Sock : timeoutList[s] # NoOne => InTime(s, timeoutList[s])
    /\ \A t \in Thread : pc[t] = "add" => InTime(at[t][1], at[t][2])
    /\ \A s \in (todo \cup events) \ killed : left[s] = 0

EngineInv ==
    /\ TypeOK /\ OneFuture /\ StaleOnlyByKill
    /\ LockTie /\ Holders /\ Phases /\ FreedQuiet

-----------------------------------------------------------------------------
(* The arithmetic of the wheel.                                            *)

\* Quotient and remainder are unique.
LEMMA DivUnique ==
    ASSUME NEW d \in Nat \ {0}, NEW q \in Nat, NEW r \in 0 .. d - 1
    PROVE  (d * q + r) \div d = q /\ (d * q + r) % d = r
  OBVIOUS

\* A turn of the wheel takes time.
LEMMA TurnType == Turn \in Nat \ {0}
  BY EngineAssumption DEF Turn

\* Every time has a list.
LEMMA IndexType ==
    ASSUME NEW t \in Nat
    PROVE  TIMEOUT_INDEX(t) \in 0 .. Lists - 1
<1>1. t \div Granularity \in Nat
  BY EngineAssumption
<1>2. QED
  BY <1>1, EngineAssumption DEF TIMEOUT_INDEX

\* Every number is a quotient and a remainder.
LEMMA DivMod ==
    ASSUME NEW d \in Nat \ {0}, NEW n \in Nat
    PROVE  /\ n \div d \in Nat /\ n % d \in 0 .. d - 1
           /\ n = d * (n \div d) + (n % d)
  OBVIOUS

\* A later time is not in an earlier list.
LEMMA DivMonotone ==
    ASSUME NEW d \in Nat \ {0}, NEW m \in Nat, NEW n \in Nat, m <= n
    PROVE  m \div d <= n \div d
<1> DEFINE q == m \div d
           p == n \div d
<1>1. /\ q \in Nat /\ p \in Nat
      /\ d * q <= m /\ n < d * p + d
  BY DivMod
<1>2. d * q < d * (p + 1)
  BY <1>1
<1> HIDE DEF q, p
<1>3. ASSUME q >= p + 1 PROVE FALSE
  <2>1. d * q >= d * (p + 1)
    BY <1>1, <1>3
  <2>2. QED
    BY <2>1, <1>1, <1>2
<1>4. QED
  BY <1>1, <1>3 DEF q, p

\* Numbers less than d apart have different remainders.
LEMMA ModApart ==
    ASSUME NEW d \in Nat \ {0}, NEW y \in Nat, NEW z \in Nat, 0 < z - y, z - y < d
    PROVE  z % d # y % d
<1> DEFINE m == z \div d
           n == y \div d
<1>1. m \in Nat /\ z = d * m + (z % d) /\ z % d \in Nat
  BY DivMod
<1>2. n \in Nat /\ y = d * n + (y % d) /\ y % d \in Nat
  BY DivMod
<1> HIDE DEF m, n
<1> SUFFICES ASSUME z % d = y % d
             PROVE  FALSE
  OBVIOUS
<1>3. z - y = d * (m - n)
  BY <1>1, <1>2
<1>4. CASE m <= n
  <2>1. d * (m - n) <= 0
    BY <1>1, <1>2, <1>4
  <2>2. QED
    BY <2>1, <1>3
<1>5. CASE m >= n + 1
  <2>1. d * (m - n) >= d
    BY <1>1, <1>2, <1>5
  <2>2. QED
    BY <2>1, <1>3
<1>6. QED
  BY <1>1, <1>2, <1>4, <1>5

\* The wheel comes back to the same list after each turn.
LEMMA IndexTurn ==
    ASSUME NEW t \in Nat, NEW k \in Nat
    PROVE  TIMEOUT_INDEX(Turn * k + t) = TIMEOUT_INDEX(t)
<1> DEFINE q == t \div Granularity
           r == t % Granularity
           p == q \div Lists
           o == q % Lists
<1>1. q \in Nat /\ r \in 0 .. Granularity - 1 /\ t = Granularity * q + r
  BY EngineAssumption, DivMod
<1> HIDE DEF q, r
<1>2. p \in Nat /\ o \in 0 .. Lists - 1 /\ q = Lists * p + o
  BY <1>1, EngineAssumption, DivMod
<1> HIDE DEF p, o
<1>3. Lists \in Nat /\ Granularity \in Nat
  BY EngineAssumption
<1>4. Turn * k + t = Granularity * (Lists * k + q) + r
  BY <1>1, <1>3 DEF Turn
<1>5. Lists * k + q \in Nat
  BY <1>1, <1>3
<1>6. (Turn * k + t) \div Granularity = Lists * k + q
  BY <1>1, <1>4, <1>5, DivUnique, EngineAssumption
<1>7. Lists * k + q = Lists * (k + p) + o
  BY <1>2, <1>3
<1>8. (Lists * k + q) % Lists = o
  <2>1. k + p \in Nat /\ Lists \in Nat \ {0}
    BY <1>2, EngineAssumption
  <2>2. (Lists * (k + p) + o) % Lists = o
    BY <2>1, <1>2, DivUnique
  <2>3. QED
    BY <2>2, <1>7
<1>9. QED
  BY <1>6, <1>8 DEF TIMEOUT_INDEX, q, o

\* The list of a time does not depend on how many turns have gone by.
LEMMA IndexMod ==
    ASSUME NEW t \in Nat, NEW u \in Nat
    PROVE  /\ t % Turn \in 0 .. Turn - 1
           /\ TIMEOUT_INDEX((t % Turn) + u) = TIMEOUT_INDEX(t + u)
<1> DEFINE k == t \div Turn
           r == t % Turn
<1>1. k \in Nat /\ r \in 0 .. Turn - 1 /\ t = Turn * k + r
  BY TurnType, DivMod
<1> HIDE DEF k, r
<1>2. r + u \in Nat /\ t + u = Turn * k + (r + u)
  BY <1>1, TurnType
<1>3. TIMEOUT_INDEX(t + u) = TIMEOUT_INDEX(r + u)
  BY <1>1, <1>2, IndexTurn
<1>4. QED
  BY <1>1, <1>3 DEF r

\* When the clock has reached another list and a wait still has time, the wait
\* is not in that list: the timeout was rounded up to its list, and it is not
\* longer than one turn of the wheel.
LEMMA IndexLater ==
    ASSUME NEW a \in Nat, NEW g \in Nat, NEW l \in Nat, g < l,
           l + (Granularity - 1) <= Turn,
           TIMEOUT_INDEX(a + g) # TIMEOUT_INDEX(a)
    PROVE  TIMEOUT_INDEX(a + l + (Granularity - 1)) # TIMEOUT_INDEX(a + g)
<1> DEFINE e == a + l + (Granularity - 1)
           x == a \div Granularity
           y == (a + g) \div Granularity
           z == e \div Granularity
<1>1. /\ Granularity \in Nat \ {0} /\ Lists \in Nat \ {0}
      /\ e \in Nat /\ a + g \in Nat /\ Turn = Granularity * Lists
  BY EngineAssumption DEF Turn
<1>2. x \in Nat /\ y \in Nat /\ z \in Nat
  BY <1>1, DivMod
<1>3. x <= y
  BY <1>1, DivMonotone
<1>4. x # y
  BY DEF TIMEOUT_INDEX
<1>5. y + 1 <= z
  <2>1. (a + g) + Granularity <= e
    BY <1>1
  <2>2. (a + g) + Granularity = Granularity * (y + 1) + ((a + g) % Granularity)
    <3>1. a + g = Granularity * y + ((a + g) % Granularity) /\ (a + g) % Granularity \in Nat
      BY <1>1, DivMod
    <3> HIDE DEF y
    <3>2. Granularity * (y + 1) = Granularity * y + Granularity
      BY <1>1, <1>2
    <3>3. QED
      BY <3>1, <3>2, <1>1, <1>2
  <2>3. ((a + g) + Granularity) \div Granularity = y + 1
    <3>1. (a + g) % Granularity \in 0 .. Granularity - 1 /\ y + 1 \in Nat
      BY <1>1, <1>2, DivMod
    <3>2. QED
      BY <3>1, <2>2, <1>1, DivUnique
  <2>4. QED
    BY <2>1, <2>3, <1>1, DivMonotone
<1>6. z <= x + Lists
  <2>1. e <= a + Granularity * Lists
    BY <1>1
  <2>2. a + Granularity * Lists = Granularity * (x + Lists) + (a % Granularity)
    <3>1. a = Granularity * x + (a % Granularity) /\ a % Granularity \in Nat
      BY <1>1, DivMod
    <3> HIDE DEF x
    <3>2. Granularity * (x + Lists) = Granularity * x + Granularity * Lists
      BY <1>1, <1>2
    <3>3. QED
      BY <3>1, <3>2, <1>1, <1>2
  <2>3. (a + Granularity * Lists) \div Granularity = x + Lists
    <3>1. a % Granularity \in 0 .. Granularity - 1 /\ x + Lists \in Nat
      BY <1>1, <1>2, DivMod
    <3>2. QED
      BY <3>1, <2>2, <1>1, DivUnique
  <2>4. a + Granularity * Lists \in Nat
    BY <1>1
  <2>5. QED
    BY <2>1, <2>3, <2>4, <1>1, DivMonotone
<1> HIDE DEF x, y, z, e
<1>7. 0 < z - y /\ z - y < Lists
  BY <1>1, <1>2, <1>3, <1>4, <1>5, <1>6
<1>8. z % Lists # y % Lists
  <2>1. Lists \in Nat \ {0} /\ z \in Nat /\ y \in Nat
    BY <1>1, <1>2
  <2>2. QED
    BY <2>1, <1>7, ModApart
<1>9. QED
  BY <1>8 DEF TIMEOUT_INDEX, e, y, z
-----------------------------------------------------------------------------
(* The invariant, action by action.                                        *)

\* What is in the engine is linked, locked or not.
LEMMA InEngineLinked ==
    ASSUME EngineInv, NEW s \in Sock, "IN_ENGINE" \in flags[s]
    PROVE  s \in arg /\ handed[s] = 0
<1> USE DEF EngineInv
<1>1. CASE slock[s] = NoOne
  BY <1>1 DEF OneFuture, Unlocked
<1>2. CASE slock[s] # NoOne
  <2>1. slock[s] \in Thread /\ pc[slock[s]] \in {"add", "del"} /\ at[slock[s]][1] = s
    BY <1>2 DEF TypeOK, LockTie
  <2>2. QED
    BY <2>1 DEF Holders, Adding, Deleting
<1>3. QED
  BY <1>1, <1>2

\* A wait begins: the thread keeps the socket and has chosen a list.
LEMMA WaitInv ==
    ASSUME EngineInv, NEW t \in Thread, NEW s \in Sock, NEW msec \in Timeouts,
           SocketEventWait(t, s, msec)
    PROVE  EngineInv'
<1> USE DEF EngineInv, Unlocked, SocketEventWait, pollVars
<1>0. TimeoutListFor(msec) \in 0 .. Lists - 1
  <2>1. msec \div Second \in Nat /\ Granularity - 1 \in Nat
    BY EngineAssumption
  <2>2. now + msec \div Second + (Granularity - 1) \in Nat
    BY <2>1, TurnType DEF TypeOK
  <2>3. QED
    BY <2>2, IndexType DEF TimeoutListFor
<1>1. TypeOK'
  <2>1. left' \in [Sock -> 0 .. Turn]
    <3>1. msec \div Second \in Nat
      BY EngineAssumption
    <3>2. InWheel(msec) => msec \div Second \in 0 .. Turn
      BY <3>1, EngineAssumption, TurnType DEF InWheel
    <3>3. QED
      BY <3>2, TurnType DEF TypeOK
  <2>2. at' \in [Thread -> (Sock \X (0 .. Lists - 1)) \cup {NoOne}]
    BY <1>0 DEF TypeOK
  <2>3. QED
    BY <2>1, <2>2 DEF TypeOK
<1>2. OneFuture'
  BY EngineAssumption DEF TypeOK, OneFuture, LockTie, Holders, Adding, Deleting, Phases
<1>3. StaleOnlyByKill'
  BY EngineAssumption DEF TypeOK, OneFuture, StaleOnlyByKill, Phases, Hands, Holders, Adding, Deleting, LockTie
<1>4. LockTie'
  BY <1>0, EngineAssumption DEF TypeOK, LockTie
<1>5. Holders'
  BY EngineAssumption DEF TypeOK, OneFuture, LockTie, Holders, Adding, Deleting
<1>6. Phases'
  BY EngineAssumption DEF TypeOK, Phases, Hands
<1>7. FreedQuiet'
  BY DEF TypeOK, FreedQuiet, OneFuture, LockTie, Holders, Adding, Deleting
<1>8. QED
  BY <1>1, <1>2, <1>3, <1>4, <1>5, <1>6, <1>7

\* epoll_ctl refuses a wait.
LEMMA WaitFailsInv ==
    ASSUME EngineInv, NEW t \in Thread, NEW s \in Sock, SocketEventWaitFails(t, s)
    PROVE  EngineInv'
<1> USE DEF EngineInv, Unlocked, SocketEventWaitFails, threadVars, pollVars, history
<1>1. TypeOK'
  BY EngineAssumption, TurnType, IndexType DEF TypeOK, OneFuture, Phases, Holders, Adding, Deleting, LockTie
<1>2. OneFuture'
  BY EngineAssumption DEF TypeOK, OneFuture, LockTie, Holders, Adding, Deleting, Phases
<1>3. StaleOnlyByKill'
  BY EngineAssumption DEF TypeOK, OneFuture, StaleOnlyByKill, Phases, Hands, Holders, Adding, Deleting, LockTie
<1>4. LockTie'
  BY EngineAssumption DEF TypeOK, LockTie
<1>5. Holders'
  BY EngineAssumption DEF TypeOK, OneFuture, LockTie, Holders, Adding, Deleting
<1>6. Phases'
  BY EngineAssumption DEF TypeOK, Phases, Hands
<1>7. FreedQuiet'
  BY DEF TypeOK, FreedQuiet, OneFuture, LockTie, Holders, Adding, Deleting
<1>8. QED
  BY <1>1, <1>2, <1>3, <1>4, <1>5, <1>6, <1>7

\* The event goes on its list and the socket is unlocked.
LEMMA TimeoutAddInv ==
    ASSUME EngineInv, NEW t \in Thread, SocketTimeoutAdd(t)
    PROVE  EngineInv'
<1> USE DEF EngineInv, Unlocked, SocketTimeoutAdd, pollVars, history
<1>1. TypeOK'
  BY EngineAssumption, TurnType, IndexType DEF TypeOK, OneFuture, Phases, Holders, Adding, Deleting, LockTie
<1>2. OneFuture'
  BY EngineAssumption DEF TypeOK, OneFuture, LockTie, Holders, Adding, Deleting, Phases
<1>3. StaleOnlyByKill'
  BY EngineAssumption DEF TypeOK, OneFuture, StaleOnlyByKill, Phases, Hands, Holders, Adding, Deleting, LockTie
<1>4. LockTie'
  BY EngineAssumption DEF TypeOK, LockTie
<1>5. Holders'
  BY EngineAssumption DEF TypeOK, OneFuture, LockTie, Holders, Adding, Deleting
<1>6. Phases'
  BY EngineAssumption DEF TypeOK, Phases, Hands
<1>7. FreedQuiet'
  BY DEF TypeOK, FreedQuiet, OneFuture, LockTie, Holders, Adding, Deleting
<1>8. QED
  BY <1>1, <1>2, <1>3, <1>4, <1>5, <1>6, <1>7

\* A kill that finds no timeout completes the event; another waits for the list.
LEMMA KillInv ==
    ASSUME EngineInv, NEW t \in Thread, NEW s \in Sock, SocketEventKill(t, s)
    PROVE  EngineInv'
<1> USE DEF EngineInv, Unlocked, SocketEventKill, Complete, MarkKilled, Hands, pollVars, threadVars, history
<1>1. TypeOK'
  <2>1. CASE "TIMEOUT_PENDING" \in flags[s]
    BY <2>1 DEF TypeOK, OneFuture
  <2>2. CASE "TIMEOUT_PENDING" \notin flags[s]
    <3>1. handed' \in [Sock -> 0 .. 1]
      BY <2>2 DEF TypeOK, OneFuture
    <3>2. left' \in [Sock -> 0 .. Turn] /\ flags' \in [Sock -> SUBSET {"IN_ENGINE", "TIMEOUT_PENDING"}]
      BY <2>2, TurnType DEF TypeOK
    <3>3. timeoutList' \in [Sock -> 0 .. Lists - 1 \cup {NoOne}] /\ killed' \subseteq Sock
      BY <2>2 DEF TypeOK
    <3>4. QED
      BY <2>2, <3>1, <3>2, <3>3 DEF TypeOK
  <2>3. QED
    BY <2>1, <2>2
<1>2. OneFuture'
  BY EngineAssumption DEF TypeOK, OneFuture, LockTie, Holders, Adding, Deleting, Phases
<1>3. StaleOnlyByKill'
  BY EngineAssumption DEF TypeOK, OneFuture, StaleOnlyByKill, Phases, Hands, Holders, Adding, Deleting, LockTie
<1>4. LockTie'
  <2>1. CASE "TIMEOUT_PENDING" \in flags[s]
    BY <2>1, EngineAssumption DEF TypeOK, OneFuture, LockTie
  <2>2. CASE ~("TIMEOUT_PENDING" \in flags[s])
    BY <2>2, EngineAssumption DEF TypeOK, OneFuture, LockTie
  <2>3. QED
    BY <2>1, <2>2
<1>5. Holders'
  BY EngineAssumption DEF TypeOK, OneFuture, LockTie, Holders, Adding, Deleting
<1>6. Phases'
  BY EngineAssumption DEF TypeOK, Phases, Hands
<1>7. FreedQuiet'
  BY DEF TypeOK, FreedQuiet, OneFuture, LockTie, Holders, Adding, Deleting
<1>8. QED
  BY <1>1, <1>2, <1>3, <1>4, <1>5, <1>6, <1>7

\* The rest of a kill: the event leaves its list and is completed.
LEMMA TimeoutDeleteInv ==
    ASSUME EngineInv, NEW t \in Thread, SocketTimeoutDelete(t)
    PROVE  EngineInv'
<1> USE DEF EngineInv, Unlocked, SocketTimeoutDelete, Complete, MarkKilled, Hands, pollVars
<1>1. TypeOK'
  BY EngineAssumption, TurnType, IndexType DEF TypeOK, OneFuture, Phases, Holders, Adding, Deleting, LockTie
<1>2. OneFuture'
  BY EngineAssumption DEF TypeOK, OneFuture, LockTie, Holders, Adding, Deleting, Phases
<1>3. StaleOnlyByKill'
  BY EngineAssumption DEF TypeOK, OneFuture, StaleOnlyByKill, Phases, Hands, Holders, Adding, Deleting, LockTie
<1>4. LockTie'
  BY EngineAssumption DEF TypeOK, LockTie
<1>5. Holders'
  BY EngineAssumption DEF TypeOK, OneFuture, LockTie, Holders, Adding, Deleting
<1>6. Phases'
  BY EngineAssumption DEF TypeOK, Phases, Hands
<1>7. FreedQuiet'
  BY DEF TypeOK, FreedQuiet, OneFuture, LockTie, Holders, Adding, Deleting
<1>8. QED
  BY <1>1, <1>2, <1>3, <1>4, <1>5, <1>6, <1>7

\* A worker unlinks the event it was given.
LEMMA HandleInv ==
    ASSUME EngineInv, NEW s \in Sock, HandleSocketEvent(s)
    PROVE  EngineInv'
<1> USE DEF EngineInv, Unlocked, HandleSocketEvent, threadVars, pollVars, history
<1>1. TypeOK'
  BY EngineAssumption, TurnType, IndexType DEF TypeOK, OneFuture, Phases, Holders, Adding, Deleting, LockTie
<1>2. OneFuture'
  BY EngineAssumption DEF TypeOK, OneFuture, LockTie, Holders, Adding, Deleting, Phases
<1>3. StaleOnlyByKill'
  BY EngineAssumption DEF TypeOK, OneFuture, StaleOnlyByKill, Phases, Hands, Holders, Adding, Deleting, LockTie
<1>4. LockTie'
  BY EngineAssumption DEF TypeOK, LockTie
<1>5. Holders'
  BY EngineAssumption DEF TypeOK, OneFuture, LockTie, Holders, Adding, Deleting
<1>6. Phases'
  BY EngineAssumption DEF TypeOK, Phases, Hands
<1>7. FreedQuiet'
  BY DEF TypeOK, FreedQuiet, OneFuture, LockTie, Holders, Adding, Deleting
<1>8. QED
  BY <1>1, <1>2, <1>3, <1>4, <1>5, <1>6, <1>7

\* A socket is closed under a wait.
LEMMA CloseInv ==
    ASSUME EngineInv, NEW s \in Sock, SocketClose(s)
    PROVE  EngineInv'
<1> USE DEF EngineInv, Unlocked, SocketClose, seVars, threadVars, pollVars, history
<1>1. TypeOK'
  BY EngineAssumption, TurnType, IndexType DEF TypeOK, OneFuture, Phases, Holders, Adding, Deleting, LockTie
<1>2. OneFuture'
  BY EngineAssumption DEF TypeOK, OneFuture, LockTie, Holders, Adding, Deleting, Phases
<1>3. StaleOnlyByKill'
  BY EngineAssumption DEF TypeOK, OneFuture, StaleOnlyByKill, Phases, Hands, Holders, Adding, Deleting, LockTie
<1>4. LockTie'
  BY EngineAssumption DEF TypeOK, LockTie
<1>5. Holders'
  BY EngineAssumption DEF TypeOK, OneFuture, LockTie, Holders, Adding, Deleting
<1>6. Phases'
  BY EngineAssumption DEF TypeOK, Phases, Hands
<1>7. FreedQuiet'
  BY DEF TypeOK, FreedQuiet, OneFuture, LockTie, Holders, Adding, Deleting
<1>8. QED
  BY <1>1, <1>2, <1>3, <1>4, <1>5, <1>6, <1>7

\* A socket nobody waits on is freed.
LEMMA ReleaseInv ==
    ASSUME EngineInv, NEW s \in Sock, SocketRelease(s)
    PROVE  EngineInv'
<1> USE DEF EngineInv, Unlocked, SocketRelease, threadVars, pollVars, history
<1>1. TypeOK'
  BY EngineAssumption, TurnType, IndexType DEF TypeOK, OneFuture, Phases, Holders, Adding, Deleting, LockTie
<1>2. OneFuture'
  BY EngineAssumption DEF TypeOK, OneFuture, LockTie, Holders, Adding, Deleting, Phases
<1>3. StaleOnlyByKill'
  BY EngineAssumption DEF TypeOK, OneFuture, StaleOnlyByKill, Phases, Hands, Holders, Adding, Deleting, LockTie
<1>4. LockTie'
  BY EngineAssumption DEF TypeOK, LockTie
<1>5. Holders'
  BY EngineAssumption DEF TypeOK, OneFuture, LockTie, Holders, Adding, Deleting
<1>6. Phases'
  BY EngineAssumption DEF TypeOK, Phases, Hands
<1>7. FreedQuiet'
  BY DEF TypeOK, FreedQuiet, OneFuture, LockTie, Holders, Adding, Deleting
<1>8. QED
  BY <1>1, <1>2, <1>3, <1>4, <1>5, <1>6, <1>7

\* Freed memory is used again.
LEMMA AllocInv ==
    ASSUME EngineInv, NEW s \in Sock, SocketAlloc(s)
    PROVE  EngineInv'
<1> USE DEF EngineInv, Unlocked, SocketAlloc, seVars, threadVars, pollVars, history
<1>1. TypeOK'
  BY EngineAssumption, TurnType, IndexType DEF TypeOK, OneFuture, Phases, Holders, Adding, Deleting, LockTie
<1>2. OneFuture'
  BY EngineAssumption DEF TypeOK, OneFuture, LockTie, Holders, Adding, Deleting, Phases
<1>3. StaleOnlyByKill'
  BY EngineAssumption DEF TypeOK, OneFuture, StaleOnlyByKill, Phases, Hands, Holders, Adding, Deleting, LockTie
<1>4. LockTie'
  BY EngineAssumption DEF TypeOK, LockTie
<1>5. Holders'
  BY EngineAssumption DEF TypeOK, OneFuture, LockTie, Holders, Adding, Deleting
<1>6. Phases'
  BY EngineAssumption DEF TypeOK, Phases, Hands
<1>7. FreedQuiet'
  BY DEF TypeOK, FreedQuiet, OneFuture, LockTie, Holders, Adding, Deleting
<1>8. QED
  BY <1>1, <1>2, <1>3, <1>4, <1>5, <1>6, <1>7

\* Time goes on.
LEMMA TickInv ==
    ASSUME EngineInv, Tick
    PROVE  EngineInv'
<1> USE DEF EngineInv, Unlocked, Tick, seVars, threadVars, history
<1>1. TypeOK'
  BY EngineAssumption, TurnType, IndexType DEF TypeOK, OneFuture, Phases, Holders, Adding, Deleting, LockTie
<1>2. OneFuture'
  BY EngineAssumption DEF TypeOK, OneFuture, LockTie, Holders, Adding, Deleting, Phases
<1>3. StaleOnlyByKill'
  BY EngineAssumption DEF TypeOK, OneFuture, StaleOnlyByKill, Phases, Hands, Holders, Adding, Deleting, LockTie
<1>4. LockTie'
  BY EngineAssumption DEF TypeOK, LockTie
<1>5. Holders'
  BY EngineAssumption DEF TypeOK, OneFuture, LockTie, Holders, Adding, Deleting
<1>6. Phases'
  BY EngineAssumption DEF TypeOK, Phases, Hands
<1>7. FreedQuiet'
  BY DEF TypeOK, FreedQuiet, OneFuture, LockTie, Holders, Adding, Deleting
<1>8. QED
  BY <1>1, <1>2, <1>3, <1>4, <1>5, <1>6, <1>7

\* What epoll_wait reports is in the engine.
LEMMA EpollInv ==
    ASSUME EngineInv, EpollWait
    PROVE  EngineInv'
<1> USE DEF EngineInv, Unlocked, EpollWait, seVars, threadVars, history
<1>1. TypeOK'
  BY EngineAssumption, TurnType, IndexType DEF TypeOK, OneFuture, Phases, Holders, Adding, Deleting, LockTie
<1>2. OneFuture'
  BY EngineAssumption DEF TypeOK, OneFuture, LockTie, Holders, Adding, Deleting, Phases
<1>3. StaleOnlyByKill'
  BY EngineAssumption DEF TypeOK, OneFuture, StaleOnlyByKill, Phases, Hands, Holders, Adding, Deleting, LockTie
<1>4. LockTie'
  BY EngineAssumption DEF TypeOK, LockTie
<1>5. Holders'
  BY EngineAssumption DEF TypeOK, OneFuture, LockTie, Holders, Adding, Deleting
<1>6. Phases'
  BY EngineAssumption DEF TypeOK, Phases, Hands
<1>7. FreedQuiet'
  BY DEF TypeOK, FreedQuiet, OneFuture, LockTie, Holders, Adding, Deleting
<1>8. QED
  BY <1>1, <1>2, <1>3, <1>4, <1>5, <1>6, <1>7

\* An entry of the batch is completed or thrown away.
LEMMA EventHandleInv ==
    ASSUME EngineInv, NEW s \in Sock, SocketEventHandle(s)
    PROVE  EngineInv'
<1> USE DEF EngineInv, Unlocked, SocketEventHandle, Complete, Drop, threadVars
<1>1. TypeOK'
  <2>1. CASE "IN_ENGINE" \in flags[s]
    <3>1. handed' \in [Sock -> 0 .. 1]
      BY <2>1 DEF TypeOK, OneFuture
    <3>2. left' \in [Sock -> 0 .. Turn] /\ flags' \in [Sock -> SUBSET {"IN_ENGINE", "TIMEOUT_PENDING"}]
      BY <2>1, TurnType DEF TypeOK
    <3>3. timeoutList' \in [Sock -> 0 .. Lists - 1 \cup {NoOne}] /\ error' \in [Sock -> {"none", "EIO", "ECANCELED", "ETIMEDOUT"}]
      BY <2>1 DEF TypeOK
    <3>4. QED
      BY <2>1, <3>1, <3>2, <3>3 DEF TypeOK
  <2>2. CASE "IN_ENGINE" \notin flags[s]
    BY <2>2 DEF TypeOK
  <2>3. QED
    BY <2>1, <2>2
<1>2. OneFuture'
  BY EngineAssumption DEF TypeOK, OneFuture, LockTie, Holders, Adding, Deleting, Phases
<1>3. StaleOnlyByKill'
  BY EngineAssumption DEF TypeOK, OneFuture, StaleOnlyByKill, Phases, Hands, Holders, Adding, Deleting, LockTie
<1>4. LockTie'
  BY EngineAssumption DEF TypeOK, LockTie
<1>5. Holders'
  BY EngineAssumption DEF TypeOK, OneFuture, LockTie, Holders, Adding, Deleting
<1>6. Phases'
  BY EngineAssumption DEF TypeOK, Phases, Hands
<1>7. FreedQuiet'
  BY DEF TypeOK, FreedQuiet, OneFuture, LockTie, Holders, Adding, Deleting
<1>8. QED
  BY <1>1, <1>2, <1>3, <1>4, <1>5, <1>6, <1>7

\* The poll thread reads the clock and detaches the list it has reached.
LEMMA ReadClockInv ==
    ASSUME EngineInv, ReadClock
    PROVE  EngineInv'
<1> USE DEF EngineInv, Unlocked, ReadClock, Less, seVars, threadVars
<1>0. timeoutIndex' \in 0 .. Lists - 1 /\ timeoutIndex' # NoOne
  <2>1. now + lag \in Nat
    BY EngineAssumption, TurnType DEF TypeOK
  <2>2. (now + lag) % Turn \in Nat
    BY <2>1, TurnType
  <2>3. QED
    BY <2>2, IndexType, EngineAssumption
<1>1. TypeOK'
  BY EngineAssumption, TurnType, IndexType DEF TypeOK, OneFuture, Phases, Holders, Adding, Deleting, LockTie
<1>2. OneFuture'
  BY EngineAssumption DEF TypeOK, OneFuture, LockTie, Holders, Adding, Deleting, Phases
<1>3. StaleOnlyByKill'
  <2> SUFFICES ASSUME NEW s \in Hands', s \notin killed'
               PROVE  (s \in arg /\ "IN_ENGINE" \in flags[s] /\ number[s] # "freed")'
    BY DEF StaleOnlyByKill
  <2>1. s \in Sock /\ timeoutList[s] = timeoutIndex'
    BY DEF Hands, Phases
  <2>2. "IN_ENGINE" \in flags[s]
    BY <2>1, <1>0 DEF OneFuture
  <2>3. QED
    BY <2>1, <2>2, InEngineLinked DEF FreedQuiet
<1>4. LockTie'
  BY EngineAssumption DEF TypeOK, LockTie
<1>5. Holders'
  BY EngineAssumption DEF TypeOK, OneFuture, LockTie, Holders, Adding, Deleting
<1>6. Phases'
  BY <1>0 DEF TypeOK, Phases, Hands
<1>7. FreedQuiet'
  BY DEF TypeOK, FreedQuiet, OneFuture, LockTie, Holders, Adding, Deleting
<1>8. QED
  BY <1>1, <1>2, <1>3, <1>4, <1>5, <1>6, <1>7

\* An event of the list is collected.
LEMMA CollectInv ==
    ASSUME EngineInv, NEW s \in Sock, Collect(s)
    PROVE  EngineInv'
<1> USE DEF EngineInv, Unlocked, Collect, threadVars, history
<1>1. TypeOK'
  BY EngineAssumption, TurnType, IndexType DEF TypeOK, OneFuture, Phases, Holders, Adding, Deleting, LockTie
<1>2. OneFuture'
  BY EngineAssumption DEF TypeOK, OneFuture, LockTie, Holders, Adding, Deleting, Phases
<1>3. StaleOnlyByKill'
  BY EngineAssumption DEF TypeOK, OneFuture, StaleOnlyByKill, Phases, Hands, Holders, Adding, Deleting, LockTie
<1>4. LockTie'
  BY EngineAssumption DEF TypeOK, LockTie
<1>5. Holders'
  BY EngineAssumption DEF TypeOK, OneFuture, LockTie, Holders, Adding, Deleting
<1>6. Phases'
  BY EngineAssumption DEF TypeOK, Phases, Hands
<1>7. FreedQuiet'
  BY DEF TypeOK, FreedQuiet, OneFuture, LockTie, Holders, Adding, Deleting
<1>8. QED
  BY <1>1, <1>2, <1>3, <1>4, <1>5, <1>6, <1>7

\* The list is unlocked.
LEMMA CollectedInv ==
    ASSUME EngineInv, Collected
    PROVE  EngineInv'
<1> USE DEF EngineInv, Unlocked, Collected, seVars, threadVars, history
<1>1. TypeOK'
  BY EngineAssumption, TurnType, IndexType DEF TypeOK, OneFuture, Phases, Holders, Adding, Deleting, LockTie
<1>2. OneFuture'
  BY EngineAssumption DEF TypeOK, OneFuture, LockTie, Holders, Adding, Deleting, Phases
<1>3. StaleOnlyByKill'
  BY EngineAssumption DEF TypeOK, OneFuture, StaleOnlyByKill, Phases, Hands, Holders, Adding, Deleting, LockTie
<1>4. LockTie'
  BY EngineAssumption DEF TypeOK, LockTie
<1>5. Holders'
  BY EngineAssumption DEF TypeOK, OneFuture, LockTie, Holders, Adding, Deleting
<1>6. Phases'
  BY EngineAssumption DEF TypeOK, Phases, Hands
<1>7. FreedQuiet'
  BY DEF TypeOK, FreedQuiet, OneFuture, LockTie, Holders, Adding, Deleting
<1>8. QED
  BY <1>1, <1>2, <1>3, <1>4, <1>5, <1>6, <1>7

\* A collected event times out, whatever it has become.
LEMMA ExpireInv ==
    ASSUME EngineInv, NEW s \in Sock, Expire(s)
    PROVE  EngineInv'
<1> USE DEF EngineInv, Unlocked, Expire, Complete, Drop, threadVars
<1>1. TypeOK'
  BY EngineAssumption, TurnType, IndexType DEF TypeOK, OneFuture, Phases, Holders, Adding, Deleting, LockTie
<1>2. OneFuture'
  BY EngineAssumption DEF TypeOK, OneFuture, LockTie, Holders, Adding, Deleting, Phases
<1>3. StaleOnlyByKill'
  BY EngineAssumption DEF TypeOK, OneFuture, StaleOnlyByKill, Phases, Hands, Holders, Adding, Deleting, LockTie
<1>4. LockTie'
  BY EngineAssumption DEF TypeOK, LockTie
<1>5. Holders'
  BY EngineAssumption DEF TypeOK, OneFuture, LockTie, Holders, Adding, Deleting
<1>6. Phases'
  BY EngineAssumption DEF TypeOK, Phases, Hands
<1>7. FreedQuiet'
  BY DEF TypeOK, FreedQuiet, OneFuture, LockTie, Holders, Adding, Deleting
<1>8. QED
  BY <1>1, <1>2, <1>3, <1>4, <1>5, <1>6, <1>7

\* All collected events have timed out.
LEMMA ExpiredInv ==
    ASSUME EngineInv, Expired
    PROVE  EngineInv'
<1> USE DEF EngineInv, Unlocked, Expired, seVars, threadVars, history
<1>1. TypeOK'
  BY EngineAssumption, TurnType, IndexType DEF TypeOK, OneFuture, Phases, Holders, Adding, Deleting, LockTie
<1>2. OneFuture'
  BY EngineAssumption DEF TypeOK, OneFuture, LockTie, Holders, Adding, Deleting, Phases
<1>3. StaleOnlyByKill'
  BY EngineAssumption DEF TypeOK, OneFuture, StaleOnlyByKill, Phases, Hands, Holders, Adding, Deleting, LockTie
<1>4. LockTie'
  BY EngineAssumption DEF TypeOK, LockTie
<1>5. Holders'
  BY EngineAssumption DEF TypeOK, OneFuture, LockTie, Holders, Adding, Deleting
<1>6. Phases'
  BY EngineAssumption DEF TypeOK, Phases, Hands
<1>7. FreedQuiet'
  BY DEF TypeOK, FreedQuiet, OneFuture, LockTie, Holders, Adding, Deleting
<1>8. QED
  BY <1>1, <1>2, <1>3, <1>4, <1>5, <1>6, <1>7

\* Every step keeps the invariant.
LEMMA EngineStep == EngineInv /\ [Next]_vars => EngineInv'
<1> SUFFICES ASSUME EngineInv, [Next]_vars
             PROVE  EngineInv'
  OBVIOUS
<1>1. ASSUME NEW t \in Thread, NEW s \in Sock, NEW msec \in Timeouts, SocketEventWait(t, s, msec)
      PROVE  EngineInv'
  BY <1>1, WaitInv
<1>2. ASSUME NEW t \in Thread, NEW s \in Sock, SocketEventWaitFails(t, s) \/ SocketEventKill(t, s)
      PROVE  EngineInv'
  BY <1>2, WaitFailsInv, KillInv
<1>3. ASSUME NEW t \in Thread, SocketTimeoutAdd(t) \/ SocketTimeoutDelete(t)
      PROVE  EngineInv'
  BY <1>3, TimeoutAddInv, TimeoutDeleteInv
<1>4. ASSUME NEW s \in Sock,
             HandleSocketEvent(s) \/ SocketClose(s) \/ SocketRelease(s) \/ SocketAlloc(s)
      PROVE  EngineInv'
  BY <1>4, HandleInv, CloseInv, ReleaseInv, AllocInv
<1>5. CASE Tick
  BY <1>5, TickInv
<1>6. CASE EpollWait \/ ReadClock \/ Collected \/ Expired
  BY <1>6, EpollInv, ReadClockInv, CollectedInv, ExpiredInv
<1>7. ASSUME NEW s \in Sock, SocketEventHandle(s) \/ Collect(s) \/ Expire(s)
      PROVE  EngineInv'
  BY <1>7, EventHandleInv, CollectInv, ExpireInv
<1>8. CASE UNCHANGED vars
  BY <1>8 DEF EngineInv, vars, seVars, threadVars, pollVars, history, TypeOK, OneFuture, StaleOnlyByKill,
              LockTie, Holders, Adding, Deleting, Phases, FreedQuiet, Hands, Unlocked
<1>9. QED
  BY <1>1, <1>2, <1>3, <1>4, <1>5, <1>6, <1>7, <1>8 DEF Next, PollThread

\* The invariant holds before the first wait.
LEMMA EngineInit == Init => EngineInv
<1> SUFFICES ASSUME Init
             PROVE  EngineInv
  OBVIOUS
<1>1. TypeOK
  <2>1. now \in Nat /\ timeoutIndex \in 0 .. Lists - 1
    BY IndexType, TurnType DEF Init
  <2>2. QED
    BY <2>1, TurnType, EngineAssumption DEF Init, TypeOK
<1>2. OneFuture /\ StaleOnlyByKill /\ Phases
  BY DEF Init, OneFuture, StaleOnlyByKill, Phases, Unlocked, Hands
<1>3. LockTie /\ Holders /\ FreedQuiet
  BY DEF Init, LockTie, Holders, FreedQuiet
<1>4. QED
  BY <1>1, <1>2, <1>3 DEF EngineInv

\* The engine's inductive invariant holds in every reachable state.
THEOREM EngineSafe == Spec => []EngineInv
<1>1. QED
  BY EngineInit, EngineStep, PTL DEF Spec

-----------------------------------------------------------------------------
(* Waits do not time out early.                                            *)

\* A wait begins: its list is the one its time ends in.
LEMMA WheelWait ==
    ASSUME EngineInv, EngineInv', Wheel, NEW t \in Thread, NEW s \in Sock, NEW msec \in Timeouts,
           SocketEventWait(t, s, msec)
    PROVE  Wheel'
<1> USE DEF EngineInv, SocketEventWait, pollVars, Unlocked
<1>1. timeoutIndex' = TIMEOUT_INDEX(now')
  BY DEF Wheel
<1>2. ASSUME NEW r \in Sock, timeoutList'[r] # NoOne
      PROVE  InTime(r, timeoutList[r])'
  <2>1. r # s
    BY <1>2 DEF OneFuture
  <2>2. QED
    BY <1>2, <2>1 DEF Wheel, InTime, TypeOK
<1>3. ASSUME NEW u \in Thread, pc'[u] = "add"
      PROVE  InTime(at[u][1], at[u][2])'
  <2>1. CASE u = t
    <3>1. at'[u] = <<s, TimeoutListFor(msec)>> /\ left'[s] = (IF InWheel(msec) THEN msec \div Second ELSE 0)
      BY <2>1 DEF TypeOK
    <3>2. msec \div Second \in Nat /\ Granularity \in Nat
      BY EngineAssumption
    <3>3. InWheel(msec) => msec \div Second + (Granularity - 1) <= Turn
      BY <3>2, TurnType DEF InWheel
    <3>4. QED
      BY <3>1, <3>2, <3>3 DEF InTime, TimeoutListFor
  <2>2. CASE u # t
    BY <1>3, <2>2, EngineAssumption DEF Wheel, InTime, TypeOK, LockTie
  <2>3. QED
    BY <2>1, <2>2
<1>4. ASSUME NEW r \in (todo' \cup events') \ killed'
      PROVE  left'[r] = 0
  BY <1>4 DEF Wheel, StaleOnlyByKill, Hands, TypeOK
<1>5. QED
  BY <1>1, <1>2, <1>3, <1>4 DEF Wheel

\* A completed event has no time left and no list.
LEMMA WheelComplete ==
    ASSUME TypeOK, Wheel, NEW s \in Sock, Complete(s), UNCHANGED <<now, timeoutIndex, pc, at>>,
           (todo' \cup events') \ killed' \subseteq ((todo \cup events) \ killed) \cup {s},
           \A r \in todo' \cup events' : r \in Sock
    PROVE  Wheel'
<1>1. /\ left' = [left EXCEPT ![s] = 0] /\ left'[s] = 0
      /\ \A r \in Sock : r # s => left'[r] = left[r]
  BY DEF Complete, TypeOK
<1>2. /\ timeoutList'[s] = NoOne
      /\ \A r \in Sock : r # s => timeoutList'[r] = timeoutList[r]
  BY DEF Complete, TypeOK
<1>3. \A r \in Sock : timeoutList'[r] # NoOne => InTime(r, timeoutList[r])'
  BY <1>1, <1>2 DEF Wheel, InTime
<1>4. \A t \in Thread : pc'[t] = "add" => InTime(at[t][1], at[t][2])'
  <2> SUFFICES ASSUME NEW t \in Thread, pc'[t] = "add"
               PROVE  InTime(at[t][1], at[t][2])'
    OBVIOUS
  <2>1. InTime(at[t][1], at[t][2])
    BY DEF Wheel
  <2>2. left'[at[t][1]] \in {0, left[at[t][1]]}
    BY <1>1 DEF TypeOK
  <2>3. QED
    BY <2>1, <2>2 DEF InTime
<1>5. QED
  BY <1>1, <1>3, <1>4 DEF Wheel

\* Adding to a list, and kills.
LEMMA WheelThreads ==
    ASSUME EngineInv, EngineInv', Wheel, NEW t \in Thread,
           \/ SocketTimeoutAdd(t) \/ SocketTimeoutDelete(t)
           \/ \E s \in Sock : SocketEventWaitFails(t, s) \/ SocketEventKill(t, s)
    PROVE  Wheel'
<1> USE EngineAssumption DEF EngineInv, pollVars, threadVars, history, Unlocked, Wheel, InTime, TypeOK
<1>1. CASE SocketTimeoutAdd(t)
  BY <1>1 DEF SocketTimeoutAdd, LockTie
<1>2. CASE SocketTimeoutDelete(t)
  BY <1>2 DEF SocketTimeoutDelete, Complete, MarkKilled, Hands, LockTie
<1>3. ASSUME NEW s \in Sock, SocketEventWaitFails(t, s)
      PROVE  Wheel'
  BY <1>3 DEF SocketEventWaitFails
<1>4. ASSUME NEW s \in Sock, SocketEventKill(t, s)
      PROVE  Wheel'
  <2>1. CASE "TIMEOUT_PENDING" \in flags[s]
    BY <1>4, <2>1 DEF SocketEventKill
  <2>2. CASE "TIMEOUT_PENDING" \notin flags[s]
    BY <1>4, <2>2, WheelComplete DEF SocketEventKill, MarkKilled
  <2>3. QED
    BY <2>1, <2>2
<1>5. QED
  BY <1>1, <1>2, <1>3, <1>4

\* Workers, close and release do not touch the wheel.
LEMMA WheelSockets ==
    ASSUME EngineInv, EngineInv', Wheel, NEW s \in Sock,
           HandleSocketEvent(s) \/ SocketClose(s) \/ SocketRelease(s) \/ SocketAlloc(s)
    PROVE  Wheel'
  BY DEF EngineInv, pollVars, threadVars, seVars, history, Wheel, InTime, TypeOK,
         HandleSocketEvent, SocketClose, SocketRelease, SocketAlloc

\* The poll thread, except when it reads the clock.
LEMMA WheelPoll ==
    ASSUME EngineInv, EngineInv', Wheel,
           \/ Tick \/ EpollWait \/ Collected \/ Expired
           \/ \E s \in Sock : SocketEventHandle(s) \/ Collect(s) \/ Expire(s)
    PROVE  Wheel'
<1> USE EngineAssumption DEF EngineInv, threadVars, seVars, history, Unlocked, Wheel, InTime, TypeOK
<1>1. CASE Tick \/ EpollWait \/ Collected \/ Expired
  BY <1>1 DEF Tick, EpollWait, Collected, Expired
<1>2. ASSUME NEW s \in Sock, SocketEventHandle(s)
      PROVE  Wheel'
  <2>1. CASE "IN_ENGINE" \in flags[s]
    BY <1>2, <2>1, WheelComplete DEF SocketEventHandle, Drop, Phases
  <2>2. CASE "IN_ENGINE" \notin flags[s]
    BY <1>2, <2>2 DEF SocketEventHandle, Drop, Phases
  <2>3. QED
    BY <2>1, <2>2
<1>3. ASSUME NEW s \in Sock, Collect(s)
      PROVE  Wheel'
  BY <1>3 DEF Collect
<1>4. ASSUME NEW s \in Sock, Expire(s)
      PROVE  Wheel'
  BY <1>4 DEF Expire, Complete, Drop, Phases
<1>5. QED
  BY <1>1, <1>2, <1>3, <1>4

\* The clock moves: a wait that still has time stays in its list, and when the
\* poll thread has reached another list, that list holds no such wait.
LEMMA WheelClock ==
    ASSUME EngineInv, EngineInv', Wheel, ReadClock
    PROVE  Wheel'
<1> USE DEF EngineInv, ReadClock, seVars, threadVars
<1>1. /\ now \in Nat /\ lag \in Nat /\ now + lag \in Nat /\ Granularity - 1 \in Nat
      /\ now' = (now + lag) % Turn
  BY TurnType, EngineAssumption DEF TypeOK
<1>2. timeoutIndex' = TIMEOUT_INDEX(now')
  OBVIOUS
<1>3. timeoutIndex' = TIMEOUT_INDEX(now + lag)
  <2>1. TIMEOUT_INDEX(((now + lag) % Turn) + 0) = TIMEOUT_INDEX((now + lag) + 0)
    BY <1>1, IndexMod
  <2>2. (now + lag) % Turn \in Nat
    BY <1>1, IndexMod, TurnType
  <2>3. QED
    BY <1>1, <2>1, <2>2
<1>4. ASSUME NEW s \in Sock, NEW list, InTime(s, list), left'[s] > 0
      PROVE  /\ left[s] \in Nat /\ lag < left[s] /\ left'[s] = left[s] - lag
             /\ left[s] + (Granularity - 1) <= Turn
             /\ TIMEOUT_INDEX(now + left[s] + (Granularity - 1)) = list
  <2>1. left[s] \in Nat /\ left'[s] = Less(left[s], lag)
    BY TurnType DEF TypeOK
  <2>2. lag < left[s] /\ left'[s] = left[s] - lag
    BY <2>1, <1>1, <1>4 DEF Less
  <2>3. QED
    BY <2>1, <2>2, <1>1, <1>4 DEF InTime
<1>5. ASSUME NEW s \in Sock, NEW list, InTime(s, list)
      PROVE  left'[s] > 0 => /\ left'[s] + (Granularity - 1) <= Turn
                             /\ TIMEOUT_INDEX(now' + left'[s] + (Granularity - 1)) = list
  <2> SUFFICES ASSUME left'[s] > 0
               PROVE  /\ left'[s] + (Granularity - 1) <= Turn
                      /\ TIMEOUT_INDEX(now' + left'[s] + (Granularity - 1)) = list
    OBVIOUS
  <2>1. /\ left[s] \in Nat /\ lag < left[s] /\ left'[s] = left[s] - lag
        /\ left[s] + (Granularity - 1) <= Turn
        /\ TIMEOUT_INDEX(now + left[s] + (Granularity - 1)) = list
    BY <1>4, <1>5
  <2> DEFINE u == left'[s] + (Granularity - 1)
  <2>2. u \in Nat /\ u <= Turn
    BY <2>1, <1>1, TurnType
  <2>3. TIMEOUT_INDEX(now' + u) = TIMEOUT_INDEX((now + lag) + u)
    BY <1>1, <2>2, IndexMod
  <2>4. (now + lag) + u = now + left[s] + (Granularity - 1)
    BY <1>1, <2>1
  <2>5. now' + left'[s] + (Granularity - 1) = now' + u
    <3>1. now' \in Nat /\ left'[s] \in Nat
      BY <2>1, <1>1, TurnType DEF TypeOK
    <3>2. QED
      BY <3>1, <1>1
  <2>6. QED
    BY <2>1, <2>2, <2>3, <2>4, <2>5
<1>6. ASSUME NEW s \in Sock, timeoutList'[s] # NoOne
      PROVE  InTime(s, timeoutList[s])'
  BY <1>5, <1>6 DEF Wheel, InTime
<1>7. ASSUME NEW t \in Thread, pc'[t] = "add"
      PROVE  InTime(at[t][1], at[t][2])'
  <2>1. at[t][1] \in Sock /\ InTime(at[t][1], at[t][2])
    BY <1>7 DEF Wheel, LockTie
  <2>2. QED
    BY <1>5, <2>1 DEF InTime
<1>8. ASSUME NEW s \in (todo' \cup events') \ killed'
      PROVE  left'[s] = 0
  <2>1. /\ s \in Sock /\ timeoutList[s] = timeoutIndex' /\ timeoutIndex' # timeoutIndex
    BY <1>8 DEF Phases
  <2>2. timeoutList[s] # NoOne
    BY <2>1, EngineAssumption DEF TypeOK
  <2>3. InTime(s, timeoutList[s])
    BY <2>1, <2>2 DEF Wheel
  <2>4. ASSUME left'[s] > 0
        PROVE  FALSE
    <3>1. /\ left[s] \in Nat /\ lag < left[s]
          /\ left[s] + (Granularity - 1) <= Turn
          /\ TIMEOUT_INDEX(now + left[s] + (Granularity - 1)) = timeoutList[s]
      BY <1>4, <2>1, <2>3, <2>4
    <3>2. TIMEOUT_INDEX(now + lag) # TIMEOUT_INDEX(now)
      BY <1>3, <2>1 DEF Wheel
    <3>3. QED
      BY <1>1, <1>3, <2>1, <3>1, <3>2, IndexLater
  <2>5. left'[s] \in Nat
    BY <2>1, TurnType DEF TypeOK
  <2>6. QED
    BY <2>4, <2>5
<1>9. QED
  BY <1>2, <1>6, <1>7, <1>8 DEF Wheel

\* The wheel is empty at first.
LEMMA WheelInit == Init => Wheel
  BY DEF Init, Wheel, InTime

\* Every step keeps the wheel in order.
LEMMA WheelStep == EngineInv /\ EngineInv' /\ Wheel /\ [Next]_vars => Wheel'
<1> SUFFICES ASSUME EngineInv, EngineInv', Wheel, [Next]_vars
             PROVE  Wheel'
  OBVIOUS
<1>1. CASE UNCHANGED vars
  BY <1>1 DEF vars, seVars, threadVars, pollVars, history, Wheel, InTime
<1>2. CASE Next
  BY <1>2, WheelWait, WheelThreads, WheelSockets, WheelPoll, WheelClock DEF Next, PollThread
<1>3. QED
  BY <1>1, <1>2

\* In every reachable state the waits that have time left are in the list their
\* time ends in, and what the poll thread has collected has none left.
THEOREM WheelSafe == Spec => []Wheel
<1>1. QED
  BY WheelInit, WheelStep, EngineSafe, PTL DEF Spec

-----------------------------------------------------------------------------
(* The results.                                                            *)

\* Every reachable state is of the declared type: no event is given to two
\* workers, every list index is on the wheel.
THEOREM EngineTypeCorrect == Spec => []TypeOK
<1>1. EngineInv => TypeOK
  BY DEF EngineInv
<1>2. QED
  BY <1>1, EngineSafe, PTL

\* A socket event in use is in the engine or has been given to one worker: kill,
\* readiness, timeout and late reports neither lose it nor complete it twice.
THEOREM EventsHaveOneFuture == Spec => []OneFuture
<1>1. EngineInv => OneFuture
  BY DEF EngineInv
<1>2. QED
  BY <1>1, EngineSafe, PTL

\* What the poll thread keeps without a lock is in use unless it was killed.
THEOREM PointersStaleOnlyByKill == Spec => []StaleOnlyByKill
<1>1. EngineInv => StaleOnlyByKill
  BY DEF EngineInv
<1>2. QED
  BY <1>1, EngineSafe, PTL

\* Only the second loop over a list reports a timeout, of an event that has no
\* time left unless it was killed meanwhile.
LEMMA TruthfulTimeout ==
    ASSUME EngineInv, Wheel, [Next]_vars, NEW s \in arg \ killed,
           error'[s] = "ETIMEDOUT", error[s] # "ETIMEDOUT"
    PROVE  left[s] = 0
<1> USE DEF EngineInv
<1>1. s \in Sock /\ error \in [Sock -> {"none", "EIO", "ECANCELED", "ETIMEDOUT"}]
  BY DEF TypeOK
<1>2. error' # error
  OBVIOUS
<1>3. ASSUME NEW r \in Sock, Expire(r)
      PROVE  left[s] = 0
  <2>1. r = s
    BY <1>1, <1>3 DEF Expire
  <2>2. s \in events \ killed
    BY <2>1, <1>3 DEF Expire
  <2>3. QED
    BY <2>2 DEF Wheel
<1>4. ASSUME NEW r \in Sock, NEW x \in {"none", "EIO", "ECANCELED"},
             error' = [error EXCEPT ![r] = x]
      PROVE  FALSE
  BY <1>1, <1>4
<1>5. ASSUME UNCHANGED error
      PROVE  FALSE
  BY <1>2, <1>5
<1>6. ASSUME NEW r \in Sock, SocketEventHandle(r)
      PROVE  error' \in {error, [error EXCEPT ![r] = "EIO"]}
  BY <1>6 DEF SocketEventHandle
<1>7. ASSUME NEW t \in Thread, NEW r \in Sock, NEW msec \in Timeouts, SocketEventWait(t, r, msec)
      PROVE  FALSE
  BY <1>4, <1>7 DEF SocketEventWait
<1>8. ASSUME NEW t \in Thread, NEW r \in Sock, SocketEventWaitFails(t, r) \/ SocketEventKill(t, r)
      PROVE  FALSE
  BY <1>4, <1>8 DEF SocketEventWaitFails, SocketEventKill
<1>9. ASSUME NEW t \in Thread, SocketTimeoutAdd(t) \/ SocketTimeoutDelete(t)
      PROVE  FALSE
  BY <1>5, <1>9 DEF SocketTimeoutAdd, SocketTimeoutDelete
<1>10. ASSUME NEW r \in Sock, HandleSocketEvent(r) \/ SocketClose(r) \/ SocketRelease(r) \/ SocketAlloc(r)
       PROVE  FALSE
  BY <1>4, <1>5, <1>10 DEF HandleSocketEvent, SocketClose, SocketRelease, SocketAlloc, seVars
<1>11. CASE Tick \/ EpollWait \/ ReadClock \/ Collected \/ Expired \/ UNCHANGED vars
  BY <1>5, <1>11 DEF Tick, EpollWait, ReadClock, Collected, Expired, seVars, vars
<1>12. ASSUME NEW r \in Sock, SocketEventHandle(r) \/ Collect(r)
       PROVE  FALSE
  BY <1>4, <1>5, <1>6, <1>12 DEF Collect
<1>13. QED
  BY <1>3, <1>7, <1>8, <1>9, <1>10, <1>11, <1>12 DEF Next, PollThread

\* No step forgets the error of a linked event: only a new wait and the release of
\* the socket reset it, and they need an event that is not linked.
LEMMA ErrorKept ==
    ASSUME EngineInv, [Next]_vars, NEW s \in arg, error[s] # "none"
    PROVE  error'[s] # "none"
<1> USE DEF EngineInv
<1>1. s \in Sock /\ error \in [Sock -> {"none", "EIO", "ECANCELED", "ETIMEDOUT"}]
  BY DEF TypeOK
<1>2. ASSUME NEW r \in Sock, NEW x \in {"EIO", "ECANCELED", "ETIMEDOUT"},
             error' = [error EXCEPT ![r] = x]
      PROVE  error'[s] # "none"
  BY <1>1, <1>2
<1>3. ASSUME NEW r \in Sock, r \notin arg, error' = [error EXCEPT ![r] = "none"]
      PROVE  error'[s] # "none"
  BY <1>1, <1>3
<1>4. CASE UNCHANGED error
  BY <1>4
<1>5. ASSUME NEW t \in Thread, NEW r \in Sock, NEW msec \in Timeouts, SocketEventWait(t, r, msec)
      PROVE  error'[s] # "none"
  BY <1>3, <1>5 DEF SocketEventWait
<1>6. ASSUME NEW t \in Thread, NEW r \in Sock, SocketEventWaitFails(t, r) \/ SocketEventKill(t, r)
      PROVE  error'[s] # "none"
  BY <1>2, <1>3, <1>6 DEF SocketEventWaitFails, SocketEventKill
<1>7. ASSUME NEW t \in Thread, SocketTimeoutAdd(t) \/ SocketTimeoutDelete(t)
      PROVE  error'[s] # "none"
  BY <1>4, <1>7 DEF SocketTimeoutAdd, SocketTimeoutDelete
<1>8. ASSUME NEW r \in Sock, HandleSocketEvent(r) \/ SocketClose(r) \/ SocketRelease(r) \/ SocketAlloc(r)
      PROVE  error'[s] # "none"
  BY <1>3, <1>4, <1>8 DEF HandleSocketEvent, SocketClose, SocketRelease, SocketAlloc, seVars
<1>9. CASE Tick \/ EpollWait \/ ReadClock \/ Collected \/ Expired \/ UNCHANGED vars
  BY <1>4, <1>9 DEF Tick, EpollWait, ReadClock, Collected, Expired, seVars, vars
<1>10. ASSUME NEW r \in Sock, SocketEventHandle(r)
       PROVE  error'[s] # "none"
  <2>1. error' \in {error, [error EXCEPT ![r] = "EIO"]}
    BY <1>10 DEF SocketEventHandle
  <2>2. QED
    BY <1>2, <1>4, <2>1
<1>11. ASSUME NEW r \in Sock, Collect(r) \/ Expire(r)
       PROVE  error'[s] # "none"
  BY <1>2, <1>4, <1>11 DEF Collect, Expire
<1>12. QED
  BY <1>5, <1>6, <1>7, <1>8, <1>9, <1>10, <1>11 DEF Next, PollThread

\* What a wait reports is true, whatever the size of the wheel, the timeouts and
\* the speed of the poll thread: it does not time out early, and its error is
\* not lost.
THEOREM ErrorsAreTruthful == Spec => TruthfulError
<1>1. EngineInv /\ Wheel /\ [Next]_vars =>
        [/\ \A s \in arg \ killed :
              error'[s] = "ETIMEDOUT" /\ error[s] # "ETIMEDOUT" => left[s] = 0
         /\ \A s \in arg \cap arg' : error[s] # "none" => error'[s] # "none"]_vars
  BY TruthfulTimeout, ErrorKept
<1>2. QED
  BY <1>1, EngineSafe, WheelSafe, PTL DEF Spec, TruthfulError
=============================================================================
