------------------------ MODULE ListenerManagerProofs ------------------------
(***************************************************************************)
(* Proofs about ListenerManager, for every set of entries and every number *)
(* of connections.                                                         *)
(***************************************************************************)
EXTENDS ListenerManager, WellFoundedInduction, TLAPS

-----------------------------------------------------------------------------
(* The inductive invariant.                                                *)

\* The entry a call has come to stays in the list while it is worked on
\* without the mutex, and has no connection when it is to get one.
AtWork ==
    /\ pc \in {"listen", "listened", "restart"} => cur \in Entry /\ In(cur)
    /\ pc \in {"listen", "restart"} => conn[cur] = Nil
    /\ pc = "listened" => \A c \in ConnId : cur \notin Names(c)

\* A live connection may know its entry; the entry of a callback that freed it
\* before is another one.
Lives == \A c \in ConnId :
    /\ data[c] # Nil => life[c] = "live"
    /\ \A l \in Entry : <<c, l>> \in callback => data[c] # l

\* A connection is put aside only by a restart, and its entry has none then.
PutAside == backup # Nil => pc \in {"restart", "crashed"} /\ cur \in Entry /\ conn[cur] = Nil

ManagerInv == TypeOK /\ AtWork /\ Lives /\ PutAside /\ CameOutRight

-----------------------------------------------------------------------------
(* What Without leaves of a list.                                          *)

\* A set of natural numbers has a least element.
LEMMA NatLeast ==
    ASSUME NEW S, S \subseteq Nat, S # {}
    PROVE  \E x \in S : \A y \in S : x <= y
<1> DEFINE R == OpToRel(<, Nat)
<1>1. IsWellFoundedOn(R, Nat)
  BY NatLessThanWellFounded, Zenon
<1>2. \A x, y \in Nat : <<y, x>> \in R <=> y < x
  BY DEF OpToRel
<1> HIDE DEF R
<1>3. PICK x \in S : \A y \in S : ~(<<y, x>> \in R)
  BY <1>1, WFMin
<1>4. \A y \in S : ~(y < x) /\ x \in Nat /\ y \in Nat
  BY <1>2, <1>3
<1>5. QED
  BY <1>3, <1>4

\* What holds of 0, and of i + 1 when it holds of i, holds up to n.
LEMMA UpTo ==
    ASSUME NEW n \in Nat, NEW G, 0 \in G, \A i \in 0 .. n : i # n /\ i \in G => i + 1 \in G
    PROVE  0 .. n \subseteq G
<1> DEFINE B == (0 .. n) \ G
<1>1. SUFFICES ASSUME B # {}
               PROVE  FALSE
  OBVIOUS
<1>2. PICK x \in B : \A y \in B : x <= y
  <2>1. B \subseteq Nat
    OBVIOUS
  <2> HIDE DEF B
  <2>2. QED
    BY <1>1, <2>1, NatLeast
<1>3. x \in Nat /\ x # 0 /\ x <= n
  BY <1>2
<1>4. x - 1 \in 0 .. n /\ x - 1 # n /\ (x - 1) + 1 = x
  BY <1>3
<1>5. x - 1 \notin B
  BY <1>2, <1>3, <1>4
<1>6. QED
  BY <1>2, <1>4, <1>5

\* The step of the recursion in Without.
Longer(q, L, g, i) == IF q[i] \in L THEN g[i - 1] ELSE Append(g[i - 1], q[i])

\* g is what Without computes, up to position n.
Filters(q, L, n, g) == g = [i \in 0 .. n |-> IF i = 0 THEN <<>> ELSE Longer(q, L, g, i)]

\* The recursion is well defined.
LEMMA FilterExists ==
    ASSUME NEW q, NEW L, NEW n \in Nat
    PROVE  \E g : Filters(q, L, n, g)
<1> DEFINE G == {m \in 0 .. n : \E g : Filters(q, L, m, g)}
<1>1. 0 \in G
  <2> DEFINE g == [i \in 0 .. 0 |-> <<>>]
  <2>1. g = [i \in 0 .. 0 |-> IF i = 0 THEN <<>> ELSE Longer(q, L, g, i)]
    OBVIOUS
  <2>2. Filters(q, L, 0, g)
    BY <2>1 DEF Filters
  <2>3. 0 \in 0 .. n
    OBVIOUS
  <2> HIDE DEF g
  <2>4. QED
    BY <2>2, <2>3
<1>2. ASSUME NEW m \in 0 .. n, m # n, m \in G
      PROVE  m + 1 \in G
  <2>1. PICK g : Filters(q, L, m, g)
    BY <1>2
  <2> DEFINE h == [i \in 0 .. (m + 1) |-> IF i = m + 1 THEN Longer(q, L, g, m + 1) ELSE g[i]]
             k == [i \in 0 .. (m + 1) |-> IF i = 0 THEN <<>> ELSE Longer(q, L, h, i)]
  <2>2. ASSUME NEW i \in 0 .. (m + 1)
        PROVE  h[i] = k[i]
    <3>1. CASE i = 0
      BY <1>2, <2>1, <3>1 DEF Filters
    <3>2. CASE i # 0
      <4>1. i - 1 \in 0 .. m /\ i - 1 \in 0 .. (m + 1) /\ i - 1 # m + 1
        BY <1>2, <3>2
      <4>2. h[i - 1] = g[i - 1]
        BY <4>1
      <4>3. k[i] = Longer(q, L, h, i)
        BY <3>2
      <4>4. Longer(q, L, h, i) = Longer(q, L, g, i)
        BY ONLY <4>2 DEF Longer
      <4>5. CASE i = m + 1
        BY <4>3, <4>4, <4>5
      <4>6. CASE i # m + 1
        <5>1. i \in 0 .. m
          BY <1>2, <4>6
        <5>2. g[i] = Longer(q, L, g, i)
          BY <2>1, <3>2, <5>1 DEF Filters
        <5>3. h[i] = g[i]
          BY <4>6
        <5>4. QED
          BY <4>3, <4>4, <5>2, <5>3
      <4>7. QED
        BY <4>5, <4>6
    <3>3. QED
      BY <3>1, <3>2
  <2>3. DOMAIN h = 0 .. (m + 1) /\ DOMAIN k = 0 .. (m + 1)
    OBVIOUS
  <2>4. h = [i \in DOMAIN h |-> h[i]] /\ k = [i \in DOMAIN k |-> k[i]]
    OBVIOUS
  <2>5. h = k
    <3> HIDE DEF h, k
    <3>1. QED
      BY <2>2, <2>3, <2>4
  <2>6. Filters(q, L, m + 1, h)
    BY <2>5 DEF Filters
  <2>7. m + 1 \in 0 .. n
    BY <1>2
  <2>8. QED
    BY <2>6, <2>7
<1> HIDE DEF G
<1>3. 0 .. n \subseteq G
  BY <1>1, <1>2, UpTo
<1>4. n \in G
  BY <1>3
<1>5. QED
  BY <1>4 DEF G

\* Without computes with such a function.
LEMMA WithoutFilters ==
    ASSUME NEW q, NEW L, Len(q) \in Nat
    PROVE  \E g : Filters(q, L, Len(q), g) /\ Without(q, L) = g[Len(q)]
<1> DEFINE k == CHOOSE g : g = [i \in 0 .. Len(q) |->
                   IF i = 0 THEN <<>> ELSE IF q[i] \in L THEN g[i - 1] ELSE Append(g[i - 1], q[i])]
<1>1. Without(q, L) = k[Len(q)]
  BY DEF Without
<1>2. \E g : g = [i \in 0 .. Len(q) |->
                   IF i = 0 THEN <<>> ELSE IF q[i] \in L THEN g[i - 1] ELSE Append(g[i - 1], q[i])]
  <2>1. PICK g : Filters(q, L, Len(q), g)
    BY FilterExists
  <2>2. g = [i \in 0 .. Len(q) |->
               IF i = 0 THEN <<>> ELSE IF q[i] \in L THEN g[i - 1] ELSE Append(g[i - 1], q[i])]
    BY <2>1 DEF Filters, Longer
  <2>3. QED
    BY <2>2, Zenon
<1>3. k = [i \in 0 .. Len(q) |->
                   IF i = 0 THEN <<>> ELSE IF q[i] \in L THEN k[i - 1] ELSE Append(k[i - 1], q[i])]
  BY <1>2, Zenon
<1>4. QED
  BY <1>1, <1>3 DEF Filters, Longer

\* Append adds one element, and keeps a list without duplicates so.
LEMMA AppendFacts ==
    ASSUME NEW S, NEW s \in Seq(S), NEW e \in S
    PROVE  /\ Append(s, e) \in Seq(S)
           /\ \A x : Contains(Append(s, e), x) <=> Contains(s, x) \/ x = e
           /\ IsInjective(s) /\ ~Contains(s, e) => IsInjective(Append(s, e))
<1> DEFINE a == Append(s, e)
           n == Len(s)
<1>1. /\ a \in Seq(S) /\ Len(a) = n + 1 /\ n \in Nat /\ a[n + 1] = e
      /\ DOMAIN a = 1 .. (n + 1) /\ DOMAIN s = 1 .. n
      /\ \A i \in 1 .. n : a[i] = s[i]
  OBVIOUS
<1> HIDE DEF a, n
<1>2. ASSUME NEW x
      PROVE  Contains(a, x) <=> Contains(s, x) \/ x = e
  <2>1. ASSUME Contains(a, x)
        PROVE  Contains(s, x) \/ x = e
    <3>1. PICK i \in 1 .. (n + 1) : a[i] = x
      BY <1>1, <2>1 DEF Contains
    <3>2. i = n + 1 \/ i \in 1 .. n
      BY <1>1, <3>1
    <3>3. QED
      BY <1>1, <3>1, <3>2 DEF Contains, n
  <2>2. ASSUME Contains(s, x)
        PROVE  Contains(a, x)
    <3>1. PICK i \in 1 .. n : s[i] = x
      BY <2>2 DEF Contains, n
    <3>2. i \in 1 .. (n + 1)
      BY <1>1, <3>1
    <3>3. QED
      BY <1>1, <3>1, <3>2 DEF Contains
  <2>3. ASSUME x = e
        PROVE  Contains(a, x)
    <3>1. n + 1 \in 1 .. (n + 1)
      BY <1>1
    <3>2. QED
      BY <1>1, <2>3, <3>1 DEF Contains
  <2>4. QED
    BY <2>1, <2>2, <2>3
<1>3. ASSUME IsInjective(s), ~Contains(s, e)
      PROVE  IsInjective(a)
  <2> SUFFICES ASSUME NEW i \in 1 .. (n + 1), NEW j \in 1 .. (n + 1), a[i] = a[j]
               PROVE  i = j
    BY <1>1 DEF IsInjective
  <2>1. (i = n + 1 \/ i \in 1 .. n) /\ (j = n + 1 \/ j \in 1 .. n)
    BY <1>1
  <2>2. \A h \in 1 .. n : a[h] # e
    BY <1>1, <1>3 DEF Contains, n
  <2>3. CASE i \in 1 .. n /\ j \in 1 .. n
    BY <1>1, <1>3, <2>3 DEF IsInjective
  <2>4. QED
    BY <1>1, <2>1, <2>2, <2>3
<1>4. QED
  BY <1>1, <1>2, <1>3 DEF a

\* What is unlinked is gone, and the rest stays.
LEMMA WithoutFacts ==
    ASSUME NEW S, NEW q \in Seq(S), NEW L, IsInjective(q)
    PROVE  /\ Without(q, L) \in Seq(S) /\ IsInjective(Without(q, L))
           /\ \A x : Contains(Without(q, L), x) <=> Contains(q, x) /\ x \notin L
<1> DEFINE n == Len(q)
<1>1. n \in Nat /\ DOMAIN q = 1 .. n /\ \A i \in 1 .. n : q[i] \in S
  OBVIOUS
<1>2. PICK g : Filters(q, L, n, g) /\ Without(q, L) = g[n]
  BY <1>1, WithoutFilters
<1> DEFINE Right(m) ==
      /\ g[m] \in Seq(S) /\ IsInjective(g[m])
      /\ \A x : Contains(g[m], x) <=> (\E j \in 1 .. m : q[j] = x) /\ x \notin L
    G == {m \in 0 .. n : Right(m)}
<1> HIDE DEF n
<1>3. 0 \in G
  <2>1. 0 \in 0 .. n
    BY <1>1
  <2>2. g[0] = <<>>
    BY <1>2, <2>1 DEF Filters
  <2>3. <<>> \in Seq(S) /\ Len(<<>>) = 0 /\ DOMAIN <<>> = {}
    OBVIOUS
  <2>4. IsInjective(<<>>) /\ \A x : ~Contains(<<>>, x)
    BY <2>3 DEF IsInjective, Contains
  <2>5. \A x : ~(\E j \in 1 .. 0 : q[j] = x)
    OBVIOUS
  <2>6. Right(0)
    BY <2>2, <2>3, <2>4, <2>5
  <2>7. QED
    BY <2>1, <2>6
<1>4. ASSUME NEW m \in 0 .. n, m # n, m \in G
      PROVE  m + 1 \in G
  <2>1. /\ m + 1 \in 0 .. n /\ m + 1 \in 1 .. n /\ m + 1 # 0 /\ (m + 1) - 1 = m /\ m \in Nat
    BY <1>1, <1>4
  <2>2. Right(m)
    BY <1>4
  <2>3. g[m + 1] = IF q[m + 1] \in L THEN g[m] ELSE Append(g[m], q[m + 1])
    <3>1. g[m + 1] = Longer(q, L, g, m + 1)
      BY <1>2, <2>1 DEF Filters
    <3>2. QED
      BY <2>1, <3>1 DEF Longer
  <2>4. ASSUME NEW x
        PROVE  (\E j \in 1 .. (m + 1) : q[j] = x) <=> (\E j \in 1 .. m : q[j] = x) \/ q[m + 1] = x
    <3>1. 1 .. (m + 1) = (1 .. m) \cup {m + 1}
      BY <2>1
    <3>2. QED
      BY <3>1
  <2>5. q[m + 1] \in S
    BY <1>1, <2>1
  <2>6. CASE q[m + 1] \in L
    <3>1. g[m + 1] = g[m]
      BY <2>3, <2>6
    <3>2. ASSUME NEW x
          PROVE  Contains(g[m + 1], x) <=> (\E j \in 1 .. (m + 1) : q[j] = x) /\ x \notin L
      BY <2>2, <2>4, <2>6, <3>1
    <3>3. QED
      BY <2>1, <2>2, <3>1, <3>2
  <2>7. CASE q[m + 1] \notin L
    <3>1. g[m + 1] = Append(g[m], q[m + 1])
      BY <2>3, <2>7
    <3>2. ~Contains(g[m], q[m + 1])
      <4>1. \A j \in 1 .. m : j \in 1 .. n /\ j # m + 1
        BY <1>1, <2>1
      <4>2. \A j \in 1 .. m : q[j] # q[m + 1]
        BY <1>1, <2>1, <4>1 DEF IsInjective
      <4>3. QED
        BY <2>2, <4>2
    <3>3. /\ g[m + 1] \in Seq(S) /\ IsInjective(g[m + 1])
          /\ \A x : Contains(g[m + 1], x) <=> Contains(g[m], x) \/ x = q[m + 1]
      BY <2>2, <2>5, <3>1, <3>2, AppendFacts
    <3>4. ASSUME NEW x
          PROVE  Contains(g[m + 1], x) <=> (\E j \in 1 .. (m + 1) : q[j] = x) /\ x \notin L
      BY <2>2, <2>4, <2>7, <3>3
    <3>5. QED
      BY <2>1, <3>3, <3>4
  <2>8. QED
    BY <2>6, <2>7
<1> HIDE DEF G
<1>5. 0 .. n \subseteq G
  BY <1>1, <1>3, <1>4, UpTo
<1>6. Right(n)
  BY <1>1, <1>5 DEF G
<1>7. QED
  BY <1>2, <1>6 DEF Contains, n

-----------------------------------------------------------------------------
(* The steps of the manager.                                               *)

\* The null pointer is neither an entry nor a connection.
LEMMA NilFacts ==
    ConnId \subseteq Nat /\ Nil \notin Entry /\ Nil \notin ConnId
BY ManagerAssumption DEF ConnId

\* GoOn comes to an entry of the list that has no connection, or returns.
LEMMA GoOnFacts ==
    ASSUME TypeOK, NEW s \in Entry \cup {Nil}, NEW i \in Nat, GoOn(s, i)
    PROVE  /\ pc' \in {"idle", "listen"} /\ sel' \in Entry \cup {Nil} /\ cur' \in Entry \cup {Nil}
           /\ pc' = "listen" => cur' \in Entry /\ In(cur') /\ conn[cur'] = Nil
<1>1. CASE ToStart(s, i) = {}
  BY <1>1 DEF GoOn
<1>2. CASE ToStart(s, i) # {}
  <2> DEFINE j == CHOOSE j \in ToStart(s, i) : \A k \in ToStart(s, i) : j <= k
  <2>1. pc' = "listen" /\ sel' = s /\ cur' = list[j]
    BY <1>2 DEF GoOn
  <2>2. ToStart(s, i) \subseteq Nat
    BY DEF ToStart
  <2>3. \E x \in ToStart(s, i) : \A k \in ToStart(s, i) : x <= k
    BY <1>2, <2>2, NatLeast
  <2>4. j \in ToStart(s, i)
    BY <2>3
  <2> HIDE DEF j
  <2>5. list[j] \in Entry /\ In(list[j]) /\ conn[list[j]] = Nil
    BY <2>4 DEF ToStart, Match
  <2>6. QED
    BY <2>1, <2>5
<1>3. QED
  BY <1>1, <1>2

\* At most one connection names an entry, and it is the entry's own.
LEMMA OneName ==
    ASSUME ManagerInv, NEW l \in Entry, NEW c \in ConnId, NEW d \in ConnId,
           l \in Names(c), l \in Names(d)
    PROVE  c = d
<1>1. l # Nil /\ c # Nil /\ d # Nil
  BY NilFacts
<1>2. /\ conn[l] = c \/ (pc \in {"restart", "crashed"} /\ cur = l /\ backup = c)
      /\ conn[l] = d \/ (pc \in {"restart", "crashed"} /\ cur = l /\ backup = d)
  BY <1>1 DEF ManagerInv, CameOutRight
<1>3. QED
  BY <1>1, <1>2 DEF ManagerInv, PutAside

\* A step that leaves the connections and the call alone and unlinks at most
\* entries without a connection, between two calls.
LEMMA ListStep ==
    ASSUME ManagerInv, pc \in {"idle", "wait"}, pc' \in {"idle", "wait"},
           UNCHANGED <<conn, life, data, callback, sel, cur, backup>>,
           list' \in Seq(Entry), IsInjective(list'), state' \in [Entry -> SUBSET Flags],
           killed' \subseteq ConnId, preventNew' \in BOOLEAN,
           \A l \in Entry : In(l) /\ conn[l] # Nil => Contains(list', l)
    PROVE  ManagerInv'
<1>1. TypeOK'
  BY DEF ManagerInv, TypeOK
<1>2. AtWork' /\ Lives' /\ PutAside'
  BY DEF ManagerInv, AtWork, Lives, PutAside, Names
<1>3. CameOutRight'
  <2> SUFFICES ASSUME NEW c \in ConnId, NEW l \in Names(c)
               PROVE  Contains(list', l) /\ conn[l] = c
    BY DEF CameOutRight, Names, In
  <2>1. In(l) /\ conn[l] = c
    BY DEF ManagerInv, CameOutRight
  <2>2. l \in Entry /\ c # Nil
    BY NilFacts DEF Names
  <2>3. QED
    BY <2>1, <2>2
<1>4. QED
  BY <1>1, <1>2, <1>3 DEF ManagerInv

\* The calls of the consumer that are one step.
LEMMA AddStep ==
    ASSUME ManagerInv, NEW l \in Entry, NEW flags \in Kinds, ConnAAddListener(l, flags)
    PROVE  ManagerInv'
<1>1. list \in Seq(Entry) /\ IsInjective(list) /\ state \in [Entry -> SUBSET Flags]
  BY DEF ManagerInv, TypeOK
<1>2. flags \subseteq Flags
  BY DEF Kinds, Flags
<1>3. /\ UNCHANGED <<conn, life, data, callback, sel, cur, backup, killed, preventNew, pc>> /\ pc = "idle"
      /\ killed \subseteq ConnId /\ preventNew \in BOOLEAN
  BY DEF ConnAAddListener, connVars, callVars, ManagerInv, TypeOK
<1>4. state' \in [Entry -> SUBSET Flags]
  BY <1>1, <1>2 DEF ConnAAddListener
<1>5. list' \in Seq(Entry) /\ IsInjective(list') /\ \A k \in Entry : In(k) => Contains(list', k)
  <2>1. CASE In(l)
    BY <1>1, <2>1 DEF ConnAAddListener, In
  <2>2. CASE ~In(l)
    <3>1. list' = Append(list, l)
      BY <2>2 DEF ConnAAddListener
    <3>2. QED
      BY <1>1, <2>2, <3>1, AppendFacts DEF In
  <2>3. QED
    BY <2>1, <2>2
<1>6. QED
  BY <1>3, <1>4, <1>5, ListStep

\* Flags given to some entries are flags.
LEMMA FlagFacts ==
    ASSUME TypeOK, NEW l \in Entry
    PROVE  /\ state[l] \subseteq Flags /\ {"STOPPED"} \subseteq Flags /\ {"FRESH"} \subseteq Flags
           /\ state[l] \cup {"EXPIRED"} \subseteq Flags
           /\ \A f \in Flags : Keep(l, f) \subseteq Flags
  BY DEF TypeOK, Flags, Keep

\* A removal unlinks only entries without a connection.
LEMMA RemoveStep ==
    ASSUME ManagerInv, NEW s \in Entry \cup {Nil}, NEW which \in Which, ConnARemoveListener(s, which)
    PROVE  ManagerInv'
<1> DEFINE L == Match(s, which)
           D == {l \in L : conn[l] = Nil}
<1>1. /\ list' = Without(list, D) /\ pc = "idle"
      /\ state' = [l \in Entry |-> IF l \in L THEN {"STOPPED"} ELSE state[l]]
      /\ Shutdown(L)
      /\ UNCHANGED <<conn, life, data, callback, sel, cur, backup, preventNew, pc>>
  BY DEF ConnARemoveListener, connVars, callVars
<1>2. list \in Seq(Entry) /\ IsInjective(list) /\ killed \subseteq ConnId /\ preventNew \in BOOLEAN /\ TypeOK
  BY DEF ManagerInv, TypeOK
<1>3. killed' \subseteq ConnId
  BY <1>1, <1>2 DEF Shutdown
<1>4. state' \in [Entry -> SUBSET Flags]
  <2> HIDE DEF L
  <2>1. QED
    BY <1>1, <1>2, FlagFacts
<1>5. \A l \in Entry : In(l) /\ conn[l] # Nil => l \notin D /\ Contains(list, l)
  BY DEF In
<1> HIDE DEF D
<1>6. list' \in Seq(Entry) /\ IsInjective(list') /\ \A x : Contains(list', x) <=> Contains(list, x) /\ x \notin D
  BY <1>1, <1>2, WithoutFacts
<1>7. QED
  BY <1>1, <1>2, <1>3, <1>4, <1>5, <1>6, ListStep

\* Calls that only change flags and kill connections.
LEMMA MarkStep ==
    ASSUME ManagerInv, NEW s \in Entry \cup {Nil},
           \/ \E which \in Which : ConnAStopListener(s, which)
           \/ Switch(s, "ACTIVE", "SUSPENDED") \/ Switch(s, "SUSPENDED", "ACTIVE")
           \/ ConnAExpireListener(s)
    PROVE  ManagerInv'
<1>1. /\ UNCHANGED <<list, conn, life, data, callback, sel, cur, backup, preventNew, pc>> /\ pc = "idle"
      /\ killed' = killed \/ \E L : Shutdown(L)
  BY DEF ConnAStopListener, Switch, ConnAExpireListener, connVars, callVars
<1>2. list \in Seq(Entry) /\ IsInjective(list) /\ killed \subseteq ConnId /\ preventNew \in BOOLEAN /\ TypeOK
  BY DEF ManagerInv, TypeOK
<1>3. killed' \subseteq ConnId
  BY <1>1, <1>2 DEF Shutdown
<1>4. {"STOPPED", "ACTIVE", "SUSPENDED"} \subseteq Flags
  BY DEF Flags
<1>5. state' \in [Entry -> SUBSET Flags]
  <2>1. \E M, f : state' = [l \in Entry |-> IF l \in M THEN f[l] ELSE state[l]]
                /\ \A l \in Entry : f[l] \subseteq Flags
    <3>1. CASE \E which \in Which : ConnAStopListener(s, which)
      <4>1. PICK which \in Which : ConnAStopListener(s, which)
        BY <3>1
      <4> DEFINE f == [l \in Entry |-> Keep(l, "STOPPED")]
      <4>2. state' = [l \in Entry |-> IF l \in Match(s, which) THEN f[l] ELSE state[l]]
        BY <4>1 DEF ConnAStopListener
      <4>3. \A l \in Entry : f[l] \subseteq Flags
        BY <1>2, <1>4, FlagFacts
      <4> HIDE DEF f
      <4>4. QED
        BY <4>2, <4>3
    <3>2. ASSUME NEW from, NEW to \in Flags, Switch(s, from, to)
          PROVE  \E M, f : state' = [l \in Entry |-> IF l \in M THEN f[l] ELSE state[l]]
                         /\ \A l \in Entry : f[l] \subseteq Flags
      <4> DEFINE f == [l \in Entry |-> Keep(l, to)]
      <4>2. state' = [l \in Entry |-> IF l \in Match(s, {from}) THEN f[l] ELSE state[l]]
        BY <3>2 DEF Switch
      <4>3. \A l \in Entry : f[l] \subseteq Flags
        BY <1>2, <3>2, FlagFacts
      <4> HIDE DEF f
      <4>4. QED
        BY <4>2, <4>3
    <3>3. CASE ConnAExpireListener(s)
      <4> DEFINE f == [l \in Entry |-> state[l] \cup {"EXPIRED"}]
      <4>2. state' = [l \in Entry |-> IF l \in Match(s, {}) THEN f[l] ELSE state[l]]
        BY <3>3 DEF ConnAExpireListener
      <4>3. \A l \in Entry : f[l] \subseteq Flags
        BY <1>2, FlagFacts
      <4> HIDE DEF f
      <4>4. QED
        BY <4>2, <4>3
    <3>4. QED
      BY <1>4, <3>1, <3>2, <3>3
  <2>2. PICK M, f : state' = [l \in Entry |-> IF l \in M THEN f[l] ELSE state[l]]
                  /\ \A l \in Entry : f[l] \subseteq Flags
    BY <2>1
  <2>3. QED
    BY <1>2, <2>2, FlagFacts
<1>6. QED
  BY <1>1, <1>2, <1>3, <1>5, ListStep DEF In

\* ConnAListenerStatus unlinks an entry only when it has no connection.
LEMMA StatusStep ==
    ASSUME ManagerInv, ConnAListenerStatus
    PROVE  ManagerInv'
<1> DEFINE I == {l \in Entry : "INDEPENDENT" \in state[l]}
           managed == Without(list, I)
           gone == {i \in DOMAIN managed : conn[managed[i]] = Nil}
           first == CHOOSE i \in gone : \A j \in gone : i <= j
<1>1. /\ pc \in {"idle", "wait"} /\ pc' \in {"idle", "wait"}
      /\ UNCHANGED <<state, conn, life, data, callback, killed, preventNew, sel, cur, backup>>
  BY DEF ConnAListenerStatus, connVars
<1>2. gone = {} => list' = list
  BY DEF ConnAListenerStatus
<1>3. gone # {} => list' = Without(list, {managed[first]})
  BY DEF ConnAListenerStatus
<1>4. /\ list \in Seq(Entry) /\ IsInjective(list) /\ state \in [Entry -> SUBSET Flags]
      /\ killed \subseteq ConnId /\ preventNew \in BOOLEAN
  BY DEF ManagerInv, TypeOK
<1> HIDE DEF I
<1>5. managed \in Seq(Entry)
  BY <1>4, WithoutFacts
<1> HIDE DEF managed
<1>6. gone \subseteq Nat
  BY <1>5
<1>7. gone # {} => first \in gone
  <2>1. gone # {} => \E i \in gone : \A j \in gone : i <= j
    <3> HIDE DEF gone
    <3>1. QED
      BY <1>6, NatLeast
  <2>2. QED
    BY <2>1
<1>8. gone # {} => conn[managed[first]] = Nil
  BY <1>7
<1> HIDE DEF gone, first
<1>9. /\ list' \in Seq(Entry) /\ IsInjective(list')
      /\ \A l \in Entry : In(l) /\ conn[l] # Nil => Contains(list', l)
  <2>1. CASE gone = {}
    BY <1>2, <1>4, <2>1 DEF In
  <2>2. CASE gone # {}
    <3> DEFINE e == managed[first]
    <3>1. list' = Without(list, {e}) /\ conn[e] = Nil
      BY <1>3, <1>8, <2>2
    <3> HIDE DEF e
    <3>2. /\ list' \in Seq(Entry) /\ IsInjective(list')
          /\ \A x : Contains(list', x) <=> Contains(list, x) /\ x \notin {e}
      BY <1>4, <3>1, WithoutFacts
    <3>3. QED
      BY <3>1, <3>2 DEF In
  <2>3. QED
    BY <2>1, <2>2
<1>10. QED
  BY <1>1, <1>4, <1>9, ListStep

\* preventNew changes nothing the invariant is about.
LEMMA PreventStep ==
    ASSUME ManagerInv, ConnHandlePreventNewListeners
    PROVE  ManagerInv'
<1>1. UNCHANGED <<list, state, conn, life, data, callback, killed, sel, cur, backup, pc>> /\ preventNew' = TRUE
  BY DEF ConnHandlePreventNewListeners, connVars, callVars
<1>2. QED
  BY <1>1 DEF ManagerInv, TypeOK, AtWork, Lives, PutAside, CameOutRight, Names, In

\* The start of a call: it comes to an entry without a connection.
LEMMA StartStep ==
    ASSUME ManagerInv, NEW s \in Entry \cup {Nil}, ConnAStartListener(s)
    PROVE  ManagerInv'
<1>1. UNCHANGED <<list, state, conn, life, data, callback, killed, preventNew, backup>> /\ pc = "idle" /\ GoOn(s, 1)
  BY DEF ConnAStartListener, connVars
<1>2. /\ pc' \in {"idle", "listen"} /\ sel' \in Entry \cup {Nil} /\ cur' \in Entry \cup {Nil}
      /\ pc' = "listen" => cur' \in Entry /\ In(cur') /\ conn[cur'] = Nil
  BY <1>1, GoOnFacts DEF ManagerInv
<1>3. backup = Nil
  BY <1>1 DEF ManagerInv, PutAside
<1>4. TypeOK'
  BY <1>1, <1>2 DEF ManagerInv, TypeOK
<1>5. AtWork' /\ Lives' /\ PutAside'
  BY <1>1, <1>2, <1>3 DEF ManagerInv, AtWork, Lives, PutAside, In, Names
<1>6. CameOutRight'
  BY <1>1 DEF ManagerInv, CameOutRight, Names, In
<1>7. QED
  BY <1>4, <1>5, <1>6 DEF ManagerInv

\* ConnAListen gives a connection to an entry that no connection names.
LEMMA ListenStep ==
    ASSUME ManagerInv, ConnAListen
    PROVE  ManagerInv'
<1>1. /\ pc = "listen" /\ pc' = "listened"
      /\ UNCHANGED <<list, state, data, killed, callback, preventNew, sel, cur, backup>>
  BY DEF ConnAListen
<1>2. cur \in Entry /\ In(cur) /\ conn[cur] = Nil /\ backup = Nil
  BY <1>1 DEF ManagerInv, AtWork, Lives, PutAside, Names
<1>3. /\ conn \in [Entry -> ConnId \cup {Nil}] /\ life \in [ConnId -> {"cached", "live"}]
  BY DEF ManagerInv, TypeOK
<1>4. /\ conn' \in [Entry -> ConnId \cup {Nil}] /\ life' \in [ConnId -> {"cached", "live"}]
      /\ \A l \in Entry : l # cur => conn'[l] = conn[l]
  BY <1>2, <1>3 DEF ConnAListen
<1>5. TypeOK'
  BY <1>1, <1>4 DEF ManagerInv, TypeOK
<1>6. ASSUME NEW c \in ConnId
      PROVE  cur \notin Names(c)
  <2>1. c # Nil
    BY NilFacts
  <2>2. QED
    BY <1>1, <1>2, <2>1 DEF ManagerInv, CameOutRight
<1>7. AtWork' /\ Lives' /\ PutAside'
  <2>1. AtWork' /\ PutAside'
    BY <1>1, <1>2, <1>6 DEF AtWork, PutAside, In, Names
  <2>2. \A c \in ConnId : life[c] = "live" => life'[c] = "live"
    BY <1>3 DEF ConnAListen
  <2>3. Lives'
    BY <1>1, <2>2 DEF ManagerInv, Lives
  <2>4. QED
    BY <2>1, <2>3
<1>8. CameOutRight'
  <2> SUFFICES ASSUME NEW c \in ConnId, NEW l \in Names(c)
               PROVE  In(l) /\ conn'[l] = c
    BY <1>1 DEF CameOutRight, In, Names
  <2>1. In(l) /\ conn[l] = c
    BY <1>1 DEF ManagerInv, CameOutRight
  <2>2. l \in Entry /\ c # Nil
    BY NilFacts DEF Names
  <2>3. QED
    BY <1>2, <1>4, <2>1, <2>2
<1>9. QED
  BY <1>5, <1>7, <1>8 DEF ManagerInv

\* A live connection is told its entry, whose connection it is.
LEMMA ListenedStep ==
    ASSUME ManagerInv, Listened
    PROVE  ManagerInv'
<1> DEFINE i == IF sel = Nil THEN 1 + CHOOSE i \in DOMAIN list : list[i] = cur ELSE Len(list) + 1
<1>1. pc = "listened" /\ GoOn(sel, i) /\ UNCHANGED <<list, conn, life, killed, callback, preventNew, backup>>
  BY DEF Listened
<1>2. /\ cur \in Entry /\ In(cur) /\ backup = Nil
      /\ \A c \in ConnId : <<c, cur>> \notin callback
  BY <1>1 DEF ManagerInv, AtWork, Lives, PutAside, Names
<1>3. /\ list \in Seq(Entry) /\ sel \in Entry \cup {Nil} /\ TypeOK
      /\ state \in [Entry -> SUBSET Flags] /\ data \in [ConnId -> Entry \cup {Nil}]
      /\ conn \in [Entry -> ConnId \cup {Nil}]
  BY DEF ManagerInv, TypeOK
<1>4. i \in Nat
  <2>1. Len(list) \in Nat /\ DOMAIN list = 1 .. Len(list)
    BY <1>3
  <2>2. \E x \in DOMAIN list : list[x] = cur
    BY <1>2, <2>1 DEF In, Contains
  <2>3. (CHOOSE x \in DOMAIN list : list[x] = cur) \in Nat
    BY <2>1, <2>2
  <2>4. QED
    BY <2>1, <2>3
<1> HIDE DEF i
<1>5. /\ pc' \in {"idle", "listen"} /\ sel' \in Entry \cup {Nil} /\ cur' \in Entry \cup {Nil}
      /\ pc' = "listen" => cur' \in Entry /\ In(cur') /\ conn[cur'] = Nil
  BY <1>1, <1>3, <1>4, GoOnFacts
<1>6. state' \in [Entry -> SUBSET Flags]
  <2>1. {"FAILED", "ACTIVE"} \subseteq Flags
    BY DEF Flags
  <2>2. Keep(cur, "FAILED") \in SUBSET Flags /\ Keep(cur, "ACTIVE") \in SUBSET Flags
    BY <1>2, <1>3, <2>1, FlagFacts
  <2>3. state' = [state EXCEPT ![cur] = Keep(cur, IF conn[cur] = Nil THEN "FAILED" ELSE "ACTIVE")]
    BY DEF Listened
  <2>4. QED
    BY <1>3, <2>2, <2>3
<1>7. /\ data' \in [ConnId -> Entry \cup {Nil}]
      /\ \A c \in ConnId : data'[c] = data[c] \/ (data'[c] = cur /\ conn[cur] = c /\ life[c] = "live")
  <2>1. data' = IF conn[cur] # Nil /\ life[conn[cur]] = "live" THEN [data EXCEPT ![conn[cur]] = cur] ELSE data
    BY DEF Listened
  <2>2. QED
    BY <1>2, <1>3, <2>1
<1>8. TypeOK'
  BY <1>1, <1>5, <1>6, <1>7 DEF ManagerInv, TypeOK
<1>9. AtWork' /\ Lives' /\ PutAside'
  <2>1. AtWork' /\ PutAside'
    BY <1>1, <1>2, <1>5 DEF AtWork, PutAside, In, Names
  <2>2. Lives'
    BY <1>1, <1>2, <1>7, NilFacts DEF ManagerInv, Lives
  <2>3. QED
    BY <2>1, <2>2
<1>10. CameOutRight'
  <2> SUFFICES ASSUME NEW c \in ConnId, NEW l \in Entry, data'[c] = l \/ <<c, l>> \in callback
               PROVE  In(l) /\ conn[l] = c
    BY <1>1 DEF CameOutRight, In, Names
  <2>1. CASE l \in Names(c)
    BY <1>1, <2>1 DEF ManagerInv, CameOutRight
  <2>2. CASE l = cur /\ conn[cur] = c
    BY <1>2, <2>2
  <2>3. QED
    BY <1>7, <2>1, <2>2 DEF Names
<1>11. QED
  BY <1>8, <1>9, <1>10 DEF ManagerInv

\* A restart puts the connection aside, and either puts it back or crashes.
LEMMA RestartStep ==
    ASSUME ManagerInv, (\E l \in Entry : RestartBegin(l)) \/ RestartNoMemory \/ RestartCrashes
    PROVE  ManagerInv'
<1>1. /\ UNCHANGED <<list, life, data, callback, killed, preventNew, sel>>
  BY DEF RestartBegin, RestartNoMemory, RestartCrashes, connVars
<1>2. /\ TypeOK /\ state \in [Entry -> SUBSET Flags] /\ conn \in [Entry -> ConnId \cup {Nil}]
      /\ cur \in Entry \cup {Nil} /\ backup \in ConnId \cup {Nil}
  BY DEF ManagerInv, TypeOK
<1>3. \A c \in ConnId : \A l \in Names(c) :
        l \in Entry /\ c # Nil /\ In(l) /\ (conn[l] = c \/ (pc \in {"restart", "crashed"} /\ cur = l /\ backup = c))
  <2> TAKE c \in ConnId
  <2> TAKE l \in Names(c)
  <2>1. l \in Entry /\ c # Nil
    BY NilFacts DEF Names
  <2>2. In(l) /\ (conn[l] = c \/ (pc \in {"restart", "crashed"} /\ cur = l /\ backup = c))
    BY DEF ManagerInv, CameOutRight
  <2>3. QED
    BY <2>1, <2>2
<1>4. ASSUME NEW l \in Entry, RestartBegin(l)
      PROVE  ManagerInv'
  <2>1. /\ pc = "idle" /\ In(l) /\ pc' = "restart" /\ cur' = l /\ backup' = conn[l]
        /\ state' = [state EXCEPT ![l] = {"FRESH"}] /\ conn' = [conn EXCEPT ![l] = Nil]
    BY <1>4 DEF RestartBegin
  <2>2. state' \in [Entry -> SUBSET Flags] /\ conn' \in [Entry -> ConnId \cup {Nil}] /\ backup' \in ConnId \cup {Nil}
    <3>1. {"FRESH"} \in SUBSET Flags
      BY DEF Flags
    <3>2. QED
      BY <1>2, <2>1, <3>1
  <2>3. TypeOK'
    BY <1>1, <2>1, <2>2 DEF ManagerInv, TypeOK
  <2>4. conn'[l] = Nil /\ \A k \in Entry : k # l => conn'[k] = conn[k]
    BY <1>2, <2>1
  <2>5. AtWork' /\ Lives' /\ PutAside'
    BY <1>1, <2>1, <2>4 DEF ManagerInv, AtWork, Lives, PutAside, In, Names
  <2>6. CameOutRight'
    <3> SUFFICES ASSUME NEW c \in ConnId, NEW k \in Names(c)
                 PROVE  In(k) /\ (conn'[k] = c \/ (cur' = k /\ backup' = c))
      BY <1>1, <2>1 DEF CameOutRight, In, Names
    <3>1. k \in Entry /\ In(k) /\ conn[k] = c
      BY <1>3, <2>1
    <3>2. QED
      BY <2>1, <2>4, <3>1
  <2>7. QED
    BY <2>3, <2>5, <2>6 DEF ManagerInv
<1>5. CASE RestartNoMemory
  <2>1. /\ pc = "restart" /\ pc' = "idle" /\ cur' = Nil /\ backup' = Nil
        /\ conn' = [conn EXCEPT ![cur] = backup] /\ state' = state
    BY <1>5 DEF RestartNoMemory
  <2>2. cur \in Entry /\ In(cur) /\ conn[cur] = Nil
    BY <1>1, <2>1 DEF ManagerInv, AtWork, Lives, PutAside, Names
  <2>3. /\ conn' \in [Entry -> ConnId \cup {Nil}] /\ conn'[cur] = backup
        /\ \A k \in Entry : k # cur => conn'[k] = conn[k]
    BY <1>2, <2>1, <2>2
  <2>4. TypeOK'
    BY <1>1, <1>2, <2>1, <2>3 DEF ManagerInv, TypeOK
  <2>5. AtWork' /\ Lives' /\ PutAside'
    BY <1>1, <2>1 DEF ManagerInv, AtWork, Lives, PutAside, Names
  <2>6. CameOutRight'
    <3> SUFFICES ASSUME NEW c \in ConnId, NEW k \in Names(c)
                 PROVE  In(k) /\ conn'[k] = c
      BY <1>1, <2>1 DEF CameOutRight, In, Names
    <3>1. k \in Entry /\ c # Nil /\ In(k) /\ (conn[k] = c \/ (cur = k /\ backup = c))
      BY <1>3
    <3>2. QED
      BY <2>2, <2>3, <3>1
  <2>7. QED
    BY <2>4, <2>5, <2>6 DEF ManagerInv
<1>6. CASE RestartCrashes
  <2>1. pc = "restart" /\ pc' = "crashed" /\ UNCHANGED <<state, conn, cur, backup>>
    BY <1>6 DEF RestartCrashes
  <2>2. TypeOK'
    BY <1>1, <2>1 DEF ManagerInv, TypeOK
  <2>3. AtWork' /\ Lives' /\ PutAside'
    BY <1>1, <2>1 DEF ManagerInv, AtWork, Lives, PutAside, In, Names
  <2>4. CameOutRight'
    BY <1>1, <2>1 DEF ManagerInv, CameOutRight, In, Names
  <2>5. QED
    BY <2>2, <2>3, <2>4 DEF ManagerInv
<1>7. QED
  BY <1>4, <1>5, <1>6

\* The callback takes the name over from the connection it frees.
LEMMA FreesStep ==
    ASSUME ManagerInv, NEW c \in ConnId, CallbackFrees(c)
    PROVE  ManagerInv'
<1>1. /\ UNCHANGED <<list, state, conn, preventNew, pc, sel, cur, backup>>
      /\ life' = [life EXCEPT ![c] = "cached"] /\ killed' = killed \ {c}
      /\ callback' = callback \cup ({c} \X ({data[c]} \ {Nil})) /\ data' = [data EXCEPT ![c] = Nil]
  BY DEF CallbackFrees, callVars
<1>2. /\ data \in [ConnId -> Entry \cup {Nil}] /\ callback \subseteq ConnId \X Entry
      /\ life \in [ConnId -> {"cached", "live"}] /\ killed \subseteq ConnId
  BY DEF ManagerInv, TypeOK
<1>3. /\ data' \in [ConnId -> Entry \cup {Nil}] /\ callback' \subseteq ConnId \X Entry
      /\ life' \in [ConnId -> {"cached", "live"}] /\ killed' \subseteq ConnId
  BY <1>1, <1>2
<1>4. TypeOK'
  BY <1>1, <1>3 DEF ManagerInv, TypeOK
<1>5. /\ data'[c] = Nil
      /\ \A d \in ConnId : d # c => data'[d] = data[d] /\ life'[d] = life[d]
      /\ \A d \in ConnId, l \in Entry : <<d, l>> \in callback' => <<d, l>> \in callback \/ (d = c /\ data[c] = l)
  BY <1>1, <1>2
<1>6. \A d \in ConnId, l \in Entry : data'[d] = l \/ <<d, l>> \in callback' => l \in Names(d)
  BY <1>5, NilFacts DEF Names
<1>7. AtWork' /\ Lives' /\ PutAside'
  <2>1. AtWork' /\ PutAside'
    BY <1>1, <1>6 DEF ManagerInv, AtWork, PutAside, In, Names
  <2>2. Lives'
    BY <1>5, NilFacts DEF ManagerInv, Lives
  <2>3. QED
    BY <2>1, <2>2
<1>8. CameOutRight'
  BY <1>1, <1>6 DEF ManagerInv, CameOutRight, In, Names
<1>9. QED
  BY <1>4, <1>7, <1>8 DEF ManagerInv

\* The callback takes the connection out of its entry: no other names it.
LEMMA EndsStep ==
    ASSUME ManagerInv, NEW c \in ConnId, NEW l \in Entry, CallbackEnds(c, l)
    PROVE  ManagerInv'
<1>1. /\ UNCHANGED <<list, state, life, data, killed, preventNew, sel, cur, backup>>
      /\ <<c, l>> \in callback /\ callback' = callback \ {<<c, l>>} /\ conn' = [conn EXCEPT ![l] = Nil]
      /\ pc' \in {pc, "crashed"}
  BY DEF CallbackEnds
<1>2. /\ callback \subseteq ConnId \X Entry /\ conn \in [Entry -> ConnId \cup {Nil}]
      /\ pc \in {"idle", "wait", "listen", "listened", "restart", "crashed"}
  BY DEF ManagerInv, TypeOK
<1>3. /\ callback' \subseteq ConnId \X Entry /\ conn' \in [Entry -> ConnId \cup {Nil}]
      /\ conn'[l] = Nil /\ \A k \in Entry : k # l => conn'[k] = conn[k]
  BY <1>1, <1>2
<1>4. TypeOK'
  BY <1>1, <1>2, <1>3 DEF ManagerInv, TypeOK
<1>5. \A d \in ConnId, k \in Entry : data[d] = k \/ <<d, k>> \in callback' => k \in Names(d)
  BY <1>1 DEF Names
<1>6. AtWork' /\ Lives' /\ PutAside'
  <2>1. \A k \in Entry : conn[k] = Nil => conn'[k] = Nil
    BY <1>3
  <2>2. QED
    BY <1>1, <1>5, <2>1 DEF ManagerInv, AtWork, Lives, PutAside, In, Names
<1>7. CameOutRight'
  <2> SUFFICES ASSUME NEW d \in ConnId, NEW k \in Entry, data[d] = k \/ <<d, k>> \in callback'
               PROVE  In(k) /\ (conn'[k] = d \/ (pc' \in {"restart", "crashed"} /\ cur = k /\ backup = d))
    BY <1>1 DEF CameOutRight, In, Names
  <2>1. k \in Names(d)
    BY <1>5
  <2>2. /\ In(k)
        /\ conn[k] = d \/ (pc \in {"restart", "crashed"} /\ cur = k /\ backup = d)
    BY <2>1 DEF ManagerInv, CameOutRight
  <2>3. CASE k # l
    BY <1>1, <1>3, <2>2, <2>3
  <2>4. CASE k = l
    <3>1. l \in Names(c) /\ data[c] # l
      BY <1>1 DEF Names, ManagerInv, Lives
    <3>2. d = c
      BY <2>1, <2>4, <3>1, OneName
    <3>3. QED
      BY <1>1, <2>4, <3>1, <3>2
  <2>5. QED
    BY <2>3, <2>4
<1>8. QED
  BY <1>4, <1>6, <1>7 DEF ManagerInv

-----------------------------------------------------------------------------
(* The theorems.                                                           *)

\* Every step of the manager preserves the invariant.
LEMMA ManagerNext == ManagerInv /\ [Next]_vars => ManagerInv'
<1> SUFFICES ASSUME ManagerInv, [Next]_vars
             PROVE  ManagerInv'
  OBVIOUS
<1>1. CASE UNCHANGED vars
  BY <1>1 DEF vars, ManagerInv, TypeOK, AtWork, Lives, PutAside, CameOutRight, In, Names
<1>2. CASE Next
  BY <1>2, AddStep, RemoveStep, MarkStep, StartStep, ListenStep, ListenedStep, RestartStep,
     PreventStep, StatusStep, FreesStep, EndsStep DEF Next
<1>3. QED
  BY <1>1, <1>2

\* No list, no connection, no call.
LEMMA ManagerInit == Init => ManagerInv
<1> SUFFICES ASSUME Init
             PROVE  ManagerInv
  OBVIOUS
<1>1. list \in Seq(Entry) /\ IsInjective(list)
  <2>1. list = <<>> /\ DOMAIN <<>> = {}
    BY DEF Init
  <2>2. QED
    BY <2>1 DEF IsInjective
<1>2. TypeOK
  BY <1>1 DEF Init, TypeOK
<1>3. \A c \in ConnId : Names(c) = {}
  BY NilFacts DEF Init, Names
<1>4. AtWork /\ Lives /\ PutAside /\ CameOutRight
  BY <1>3 DEF Init, AtWork, Lives, PutAside, CameOutRight
<1>5. QED
  BY <1>2, <1>4 DEF ManagerInv

\* The manager keeps its types: every entry is in the list at most once.
THEOREM ManagerTypeCorrect == Spec => []TypeOK
<1>1. ManagerInv => TypeOK
  BY DEF ManagerInv
<1>2. QED
  BY <1>1, ManagerInit, ManagerNext, PTL DEF Spec

\* What ConnAListenerCallback asserts of the entry it found holds, whatever the
\* consumer called after the connection came out of the engine.
THEOREM CallbacksFindTheirEntry == Spec => []CameOutRight
<1>1. ManagerInv => CameOutRight
  BY DEF ManagerInv
<1>2. QED
  BY <1>1, ManagerInit, ManagerNext, PTL DEF Spec

=============================================================================
