-------------------------- MODULE ConnQueueProofs --------------------------
(***************************************************************************)
(* Proofs about ConnQueue, for every set of events and every number of     *)
(* worker threads.                                                         *)
(***************************************************************************)
EXTENDS ConnQueue, FiniteSetTheorems, SequenceTheorems, TLAPS

-----------------------------------------------------------------------------
(* Facts about the queue as a sequence.                                    *)

Injective(s) == \A i, j \in DOMAIN s : s[i] = s[j] => i = j

\* The positions of what is left when the event at position i is taken out.
LEMMA WithoutPositions ==
    ASSUME NEW S, NEW q \in Seq(S), NEW i \in 1 .. Len(q)
    PROVE  /\ Without(q, i) \in Seq(S) /\ Len(Without(q, i)) = Len(q) - 1
           /\ \A k \in 1 .. Len(Without(q, i)) : Without(q, i)[k] = IF k < i THEN q[k] ELSE q[k + 1]
<1> DEFINE a == SubSeq(q, 1, i - 1)
           b == SubSeq(q, i + 1, Len(q))
           w == a \o b
<1>1. /\ a \in Seq(S) /\ Len(a) = i - 1
      /\ \A k \in 1 .. i - 1 : a[k] = q[k]
  OBVIOUS
<1>2. /\ b \in Seq(S) /\ Len(b) = Len(q) - i
      /\ \A k \in 1 .. Len(q) - i : b[k] = q[k + i]
  <2>1. CASE i < Len(q)
    BY <2>1
  <2>2. CASE i = Len(q)
    BY <2>2
  <2>3. QED
    BY <2>1, <2>2
<1> HIDE DEF a, b
<1>3. w \in Seq(S) /\ Len(w) = Len(q) - 1
  <2>1. w \in Seq(S) /\ Len(w) = Len(a) + Len(b)
    <3>1. a \in Seq(S) /\ b \in Seq(S)
      BY <1>1, <1>2
    <3>2. QED
      BY <3>1
  <2>2. Len(q) \in Nat /\ i \in Int
    OBVIOUS
  <2>3. QED
    BY <2>1, <2>2, <1>1, <1>2
<1>4. \A k \in 1 .. Len(w) : w[k] = IF k < i THEN q[k] ELSE q[k + 1]
  <2> SUFFICES ASSUME NEW k \in 1 .. Len(w)
               PROVE  w[k] = IF k < i THEN q[k] ELSE q[k + 1]
    OBVIOUS
  <2>1. CASE k < i
    BY <2>1, <1>1, <1>2, <1>3
  <2>2. CASE k >= i
    <3>1. k - (i - 1) \in 1 .. Len(q) - i
      BY <2>2, <1>3
    <3>2. w[k] = b[k - (i - 1)]
      BY <2>2, <1>1, <1>2, <1>3
    <3>3. b[k - (i - 1)] = q[(k - (i - 1)) + i]
      BY <3>1, <1>2
    <3>4. (k - (i - 1)) + i = k + 1
      BY <1>3
    <3>5. QED
      BY <2>2, <3>2, <3>3, <3>4
  <2>3. QED
    BY <2>1, <2>2, <1>3
<1>5. w = Without(q, i)
  BY DEF Without, a, b
<1>6. QED
  BY <1>3, <1>4, <1>5

\* Taking the event at position i out of the queue (EventQueueRemoveEvent).
LEMMA WithoutFacts ==
    ASSUME NEW S, NEW q \in Seq(S), NEW i \in 1 .. Len(q)
    PROVE  /\ Without(q, i) \in Seq(S)
           /\ ElementsOf(Without(q, i)) \subseteq ElementsOf(q)
           /\ ElementsOf(q) \subseteq ElementsOf(Without(q, i)) \cup {q[i]}
           /\ q[i] \in ElementsOf(q)
           /\ Injective(q) => Injective(Without(q, i))
           /\ Injective(q) => q[i] \notin ElementsOf(Without(q, i))
<1> DEFINE w == Without(q, i)
<1>3. w \in Seq(S) /\ Len(w) = Len(q) - 1
  BY WithoutPositions
<1>4. \A k \in 1 .. Len(w) : w[k] = IF k < i THEN q[k] ELSE q[k + 1]
  BY WithoutPositions
<1>5. DOMAIN w = 1 .. Len(w) /\ DOMAIN q = 1 .. Len(q) /\ Len(q) \in Nat
  BY <1>3
<1>6. w = Without(q, i)
  OBVIOUS
<1> HIDE DEF w
<1>7. \A k \in 1 .. Len(w) :
         \E n \in 1 .. Len(q) : n = (IF k < i THEN k ELSE k + 1) /\ n # i /\ w[k] = q[n]
  BY <1>3, <1>4, <1>5
<1>8. ElementsOf(w) \subseteq ElementsOf(q)
  BY <1>7, <1>5 DEF ElementsOf
<1>9. q[i] \in ElementsOf(q)
  BY <1>5 DEF ElementsOf
<1>10. Injective(q) => Injective(w)
  <2> SUFFICES ASSUME Injective(q), NEW k \in 1 .. Len(w), NEW l \in 1 .. Len(w), w[k] = w[l]
               PROVE  k = l
    BY <1>5 DEF Injective
  <2>1. PICK m \in 1 .. Len(q) : m = (IF k < i THEN k ELSE k + 1) /\ w[k] = q[m]
    BY <1>7
  <2>2. PICK n \in 1 .. Len(q) : n = (IF l < i THEN l ELSE l + 1) /\ w[l] = q[n]
    BY <1>7
  <2>3. m = n
    BY <2>1, <2>2, <1>5 DEF Injective
  <2>4. QED
    BY <2>1, <2>2, <2>3, <1>3
<1>11. Injective(q) => q[i] \notin ElementsOf(w)
  <2> SUFFICES ASSUME Injective(q), NEW k \in 1 .. Len(w), w[k] = q[i]
               PROVE  FALSE
    BY <1>5 DEF ElementsOf
  <2>1. PICK m \in 1 .. Len(q) : m # i /\ w[k] = q[m]
    BY <1>7
  <2>2. QED
    BY <2>1, <1>5 DEF Injective
<1>12. ElementsOf(q) \subseteq ElementsOf(w) \cup {q[i]}
  <2> SUFFICES ASSUME NEW n \in 1 .. Len(q), n # i
               PROVE  \E k \in 1 .. Len(w) : w[k] = q[n]
    BY <1>5 DEF ElementsOf
  <2>1. CASE n < i
    BY <2>1, <1>3, <1>4, <1>5
  <2>2. CASE n > i
    <3>1. n - 1 \in 1 .. Len(w) /\ ~(n - 1 < i) /\ (n - 1) + 1 = n
      BY <2>2, <1>3, <1>5
    <3>2. w[n - 1] = q[n]
      BY <3>1, <1>4
    <3>3. QED
      BY <3>1, <3>2
  <2>3. QED
    BY <2>1, <2>2, <1>5
<1>13. QED
  BY <1>3, <1>6, <1>8, <1>9, <1>10, <1>11, <1>12

\* Appending to the queue (EventQueueAppendEvent).
LEMMA ConcatFacts ==
    ASSUME NEW S, NEW s \in Seq(S), NEW r \in Seq(S)
    PROVE  /\ s \o r \in Seq(S)
           /\ ElementsOf(s \o r) = ElementsOf(s) \cup ElementsOf(r)
           /\ Injective(s) /\ Injective(r) /\ ElementsOf(s) \cap ElementsOf(r) = {}
                 => Injective(s \o r)
<1> DEFINE c == s \o r
<1>1. /\ c \in Seq(S)
      /\ Len(c) = Len(s) + Len(r)
      /\ \A k \in 1 .. Len(c) : c[k] = IF k <= Len(s) THEN s[k] ELSE r[k - Len(s)]
  OBVIOUS
<1>2. /\ DOMAIN c = 1 .. Len(c)
      /\ DOMAIN s = 1 .. Len(s)
      /\ DOMAIN r = 1 .. Len(r)
      /\ Len(s) \in Nat /\ Len(r) \in Nat
  BY <1>1
<1> HIDE DEF c
<1>3. \A k \in 1 .. Len(c) :
         \/ k \in 1 .. Len(s) /\ c[k] = s[k]
         \/ k - Len(s) \in 1 .. Len(r) /\ c[k] = r[k - Len(s)]
  BY <1>1, <1>2
<1>4. ElementsOf(c) \subseteq ElementsOf(s) \cup ElementsOf(r)
  <2> SUFFICES ASSUME NEW k \in 1 .. Len(c)
               PROVE  c[k] \in ElementsOf(s) \cup ElementsOf(r)
    BY <1>2 DEF ElementsOf
  <2>1. CASE k \in 1 .. Len(s) /\ c[k] = s[k]
    BY <2>1, <1>2 DEF ElementsOf
  <2>2. CASE k - Len(s) \in 1 .. Len(r) /\ c[k] = r[k - Len(s)]
    BY <2>2, <1>2 DEF ElementsOf
  <2>3. QED
    BY <1>3, <2>1, <2>2
<1>5. ElementsOf(s) \subseteq ElementsOf(c)
  <2>1. \A k \in 1 .. Len(s) : k \in 1 .. Len(c) /\ c[k] = s[k]
    BY <1>1, <1>2
  <2>2. QED
    BY <2>1, <1>2 DEF ElementsOf
<1>6. ElementsOf(r) \subseteq ElementsOf(c)
  <2>1. \A k \in 1 .. Len(r) : k + Len(s) \in 1 .. Len(c) /\ c[k + Len(s)] = r[k]
    BY <1>1, <1>2
  <2>2. QED
    BY <2>1, <1>2 DEF ElementsOf
<1>7. Injective(s) /\ Injective(r) /\ ElementsOf(s) \cap ElementsOf(r) = {}
         => Injective(c)
  <2> SUFFICES ASSUME Injective(s), Injective(r), ElementsOf(s) \cap ElementsOf(r) = {},
                      NEW i \in 1 .. Len(c), NEW j \in 1 .. Len(c), c[i] = c[j]
               PROVE  i = j
    BY <1>2 DEF Injective
  <2>1. CASE i <= Len(s) /\ j <= Len(s)
    BY <2>1, <1>1, <1>2 DEF Injective
  <2>2. CASE i > Len(s) /\ j > Len(s)
    <3>1. i - Len(s) \in 1 .. Len(r) /\ j - Len(s) \in 1 .. Len(r)
      BY <2>2, <1>1, <1>2
    <3>2. r[i - Len(s)] = r[j - Len(s)]
      BY <2>2, <1>1, <1>2
    <3>3. i - Len(s) = j - Len(s)
      BY <3>1, <3>2, <1>2 DEF Injective
    <3>4. QED
      BY <3>3, <1>2
  <2>3. CASE i <= Len(s) /\ j > Len(s)
    <3>1. c[i] \in ElementsOf(s) /\ c[j] \in ElementsOf(r)
      <4>1. i \in 1 .. Len(s) /\ c[i] = s[i]
        BY <2>3, <1>1, <1>2
      <4>2. j - Len(s) \in 1 .. Len(r) /\ c[j] = r[j - Len(s)]
        BY <2>3, <1>1, <1>2
      <4>3. QED
        BY <4>1, <4>2, <1>2 DEF ElementsOf
    <3>2. QED
      BY <3>1
  <2>4. CASE i > Len(s) /\ j <= Len(s)
    <3>1. c[j] \in ElementsOf(s) /\ c[i] \in ElementsOf(r)
      <4>1. j \in 1 .. Len(s) /\ c[j] = s[j]
        BY <2>4, <1>1, <1>2
      <4>2. i - Len(s) \in 1 .. Len(r) /\ c[i] = r[i - Len(s)]
        BY <2>4, <1>1, <1>2
      <4>3. QED
        BY <4>1, <4>2, <1>2 DEF ElementsOf
    <3>2. QED
      BY <3>1
  <2>5. QED
    BY <2>1, <2>2, <2>3, <2>4, <1>2
<1>8. QED
  BY <1>1, <1>4, <1>5, <1>6, <1>7 DEF c

\* A sequence of one event, and the empty one.
LEMMA SingletonFacts ==
    /\ \A e \in Event :
          <<e>> \in Seq(Event) /\ ElementsOf(<<e>>) = {e} /\ Injective(<<e>>)
    /\ <<>> \in Seq(Event) /\ ElementsOf(<<>>) = {} /\ Injective(<<>>)
  BY DEF ElementsOf, Injective

\* Appending one event.
LEMMA AppendFacts ==
    ASSUME NEW s \in Seq(Event), NEW e \in Event
    PROVE  /\ s \o <<e>> \in Seq(Event)
           /\ ElementsOf(s \o <<e>>) = ElementsOf(s) \cup {e}
           /\ Injective(s) /\ e \notin ElementsOf(s) => Injective(s \o <<e>>)
<1> DEFINE r == <<e>>
<1>1. r \in Seq(Event) /\ ElementsOf(r) = {e} /\ Injective(r)
  BY SingletonFacts
<1> HIDE DEF r
<1>2. /\ s \o r \in Seq(Event)
      /\ ElementsOf(s \o r) = ElementsOf(s) \cup {e}
      /\ Injective(s) /\ e \notin ElementsOf(s) => Injective(s \o r)
  BY <1>1, ConcatFacts
<1>3. QED
  BY <1>2 DEF r

-----------------------------------------------------------------------------
(* Facts about the helpers of the actions.                                 *)

\* The class of an event is one of the three slots.
LEMMA EventClassType == \A e : EventClass(e) \in Class
  BY DEF EventClass, Class

\* The events in progress, slot by slot.
LEMMA ActiveFacts ==
    ASSUME TypeOK, SlotExclusion
    PROVE  /\ ActiveEvents \subseteq Event
           /\ \A e : e \in ActiveEvents <=> e # NoEvent /\ active[EventClass(e)] = e
           /\ \A c \in Class : active[c] # NoEvent => active[c] \in ActiveEvents
  BY EventClassType DEF TypeOK, SlotExclusion, ActiveEvents

\* EventQueueAbort empties the queue into the free list, once.
LEMMA AbortFacts ==
    ASSUME TypeOK, NEW act, NEW current, NEW why \in Failure, NEW also \in SUBSET Event,
           EventQueueAbort(act, current, why, also)
    PROVE  /\ problem' \in Failure \cup {"none"}
           /\ error' \in [Event -> Error]
           /\ seError' \in [Class -> Error]
           /\ inEngine' \subseteq Class
           /\ queue' \in Seq(Event) /\ freeList' \subseteq Event
           /\ \/ queue' = queue /\ freeList' = freeList \cup also
              \/ queue' = <<>> /\ freeList' = freeList \cup ElementsOf(queue) \cup also
<1>1. ElementsOf(queue) \subseteq Event
  BY DEF TypeOK, ElementsOf
<1>2. CASE problem = "none"
  <2>1. /\ problem' = why
        /\ queue' = <<>>
        /\ freeList' = freeList \cup ElementsOf(queue) \cup also
        /\ CancelEventsInProgress(act, current)
    BY <1>2 DEF EventQueueAbort
  <2>2. /\ error' \in [Event -> Error]
        /\ seError' \in [Class -> Error]
        /\ inEngine' \subseteq Class
    BY <2>1 DEF CancelEventsInProgress, TypeOK, Error
  <2>3. freeList' \subseteq Event /\ queue' \in Seq(Event)
    BY <1>1, <2>1 DEF TypeOK
  <2>4. QED
    BY <2>1, <2>2, <2>3
<1>3. CASE problem # "none"
  BY <1>3 DEF EventQueueAbort, TypeOK
<1>4. QED
  BY <1>2, <1>3

\* What a thread that works on an event knows of it.
LEMMA OwnerFacts ==
    ASSUME QueueInvariant, NEW t \in Thread, pc[t] \in OwnerPC
    PROVE  ev[t] \in Event /\ ev[t] # NoEvent /\ active[EventClass(ev[t])] = ev[t]
  BY ActiveFacts, QueueAssumption DEF QueueInvariant, OneOwner

\* The threads in ConnEventsProcess are finitely many.
LEMMA InsideFinite == IsFiniteSet(Thread) /\ IsFiniteSet(Inside) /\ IsFiniteSet(Inside')
<1>1. IsFiniteSet(Thread)
  BY FiniteWorkers, FS_AddElement DEF Thread
<1>2. Inside \subseteq Thread /\ Inside' \subseteq Thread
  BY DEF Inside
<1>3. QED
  BY <1>1, <1>2, FS_Subset

\* One thread moves: how the number of threads in ConnEventsProcess changes.
LEMMA InsideMoves ==
    ASSUME QueueInvariant, NEW t \in Thread, NEW l, pc' = [pc EXCEPT ![t] = l]
    PROVE  /\ (pc[t] \in InsidePC <=> l \in InsidePC) => Cardinality(Inside') = threads
           /\ pc[t] \notin InsidePC /\ l \in InsidePC => Cardinality(Inside') = threads + 1
           /\ pc[t] \in InsidePC => threads > 0
           /\ pc[t] \in InsidePC /\ l \notin InsidePC => Cardinality(Inside') = threads - 1
<1>1. threads = Cardinality(Inside) /\ threads \in Nat /\ pc \in [Thread -> PC]
  BY DEF QueueInvariant, ThreadsCounted, TypeOK
<1>2. \A u \in Thread : pc'[u] = IF u = t THEN l ELSE pc[u]
  BY <1>1
<1>3. ASSUME pc[t] \in InsidePC <=> l \in InsidePC
      PROVE  Inside' = Inside
  BY <1>2, <1>3 DEF Inside
<1>4. ASSUME pc[t] \notin InsidePC, l \in InsidePC
      PROVE  Inside' = Inside \cup {t} /\ t \notin Inside
  BY <1>2, <1>4 DEF Inside
<1>5. ASSUME pc[t] \in InsidePC, l \notin InsidePC
      PROVE  Inside' = Inside \ {t}
  BY <1>2, <1>5 DEF Inside
<1>6. ASSUME pc[t] \in InsidePC
      PROVE  t \in Inside /\ Cardinality(Inside \ {t}) = threads - 1 /\ threads > 0
  <2>1. t \in Inside
    BY <1>6 DEF Inside
  <2>2. Cardinality(Inside \ {t}) = threads - 1 /\ IsFiniteSet(Inside \ {t})
    BY <2>1, <1>1, InsideFinite, FS_RemoveElement
  <2>3. Cardinality(Inside \ {t}) \in Nat
    BY <2>2, FS_CardinalityType
  <2>4. QED
    BY <2>1, <2>2, <2>3, <1>1
<1>7. t \notin Inside => Cardinality(Inside \cup {t}) = threads + 1
  BY <1>1, InsideFinite, FS_AddElement
<1>8. QED
  BY <1>1, <1>3, <1>4, <1>5, <1>6, <1>7

-----------------------------------------------------------------------------
(* Types.                                                                  *)

\* The end of an event keeps the types of what it writes.
LEMMA FailEventTypes ==
    ASSUME TypeOK, NEW t \in Thread, NEW why \in Error, FailEvent(t, why)
    PROVE  /\ error' \in [Event -> Error]
           /\ status' \in [Event -> Status]
           /\ socket' \in {"fresh", "open", "closed"}
           /\ sslConn' \in BOOLEAN
           /\ pc' \in [Thread -> PC]
<1>1. StatusOf(ev[t], why) \in Status
  BY DEF StatusOf, Status
<1>2. error' \in [Event -> Error] /\ status' \in [Event -> Status]
  BY <1>1 DEF FailEvent, TypeOK
<1>3. socket' \in {"fresh", "open", "closed"} /\ sslConn' \in BOOLEAN
  BY DEF FailEvent, EndSocket, TypeOK
<1>4. pc' \in [Thread -> PC]
  BY DEF FailEvent, Goto, TypeOK, PC, InsidePC
<1>5. QED
  BY <1>2, <1>3, <1>4

\* Working on an event without the lock (process.c) keeps the types.
LEMMA ProcessEventTypes ==
    ASSUME QueueInvariant, NEW t \in Thread, ProcessEvent(t)
    PROVE  TypeOK'
<1> USE DEF QueueInvariant
<1>1. CASE ProcessCancelled(t)
  <2>1. ev[t] \in Event
    BY <1>1, OwnerFacts DEF ProcessCancelled, OwnerPC
  <2>2. error[ev[t]] \in Error
    BY <2>1 DEF TypeOK
  <2>3. QED
    BY <1>1, <2>2, FailEventTypes
    DEF ProcessCancelled, TypeOK, transaction, socketEvents, handle
<1>2. CASE ProcessDone(t)
  <2>1. status' \in [Event -> Status] /\ pc' \in [Thread -> PC]
    BY <1>2 DEF ProcessDone, TypeOK, Goto, PC, InsidePC, Status
  <2>2. socket' \in {"fresh", "open", "closed"} /\ sslConn' \in BOOLEAN
    BY <1>2 DEF ProcessDone, EndSocket, TypeOK
  <2>3. QED
    BY <1>2, <2>1, <2>2 DEF ProcessDone, TypeOK, transaction, socketEvents, handle
<1>3. CASE ProcessFails(t)
  <2>1. PICK why \in IOErrors(ev[t]) : FailEvent(t, why)
    BY <1>3 DEF ProcessFails
  <2>2. why \in Error
    BY DEF IOErrors, Error
  <2>3. QED
    BY <1>3, <2>1, <2>2, FailEventTypes
    DEF ProcessFails, TypeOK, transaction, socketEvents, handle
<1>4. CASE ProcessBlocks(t)
  BY <1>4 DEF ProcessBlocks, Goto, PC, InsidePC, TypeOK, transaction, events,
              socketEvents, handle
<1>5. CASE CheckProblem(t)
  <2>1. CASE problem # "none"
    <3>1. "ECANCELED" \in Error /\ FailEvent(t, "ECANCELED")
      BY <1>5, <2>1 DEF CheckProblem, Error
    <3>2. QED
      BY <1>5, <3>1, FailEventTypes
      DEF CheckProblem, TypeOK, transaction, socketEvents, handle
  <2>2. CASE problem = "none"
    BY <1>5, <2>2 DEF CheckProblem, Goto, PC, InsidePC, Status, TypeOK, transaction,
                      socketEvents, handle
  <2>3. QED
    BY <2>1, <2>2
<1>6. CASE SocketEventWait(t)
  <2>1. ev' \in [Thread -> Event \cup {NoEvent}]
    BY <1>6 DEF SocketEventWait, TypeOK
  <2>2. PICK c \in BlockedOn(ev[t]) :
           \/ FailEvent(t, "EIO") /\ UNCHANGED socketEvents
           \/ FailEvent(t, "EBUSY") /\ UNCHANGED socketEvents
           \/ /\ seArg' = [seArg EXCEPT ![c] = ev[t]]
              /\ seError' = [seError EXCEPT ![c] = "none"]
              /\ inEngine' = inEngine \cup {c}
              /\ Goto(t, "handedOff")
              /\ UNCHANGED <<events, socket, sslConn>>
    BY <1>6 DEF SocketEventWait, SeLinkCe
  <2>3. c \in Class /\ "EIO" \in Error /\ "EBUSY" \in Error /\ "none" \in Error
    BY EventClassType DEF BlockedOn, Class, Error
  <2>4. CASE FailEvent(t, "EIO") /\ UNCHANGED socketEvents
    BY <1>6, <2>1, <2>3, <2>4, FailEventTypes
    DEF SocketEventWait, TypeOK, transaction, socketEvents, handle
  <2>5. CASE FailEvent(t, "EBUSY") /\ UNCHANGED socketEvents
    BY <1>6, <2>1, <2>3, <2>5, FailEventTypes
    DEF SocketEventWait, TypeOK, transaction, socketEvents, handle
  <2>6. CASE /\ seArg' = [seArg EXCEPT ![c] = ev[t]]
             /\ seError' = [seError EXCEPT ![c] = "none"]
             /\ inEngine' = inEngine \cup {c}
             /\ Goto(t, "handedOff")
             /\ UNCHANGED <<events, socket, sslConn>>
    BY <1>6, <2>1, <2>3, <2>6
    DEF SocketEventWait, Goto, PC, InsidePC, TypeOK, transaction, events, handle
  <2>7. QED
    BY <2>2, <2>4, <2>5, <2>6
<1>7. QED
  BY <1>1, <1>2, <1>3, <1>4, <1>5, <1>6 DEF ProcessEvent

\* The steps of ConnEventsProcess keep the types; the count of threads does not go
\* below 0.
LEMMA QueueStepTypes ==
    ASSUME QueueInvariant, NEW t \in Thread, QueueStep(t)
    PROVE  TypeOK'
<1> USE DEF QueueInvariant
<1>1. CASE StartEvent(t)
  <2>1. PICK i \in 1 .. Len(queue) :
           /\ queue' = Without(queue, i)
           /\ active' = [active EXCEPT ![EventClass(queue[i])] = queue[i]]
           /\ ev' = [ev EXCEPT ![t] = queue[i]]
    BY <1>1 DEF StartEvent, ConnEventInProgressSet
  <2>2. queue[i] \in Event /\ queue' \in Seq(Event)
    BY <2>1, WithoutFacts DEF TypeOK
  <2>3. /\ active' \in [Class -> Event \cup {NoEvent}]
        /\ ev' \in [Thread -> Event \cup {NoEvent}]
    BY <2>1, <2>2 DEF TypeOK
  <2>4. QED
    BY <1>1, <2>2, <2>3 DEF StartEvent, Goto, PC, InsidePC, TypeOK, events,
                            socketEvents, handle
<1>2. CASE LeaveQueue(t)
  <2>1. threads > 0
    <3>1. pc[t] \in InsidePC
      BY <1>2 DEF LeaveQueue, InsidePC
    <3>2. PICK l : pc' = [pc EXCEPT ![t] = l]
      BY <1>2 DEF LeaveQueue, Goto
    <3>3. QED
      BY <3>1, <3>2, InsideMoves
  <2>2. QED
    BY <1>2, <2>1 DEF LeaveQueue, Goto, PC, State, TypeOK, events, socketEvents, handle
<1>3. CASE QueueCompleteNotify(t)
  BY <1>3 DEF QueueCompleteNotify, Goto, PC, TypeOK, transaction, events,
              socketEvents, handle
<1>4. CASE Relock(t)
  BY <1>4 DEF Relock, Goto, PC, InsidePC, TypeOK, transaction, events, socketEvents,
              handle
<1>5. CASE FinishEvent(t)
  <2> DEFINE act == [active EXCEPT ![EventClass(ev[t])] = NoEvent]
  <2>1. ev[t] \in Event
    BY <1>5, OwnerFacts DEF FinishEvent, OwnerPC
  <2>2. /\ problem' \in Failure \cup {"none"}
        /\ queue' \in Seq(Event)
        /\ freeList' \subseteq Event
        /\ error' \in [Event -> Error]
        /\ seError' \in [Class -> Error]
        /\ inEngine' \subseteq Class
    <3> HIDE DEF act
    <3>1. CASE EventQueueAbort(act, ev[t], status[ev[t]], {ev[t]})
               /\ status[ev[t]] \in {"TIMED_OUT", "FAILED"}
      <4>1. status[ev[t]] \in Failure /\ {ev[t]} \in SUBSET Event
        BY <2>1, <3>1 DEF Failure
      <4>2. QED
        BY <3>1, <4>1, AbortFacts, Zenon
    <3>2. CASE EventQueueAbort(act, ev[t], "KILLED", {ev[t]})
      <4>1. "KILLED" \in Failure /\ {ev[t]} \in SUBSET Event
        BY <2>1 DEF Failure
      <4>2. QED
        BY <3>2, <4>1, AbortFacts, Zenon
    <3>3. CASE /\ problem' = IF problem = "none" /\ status[ev[t]] = "PARTIAL"
                             THEN "PARTIAL" ELSE problem
               /\ freeList' = freeList \cup {ev[t]}
               /\ error' = [error EXCEPT ![ev[t]] = "none"]
               /\ UNCHANGED <<queue, seError, inEngine>>
      BY <2>1, <3>3 DEF TypeOK, Failure, Error
    <3>4. QED
      BY <1>5, <3>1, <3>2, <3>3 DEF FinishEvent, ConnEventInProgressClear, AbortStatus, act
  <2>3. /\ lock' = t
        /\ active' \in [Class -> Event \cup {NoEvent}]
        /\ ev' \in [Thread -> Event \cup {NoEvent}]
        /\ pc' \in [Thread -> PC]
    BY <1>5 DEF FinishEvent, ConnEventInProgressClear, Goto, PC, InsidePC, TypeOK
  <2>4. QED
    BY <1>5, <2>2, <2>3 DEF FinishEvent, TypeOK, handle
<1>6. CASE AsyncEventCallback(t)
  BY <1>6 DEF AsyncEventCallback, Goto, PC, OwnerPC, Error, TypeOK, transaction,
              socketEvents, handle
<1>7. CASE EnterQueue(t)
  BY <1>7 DEF EnterQueue, Goto, PC, InsidePC, TypeOK, events, socketEvents, handle
<1>8. QED
  BY <1>1, <1>2, <1>3, <1>4, <1>5, <1>6, <1>7 DEF QueueStep

\* The events that EventEnqueue adds, N, are new to the transaction, and each
\* ends up in the queue or on the free list.
LEMMA EnqueueFacts ==
    ASSUME QueueInvariant, EventEnqueue
    PROVE  /\ problem' \in Failure \cup {"none"}
           /\ error' \in [Event -> Error] /\ seError' \in [Class -> Error]
           /\ inEngine' \subseteq Class
           /\ queue' \in Seq(Event) /\ freeList' \subseteq Event /\ log' \in Seq(Event)
           /\ Injective(queue')
           /\ freeList' \cap ElementsOf(queue') = {}
           /\ \E N \in SUBSET (Event \ ElementsOf(log)) :
                 /\ ElementsOf(log') = ElementsOf(log) \cup N
                 /\ ElementsOf(queue') \subseteq ElementsOf(queue) \cup N
                 /\ freeList' \subseteq freeList \cup ElementsOf(queue) \cup N
<1> DEFINE e == ev[App]
<1>1. PICK flush \in Allocations("FLUSH", FlushNeeded(e), e),
           sslDisconnect \in Allocations("SSL_DISCONNECT", SSLDisconnectNeeded(e), e),
           noMemory \in BOOLEAN :
        /\ EventEngineQueueAdd(SeqOf(flush) \o SeqOf(sslDisconnect), e, noMemory)
        /\ log' = log \o (SeqOf(flush) \o SeqOf(sslDisconnect)) \o <<e>>
  BY DEF EventEnqueue
<1>2. e \in Event \ ElementsOf(log)
  BY DEF QueueInvariant, Queueing, EventEnqueue, Thread
<1>3. \A k, needed : \A f \in Allocations(k, needed, e) :
         f = NoEvent \/ (f \in Event \ ElementsOf(log) /\ f # e /\ Kind[f] = k)
  BY DEF Allocations, Unused
<1> DEFINE inserted == SeqOf(flush) \o SeqOf(sslDisconnect)
           new == inserted \o <<e>>
           N == ElementsOf(new)
<1>4. /\ inserted \in Seq(Event)
      /\ Injective(inserted)
      /\ ElementsOf(inserted) \subseteq Event \ (ElementsOf(log) \cup {e})
  <2>1. \A f \in {flush, sslDisconnect} :
           /\ SeqOf(f) \in Seq(Event)
           /\ Injective(SeqOf(f))
           /\ ElementsOf(SeqOf(f)) = {f} \ {NoEvent}
    BY <1>3, SingletonFacts, QueueAssumption DEF SeqOf
  <2>2. flush = sslDisconnect => flush = NoEvent
    BY <1>3
  <2>3. ElementsOf(SeqOf(flush)) \cap ElementsOf(SeqOf(sslDisconnect)) = {}
    BY <2>1, <2>2
  <2>4. ElementsOf(inserted) = ElementsOf(SeqOf(flush)) \cup ElementsOf(SeqOf(sslDisconnect))
    BY <2>1, ConcatFacts
  <2>5. inserted \in Seq(Event) /\ Injective(inserted)
    BY <2>1, <2>3, ConcatFacts
  <2>6. QED
    BY <2>1, <2>4, <2>5, <1>3
<1> HIDE DEF inserted
<1>5. /\ new \in Seq(Event)
      /\ Injective(new)
      /\ N = ElementsOf(inserted) \cup {e}
  BY <1>2, <1>4, AppendFacts
<1>6. N \in SUBSET (Event \ ElementsOf(log)) /\ ElementsOf(inserted) \subseteq N
  BY <1>2, <1>4, <1>5
<1>7. queue \in Seq(Event) /\ log \in Seq(Event) /\ freeList \subseteq Event
  BY DEF QueueInvariant, TypeOK
<1>8. Injective(queue) /\ freeList \cap ElementsOf(queue) = {}
  BY DEF QueueInvariant, EventPlaces, Injective
<1>9. ElementsOf(queue) \cup freeList \subseteq ElementsOf(log)
  BY DEF QueueInvariant, Logged
<1>10. log' \in Seq(Event) /\ ElementsOf(log') = ElementsOf(log) \cup N
  <2>1. log' = (log \o inserted) \o <<e>>
    BY <1>1 DEF inserted
  <2>2. /\ log \o inserted \in Seq(Event)
        /\ ElementsOf(log \o inserted) = ElementsOf(log) \cup ElementsOf(inserted)
    BY <1>4, <1>7, ConcatFacts
  <2>3. /\ (log \o inserted) \o <<e>> \in Seq(Event)
        /\ ElementsOf((log \o inserted) \o <<e>>) = ElementsOf(log \o inserted) \cup {e}
    BY <1>2, <2>2, AppendFacts
  <2>4. QED
    BY <2>1, <2>2, <2>3, <1>5
<1>11. CASE EventQueueAbort(active, NoEvent, "FAILED", N)
  <2>1. "FAILED" \in Failure /\ N \in SUBSET Event /\ TypeOK
    BY <1>6 DEF Failure, QueueInvariant
  <2> HIDE DEF N
  <2>2. /\ problem' \in Failure \cup {"none"}
        /\ error' \in [Event -> Error] /\ seError' \in [Class -> Error]
        /\ inEngine' \subseteq Class
        /\ queue' \in Seq(Event) /\ freeList' \subseteq Event
        /\ \/ queue' = queue /\ freeList' = freeList \cup N
           \/ queue' = <<>> /\ freeList' = freeList \cup ElementsOf(queue) \cup N
    BY <1>11, <2>1, AbortFacts, Zenon
  <2>3. QED
    BY <2>2, <1>6, <1>8, <1>9, <1>10, SingletonFacts
<1>12. CASE /\ problem' = "KILLED"
            /\ queue' = queue \o inserted
            /\ freeList' = freeList \cup {e}
            /\ UNCHANGED <<error, seError, inEngine>>
  <2>1. ElementsOf(queue) \cap ElementsOf(inserted) = {}
    BY <1>4, <1>9
  <2>2. /\ queue' \in Seq(Event)
        /\ ElementsOf(queue') = ElementsOf(queue) \cup ElementsOf(inserted)
        /\ Injective(queue')
    BY <1>12, <1>4, <1>7, <1>8, <2>1, ConcatFacts
  <2>3. /\ problem' \in Failure \cup {"none"}
        /\ error' \in [Event -> Error] /\ seError' \in [Class -> Error]
        /\ inEngine' \subseteq Class
        /\ freeList' \subseteq Event
    BY <1>12, <1>2 DEF QueueInvariant, TypeOK, Failure
  <2> HIDE DEF N
  <2>4. freeList' \cap ElementsOf(queue') = {}
    BY <1>12, <1>2, <1>4, <1>8, <1>9, <2>2
  <2>5. /\ ElementsOf(queue') \subseteq ElementsOf(queue) \cup N
        /\ freeList' \subseteq freeList \cup ElementsOf(queue) \cup N
    BY <1>12, <1>5, <2>2 DEF N
  <2>6. QED
    BY <2>2, <2>3, <2>4, <2>5, <1>6, <1>10
<1>13. CASE queue' = queue \o new /\ UNCHANGED <<problem, freeList, error, seError, inEngine>>
  <2> HIDE DEF new
  <2>1. ElementsOf(queue) \cap ElementsOf(new) = {}
    BY <1>6, <1>9
  <2>2. /\ queue' \in Seq(Event)
        /\ ElementsOf(queue') = ElementsOf(queue) \cup N
        /\ Injective(queue')
    BY <1>13, <1>5, <1>7, <1>8, <2>1, ConcatFacts
  <2>3. /\ problem' \in Failure \cup {"none"}
        /\ error' \in [Event -> Error] /\ seError' \in [Class -> Error]
        /\ inEngine' \subseteq Class
        /\ freeList' = freeList
    BY <1>13 DEF QueueInvariant, TypeOK
  <2> HIDE DEF N
  <2>4. QED
    BY <2>2, <2>3, <1>6, <1>7, <1>8, <1>9, <1>10
<1>14. QED
  BY <1>1, <1>11, <1>12, <1>13 DEF EventEngineQueueAdd, inserted

\* The consumer's calls keep the types.
LEMMA ConsumerTypes ==
    ASSUME QueueInvariant, Consumer
    PROVE  TypeOK'
<1> USE DEF QueueInvariant
<1>0. App \in Thread /\ "CLIENT" \in State
  BY DEF Thread, State
<1>1. CASE \E e \in Event : ConnACall(e)
  BY <1>0, <1>1 DEF ConnACall, Goto, PC, TypeOK, transaction, events, socketEvents
<1>2. CASE EventEnqueue
  <2>1. /\ status' \in [Event -> Status]
        /\ sendBuffer' \in BOOLEAN
        /\ sslEnabled' \in BOOLEAN
    BY <1>2 DEF EventEnqueue, SSLEnabledAfter, SSLEnabledNow, Status, TypeOK
  <2>2. /\ lock' \in Thread \cup {NoThread}
        /\ threads' \in Nat
        /\ pc' \in [Thread -> PC]
        /\ ev' \in [Thread -> Event \cup {NoEvent}]
    BY <1>0, <1>2 DEF EventEnqueue, ConnEventsProcessUnlessWaiting, ConnEventsProcess,
                      Goto, PC, InsidePC, TypeOK
  <2>3. QED
    BY <1>0, <1>2, <2>1, <2>2, EnqueueFacts DEF EventEnqueue, TypeOK
<1>3. CASE ConnANoop
  <2>1. sslEnabled' \in BOOLEAN
    BY <1>3 DEF ConnANoop, SSLEnabledNow, TypeOK
  <2>2. /\ lock' \in Thread \cup {NoThread}
        /\ threads' \in Nat
        /\ pc' \in [Thread -> PC]
    BY <1>0, <1>3 DEF ConnANoop, ConnEventsProcessUnlessWaiting, ConnEventsProcess,
                      Goto, PC, InsidePC, TypeOK
  <2>3. QED
    BY <1>0, <1>3, <2>1, <2>2 DEF ConnANoop, TypeOK, events, socketEvents, handle
<1>4. CASE EventEnqueueFailure
  <2>1. sslEnabled' \in BOOLEAN
    BY <1>4 DEF EventEnqueueFailure, SSLEnabledNow, TypeOK
  <2>2. "FAILED" \in Failure /\ {} \in SUBSET Event
           /\ EventQueueAbort(active, NoEvent, "FAILED", {})
    BY <1>4 DEF EventEnqueueFailure, Failure
  <2>3. /\ problem' \in Failure \cup {"none"}
        /\ error' \in [Event -> Error] /\ seError' \in [Class -> Error]
        /\ inEngine' \subseteq Class
        /\ queue' \in Seq(Event) /\ freeList' \subseteq Event
    BY <2>2, AbortFacts, Zenon
  <2>4. QED
    BY <1>0, <1>4, <2>1, <2>3 DEF EventEnqueueFailure, TypeOK, handle, locals
<1>5. CASE ConnAWrite
  BY <1>0, <1>5 DEF ConnAWrite, TypeOK, transaction, events, socketEvents, locals
<1>6. CASE EventsSubmit
  BY <1>0, <1>6 DEF EventsSubmit, ConnEventsProcess, Goto, PC, InsidePC, State, Failure,
                    TypeOK, events, socketEvents, handle
<1>7. CASE ConnReplace
  BY <1>7 DEF ConnReplace, TypeOK, transaction, events, socketEvents, locals
<1>8. QED
  BY <1>1, <1>2, <1>3, <1>4, <1>5, <1>6, <1>7 DEF Consumer

\* The steps of the socket engine, of the consumer's engine and of the threads
\* that kill a connection or shut a handle down.
Environment ==
    \/ \E t \in Worker, c \in Class : HandleSocketEvent(t, c)
    \/ \E c \in Class : SocketReady(c) \/ SocketTimeout(c)
    \/ QueueCompleteCallback
    \/ ConnKill \/ HandleShutdown \/ ConnectionsAbort

\* A kill or an abort is one EventQueueAbort, or closes the idle socket.
LEMMA ConnAbortFacts ==
    ASSUME TypeOK, NEW S, ConnAbort(S)
    PROVE  /\ TypeOK'
           /\ \/ queue' = queue /\ freeList' = freeList
              \/ queue' = <<>> /\ freeList' = freeList \cup ElementsOf(queue)
<1>1. CASE EventQueueAbort(active, NoEvent, "KILLED", {}) /\ UNCHANGED socket
  <2>1. "KILLED" \in Failure /\ {} \in SUBSET Event
    BY DEF Failure
  <2>2. /\ problem' \in Failure \cup {"none"}
        /\ error' \in [Event -> Error] /\ seError' \in [Class -> Error]
        /\ inEngine' \subseteq Class
        /\ queue' \in Seq(Event) /\ freeList' \subseteq Event
        /\ \/ queue' = queue /\ freeList' = freeList \cup {}
           \/ queue' = <<>> /\ freeList' = freeList \cup ElementsOf(queue) \cup {}
    BY <1>1, <2>1, AbortFacts, Zenon
  <2>3. TypeOK'
    BY <1>1, <2>2 DEF ConnAbort, TypeOK, handle, locals
  <2>4. QED
    BY <2>2, <2>3
<1>2. CASE /\ socket' = IF socket = "open" THEN "closed" ELSE socket
           /\ UNCHANGED <<problem, queue, freeList, error, seError, inEngine>>
  BY <1>2 DEF ConnAbort, TypeOK, handle, locals
<1>3. QED
  BY <1>1, <1>2 DEF ConnAbort

\* The epoll engine, the callback, kills and the shutdown keep the types.
LEMMA EnvironmentTypes ==
    ASSUME QueueInvariant, Environment
    PROVE  TypeOK'
<1> USE DEF QueueInvariant
<1>1. CASE \E t \in Worker, c \in Class : HandleSocketEvent(t, c)
  <2>1. PICK t \in Worker, c \in Class : HandleSocketEvent(t, c)
    BY <1>1
  <2>2. t \in Thread /\ "none" \in Error
    BY DEF Thread, Error
  <2>3. QED
    BY <2>1, <2>2 DEF HandleSocketEvent, SeUnlinkCe, Goto, PC, OwnerPC, TypeOK, transaction, events,
                      handle
<1>2. CASE \E c \in Class : SocketReady(c) \/ SocketTimeout(c)
  <2>1. PICK c \in Class, why \in Error : SocketEventComplete(c, why)
    BY <1>2 DEF SocketReady, SocketTimeout, Error
  <2>2. QED
    BY <2>1 DEF SocketEventComplete, TypeOK, transaction, events, handle, locals
<1>3. CASE QueueCompleteCallback
  <2>1. completions' \in Nat /\ status' \in [Event -> Status] /\ state' \in State
    BY <1>3 DEF QueueCompleteCallback, TypeOK, State, Status
  <2>2. queue' \in Seq(Event) /\ log' \in Seq(Event)
    BY <1>3 DEF QueueCompleteCallback
  <2>3. QED
    BY <1>3, <2>1, <2>2 DEF QueueCompleteCallback, TypeOK, socketEvents, handle, locals
<1>4. CASE ConnKill \/ ConnectionsAbort
  BY <1>4, ConnAbortFacts DEF ConnKill, ConnectionsAbort
<1>5. CASE HandleShutdown
  BY <1>5 DEF HandleShutdown, TypeOK, transaction, events, socketEvents, locals
<1>6. QED
  BY <1>1, <1>2, <1>3, <1>4, <1>5 DEF Environment

\* Next, by who takes the step.
LEMMA NextCases ==
    ASSUME Next
    PROVE  \/ Consumer
           \/ \E t \in Thread : ProcessEvent(t) \/ QueueStep(t)
           \/ Environment
  BY DEF Next, Environment

\* Every step keeps the types.
LEMMA TypeStep ==
    ASSUME QueueInvariant, [Next]_vars
    PROVE  TypeOK'
<1>1. CASE UNCHANGED vars
  BY <1>1 DEF QueueInvariant, TypeOK, vars, transaction, events, socketEvents, handle,
              locals
<1>2. CASE Next
  BY <1>2, NextCases, ConsumerTypes, ProcessEventTypes, QueueStepTypes, EnvironmentTypes
<1>3. QED
  BY <1>1, <1>2

-----------------------------------------------------------------------------
(* The inductive invariant.  Most steps disturb little of it: they leave   *)
(* the threads and the slots alone (QuietStep), or move one thread that    *)
(* works on an event without changing what it works on (OwnerStep).        *)

\* A step that changes none of the variables the invariant relates keeps it.
LEMMA QuietStep ==
    ASSUME QueueInvariant, TypeOK',
           UNCHANGED <<lock, active, threads, log, seArg, pc, ev, completions>>,
           \/ queue' = queue /\ freeList' = freeList
           \/ queue' = <<>> /\ freeList' = freeList \cup ElementsOf(queue),
           \/ state' = state
           \/ state \in {"IDLE", "CLIENT"} /\ state' = "CLIENT"
    PROVE  QueueInvariant'
<1> USE DEF QueueInvariant
<1>1. ActiveEvents' = ActiveEvents
  BY DEF ActiveEvents
<1>2. ElementsOf(log') = ElementsOf(log)
  OBVIOUS
<1>3. Inside' = Inside
  BY DEF Inside
<1>4. LockHolder'
  BY DEF LockHolder
<1>5. /\ ElementsOf(queue') \subseteq ElementsOf(queue)
      /\ ElementsOf(queue') \cup freeList' \subseteq ElementsOf(queue) \cup freeList
      /\ queue = <<>> => queue' = <<>>
  BY SingletonFacts
<1>6. Logged'
  BY <1>1, <1>2, <1>5 DEF Logged
<1>7. Queueing'
  BY <1>2 DEF Queueing
<1>8. EventPlaces'
  <2>1. Injective(queue')
    BY SingletonFacts DEF EventPlaces, Injective
  <2>2. freeList' \cap (ElementsOf(queue') \cup ActiveEvents') = {}
    BY <1>1, SingletonFacts DEF EventPlaces
  <2>3. QED
    BY <2>1, <2>2, <1>1, <1>5 DEF EventPlaces, Injective
<1>9. SlotExclusion'
  BY DEF SlotExclusion
<1>10. OneOwner'
  BY <1>1 DEF OneOwner, Owns, Linked
<1>11. ThreadsCounted'
  BY <1>3 DEF ThreadsCounted
<1>12. CompletedOnce'
  BY DEF CompletedOnce
<1>13. NothingLeftBehind'
  BY <1>1, <1>5 DEF NothingLeftBehind, ConnEventsInProgress
<1>14. QED
  BY <1>4, <1>6, <1>7, <1>8, <1>9, <1>10, <1>11, <1>12, <1>13

\* A thread that owns an event goes on to another place where it owns it.
LEMMA OwnerStep ==
    ASSUME QueueInvariant, TypeOK', NEW t \in Thread, NEW l \in OwnerPC,
           pc[t] \in OwnerPC,
           pc[t] \in InsidePC <=> l \in InsidePC,
           pc' = [pc EXCEPT ![t] = l],
           UNCHANGED <<lock, state, active, queue, freeList, log, threads, ev, seArg,
                       completions>>
    PROVE  QueueInvariant'
<1> USE DEF QueueInvariant
<1>1. ActiveEvents' = ActiveEvents
  BY DEF ActiveEvents
<1>2. \A u \in Thread : pc'[u] = IF u = t THEN l ELSE pc[u]
  BY DEF TypeOK
<1>3. \A u \in Thread : pc'[u] \in OwnerPC <=> pc[u] \in OwnerPC
  BY <1>2
<1>4. \A u \in Thread : \A k \in {"loop", "notify", "enqueue", "idle"} :
         pc'[u] = k <=> pc[u] = k
  BY <1>2 DEF OwnerPC
<1>5. LockHolder'
  BY <1>4 DEF LockHolder
<1>6. Logged'
  BY <1>1 DEF Logged
<1>7. Queueing'
  BY <1>4 DEF Queueing
<1>8. EventPlaces'
  BY <1>1 DEF EventPlaces
<1>9. SlotExclusion'
  BY DEF SlotExclusion
<1>10. OneOwner'
  BY <1>1, <1>3 DEF OneOwner, Owns, Linked
<1>11. ThreadsCounted'
  BY InsideMoves DEF ThreadsCounted
<1>12. CompletedOnce'
  BY <1>4 DEF CompletedOnce
<1>13. NothingLeftBehind'
  BY <1>1, <1>2 DEF NothingLeftBehind, ConnEventsInProgress, OwnerPC
<1>14. QED
  BY <1>5, <1>6, <1>7, <1>8, <1>9, <1>10, <1>11, <1>12, <1>13

\* The consumer's thread adds the events N, if any, and leaves or starts to look
\* for work.
LEMMA ConsumerStep ==
    ASSUME QueueInvariant, TypeOK', lock = NoThread,
           pc[App] \in {"idle", "enqueue"},
           state \in {"IDLE", "CLIENT"}, state' \in {"CLIENT", "ENGINE"},
           NEW N \in SUBSET (Event \ ElementsOf(log)),
           ElementsOf(log') = ElementsOf(log) \cup N,
           Injective(queue'),
           ElementsOf(queue') \subseteq ElementsOf(queue) \cup N,
           freeList' \subseteq freeList \cup ElementsOf(queue) \cup N,
           freeList' \cap ElementsOf(queue') = {},
           \/ ConnEventsProcess(App)
           \/ Goto(App, "idle") /\ UNCHANGED <<threads, lock>>,
           ev' = ev \/ ev' = [ev EXCEPT ![App] = NoEvent],
           UNCHANGED <<active, seArg, completions>>
    PROVE  QueueInvariant'
<1> USE DEF QueueInvariant
<1>1. ActiveEvents' = ActiveEvents /\ ActiveEvents \subseteq ElementsOf(log)
  BY DEF ActiveEvents, Logged
<1>2. App \in Thread /\ NoThread \notin Thread
  BY QueueAssumption DEF Thread
<1>3. PICK l \in {"idle", "loop"} :
         /\ pc' = [pc EXCEPT ![App] = l]
         /\ l = "idle" => threads' = threads /\ lock' = lock
         /\ l = "loop" => threads' = threads + 1 /\ lock' = App
  BY DEF ConnEventsProcess, Goto
<1>4. \A u \in Thread : pc'[u] = IF u = App THEN l ELSE pc[u]
  BY <1>3 DEF TypeOK
<1>5. \A u \in Thread : pc'[u] \in OwnerPC <=> pc[u] \in OwnerPC
  BY <1>4 DEF OwnerPC
<1>6. \A u \in Thread : pc'[u] \in OwnerPC => ev'[u] = ev[u]
  <2> SUFFICES ASSUME NEW u \in Thread, pc'[u] \in OwnerPC
               PROVE  ev'[u] = ev[u]
    OBVIOUS
  <2>1. u # App
    BY <1>4 DEF OwnerPC
  <2>2. QED
    BY <2>1 DEF TypeOK
<1>7. LockHolder'
  <2>1. \A u \in Thread : pc[u] # "loop"
    BY <1>2 DEF LockHolder
  <2>2. QED
    BY <1>2, <1>3, <1>4, <2>1 DEF LockHolder
<1>8. Logged'
  BY <1>1 DEF Logged
<1>9. Queueing'
  BY <1>4 DEF Queueing
<1>10. EventPlaces'
  BY <1>1 DEF EventPlaces, Logged, Injective
<1>11. SlotExclusion'
  BY DEF SlotExclusion
<1>12. OneOwner'
  BY <1>1, <1>5, <1>6 DEF OneOwner, Owns, Linked
<1>13. ThreadsCounted'
  <2>1. pc[App] \notin InsidePC /\ (l \in InsidePC <=> l = "loop")
    BY <1>3 DEF InsidePC
  <2>2. QED
    BY <1>2, <1>3, <2>1, InsideMoves DEF ThreadsCounted
<1>14. CompletedOnce'
  BY <1>4 DEF CompletedOnce
<1>15. NothingLeftBehind'
  BY DEF NothingLeftBehind
<1>16. QED
  BY <1>7, <1>8, <1>9, <1>10, <1>11, <1>12, <1>13, <1>14, <1>15

\* A ConnA* function has allocated its event.
LEMMA ConnACallStep ==
    ASSUME QueueInvariant, TypeOK', NEW e \in Event, ConnACall(e)
    PROVE  QueueInvariant'
<1> USE DEF QueueInvariant
<1>1. UNCHANGED <<lock, state, active, queue, freeList, threads, log, seArg, completions>>
  BY DEF ConnACall, transaction, socketEvents
<1>2. /\ pc[App] = "idle" /\ state \in {"IDLE", "CLIENT"}
      /\ e \notin ElementsOf(log)
      /\ pc' = [pc EXCEPT ![App] = "enqueue"]
      /\ ev' = [ev EXCEPT ![App] = e]
  BY DEF ConnACall, ConsumerMayCall, queueingPermitted, PoolSuffices, Goto
<1>3. App \in Thread
  BY DEF Thread
<1>4. /\ \A u \in Thread : pc'[u] = IF u = App THEN "enqueue" ELSE pc[u]
      /\ \A u \in Thread : ev'[u] = IF u = App THEN e ELSE ev[u]
  BY <1>2, <1>3 DEF TypeOK
<1>5. ActiveEvents' = ActiveEvents
  BY <1>1 DEF ActiveEvents
<1>6. LockHolder'
  BY <1>1, <1>2, <1>4 DEF LockHolder
<1>7. Logged' /\ EventPlaces' /\ SlotExclusion'
  BY <1>1, <1>5 DEF Logged, EventPlaces, SlotExclusion
<1>8. Queueing'
  BY <1>1, <1>2, <1>4 DEF Queueing
<1>9. OneOwner'
  <2>1. \A u \in Thread : \A f : (Owns(u, f))' <=> Owns(u, f)
    BY <1>2, <1>4 DEF Owns, OwnerPC
  <2>2. \A u \in Thread : pc'[u] \in OwnerPC => pc[u] \in OwnerPC /\ ev'[u] = ev[u]
    BY <1>2, <1>4 DEF OwnerPC
  <2>3. QED
    BY <1>1, <1>5, <2>1, <2>2 DEF OneOwner, Linked
<1>10. ThreadsCounted'
  <2>1. pc[App] \notin InsidePC /\ "enqueue" \notin InsidePC
    BY <1>2 DEF InsidePC
  <2>2. QED
    BY <1>1, <1>2, <1>3, <2>1, InsideMoves DEF ThreadsCounted
<1>11. CompletedOnce'
  BY <1>1, <1>2, <1>4 DEF CompletedOnce
<1>12. NothingLeftBehind'
  BY <1>1, <1>4, <1>5 DEF NothingLeftBehind, ConnEventsInProgress
<1>13. QED
  BY <1>6, <1>7, <1>8, <1>9, <1>10, <1>11, <1>12

\* ConnEventNext returns an event whose slot is free, and only when it does not
\* conflict with what is in progress.
LEMMA NextIsFree ==
    ASSUME NEW i, ConnEventNext(i)
    PROVE  /\ active["connect"] = NoEvent
           /\ active[EventClass(queue[i])] = NoEvent
           /\ EventClass(queue[i]) = "connect" => \A c \in Class : active[c] = NoEvent
<1>1. /\ active["connect"] = NoEvent
      /\ \/ active["send"] = NoEvent /\ EventClass(queue[i]) = "send"
         \/ active["receive"] = NoEvent /\ EventClass(queue[i]) = "receive"
         \/ active["send"] = NoEvent /\ active["receive"] = NoEvent
  BY DEF ConnEventNext, GetNextEnqueuedSendEvent, GetNextEnqueuedReceiveEvent
<1>2. QED
  BY <1>1, EventClassType DEF Class

\* Starting an event: it leaves the queue for the slot of its class, in the hands of
\* the thread that started it.
LEMMA StartEventStep ==
    ASSUME QueueInvariant, TypeOK', NEW t \in Thread, StartEvent(t)
    PROVE  QueueInvariant'
<1> USE DEF QueueInvariant
<1>1. PICK i \in 1 .. Len(queue) :
         /\ ConnEventNext(i)
         /\ queue' = Without(queue, i)
         /\ active' = [active EXCEPT ![EventClass(queue[i])] = queue[i]]
         /\ ev' = [ev EXCEPT ![t] = queue[i]]
  BY DEF StartEvent, ConnEventInProgressSet
<1>2. /\ pc[t] = "loop" /\ freeList' = {} /\ lock' = NoThread
      /\ pc' = [pc EXCEPT ![t] = "process"]
      /\ UNCHANGED <<state, threads, log, seArg, completions>>
  BY DEF StartEvent, Goto, socketEvents
<1> DEFINE e == queue[i]
<1>3. /\ ElementsOf(queue') \subseteq ElementsOf(queue)
      /\ e \in ElementsOf(queue) /\ e \notin ElementsOf(queue')
      /\ Injective(queue')
  BY <1>1, WithoutFacts DEF TypeOK, EventPlaces, Injective
<1>4. e \in Event /\ e # NoEvent /\ e \notin ActiveEvents
  BY <1>3, QueueAssumption DEF TypeOK, EventPlaces, ElementsOf
<1> HIDE DEF e
<1>5. /\ \A u \in Thread : pc'[u] = IF u = t THEN "process" ELSE pc[u]
      /\ \A u \in Thread : ev'[u] = IF u = t THEN e ELSE ev[u]
      /\ \A c \in Class : active'[c] = IF c = EventClass(e) THEN e ELSE active[c]
  BY <1>1, <1>2 DEF TypeOK, e
<1>6. /\ active["connect"] = NoEvent
      /\ active[EventClass(e)] = NoEvent
      /\ EventClass(e) = "connect" => \A c \in Class : active[c] = NoEvent
  BY <1>1, NextIsFree DEF e
<1>7. ActiveEvents' = ActiveEvents \cup {e}
  BY <1>4, <1>5, <1>6, EventClassType DEF ActiveEvents
<1>8. state \notin {"IDLE", "COMPLETE"}
  BY <1>2 DEF NothingLeftBehind
<1>9. LockHolder'
  BY <1>2, <1>5, QueueAssumption DEF LockHolder, Thread
<1>10. Logged'
  BY <1>2, <1>3, <1>7 DEF Logged
<1>11. Queueing'
  BY <1>2, <1>5 DEF Queueing
<1>12. EventPlaces'
  <2>1. ElementsOf(queue') \cap ActiveEvents' = {}
    BY <1>3, <1>7 DEF EventPlaces
  <2>2. QED
    BY <1>2, <1>3, <2>1 DEF EventPlaces, Injective
<1>13. SlotExclusion'
  BY <1>4, <1>5, <1>6 DEF SlotExclusion, Class
<1>14. OneOwner'
  <2>1. \A u \in Thread : \A f : (Owns(u, f))' <=> IF u = t THEN f = e ELSE Owns(u, f)
    BY <1>5 DEF Owns, OwnerPC
  <2>2. \A u \in Thread : ~Owns(u, e)
    BY <1>4 DEF Owns, OneOwner
  <2>3. \A c \in Class : seArg'[c] = seArg[c] /\ seArg[c] # e
    BY <1>2, <1>4 DEF OneOwner
  <2>4. \A u \in Thread : pc'[u] \in OwnerPC => ev'[u] \in ActiveEvents'
    BY <1>5, <1>7 DEF OneOwner
  <2>5. \A c \in Class : seArg'[c] # NoEvent => seArg'[c] \in ActiveEvents'
    BY <1>7, <2>3 DEF OneOwner
  <2>6. ASSUME NEW f \in ActiveEvents'
        PROVE  /\ (\E u \in Thread : (Owns(u, f))') \/ (\E c \in Class : (Linked(c, f))')
               /\ \A u, v \in Thread : (Owns(u, f))' /\ (Owns(v, f))' => u = v
               /\ \A c, d \in Class : (Linked(c, f))' /\ (Linked(d, f))' => c = d
               /\ \A u \in Thread, c \in Class : ~((Owns(u, f))' /\ (Linked(c, f))')
    <3>1. CASE f = e
      BY <2>1, <2>2, <2>3, <3>1 DEF Linked
    <3>2. CASE f \in ActiveEvents /\ f # e
      <4>1. ~Owns(t, f)
        BY <1>2 DEF Owns, OwnerPC
      <4>2. QED
        BY <2>1, <2>3, <3>2, <4>1 DEF OneOwner, Linked
    <3>3. QED
      BY <1>7, <3>1, <3>2
  <2>7. QED
    BY <2>4, <2>5, <2>6 DEF OneOwner
<1>15. ThreadsCounted'
  <2>1. pc[t] \in InsidePC /\ "process" \in InsidePC
    BY <1>2 DEF InsidePC
  <2>2. QED
    BY <1>2, <2>1, InsideMoves DEF ThreadsCounted
<1>16. CompletedOnce'
  BY <1>2, <1>5, <1>8 DEF CompletedOnce
<1>17. NothingLeftBehind'
  BY <1>2, <1>8 DEF NothingLeftBehind
<1>18. QED
  BY <1>9, <1>10, <1>11, <1>12, <1>13, <1>14, <1>15, <1>16, <1>17

\* When the last thread leaves and nothing is queued or in progress, no thread
\* and no socket event refers to an event any more.
LEMMA LastOneOut ==
    ASSUME QueueInvariant, NEW t \in Thread, pc[t] = "loop", QueueDone
    PROVE  /\ \A u \in Thread \ {t} : pc[u] \in {"idle", "enqueue", "notify"}
           /\ \A c \in Class : seArg[c] = NoEvent
<1> USE DEF QueueInvariant
<1>1. ActiveEvents = {}
  BY DEF QueueDone, ConnEventsInProgress
<1>2. \A u \in Thread : pc[u] \notin OwnerPC
  BY <1>1 DEF OneOwner
<1>3. t \in Inside /\ Cardinality(Inside) = 1
  BY DEF QueueDone, ThreadsCounted, TypeOK, Inside, InsidePC
<1>4. Inside = {t}
  BY <1>3, InsideFinite, FS_Singleton
<1>5. \A u \in Thread \ {t} : pc[u] \notin InsidePC
  BY <1>4 DEF Inside
<1>6. QED
  BY <1>1, <1>2, <1>5 DEF OneOwner, TypeOK, PC

\* A thread leaves the queue, and completes the transaction if it is the last.
LEMMA LeaveQueueStep ==
    ASSUME QueueInvariant, TypeOK', NEW t \in Thread, LeaveQueue(t)
    PROVE  QueueInvariant'
<1> USE DEF QueueInvariant
<1> DEFINE l == IF QueueDone THEN "notify" ELSE "idle"
<1>1. /\ pc[t] = "loop" /\ threads' = threads - 1 /\ lock' = NoThread
      /\ state' = IF QueueDone THEN "COMPLETE" ELSE state
      /\ pc' = [pc EXCEPT ![t] = l]
      /\ UNCHANGED <<active, queue, freeList, log, seArg, ev, completions>>
  BY DEF LeaveQueue, Goto, socketEvents
<1>2. \A u \in Thread : pc'[u] = IF u = t THEN l ELSE pc[u]
  BY <1>1 DEF TypeOK
<1>3. state \notin {"IDLE", "COMPLETE"}
  BY <1>1 DEF NothingLeftBehind
<1>4. ActiveEvents' = ActiveEvents
  BY <1>1 DEF ActiveEvents
<1>5. LockHolder'
  BY <1>1, <1>2, QueueAssumption DEF LockHolder, Thread
<1>6. Logged' /\ EventPlaces' /\ SlotExclusion'
  BY <1>1, <1>4 DEF Logged, EventPlaces, SlotExclusion
<1>7. Queueing'
  BY <1>1, <1>2, <1>3 DEF Queueing, QueueDone
<1>8. OneOwner'
  <2>1. \A u \in Thread : pc'[u] \in OwnerPC <=> pc[u] \in OwnerPC
    BY <1>1, <1>2 DEF OwnerPC
  <2>2. QED
    BY <1>1, <1>4, <2>1 DEF OneOwner, Owns, Linked
<1>9. ThreadsCounted'
  <2>1. pc[t] \in InsidePC /\ l \notin InsidePC
    BY <1>1 DEF InsidePC
  <2>2. QED
    BY <1>1, <2>1, InsideMoves DEF ThreadsCounted
<1>10. CompletedOnce'
  BY <1>1, <1>2, <1>3 DEF CompletedOnce
<1>11. NothingLeftBehind'
  <2>1. CASE QueueDone
    BY <1>1, <1>2, <1>4, <2>1, LastOneOut DEF NothingLeftBehind, QueueDone,
                                              ConnEventsInProgress
  <2>2. CASE ~QueueDone
    BY <1>1, <1>3, <2>2 DEF NothingLeftBehind
  <2>3. QED
    BY <2>1, <2>2
<1>12. QED
  BY <1>5, <1>6, <1>7, <1>8, <1>9, <1>10, <1>11

\* The last thread hands the completion to the consumer's engine.
LEMMA QueueCompleteNotifyStep ==
    ASSUME QueueInvariant, TypeOK', NEW t \in Thread, QueueCompleteNotify(t)
    PROVE  QueueInvariant'
<1> USE DEF QueueInvariant
<1>1. /\ pc[t] = "notify" /\ completions' = completions + 1
      /\ pc' = [pc EXCEPT ![t] = "idle"]
      /\ UNCHANGED <<lock, state, active, queue, freeList, threads, log, seArg, ev>>
  BY DEF QueueCompleteNotify, Goto, transaction, socketEvents
<1>2. \A u \in Thread : pc'[u] = IF u = t THEN "idle" ELSE pc[u]
  BY <1>1 DEF TypeOK
<1>3. ActiveEvents' = ActiveEvents
  BY <1>1 DEF ActiveEvents
<1>4. LockHolder' /\ Queueing'
  BY <1>1, <1>2 DEF LockHolder, Queueing
<1>5. Logged' /\ EventPlaces' /\ SlotExclusion'
  BY <1>1, <1>3 DEF Logged, EventPlaces, SlotExclusion
<1>6. OneOwner'
  <2>1. \A u \in Thread : pc'[u] \in OwnerPC <=> pc[u] \in OwnerPC
    BY <1>1, <1>2 DEF OwnerPC
  <2>2. QED
    BY <1>1, <1>3, <2>1 DEF OneOwner, Owns, Linked
<1>7. ThreadsCounted'
  <2>1. pc[t] \notin InsidePC /\ "idle" \notin InsidePC
    BY <1>1 DEF InsidePC
  <2>2. QED
    BY <1>1, <2>1, InsideMoves DEF ThreadsCounted
<1>8. CompletedOnce'
  BY <1>1, <1>2 DEF CompletedOnce
<1>9. NothingLeftBehind'
  BY <1>1, <1>2, <1>3 DEF NothingLeftBehind, ConnEventsInProgress
<1>10. QED
  BY <1>4, <1>5, <1>6, <1>7, <1>8, <1>9

\* PrepareForCallback finds a transaction of which nothing is left, and clears it.
LEMMA QueueCompleteCallbackStep ==
    ASSUME QueueInvariant, TypeOK', QueueCompleteCallback
    PROVE  QueueInvariant'
<1> USE DEF QueueInvariant
<1>1. /\ completions > 0 /\ completions' = completions - 1
      /\ state' = "IDLE" /\ queue' = <<>> /\ freeList' = {} /\ threads' = 0 /\ log' = <<>>
      /\ UNCHANGED <<lock, active, seArg, pc, ev>>
  BY DEF QueueCompleteCallback, socketEvents, locals
<1>2. state = "COMPLETE" /\ completions = 1 /\ \A t \in Thread : pc[t] # "notify"
  BY <1>1 DEF CompletedOnce
<1>3. /\ ActiveEvents = {}
      /\ \A t \in Thread : pc[t] = "idle"
      /\ \A c \in Class : seArg[c] = NoEvent
  BY <1>2 DEF NothingLeftBehind, ConnEventsInProgress, Queueing
<1>4. ActiveEvents' = {}
  BY <1>1, <1>3 DEF ActiveEvents
<1>5. LockHolder' /\ Queueing' /\ Logged' /\ EventPlaces' /\ SlotExclusion'
  BY <1>1, <1>3, <1>4, SingletonFacts
  DEF LockHolder, Queueing, Logged, EventPlaces, SlotExclusion
<1>6. OneOwner'
  BY <1>1, <1>3, <1>4 DEF OneOwner, OwnerPC
<1>7. ThreadsCounted'
  <2>1. Inside' = {}
    BY <1>1, <1>3 DEF Inside, InsidePC
  <2>2. QED
    BY <1>1, <2>1, FS_EmptySet DEF ThreadsCounted
<1>8. CompletedOnce' /\ NothingLeftBehind'
  BY <1>1, <1>2, <1>3, <1>4 DEF CompletedOnce, NothingLeftBehind, ConnEventsInProgress
<1>9. QED
  BY <1>5, <1>6, <1>7, <1>8

\* Relock and EnterQueue: a thread comes back to the queue.
LEMMA RelockStep ==
    ASSUME QueueInvariant, TypeOK', NEW t \in Thread, Relock(t)
    PROVE  QueueInvariant'
<1> USE DEF QueueInvariant
<1>1. /\ pc[t] = "handedOff" /\ lock = NoThread /\ lock' = t
      /\ pc' = [pc EXCEPT ![t] = "loop"]
      /\ UNCHANGED <<state, active, queue, freeList, threads, log, seArg, ev, completions>>
  BY DEF Relock, Goto, transaction, socketEvents
<1>2. \A u \in Thread : pc'[u] = IF u = t THEN "loop" ELSE pc[u]
  BY <1>1 DEF TypeOK
<1>3. ActiveEvents' = ActiveEvents
  BY <1>1 DEF ActiveEvents
<1>4. LockHolder'
  BY <1>1, <1>2, QueueAssumption DEF LockHolder, Thread
<1>5. Queueing' /\ Logged' /\ EventPlaces' /\ SlotExclusion'
  BY <1>1, <1>2, <1>3 DEF Queueing, Logged, EventPlaces, SlotExclusion
<1>6. OneOwner'
  <2>1. \A u \in Thread : pc'[u] \in OwnerPC <=> pc[u] \in OwnerPC
    BY <1>1, <1>2 DEF OwnerPC
  <2>2. QED
    BY <1>1, <1>3, <2>1 DEF OneOwner, Owns, Linked
<1>7. ThreadsCounted'
  <2>1. pc[t] \in InsidePC /\ "loop" \in InsidePC
    BY <1>1 DEF InsidePC
  <2>2. QED
    BY <1>1, <2>1, InsideMoves DEF ThreadsCounted
<1>8. CompletedOnce'
  BY <1>1, <1>2 DEF CompletedOnce
<1>9. NothingLeftBehind'
  BY <1>1 DEF NothingLeftBehind
<1>10. QED
  BY <1>4, <1>5, <1>6, <1>7, <1>8, <1>9

\* A worker with an event from the socket engine is counted in.
LEMMA EnterQueueStep ==
    ASSUME QueueInvariant, TypeOK', NEW t \in Thread, EnterQueue(t)
    PROVE  QueueInvariant'
<1> USE DEF QueueInvariant
<1>1. /\ pc[t] = "enter" /\ threads' = threads + 1 /\ freeList' = {}
      /\ pc' = [pc EXCEPT ![t] = "process"]
      /\ UNCHANGED <<lock, state, active, queue, log, seArg, ev, completions>>
  BY DEF EnterQueue, Goto, socketEvents
<1>2. \A u \in Thread : pc'[u] = IF u = t THEN "process" ELSE pc[u]
  BY <1>1 DEF TypeOK
<1>3. ActiveEvents' = ActiveEvents
  BY <1>1 DEF ActiveEvents
<1>4. LockHolder'
  BY <1>1, <1>2 DEF LockHolder
<1>5. Queueing' /\ Logged' /\ EventPlaces' /\ SlotExclusion'
  BY <1>1, <1>2, <1>3 DEF Queueing, Logged, EventPlaces, SlotExclusion
<1>6. OneOwner'
  <2>1. \A u \in Thread : pc'[u] \in OwnerPC <=> pc[u] \in OwnerPC
    BY <1>1, <1>2 DEF OwnerPC
  <2>2. QED
    BY <1>1, <1>3, <2>1 DEF OneOwner, Owns, Linked
<1>7. ThreadsCounted'
  <2>1. pc[t] \notin InsidePC /\ "process" \in InsidePC
    BY <1>1 DEF InsidePC
  <2>2. QED
    BY <1>1, <2>1, InsideMoves DEF ThreadsCounted
<1>8. CompletedOnce'
  BY <1>1, <1>2 DEF CompletedOnce
<1>9. NothingLeftBehind'
  BY <1>1 DEF NothingLeftBehind
<1>10. QED
  BY <1>4, <1>5, <1>6, <1>7, <1>8, <1>9

\* An event that a thread owns is linked to no socket event and owned by no other.
LEMMA OwnerIsAlone ==
    ASSUME QueueInvariant, NEW t \in Thread, pc[t] \in OwnerPC
    PROVE  /\ \A u \in Thread \ {t} : ~Owns(u, ev[t])
           /\ \A c \in Class : seArg[c] # ev[t]
  BY DEF QueueInvariant, OneOwner, Owns, Linked

\* The end of an event: its slot is cleared, and the event goes to the free list.
LEMMA FinishEventStep ==
    ASSUME QueueInvariant, TypeOK', NEW t \in Thread, FinishEvent(t)
    PROVE  QueueInvariant'
<1> USE DEF QueueInvariant
<1> DEFINE e == ev[t]
<1>1. /\ pc[t] = "finish" /\ lock = NoThread /\ lock' = t
      /\ active' = [active EXCEPT ![EventClass(e)] = NoEvent]
      /\ ev' = [ev EXCEPT ![t] = NoEvent]
      /\ pc' = [pc EXCEPT ![t] = "loop"]
      /\ UNCHANGED <<state, threads, log, seArg, completions>>
  BY DEF FinishEvent, ConnEventInProgressClear, Goto
<1>2. \/ queue' = queue /\ freeList' = freeList \cup {e}
      \/ queue' = <<>> /\ freeList' = freeList \cup ElementsOf(queue) \cup {e}
  BY DEF FinishEvent, EventQueueAbort
<1>3. pc[t] \in OwnerPC /\ e \in Event /\ e # NoEvent /\ e \in ActiveEvents
  BY <1>1, OwnerFacts, ActiveFacts DEF OwnerPC
<1>4. /\ \A u \in Thread : pc'[u] = IF u = t THEN "loop" ELSE pc[u]
      /\ \A u \in Thread : ev'[u] = IF u = t THEN NoEvent ELSE ev[u]
      /\ \A c \in Class : active'[c] = IF c = EventClass(e) THEN NoEvent ELSE active[c]
  BY <1>1 DEF TypeOK
<1>5. /\ \A u \in Thread \ {t} : ~Owns(u, e)
      /\ \A c \in Class : seArg[c] # e
  BY <1>3, OwnerIsAlone
<1> HIDE DEF e
<1>6. ActiveEvents' = ActiveEvents \ {e}
  <2>1. \A c \in Class : active[c] = e <=> c = EventClass(e)
    BY <1>3, ActiveFacts DEF SlotExclusion
  <2>2. QED
    BY <1>3, <1>4, <2>1 DEF ActiveEvents
<1>7. state \notin {"IDLE", "COMPLETE"}
  BY <1>1 DEF NothingLeftBehind
<1>8. LockHolder'
  BY <1>1, <1>4, QueueAssumption DEF LockHolder, Thread
<1>9. Logged'
  BY <1>1, <1>2, <1>3, <1>6, SingletonFacts DEF Logged
<1>10. Queueing'
  BY <1>1, <1>4 DEF Queueing
<1>11. EventPlaces'
  <2>1. e \notin ElementsOf(queue)
    BY <1>3 DEF EventPlaces
  <2>2. ElementsOf(queue') \subseteq ElementsOf(queue) /\ Injective(queue')
    BY <1>2, SingletonFacts DEF EventPlaces, Injective
  <2>3. freeList' \cap (ElementsOf(queue') \cup ActiveEvents') = {}
    BY <1>2, <1>6, <2>1, SingletonFacts DEF EventPlaces
  <2>4. QED
    BY <1>6, <2>2, <2>3 DEF EventPlaces, Injective
<1>12. SlotExclusion'
  BY <1>4 DEF SlotExclusion, Class
<1>13. OneOwner'
  <2>1. \A u \in Thread : \A f : (Owns(u, f))' <=> u # t /\ Owns(u, f)
    BY <1>4 DEF Owns, OwnerPC
  <2>2. \A u \in Thread : pc'[u] \in OwnerPC => u # t /\ ev'[u] \in ActiveEvents'
    <3> SUFFICES ASSUME NEW u \in Thread, pc'[u] \in OwnerPC
                 PROVE  u # t /\ ev'[u] \in ActiveEvents'
      OBVIOUS
    <3>1. u # t /\ pc[u] \in OwnerPC /\ ev'[u] = ev[u]
      BY <1>4 DEF OwnerPC
    <3>2. QED
      BY <3>1, <1>5, <1>6 DEF OneOwner, Owns
  <2>3. \A c \in Class : seArg'[c] # NoEvent => seArg'[c] \in ActiveEvents'
    BY <1>1, <1>5, <1>6 DEF OneOwner
  <2>4. ASSUME NEW f \in ActiveEvents'
        PROVE  /\ (\E u \in Thread : (Owns(u, f))') \/ (\E c \in Class : (Linked(c, f))')
               /\ \A u, v \in Thread : (Owns(u, f))' /\ (Owns(v, f))' => u = v
               /\ \A c, d \in Class : (Linked(c, f))' /\ (Linked(d, f))' => c = d
               /\ \A u \in Thread, c \in Class : ~((Owns(u, f))' /\ (Linked(c, f))')
    <3>1. f \in ActiveEvents /\ ~Owns(t, f)
      BY <1>6 DEF Owns, e
    <3>2. QED
      BY <1>1, <2>1, <3>1 DEF OneOwner, Linked
  <2>5. QED
    BY <2>2, <2>3, <2>4 DEF OneOwner
<1>14. ThreadsCounted'
  <2>1. pc[t] \in InsidePC /\ "loop" \in InsidePC
    BY <1>1 DEF InsidePC
  <2>2. QED
    BY <1>1, <2>1, InsideMoves DEF ThreadsCounted
<1>15. CompletedOnce'
  BY <1>1, <1>4, <1>7 DEF CompletedOnce
<1>16. NothingLeftBehind'
  BY <1>1, <1>7 DEF NothingLeftBehind
<1>17. QED
  BY <1>8, <1>9, <1>10, <1>11, <1>12, <1>13, <1>14, <1>15, <1>16

\* SocketEventWaitEx: the thread gives its event to a socket event.
LEMMA HandOverStep ==
    ASSUME QueueInvariant, TypeOK', NEW t \in Thread, NEW c \in Class,
           pc[t] = "wait", seArg[c] = NoEvent,
           seArg' = [seArg EXCEPT ![c] = ev[t]],
           ev' = [ev EXCEPT ![t] = NoEvent],
           pc' = [pc EXCEPT ![t] = "handedOff"],
           UNCHANGED <<lock, state, active, queue, freeList, threads, log, completions>>
    PROVE  QueueInvariant'
<1> USE DEF QueueInvariant
<1> DEFINE e == ev[t]
<1>1. pc[t] \in OwnerPC /\ e # NoEvent /\ e \in ActiveEvents
  BY OwnerFacts, ActiveFacts DEF OwnerPC
<1>2. /\ \A u \in Thread : pc'[u] = IF u = t THEN "handedOff" ELSE pc[u]
      /\ \A u \in Thread : ev'[u] = IF u = t THEN NoEvent ELSE ev[u]
      /\ \A d \in Class : seArg'[d] = IF d = c THEN e ELSE seArg[d]
  BY DEF TypeOK
<1>3. /\ \A u \in Thread \ {t} : ~Owns(u, e)
      /\ \A d \in Class : seArg[d] # e
  BY <1>1, OwnerIsAlone
<1> HIDE DEF e
<1>4. ActiveEvents' = ActiveEvents
  BY DEF ActiveEvents
<1>5. state \notin {"IDLE", "COMPLETE"}
  BY DEF NothingLeftBehind
<1>6. LockHolder' /\ Queueing'
  BY <1>2 DEF LockHolder, Queueing
<1>7. Logged' /\ EventPlaces' /\ SlotExclusion'
  BY <1>4 DEF Logged, EventPlaces, SlotExclusion
<1>8. OneOwner'
  <2>1. \A u \in Thread : \A f : (Owns(u, f))' <=> u # t /\ Owns(u, f)
    BY <1>2 DEF Owns, OwnerPC
  <2>2. \A u \in Thread : pc'[u] \in OwnerPC => ev'[u] \in ActiveEvents'
    BY <1>2, <1>4 DEF OneOwner, OwnerPC
  <2>3. \A d \in Class : seArg'[d] # NoEvent => seArg'[d] \in ActiveEvents'
    BY <1>1, <1>2, <1>4 DEF OneOwner
  <2>4. ASSUME NEW f \in ActiveEvents'
        PROVE  /\ (\E u \in Thread : (Owns(u, f))') \/ (\E d \in Class : (Linked(d, f))')
               /\ \A u, v \in Thread : (Owns(u, f))' /\ (Owns(v, f))' => u = v
               /\ \A d, k \in Class : (Linked(d, f))' /\ (Linked(k, f))' => d = k
               /\ \A u \in Thread, d \in Class : ~((Owns(u, f))' /\ (Linked(d, f))')
    <3>1. CASE f = e
      <4>1. \A d \in Class : (Linked(d, f))' <=> d = c
        BY <1>2, <1>3, <3>1 DEF Linked
      <4>2. \A u \in Thread : ~(Owns(u, f))'
        BY <1>3, <2>1, <3>1
      <4>3. QED
        BY <4>1, <4>2
    <3>2. CASE f # e
      <4>1. f \in ActiveEvents /\ ~Owns(t, f) /\ f # NoEvent
        BY <1>4, <3>2 DEF Owns, e, ActiveEvents
      <4>2. \A d \in Class : (Linked(d, f))' <=> Linked(d, f)
        BY <1>2, <3>2, <4>1 DEF Linked
      <4>3. QED
        BY <2>1, <4>1, <4>2 DEF OneOwner
    <3>3. QED
      BY <3>1, <3>2
  <2>5. QED
    BY <2>2, <2>3, <2>4 DEF OneOwner
<1>9. ThreadsCounted'
  <2>1. pc[t] \in InsidePC /\ "handedOff" \in InsidePC
    BY DEF InsidePC
  <2>2. QED
    BY <2>1, InsideMoves DEF ThreadsCounted
<1>10. CompletedOnce' /\ NothingLeftBehind'
  BY <1>2, <1>5 DEF CompletedOnce, NothingLeftBehind
<1>11. QED
  BY <1>6, <1>7, <1>8, <1>9, <1>10

\* HandleSocketEvent: a worker takes the event of a socket event.
LEMMA HandleSocketEventStep ==
    ASSUME QueueInvariant, TypeOK', NEW t \in Thread, NEW c \in Class,
           HandleSocketEvent(t, c)
    PROVE  QueueInvariant'
<1> USE DEF QueueInvariant
<1> DEFINE e == seArg[c]
<1>1. /\ pc[t] = "idle" /\ e # NoEvent
      /\ ev' = [ev EXCEPT ![t] = e]
      /\ seArg' = [seArg EXCEPT ![c] = NoEvent]
      /\ pc' = [pc EXCEPT ![t] = "callback"]
      /\ UNCHANGED <<lock, state, active, queue, freeList, threads, log, completions>>
  BY DEF HandleSocketEvent, SeUnlinkCe, Goto, transaction
<1>2. /\ \A u \in Thread : pc'[u] = IF u = t THEN "callback" ELSE pc[u]
      /\ \A u \in Thread : ev'[u] = IF u = t THEN e ELSE ev[u]
      /\ \A d \in Class : seArg'[d] = IF d = c THEN NoEvent ELSE seArg[d]
  BY <1>1 DEF TypeOK
<1>3. /\ e \in ActiveEvents
      /\ \A u \in Thread : ~Owns(u, e)
      /\ \A d \in Class \ {c} : seArg[d] # e
  BY <1>1 DEF OneOwner, Linked
<1> HIDE DEF e
<1>4. ActiveEvents' = ActiveEvents
  BY <1>1 DEF ActiveEvents
<1>5. state \notin {"IDLE", "COMPLETE"}
  BY <1>1 DEF NothingLeftBehind, e
<1>6. LockHolder' /\ Queueing'
  BY <1>1, <1>2 DEF LockHolder, Queueing
<1>7. Logged' /\ EventPlaces' /\ SlotExclusion'
  BY <1>1, <1>4 DEF Logged, EventPlaces, SlotExclusion
<1>8. OneOwner'
  <2>1. \A u \in Thread : \A f : (Owns(u, f))' <=> IF u = t THEN f = e ELSE Owns(u, f)
    BY <1>2 DEF Owns, OwnerPC
  <2>2. \A u \in Thread : pc'[u] \in OwnerPC => ev'[u] \in ActiveEvents'
    BY <1>2, <1>3, <1>4 DEF OneOwner
  <2>3. \A d \in Class : seArg'[d] # NoEvent => seArg'[d] \in ActiveEvents'
    BY <1>2, <1>4 DEF OneOwner
  <2>4. ASSUME NEW f \in ActiveEvents'
        PROVE  /\ (\E u \in Thread : (Owns(u, f))') \/ (\E d \in Class : (Linked(d, f))')
               /\ \A u, v \in Thread : (Owns(u, f))' /\ (Owns(v, f))' => u = v
               /\ \A d, k \in Class : (Linked(d, f))' /\ (Linked(k, f))' => d = k
               /\ \A u \in Thread, d \in Class : ~((Owns(u, f))' /\ (Linked(d, f))')
    <3>1. CASE f = e
      <4>1. \A d \in Class : ~(Linked(d, f))'
        BY <1>1, <1>2, <1>3, <3>1 DEF Linked
      <4>2. \A u \in Thread : (Owns(u, f))' <=> u = t
        BY <1>3, <2>1, <3>1
      <4>3. QED
        BY <4>1, <4>2
    <3>2. CASE f # e
      <4>1. f \in ActiveEvents /\ ~Owns(t, f) /\ f # NoEvent
        BY <1>1, <1>4 DEF Owns, OwnerPC, ActiveEvents
      <4>2. \A d \in Class : (Linked(d, f))' <=> Linked(d, f)
        BY <1>2, <3>2, <4>1 DEF Linked, e
      <4>3. \A u \in Thread : (Owns(u, f))' <=> Owns(u, f)
        BY <2>1, <3>2, <4>1
      <4>4. QED
        BY <4>1, <4>2, <4>3 DEF OneOwner
    <3>3. QED
      BY <3>1, <3>2
  <2>5. QED
    BY <2>2, <2>3, <2>4 DEF OneOwner
<1>9. ThreadsCounted'
  <2>1. pc[t] \notin InsidePC /\ "callback" \notin InsidePC
    BY <1>1 DEF InsidePC
  <2>2. QED
    BY <1>1, <2>1, InsideMoves DEF ThreadsCounted
<1>10. CompletedOnce' /\ NothingLeftBehind'
  BY <1>1, <1>2, <1>5 DEF CompletedOnce, NothingLeftBehind
<1>11. QED
  BY <1>6, <1>7, <1>8, <1>9, <1>10

-----------------------------------------------------------------------------
(* Every step keeps the invariant.                                         *)

\* Working on an event without the lock keeps the invariant.
LEMMA ProcessEventStep ==
    ASSUME QueueInvariant, TypeOK', NEW t \in Thread, ProcessEvent(t)
    PROVE  QueueInvariant'
<1> DEFINE Frame == UNCHANGED <<lock, state, active, queue, freeList, log, threads,
                                completions>>
           Moves(l) == /\ pc' = [pc EXCEPT ![t] = l]
                       /\ UNCHANGED <<ev, seArg>>
<1>1. Frame
  BY DEF ProcessEvent, ProcessCancelled, ProcessDone, ProcessFails, ProcessBlocks,
         CheckProblem, SocketEventWait, transaction
<1>2. ASSUME NEW l \in {"check", "wait", "finish"},
             pc[t] \in {"process", "check", "wait"}, Moves(l)
      PROVE  QueueInvariant'
  <2>1. l \in OwnerPC /\ pc[t] \in OwnerPC /\ l \in InsidePC /\ pc[t] \in InsidePC
    BY <1>2 DEF OwnerPC, InsidePC
  <2>2. QED
    BY <1>1, <1>2, <2>1, OwnerStep
<1>3. CASE ProcessCancelled(t)
  BY <1>2, <1>3 DEF ProcessCancelled, FailEvent, Goto, socketEvents
<1>4. CASE ProcessDone(t)
  BY <1>2, <1>4 DEF ProcessDone, Goto, socketEvents
<1>5. CASE ProcessFails(t)
  BY <1>2, <1>5 DEF ProcessFails, FailEvent, Goto, socketEvents
<1>6. CASE ProcessBlocks(t)
  BY <1>2, <1>6 DEF ProcessBlocks, Goto, socketEvents
<1>7. CASE CheckProblem(t)
  BY <1>2, <1>7 DEF CheckProblem, FailEvent, Goto, socketEvents
<1>8. CASE SocketEventWait(t)
  <2>1. pc[t] = "wait" /\ pc \in [Thread -> PC] /\ ev \in [Thread -> Event \cup {NoEvent}]
    BY <1>8 DEF SocketEventWait, QueueInvariant, TypeOK
  <2>2. PICK c \in BlockedOn(ev[t]) :
           \/ pc' = [pc EXCEPT ![t] = "finish"] /\ UNCHANGED seArg
           \/ /\ seArg[c] = NoEvent
              /\ seArg' = [seArg EXCEPT ![c] = ev[t]]
              /\ pc' = [pc EXCEPT ![t] = "handedOff"]
    BY <1>8 DEF SocketEventWait, SeLinkCe, FailEvent, Goto, socketEvents
  <2>3. ev' = [ev EXCEPT ![t] = IF pc'[t] = "handedOff" THEN NoEvent ELSE ev[t]]
    BY <1>8 DEF SocketEventWait
  <2>4. CASE pc' = [pc EXCEPT ![t] = "finish"] /\ UNCHANGED seArg
    BY <1>2, <2>1, <2>3, <2>4
  <2>5. CASE /\ seArg[c] = NoEvent
             /\ seArg' = [seArg EXCEPT ![c] = ev[t]]
             /\ pc' = [pc EXCEPT ![t] = "handedOff"]
    <3>1. c \in Class
      BY EventClassType DEF BlockedOn, Class
    <3>2. ev' = [ev EXCEPT ![t] = NoEvent]
      BY <2>1, <2>3, <2>5
    <3>3. QED
      BY <1>1, <2>1, <2>5, <3>1, <3>2, HandOverStep
  <2>6. QED
    BY <2>2, <2>4, <2>5
<1>9. QED
  BY <1>3, <1>4, <1>5, <1>6, <1>7, <1>8 DEF ProcessEvent

\* The steps of ConnEventsProcess keep the invariant.
LEMMA QueueStepStep ==
    ASSUME QueueInvariant, TypeOK', NEW t \in Thread, QueueStep(t)
    PROVE  QueueInvariant'
<1>1. CASE AsyncEventCallback(t)
  <2>1. /\ pc[t] \in OwnerPC /\ "enter" \in OwnerPC
        /\ pc[t] \notin InsidePC /\ "enter" \notin InsidePC
    BY <1>1 DEF AsyncEventCallback, OwnerPC, InsidePC
  <2>2. QED
    BY <1>1, <2>1, OwnerStep DEF AsyncEventCallback, Goto, transaction, socketEvents
<1>2. QED
  BY <1>1, StartEventStep, LeaveQueueStep, QueueCompleteNotifyStep, RelockStep,
     FinishEventStep, EnterQueueStep DEF QueueStep

\* The consumer's calls keep the invariant.
LEMMA ConsumerInvariant ==
    ASSUME QueueInvariant, TypeOK', Consumer
    PROVE  QueueInvariant'
<1>1. CASE \E e \in Event : ConnACall(e)
  BY <1>1, ConnACallStep
<1>2. CASE EventEnqueue
  <2>1. /\ pc[App] = "enqueue" /\ lock = NoThread /\ state' = "CLIENT"
        /\ ev' = [ev EXCEPT ![App] = NoEvent]
        /\ \/ ConnEventsProcess(App)
           \/ Goto(App, "idle") /\ UNCHANGED <<threads, lock>>
        /\ UNCHANGED <<active, seArg, completions>>
    BY <1>2 DEF EventEnqueue, ConnEventsProcessUnlessWaiting
  <2>2. state \in {"IDLE", "CLIENT"}
    BY <2>1 DEF QueueInvariant, Queueing, Thread
  <2>3. QED
    BY <1>2, <2>1, <2>2, EnqueueFacts, ConsumerStep
<1>3. /\ {} \in SUBSET (Event \ ElementsOf(log)) /\ Injective(queue)
      /\ freeList \cap ElementsOf(queue) = {}
  BY DEF QueueInvariant, EventPlaces, Injective
<1>4. CASE ConnANoop
  <2>1. /\ pc[App] = "idle" /\ lock = NoThread
        /\ state \in {"IDLE", "CLIENT"} /\ state' = "CLIENT"
        /\ \/ ConnEventsProcess(App)
           \/ Goto(App, "idle") /\ UNCHANGED <<threads, lock>>
        /\ UNCHANGED <<active, queue, freeList, log, seArg, ev, completions>>
    BY <1>4 DEF ConnANoop, ConsumerMayCall, queueingPermitted,
                ConnEventsProcessUnlessWaiting, socketEvents
  <2>2. QED
    BY <1>3, <2>1, ConsumerStep
<1>5. CASE EventsSubmit
  <2>1. /\ pc[App] = "idle" /\ lock = NoThread
        /\ state \in {"IDLE", "CLIENT"} /\ state' = "ENGINE"
        /\ ConnEventsProcess(App)
        /\ UNCHANGED <<active, queue, freeList, log, seArg, ev, completions>>
    BY <1>5 DEF EventsSubmit, ConsumerMayCall, queueingPermitted, socketEvents
  <2>2. QED
    BY <1>3, <2>1, ConsumerStep
<1>6. CASE EventEnqueueFailure
  <2>1. /\ state \in {"IDLE", "CLIENT"} /\ state' = "CLIENT"
        /\ EventQueueAbort(active, NoEvent, "FAILED", {})
        /\ UNCHANGED <<lock, active, threads, log, seArg, pc, ev, completions>>
    BY <1>6 DEF EventEnqueueFailure, ConsumerMayCall, queueingPermitted, locals
  <2>2. \/ queue' = queue /\ freeList' = freeList
        \/ queue' = <<>> /\ freeList' = freeList \cup ElementsOf(queue)
    BY <2>1 DEF EventQueueAbort
  <2>3. QED
    BY <2>1, <2>2, QuietStep
<1>7. CASE ConnAWrite
  BY <1>7, QuietStep
  DEF ConnAWrite, ConsumerMayCall, queueingPermitted, transaction, socketEvents, locals
<1>8. CASE ConnReplace
  BY <1>8, QuietStep DEF ConnReplace, transaction, socketEvents, locals
<1>9. QED
  BY <1>1, <1>2, <1>4, <1>5, <1>6, <1>7, <1>8 DEF Consumer

\* The epoll engine, the callback, kills and the shutdown keep the invariant.
LEMMA EnvironmentStep ==
    ASSUME QueueInvariant, TypeOK', Environment
    PROVE  QueueInvariant'
<1>1. CASE \E t \in Worker, c \in Class : HandleSocketEvent(t, c)
  BY <1>1, HandleSocketEventStep DEF Thread
<1>2. CASE \E c \in Class : SocketReady(c) \/ SocketTimeout(c)
  BY <1>2, QuietStep DEF SocketReady, SocketTimeout, SocketEventComplete, transaction,
                         locals
<1>3. CASE QueueCompleteCallback
  BY <1>3, QueueCompleteCallbackStep
<1>4. CASE ConnKill \/ ConnectionsAbort
  <2>1. PICK S : ConnAbort(S)
    BY <1>4 DEF ConnKill, ConnectionsAbort
  <2>2. /\ UNCHANGED <<lock, active, threads, log, seArg, pc, ev, completions>>
        /\ state' = state
    BY <2>1 DEF ConnAbort, locals
  <2>3. TypeOK
    BY DEF QueueInvariant
  <2>4. QED
    BY <2>1, <2>2, <2>3, ConnAbortFacts, QuietStep
<1>5. CASE HandleShutdown
  BY <1>5, QuietStep DEF HandleShutdown, transaction, socketEvents, locals
<1>6. QED
  BY <1>1, <1>2, <1>3, <1>4, <1>5 DEF Environment

\* A new connection (ConnectionInit) satisfies the invariant.
LEMMA InvariantInit == Init => QueueInvariant
<1> SUFFICES ASSUME Init PROVE QueueInvariant
  OBVIOUS
<1> USE DEF Init
<1>1. TypeOK
  <2>1. "idle" \in PC /\ "IDLE" \in State /\ "QUEUED" \in Status /\ "none" \in Error
    BY DEF PC, State, Status, Error
  <2>2. queue \in Seq(Event) /\ log \in Seq(Event)
    BY SingletonFacts
  <2>3. QED
    BY <2>1, <2>2 DEF TypeOK
<1>2. ActiveEvents = {}
  BY DEF ActiveEvents
<1>3. \A t \in Thread : pc[t] = "idle"
  OBVIOUS
<1>4. LockHolder
  BY <1>3, QueueAssumption DEF LockHolder, Thread
<1>5. Logged /\ Queueing /\ EventPlaces /\ SlotExclusion
  BY <1>2, <1>3, SingletonFacts DEF Logged, Queueing, EventPlaces, SlotExclusion
<1>6. OneOwner
  BY <1>2, <1>3 DEF OneOwner, OwnerPC
<1>7. ThreadsCounted
  <2>1. Inside = {}
    BY <1>3 DEF Inside, InsidePC
  <2>2. QED
    BY <2>1, FS_EmptySet DEF ThreadsCounted
<1>8. CompletedOnce /\ NothingLeftBehind
  BY <1>2, <1>3 DEF CompletedOnce, NothingLeftBehind, ConnEventsInProgress
<1>9. QED
  BY <1>1, <1>4, <1>5, <1>6, <1>7, <1>8 DEF QueueInvariant

\* Every step of every thread keeps the invariant.
LEMMA InvariantStep == QueueInvariant /\ [Next]_vars => QueueInvariant'
<1> SUFFICES ASSUME QueueInvariant, [Next]_vars
             PROVE  QueueInvariant'
  OBVIOUS
<1>1. TypeOK'
  BY TypeStep
<1>2. CASE UNCHANGED vars
  BY <1>1, <1>2, QuietStep DEF vars, transaction, socketEvents, locals
<1>3. CASE Next
  BY <1>1, <1>3, NextCases, ConsumerInvariant, ProcessEventStep, QueueStepStep,
     EnvironmentStep
<1>4. QED
  BY <1>2, <1>3

\* The inductive invariant holds in every state of the event queue, whatever the
\* consumer queues, however many workers serve it, and whoever kills it.
THEOREM Invariance == Spec => []QueueInvariant
<1>1. QED
  BY InvariantInit, InvariantStep, PTL DEF Spec

\* Every variable keeps its type; in particular async.transaction.threads, the count
\* of threads in ConnEventsProcess, is never decremented below 0.
THEOREM TypeCorrect == Spec => []TypeOK
<1>1. QueueInvariant => TypeOK
  BY DEF QueueInvariant
<1>2. QED
  BY <1>1, Invariance, PTL

\* ConnEventNext lets no event run next to one it conflicts with.
THEOREM SlotsExclusive == Spec => []SlotExclusion
<1>1. QueueInvariant => SlotExclusion
  BY DEF QueueInvariant
<1>2. QED
  BY <1>1, Invariance, PTL

\* An event in progress belongs to one thread or to one socket event, never to
\* two and never to none, through every hand-over between them.
THEOREM OwnedOnce == Spec => []OneOwner
<1>1. QueueInvariant => OneOwner
  BY DEF QueueInvariant
<1>2. QED
  BY <1>1, Invariance, PTL

\* No event is destroyed (put on the free list) while it is queued or in progress.
THEOREM NoEventFreedInUse == Spec => []EventPlaces
<1>1. QueueInvariant => EventPlaces
  BY DEF QueueInvariant
<1>2. QED
  BY <1>1, Invariance, PTL

\* The last thread out, and no other, completes the transaction, once, and leaves
\* nothing of it behind.
THEOREM CompletedByTheLast == Spec => []LastThreadOut
<1>1. QueueInvariant => LastThreadOut
  BY DEF QueueInvariant, LastThreadOut
<1>2. QED
  BY <1>1, Invariance, PTL

-----------------------------------------------------------------------------
(* The order of the events and the truth of success.  While no problem is  *)
(* recorded, a step does one of five things to the log, the queue, the     *)
(* slots and what the events have come to.                                 *)

\* A thread whose event is over knows how it ended.
Over == {"COMPLETE", "FAILED", "TIMED_OUT", "PARTIAL"}
Ended == \A t \in Thread : pc[t] = "finish" => status[ev[t]] \in Over

Rests ==
    /\ UNCHANGED <<log, queue, active>>
    /\ \A e \in Event \ ActiveEvents : status'[e] = status[e]
Starts == \E i \in 1 .. Len(queue) :
    /\ ConnEventNext(i) /\ queue' = Without(queue, i)
    /\ ActiveEvents' = ActiveEvents \cup {queue[i]}
    /\ UNCHANGED <<log, status>>
Finishes == \E e \in ActiveEvents :
    /\ status[e] = "COMPLETE" /\ ActiveEvents' = ActiveEvents \ {e}
    /\ UNCHANGED <<log, queue, status>>
Enqueues == \E new \in Seq(Event) :
    /\ Injective(new) /\ ElementsOf(new) \cap ElementsOf(log) = {}
    /\ queue' = queue \o new /\ log' = log \o new /\ UNCHANGED active
    /\ \A e \in ElementsOf(log) : status'[e] = status[e]
Clears == log' = <<>> /\ queue' = <<>> /\ UNCHANGED active

\* What a thread that works on an event does to it.
LEMMA ProcessKinds ==
    ASSUME QueueInvariant, Ended, NEW t \in Thread, ProcessEvent(t)
    PROVE  Rests /\ Ended' /\ problem' = problem
<1>1. UNCHANGED <<log, queue, active, problem>> /\ pc[t] \in {"process", "check", "wait"}
  BY DEF ProcessEvent, ProcessCancelled, ProcessDone, ProcessFails, ProcessBlocks, CheckProblem,
         SocketEventWait, transaction
<1>2. /\ pc \in [Thread -> PC] /\ ev \in [Thread -> Event \cup {NoEvent}] /\ status \in [Event -> Status]
  BY DEF QueueInvariant, TypeOK
<1>3. pc[t] \in OwnerPC /\ ev[t] \in Event /\ ev[t] \in ActiveEvents
  <2>1. pc[t] \in OwnerPC
    BY <1>1 DEF OwnerPC
  <2>2. QED
    BY <2>1, OwnerFacts DEF QueueInvariant, OneOwner
<1>4. \A why : StatusOf(ev[t], why) \in Over
  BY DEF StatusOf, Over
<1>5. \E s : /\ status' = [status EXCEPT ![ev[t]] = s] \/ (status' = status /\ s = status[ev[t]])
             /\ \A u \in Thread : u # t => pc'[u] = pc[u] /\ ev'[u] = ev[u]
             /\ pc'[t] = "finish" => s \in Over /\ ev'[t] = ev[t]
  <2>1. ASSUME NEW why, FailEvent(t, why), ev' = [ev EXCEPT ![t] = ev[t]]
        PROVE  \E s : /\ status' = [status EXCEPT ![ev[t]] = s]
                      /\ \A u \in Thread : u # t => pc'[u] = pc[u] /\ ev'[u] = ev[u]
                      /\ pc'[t] = "finish" => s \in Over /\ ev'[t] = ev[t]
    BY <1>2, <1>4, <2>1 DEF FailEvent, Goto
  <2>2. [ev EXCEPT ![t] = ev[t]] = ev
    BY <1>2
  <2>3. CASE ProcessCancelled(t) \/ ProcessFails(t)
    BY <2>1, <2>2, <2>3 DEF ProcessCancelled, ProcessFails
  <2>4. CASE ProcessDone(t)
    BY <1>2, <2>4 DEF ProcessDone, Goto, Over
  <2>5. CASE ProcessBlocks(t)
    BY <1>2, <2>5 DEF ProcessBlocks, Goto, events
  <2>6. CASE CheckProblem(t)
    <3>1. CASE problem # "none"
      BY <2>1, <2>2, <2>6, <3>1 DEF CheckProblem
    <3>2. CASE problem = "none"
      BY <1>2, <2>6, <3>2 DEF CheckProblem, Goto
    <3>3. QED
      BY <3>1, <3>2
  <2>7. CASE SocketEventWait(t)
    <3>1. ev' = [ev EXCEPT ![t] = IF pc'[t] = "handedOff" THEN NoEvent ELSE ev[t]]
      BY <2>7 DEF SocketEventWait
    <3>2. (\E why : FailEvent(t, why)) \/ (Goto(t, "handedOff") /\ UNCHANGED status)
      BY <2>7 DEF SocketEventWait, events
    <3>3. CASE \E why : FailEvent(t, why)
      <4>1. PICK why : FailEvent(t, why)
        BY <3>3
      <4>2. pc'[t] = "finish"
        BY <1>2, <4>1 DEF FailEvent, Goto
      <4>3. QED
        BY <2>1, <3>1, <4>1, <4>2
    <3>4. CASE Goto(t, "handedOff") /\ UNCHANGED status
      BY <1>2, <3>1, <3>4 DEF Goto
    <3>5. QED
      BY <3>2, <3>3, <3>4
  <2>8. QED
    BY <2>3, <2>4, <2>5, <2>6, <2>7 DEF ProcessEvent
<1>6. PICK s : /\ status' = [status EXCEPT ![ev[t]] = s] \/ (status' = status /\ s = status[ev[t]])
               /\ \A u \in Thread : u # t => pc'[u] = pc[u] /\ ev'[u] = ev[u]
               /\ pc'[t] = "finish" => s \in Over /\ ev'[t] = ev[t]
  BY <1>5
<1>7. \A e \in Event : e # ev[t] => status'[e] = status[e]
  BY <1>2, <1>6
<1>8. Rests
  BY <1>1, <1>3, <1>7 DEF Rests
<1>9. Ended'
  <2> SUFFICES ASSUME NEW u \in Thread, pc'[u] = "finish"
               PROVE  status'[ev'[u]] \in Over
    BY DEF Ended
  <2>1. CASE u = t
    BY <1>2, <1>3, <1>6, <2>1
  <2>2. CASE u # t
    <3>1. pc[u] = "finish" /\ ev'[u] = ev[u] /\ status[ev[u]] \in Over
      BY <1>6, <2>2 DEF Ended
    <3>2. pc[u] \in OwnerPC
      BY <3>1 DEF OwnerPC
    <3>3. ev[u] \in Event /\ Owns(u, ev[u]) /\ Owns(t, ev[t])
      BY <1>3, <3>2, OwnerFacts DEF Owns
    <3>4. ev[u] # ev[t]
      BY <1>3, <2>2, <3>3 DEF QueueInvariant, OneOwner
    <3>5. QED
      BY <1>7, <3>1, <3>3, <3>4
  <2>3. QED
    BY <2>1, <2>2
<1>10. QED
  BY <1>1, <1>8, <1>9

\* What the steps of ConnEventsProcess do.
LEMMA QueueStepKinds ==
    ASSUME QueueInvariant, Ended, NEW t \in Thread, QueueStep(t)
    PROVE  /\ Ended'
           /\ problem' = "none" => problem = "none" /\ (Rests \/ Starts \/ Finishes)
<1>1. /\ pc \in [Thread -> PC] /\ ev \in [Thread -> Event \cup {NoEvent}] /\ active \in [Class -> Event \cup {NoEvent}]
      /\ TypeOK /\ SlotExclusion
  BY DEF QueueInvariant, TypeOK
<1>2. ASSUME NEW l, l # "finish", pc' = [pc EXCEPT ![t] = l], UNCHANGED status,
             \A u \in Thread : u # t => ev'[u] = ev[u]
      PROVE  Ended'
  BY <1>1, <1>2 DEF Ended
<1>3. CASE StartEvent(t)
  <2>1. PICK i \in 1 .. Len(queue) :
           /\ ConnEventNext(i)
           /\ queue' = Without(queue, i)
           /\ active' = [active EXCEPT ![EventClass(queue[i])] = queue[i]]
           /\ ev' = [ev EXCEPT ![t] = queue[i]]
    BY <1>3 DEF StartEvent, ConnEventInProgressSet
  <2>2. pc' = [pc EXCEPT ![t] = "process"] /\ UNCHANGED <<problem, log, status>>
    BY <1>3 DEF StartEvent, Goto, events
  <2>3. queue[i] \in Event /\ queue[i] # NoEvent
    BY QueueAssumption DEF QueueInvariant, TypeOK
  <2>4. active[EventClass(queue[i])] = NoEvent
    BY <2>1, NextIsFree
  <2>5. ActiveEvents' = ActiveEvents \cup {queue[i]}
    BY <1>1, <2>1, <2>3, <2>4, EventClassType DEF ActiveEvents
  <2>6. Starts
    BY <2>1, <2>2, <2>5 DEF Starts
  <2>7. Ended'
    BY <1>1, <1>2, <2>1, <2>2
  <2>8. QED
    BY <2>2, <2>6, <2>7
<1>4. CASE FinishEvent(t)
  <2> DEFINE e == ev[t]
  <2>1. /\ pc[t] = "finish" /\ active' = [active EXCEPT ![EventClass(e)] = NoEvent]
        /\ ev' = [ev EXCEPT ![t] = NoEvent] /\ pc' = [pc EXCEPT ![t] = "loop"]
        /\ UNCHANGED <<log, status>>
    BY <1>4 DEF FinishEvent, ConnEventInProgressClear, Goto
  <2>2. pc[t] \in OwnerPC /\ e \in Event /\ e # NoEvent /\ active[EventClass(e)] = e
    BY <2>1, OwnerFacts DEF OwnerPC
  <2>3. Ended'
    BY <1>1, <1>2, <2>1
  <2>4. e \in ActiveEvents /\ ActiveEvents' = ActiveEvents \ {e}
    <3>1. \A f : f \in ActiveEvents <=> f # NoEvent /\ active[EventClass(f)] = f
      BY <1>1, ActiveFacts
    <3>2. \A c \in Class : active'[c] = IF c = EventClass(e) THEN NoEvent ELSE active[c]
      BY <1>1, <2>1
    <3>3. \A c \in Class : active[c] = e => c = EventClass(e)
      BY <1>1, <2>2 DEF SlotExclusion
    <3>4. e \in ActiveEvents
      BY <2>2, <3>1
    <3> HIDE DEF e
    <3>5. \A f : f \in ActiveEvents' => f \in ActiveEvents /\ f # e
      BY <3>2, <3>3 DEF ActiveEvents
    <3>6. \A f \in ActiveEvents : f # e => f \in ActiveEvents'
      <4>1. ASSUME NEW f \in ActiveEvents, f # e
            PROVE  f \in ActiveEvents'
        <5>1. PICK c \in Class : active[c] = f /\ f # NoEvent
          BY DEF ActiveEvents
        <5>2. c # EventClass(e)
          BY <2>2, <4>1, <5>1
        <5>3. active'[c] = f
          BY <3>2, <5>1, <5>2
        <5>4. QED
          BY <5>1, <5>3 DEF ActiveEvents
      <4>2. QED
        BY <4>1
    <3>7. QED
      BY <3>4, <3>5, <3>6
  <2>5. ASSUME problem' = "none"
        PROVE  problem = "none" /\ queue' = queue /\ status[e] = "COMPLETE"
    <3>1. status[e] \in Over
      BY <2>1 DEF Ended
    <3>2. problem = "none" => status[e] \notin AbortStatus
      BY <1>4, <2>5 DEF FinishEvent, EventQueueAbort, AbortStatus
    <3>3. problem = "none" /\ status[e] # "PARTIAL" /\ queue' = queue
      BY <1>4, <2>5 DEF FinishEvent, EventQueueAbort, AbortStatus
    <3>4. QED
      BY <3>1, <3>2, <3>3 DEF Over, AbortStatus
  <2>6. QED
    BY <2>1, <2>3, <2>4, <2>5 DEF Finishes
<1>5. CASE LeaveQueue(t)
  <2>1. PICK l \in {"notify", "idle"} : pc' = [pc EXCEPT ![t] = l]
    BY <1>5 DEF LeaveQueue, Goto
  <2>2. UNCHANGED <<log, queue, active, status, problem, ev>>
    BY <1>5 DEF LeaveQueue, events
  <2>3. QED
    BY <1>2, <2>1, <2>2 DEF Rests
<1>6. CASE QueueCompleteNotify(t)
  BY <1>2, <1>6 DEF QueueCompleteNotify, Rests, Goto, transaction, events
<1>7. CASE Relock(t)
  BY <1>2, <1>7 DEF Relock, Rests, Goto, transaction, events
<1>8. CASE AsyncEventCallback(t)
  BY <1>2, <1>8 DEF AsyncEventCallback, Rests, Goto, transaction
<1>9. CASE EnterQueue(t)
  BY <1>2, <1>9 DEF EnterQueue, Rests, Goto, events
<1>10. QED
  BY <1>3, <1>4, <1>5, <1>6, <1>7, <1>8, <1>9 DEF QueueStep

\* What the consumer's calls do.
LEMMA ConsumerKinds ==
    ASSUME QueueInvariant, Ended, Consumer
    PROVE  /\ Ended'
           /\ problem' = "none" => problem = "none" /\ (Rests \/ Enqueues)
<1>1. /\ pc \in [Thread -> PC] /\ ev \in [Thread -> Event \cup {NoEvent}] /\ App \in Thread
      /\ status \in [Event -> Status] /\ log \in Seq(Event)
  BY DEF QueueInvariant, TypeOK, Thread
<1>2. ASSUME NEW l, l # "finish", pc' = [pc EXCEPT ![App] = l] \/ pc' = pc,
             \A u \in Thread : u # App => ev'[u] = ev[u], pc[App] \in {"idle", "enqueue"},
             \A f \in ElementsOf(log) : status'[f] = status[f]
      PROVE  Ended'
  <2> SUFFICES ASSUME NEW u \in Thread, pc'[u] = "finish"
               PROVE  status'[ev'[u]] \in Over
    BY DEF Ended
  <2>1. u # App /\ pc[u] = "finish"
    BY <1>1, <1>2
  <2>2. status[ev[u]] \in Over /\ ev'[u] = ev[u]
    BY <1>2, <2>1 DEF Ended
  <2>3. pc[u] \in OwnerPC
    BY <2>1 DEF OwnerPC
  <2>4. ev[u] \in ElementsOf(log)
    BY <2>3 DEF QueueInvariant, OneOwner, Logged
  <2>5. QED
    BY <1>2, <2>2, <2>4
<1>3. CASE EventEnqueue
  <2> DEFINE e == ev[App]
  <2>1. PICK flush \in Allocations("FLUSH", FlushNeeded(e), e),
             sslDisconnect \in Allocations("SSL_DISCONNECT", SSLDisconnectNeeded(e), e),
             noMemory \in BOOLEAN :
          /\ EventEngineQueueAdd(SeqOf(flush) \o SeqOf(sslDisconnect), e, noMemory)
          /\ log' = log \o (SeqOf(flush) \o SeqOf(sslDisconnect)) \o <<e>>
          /\ status' = [f \in Event |-> IF f \in {flush, sslDisconnect, e} THEN "QUEUED" ELSE status[f]]
    BY <1>3 DEF EventEnqueue
  <2>2. e \in Event \ ElementsOf(log) /\ pc[App] = "enqueue"
    BY <1>3 DEF QueueInvariant, Queueing, EventEnqueue, Thread
  <2>3. \A k, needed : \A f \in Allocations(k, needed, e) :
           f = NoEvent \/ (f \in Event \ ElementsOf(log) /\ f # e /\ Kind[f] = k)
    BY DEF Allocations, Unused
  <2> DEFINE inserted == SeqOf(flush) \o SeqOf(sslDisconnect)
             new == inserted \o <<e>>
  <2>4. /\ inserted \in Seq(Event) /\ Injective(inserted)
        /\ ElementsOf(inserted) \subseteq Event \ (ElementsOf(log) \cup {e})
    <3>1. \A f \in {flush, sslDisconnect} :
             /\ SeqOf(f) \in Seq(Event) /\ Injective(SeqOf(f)) /\ ElementsOf(SeqOf(f)) = {f} \ {NoEvent}
      BY <2>3, SingletonFacts, QueueAssumption DEF SeqOf
    <3>2. flush = sslDisconnect => flush = NoEvent
      BY <2>3
    <3>3. ElementsOf(SeqOf(flush)) \cap ElementsOf(SeqOf(sslDisconnect)) = {}
      BY <3>1, <3>2
    <3>4. ElementsOf(inserted) = ElementsOf(SeqOf(flush)) \cup ElementsOf(SeqOf(sslDisconnect))
      BY <3>1, ConcatFacts
    <3>5. inserted \in Seq(Event) /\ Injective(inserted)
      BY <3>1, <3>3, ConcatFacts
    <3>6. QED
      BY <2>3, <3>1, <3>4, <3>5
  <2>5. \A f \in ElementsOf(log) : status'[f] = status[f]
    <3>1. ElementsOf(log) \subseteq Event
      BY <1>1 DEF ElementsOf
    <3>2. ElementsOf(log) \cap {flush, sslDisconnect, e} = {}
      BY <2>2, <2>3, <3>1, QueueAssumption
    <3>3. QED
      BY <2>1, <3>1, <3>2
  <2>6. EventEngineQueueAdd(inserted, e, noMemory) /\ log' = (log \o inserted) \o <<e>>
    BY <2>1
  <2> HIDE DEF inserted
  <2>7. new \in Seq(Event) /\ Injective(new) /\ ElementsOf(new) = ElementsOf(inserted) \cup {e}
    BY <2>2, <2>4, AppendFacts
  <2>8. log' = log \o new
    <3>1. <<e>> \in Seq(Event)
      BY <2>2
    <3>2. (log \o inserted) \o <<e>> = log \o (inserted \o <<e>>)
      BY <1>1, <2>4, <3>1, ConcatAssociative
    <3>3. QED
      BY <2>6, <3>2
  <2>9. ElementsOf(new) \cap ElementsOf(log) = {}
    BY <2>2, <2>4, <2>7
  <2> HIDE DEF new
  <2>10. problem' = "none" => problem = "none" /\ queue' = queue \o new
    BY <2>6 DEF EventEngineQueueAdd, EventQueueAbort, new
  <2>11. UNCHANGED active
    BY <1>3 DEF EventEnqueue
  <2>12. problem' = "none" => Enqueues
    BY <2>5, <2>7, <2>8, <2>9, <2>10, <2>11 DEF Enqueues
  <2>13. PICK l \in {"idle", "loop"} : pc' = [pc EXCEPT ![App] = l]
    BY <1>3 DEF EventEnqueue, ConnEventsProcessUnlessWaiting, ConnEventsProcess, Goto
  <2>14. ev' = [ev EXCEPT ![App] = NoEvent]
    BY <1>3 DEF EventEnqueue
  <2>15. Ended'
    BY <1>1, <1>2, <2>2, <2>5, <2>13, <2>14
  <2>16. QED
    BY <2>10, <2>12, <2>15
<1>4. ASSUME NEW x \in Event, ConnACall(x)
      PROVE  Ended' /\ (problem' = "none" => problem = "none" /\ Rests)
  BY <1>1, <1>2, <1>4 DEF ConnACall, ConsumerMayCall, Rests, Goto, transaction, events
<1>5. CASE ConnANoop
  <2>1. PICK l \in {"idle", "loop"} : pc' = [pc EXCEPT ![App] = l]
    BY <1>5 DEF ConnANoop, ConnEventsProcessUnlessWaiting, ConnEventsProcess, Goto
  <2>2. QED
    BY <1>2, <1>5, <2>1 DEF ConnANoop, ConsumerMayCall, Rests, events
<1>6. CASE EventsSubmit
  BY <1>2, <1>6 DEF EventsSubmit, ConsumerMayCall, ConnEventsProcess, Rests, Goto, events
<1>7. CASE EventEnqueueFailure
  <2>1. problem' # "none"
    BY <1>7 DEF EventEnqueueFailure, EventQueueAbort
  <2>2. QED
    BY <1>7, <2>1 DEF EventEnqueueFailure, locals, Ended
<1>8. CASE ConnAWrite
  BY <1>8 DEF ConnAWrite, Rests, Ended, transaction, events, locals
<1>9. CASE ConnReplace
  BY <1>9 DEF ConnReplace, Rests, Ended, transaction, events, locals
<1>10. QED
  BY <1>3, <1>4, <1>5, <1>6, <1>7, <1>8, <1>9 DEF Consumer

\* What the callback, the epoll engine, kills and the shutdown do.
LEMMA EnvironmentKinds ==
    ASSUME QueueInvariant, Ended, Environment
    PROVE  /\ Ended'
           /\ problem' = "none" => (problem = "none" /\ Rests) \/ Clears
<1>1. /\ pc \in [Thread -> PC] /\ ev \in [Thread -> Event \cup {NoEvent}] /\ completions \in Nat
  BY DEF QueueInvariant, TypeOK
<1>2. ASSUME NEW t \in Worker, NEW c \in Class, HandleSocketEvent(t, c)
      PROVE  Ended' /\ (problem' = "none" => problem = "none" /\ Rests)
  <2>1. t \in Thread /\ pc' = [pc EXCEPT ![t] = "callback"] /\ ev' = [ev EXCEPT ![t] = seArg[c]]
        /\ UNCHANGED <<log, queue, active, status, problem>>
    BY <1>2 DEF HandleSocketEvent, Goto, Thread, transaction, events
  <2>2. \A u \in Thread : pc'[u] = "finish" => u # t /\ pc[u] = "finish" /\ ev'[u] = ev[u]
    BY <1>1, <2>1
  <2>3. QED
    BY <2>1, <2>2 DEF Ended, Rests
<1>3. CASE \E c \in Class : SocketReady(c) \/ SocketTimeout(c)
  <2>1. UNCHANGED <<log, queue, active, status, problem, pc, ev>>
    BY <1>3 DEF SocketReady, SocketTimeout, SocketEventComplete, transaction, events, locals
  <2>2. QED
    BY <2>1 DEF Ended, Rests
<1>4. CASE QueueCompleteCallback
  <2>1. completions > 0 /\ UNCHANGED <<pc, active>> /\ log' = <<>> /\ queue' = <<>>
    BY <1>4 DEF QueueCompleteCallback, locals
  <2>2. state = "COMPLETE"
    BY <1>1, <2>1 DEF QueueInvariant, CompletedOnce
  <2>3. \A t \in Thread : pc[t] # "finish"
    BY <2>2 DEF QueueInvariant, NothingLeftBehind
  <2>4. QED
    BY <2>1, <2>3 DEF Ended, Clears
<1>5. CASE ConnKill \/ ConnectionsAbort
  <2>1. PICK S : ConnAbort(S)
    BY <1>5 DEF ConnKill, ConnectionsAbort
  <2>2. UNCHANGED <<log, active, status, pc, ev>>
    BY <2>1 DEF ConnAbort, locals
  <2>3. problem' = "none" => UNCHANGED <<queue, problem>>
    BY <2>1 DEF ConnAbort, EventQueueAbort
  <2>4. QED
    BY <2>2, <2>3 DEF Ended, Rests
<1>6. CASE HandleShutdown
  <2>1. UNCHANGED <<log, queue, active, status, problem, pc, ev>>
    BY <1>6 DEF HandleShutdown, transaction, events, locals
  <2>2. QED
    BY <2>1 DEF Ended, Rests
<1>7. QED
  BY <1>2, <1>3, <1>4, <1>5, <1>6 DEF Environment

\* While no problem is recorded, every step is one of the five kinds.
LEMMA StepKinds ==
    ASSUME QueueInvariant, Ended, [Next]_vars
    PROVE  /\ Ended'
           /\ problem' = "none" =>
                 Clears \/ (problem = "none" /\ (Rests \/ Starts \/ Finishes \/ Enqueues))
<1>1. CASE UNCHANGED vars
  <2>1. UNCHANGED <<log, queue, active, status, problem, pc, ev>>
    BY <1>1 DEF vars, transaction, events, locals
  <2>2. QED
    BY <2>1 DEF Ended, Rests
<1>2. CASE Next
  BY <1>2, NextCases, ProcessKinds, QueueStepKinds, ConsumerKinds, EnvironmentKinds
<1>3. QED
  BY <1>1, <1>2

\* Whatever was queued and is neither waiting nor in progress was successful.
Truth == problem = "none" =>
    \A e \in ElementsOf(log) : status[e] = "COMPLETE" \/ e \in ElementsOf(queue) \cup ActiveEvents

\* The log, the queue and the slots are of events.
LEMMA LogFacts ==
    ASSUME QueueInvariant
    PROVE  /\ log \in Seq(Event) /\ queue \in Seq(Event) /\ Injective(queue)
           /\ ElementsOf(log) \subseteq Event /\ ElementsOf(queue) \subseteq ElementsOf(log)
           /\ ActiveEvents \subseteq ElementsOf(log)
           /\ ElementsOf(queue) \cap ActiveEvents = {}
<1>1. log \in Seq(Event) /\ queue \in Seq(Event)
  BY DEF QueueInvariant, TypeOK
<1>2. ElementsOf(log) \subseteq Event
  BY <1>1 DEF ElementsOf
<1>3. QED
  BY <1>1, <1>2 DEF QueueInvariant, Logged, EventPlaces, Injective

\* Every step keeps that.
LEMMA TruthStep ==
    ASSUME QueueInvariant, Ended, Truth, [Next]_vars
    PROVE  Truth'
<1>1. SUFFICES ASSUME problem' = "none", NEW e \in ElementsOf(log')
               PROVE  status'[e] = "COMPLETE" \/ e \in ElementsOf(queue') \cup ActiveEvents'
  BY DEF Truth
<1>2. Clears \/ (problem = "none" /\ (Rests \/ Starts \/ Finishes \/ Enqueues))
  BY <1>1, StepKinds
<1>3. CASE Clears
  BY <1>3, SingletonFacts DEF Clears
<1>4. problem = "none" /\ e \in ElementsOf(log) => status[e] = "COMPLETE" \/ e \in ElementsOf(queue) \cup ActiveEvents
  BY DEF Truth
<1>5. CASE problem = "none" /\ Rests
  <2>1. ActiveEvents' = ActiveEvents /\ log' = log /\ queue' = queue
    BY <1>5 DEF Rests, ActiveEvents
  <2>2. QED
    BY <1>4, <1>5, <2>1, LogFacts DEF Rests
<1>6. CASE problem = "none" /\ Starts
  <2>1. PICK i \in 1 .. Len(queue) : /\ queue' = Without(queue, i)
                                     /\ ActiveEvents' = ActiveEvents \cup {queue[i]}
    BY <1>6 DEF Starts
  <2>2. ElementsOf(queue) \subseteq ElementsOf(queue') \cup {queue[i]}
    BY <2>1, LogFacts, WithoutFacts
  <2>3. QED
    BY <1>4, <1>6, <2>1, <2>2 DEF Starts
<1>7. CASE problem = "none" /\ Finishes
  BY <1>4, <1>7 DEF Finishes
<1>8. CASE problem = "none" /\ Enqueues
  <2>1. PICK new \in Seq(Event) :
          /\ queue' = queue \o new /\ log' = log \o new /\ UNCHANGED active
          /\ \A f \in ElementsOf(log) : status'[f] = status[f]
    BY <1>8 DEF Enqueues
  <2>2. /\ ElementsOf(queue') = ElementsOf(queue) \cup ElementsOf(new)
        /\ ElementsOf(log') = ElementsOf(log) \cup ElementsOf(new) /\ ActiveEvents' = ActiveEvents
    BY <2>1, LogFacts, ConcatFacts DEF ActiveEvents
  <2>3. QED
    BY <1>4, <1>8, <2>1, <2>2
<1>9. QED
  BY <1>2, <1>3, <1>5, <1>6, <1>7, <1>8

\* The success callback is called only for a transaction all of whose events ran
\* and were successful.
THEOREM SuccessMeansSuccess == Spec => []SuccessIsTruthful
<1>1. Init => Ended /\ Truth
  BY SingletonFacts DEF Init, Ended, Truth
<1>2. QueueInvariant /\ Ended /\ Truth /\ [Next]_vars => Ended' /\ Truth'
  BY StepKinds, TruthStep
<1>3. QueueInvariant /\ Truth => SuccessIsTruthful
  <2> SUFFICES ASSUME QueueInvariant, Truth, state = "COMPLETE", problem = "none", NEW i \in DOMAIN log
               PROVE  status[log[i]] = "COMPLETE"
    BY DEF SuccessIsTruthful
  <2>1. ElementsOf(queue) = {} /\ ActiveEvents = {}
    BY SingletonFacts DEF QueueInvariant, NothingLeftBehind, ConnEventsInProgress
  <2>2. log[i] \in ElementsOf(log)
    BY DEF ElementsOf
  <2>3. QED
    BY <2>1, <2>2 DEF Truth
<1>4. QED
  BY <1>1, <1>2, <1>3, Invariance, PTL DEF Spec

\* x comes before y in a list.
Before(s, x, y) == \E i, j \in DOMAIN s : i < j /\ s[i] = x /\ s[j] = y

\* Without duplicates an event is before another or after it.
LEMMA BeforeOneWay ==
    ASSUME NEW s \in Seq(Event), Injective(s), NEW x, NEW y, Before(s, x, y)
    PROVE  ~Before(s, y, x)
<1>1. PICK i, j \in DOMAIN s : i < j /\ s[i] = x /\ s[j] = y
  BY DEF Before
<1>2. SUFFICES ASSUME NEW k \in DOMAIN s, NEW l \in DOMAIN s, k < l, s[k] = y, s[l] = x
               PROVE  FALSE
  BY DEF Before
<1>3. k = j /\ l = i
  BY <1>1, <1>2 DEF Injective
<1>4. i \in Int /\ j \in Int
  BY DOMAIN s = 1 .. Len(s)
<1>5. QED
  BY <1>1, <1>2, <1>3, <1>4

\* Taking an event out does not change the order of the others.
LEMMA BeforeWithout ==
    ASSUME NEW q \in Seq(Event), NEW i \in 1 .. Len(q), NEW x, NEW y, Before(Without(q, i), x, y)
    PROVE  Before(q, x, y)
<1> DEFINE w == Without(q, i)
<1>1. Len(q) \in Nat /\ i \in Nat /\ DOMAIN q = 1 .. Len(q) /\ i <= Len(q)
  OBVIOUS
<1>2. w \in Seq(Event) /\ Len(w) = Len(q) - 1 /\ \A k \in 1 .. Len(w) : w[k] = IF k < i THEN q[k] ELSE q[k + 1]
  BY WithoutPositions
<1>5. DOMAIN w = 1 .. (Len(q) - 1)
  BY <1>2
<1>6. \A k \in 1 .. (Len(q) - 1) : w[k] = IF k < i THEN q[k] ELSE q[k + 1]
  BY <1>2
<1>7. PICK k, l \in DOMAIN w : k < l /\ w[k] = x /\ w[l] = y
  BY DEF Before
<1> HIDE DEF w
<1> DEFINE m == IF k < i THEN k ELSE k + 1
           n == IF l < i THEN l ELSE l + 1
<1>8. m \in DOMAIN q /\ n \in DOMAIN q /\ m < n
  BY <1>1, <1>5, <1>7
<1>9. q[m] = x /\ q[n] = y
  BY <1>5, <1>6, <1>7
<1>10. QED
  BY <1>8, <1>9 DEF Before

\* The order in two lists joined.
LEMMA BeforeConcat ==
    ASSUME NEW s \in Seq(Event), NEW r \in Seq(Event), NEW x, NEW y
    PROVE  Before(s \o r, x, y) <=>
              Before(s, x, y) \/ Before(r, x, y) \/ (x \in ElementsOf(s) /\ y \in ElementsOf(r))
<1> DEFINE c == s \o r
           m == Len(s)
           n == Len(r)
<1>1. /\ m \in Nat /\ n \in Nat /\ DOMAIN s = 1 .. m /\ DOMAIN r = 1 .. n
      /\ DOMAIN c = 1 .. (m + n)
      /\ \A k \in 1 .. m : c[k] = s[k]
      /\ \A k \in 1 .. n : c[k + m] = r[k]
  OBVIOUS
<1> HIDE DEF c, m, n
<1>2. \A k \in 1 .. (m + n) : k \in 1 .. m \/ (k - m \in 1 .. n /\ (k - m) + m = k /\ k > m)
  BY <1>1
<1>3. ASSUME Before(c, x, y)
      PROVE  Before(s, x, y) \/ Before(r, x, y) \/ (x \in ElementsOf(s) /\ y \in ElementsOf(r))
  <2>1. PICK i, j \in 1 .. (m + n) : i < j /\ c[i] = x /\ c[j] = y
    BY <1>1, <1>3 DEF Before
  <2>2. CASE i \in 1 .. m /\ j \in 1 .. m
    BY <1>1, <2>1, <2>2 DEF Before
  <2>3. CASE i \in 1 .. m /\ j \notin 1 .. m
    <3>1. j - m \in 1 .. n /\ c[j] = r[j - m]
      BY <1>1, <1>2, <2>3
    <3>2. QED
      BY <1>1, <2>1, <2>3, <3>1 DEF ElementsOf
  <2>4. CASE i \notin 1 .. m
    <3>1. i - m \in 1 .. n /\ c[i] = r[i - m] /\ i > m
      BY <1>1, <1>2, <2>4
    <3>2. j \notin 1 .. m
      BY <1>1, <2>1, <3>1
    <3>3. j - m \in 1 .. n /\ c[j] = r[j - m]
      BY <1>1, <1>2, <3>2
    <3>4. i - m < j - m
      BY <1>1, <2>1
    <3>5. QED
      BY <1>1, <2>1, <3>1, <3>3, <3>4 DEF Before
  <2>5. QED
    BY <2>2, <2>3, <2>4
<1>4. ASSUME Before(s, x, y)
      PROVE  Before(c, x, y)
  <2>1. PICK i, j \in 1 .. m : i < j /\ s[i] = x /\ s[j] = y
    BY <1>1, <1>4 DEF Before
  <2>2. i \in 1 .. (m + n) /\ j \in 1 .. (m + n)
    BY <1>1
  <2>3. QED
    BY <1>1, <2>1, <2>2 DEF Before
<1>5. ASSUME Before(r, x, y)
      PROVE  Before(c, x, y)
  <2>1. PICK i, j \in 1 .. n : i < j /\ r[i] = x /\ r[j] = y
    BY <1>1, <1>5 DEF Before
  <2>2. i + m \in 1 .. (m + n) /\ j + m \in 1 .. (m + n) /\ i + m < j + m
    BY <1>1, <2>1
  <2>3. QED
    BY <1>1, <2>1, <2>2 DEF Before
<1>6. ASSUME x \in ElementsOf(s), y \in ElementsOf(r)
      PROVE  Before(c, x, y)
  <2>1. PICK i \in 1 .. m, j \in 1 .. n : s[i] = x /\ r[j] = y
    BY <1>1, <1>6 DEF ElementsOf
  <2>2. i \in 1 .. (m + n) /\ j + m \in 1 .. (m + n) /\ i < j + m
    BY <1>1
  <2>3. QED
    BY <1>1, <2>1, <2>2 DEF Before
<1>7. QED
  BY <1>3, <1>4, <1>5, <1>6 DEF c

\* The queue is in the order of the log, and of two conflicting events the
\* second leaves the queue after the first is over.
Ordered ==
    problem = "none" =>
        /\ Injective(log)
        /\ \A x, y : Before(queue, x, y) => Before(log, x, y)
        /\ \A x, y : Before(log, x, y) /\ Conflict(x, y) /\ y \notin ElementsOf(queue)
                        => x \notin ElementsOf(queue) \cup ActiveEvents

\* Nothing that conflicts with the event ConnEventNext returns is in progress.
LEMMA NextNoConflict ==
    ASSUME QueueInvariant, NEW i \in 1 .. Len(queue), ConnEventNext(i), NEW x \in ActiveEvents
    PROVE  ~Conflict(x, queue[i])
<1>1. active[EventClass(x)] = x /\ x # NoEvent
  BY ActiveFacts DEF QueueInvariant
<1>2. /\ active["connect"] = NoEvent
      /\ active[EventClass(queue[i])] = NoEvent
      /\ EventClass(queue[i]) = "connect" => \A c \in Class : active[c] = NoEvent
  BY NextIsFree
<1>3. QED
  BY <1>1, <1>2, EventClassType DEF Conflict

\* Nothing that conflicts with it is before it in the queue.
LEMMA NextPassesNone ==
    ASSUME QueueInvariant, NEW i \in 1 .. Len(queue), ConnEventNext(i), NEW p \in 1 .. Len(queue), p < i
    PROVE  ~Conflict(queue[p], queue[i])
<1>1. p \in 1 .. i - 1 /\ i # 1
  OBVIOUS
<1>2. \/ EventClass(queue[i]) = "send" /\ EventClass(queue[p]) = "receive"
      \/ EventClass(queue[i]) = "receive" /\ EventClass(queue[p]) = "send"
  BY <1>1 DEF ConnEventNext, GetNextEnqueuedEvent, GetNextEnqueuedSendEvent, GetNextEnqueuedReceiveEvent
<1>3. QED
  BY <1>2 DEF Conflict

\* Every step keeps the order.
LEMMA OrderStep ==
    ASSUME QueueInvariant, Ended, Ordered, [Next]_vars
    PROVE  Ordered'
<1> SUFFICES ASSUME problem' = "none"
             PROVE  /\ Injective(log')
                    /\ \A x, y : Before(queue', x, y) => Before(log', x, y)
                    /\ \A x, y : Before(log', x, y) /\ Conflict(x, y) /\ y \notin ElementsOf(queue')
                                    => x \notin ElementsOf(queue') \cup ActiveEvents'
  BY DEF Ordered, Conflict, EventClass
<1>1. Clears \/ (problem = "none" /\ (Rests \/ Starts \/ Finishes \/ Enqueues))
  BY StepKinds
<1>2. CASE Clears
  <2>1. log' = <<>> /\ queue' = <<>> /\ DOMAIN <<>> = {}
    BY <1>2 DEF Clears
  <2>2. QED
    BY <2>1 DEF Before, Injective
<1>3. problem = "none" =>
        /\ Injective(log)
        /\ \A x, y : Before(queue, x, y) => Before(log, x, y)
        /\ \A x, y : Before(log, x, y) /\ Conflict(x, y) /\ y \notin ElementsOf(queue)
                        => x \notin ElementsOf(queue) \cup ActiveEvents
  BY DEF Ordered
<1>4. CASE problem = "none" /\ Rests
  <2>1. ActiveEvents' = ActiveEvents /\ log' = log /\ queue' = queue
    BY <1>4 DEF Rests, ActiveEvents
  <2>2. QED
    BY <1>3, <1>4, <2>1
<1>5. CASE problem = "none" /\ Finishes
  <2>1. ActiveEvents' \subseteq ActiveEvents /\ log' = log /\ queue' = queue
    BY <1>5 DEF Finishes
  <2>2. QED
    BY <1>3, <1>5, <2>1
<1>6. CASE problem = "none" /\ Starts
  <2>1. PICK i \in 1 .. Len(queue) : /\ ConnEventNext(i) /\ queue' = Without(queue, i)
                                     /\ ActiveEvents' = ActiveEvents \cup {queue[i]} /\ log' = log
    BY <1>6 DEF Starts
  <2> DEFINE e == queue[i]
  <2>2. /\ ElementsOf(queue') \subseteq ElementsOf(queue) /\ ElementsOf(queue) \subseteq ElementsOf(queue') \cup {e}
        /\ e \in ElementsOf(queue) /\ e \notin ElementsOf(queue')
    BY <2>1, LogFacts, WithoutFacts
  <2>3. \A x, y : Before(queue', x, y) => Before(log', x, y)
    BY <1>3, <1>6, <2>1, LogFacts, BeforeWithout
  <2>4. ASSUME NEW x, NEW y, Before(log', x, y), Conflict(x, y), y \notin ElementsOf(queue')
        PROVE  x \notin ElementsOf(queue') \cup ActiveEvents'
    <3>1. CASE y # e
      <4>1. y \notin ElementsOf(queue)
        BY <2>2, <2>4, <3>1
      <4>2. x \notin ElementsOf(queue) \cup ActiveEvents
        BY <1>3, <1>6, <2>1, <2>4, <4>1
      <4>3. QED
        BY <2>1, <2>2, <4>2
    <3>2. CASE y = e
      <4>1. x # e
        <5>1. ~Before(log, y, x)
          BY <1>3, <1>6, <2>1, <2>4, LogFacts, BeforeOneWay
        <5>2. QED
          BY <2>1, <2>4, <3>2, <5>1
      <4>2. x \notin ActiveEvents
        BY <2>1, <2>4, <3>2, NextNoConflict
      <4>3. ASSUME x \in ElementsOf(queue)
            PROVE  FALSE
        <5>1. PICK p \in 1 .. Len(queue) : queue[p] = x
          BY <4>3, LogFacts DEF ElementsOf
        <5>2. ~(p < i)
          BY <2>1, <2>4, <3>2, <5>1, NextPassesNone
        <5>3. p # i
          BY <4>1, <5>1
        <5>4. i < p /\ DOMAIN queue = 1 .. Len(queue)
          BY <5>2, <5>3, LogFacts
        <5>5. Before(queue, e, x)
          BY <5>1, <5>4 DEF Before
        <5>6. Before(log, e, x) /\ Before(log, x, e)
          BY <1>3, <1>6, <2>1, <2>4, <3>2, <5>5
        <5>7. QED
          BY <1>3, <1>6, <5>6, LogFacts, BeforeOneWay
      <4>4. QED
        BY <2>1, <2>2, <4>1, <4>2, <4>3
    <3>3. QED
      BY <3>1, <3>2
  <2>5. QED
    BY <1>3, <1>6, <2>1, <2>3, <2>4
<1>7. CASE problem = "none" /\ Enqueues
  <2>1. PICK new \in Seq(Event) :
          /\ Injective(new) /\ ElementsOf(new) \cap ElementsOf(log) = {}
          /\ queue' = queue \o new /\ log' = log \o new /\ UNCHANGED active
    BY <1>7 DEF Enqueues
  <2>2. /\ ElementsOf(queue') = ElementsOf(queue) \cup ElementsOf(new)
        /\ ActiveEvents' = ActiveEvents /\ Injective(log')
    BY <1>3, <1>7, <2>1, LogFacts, ConcatFacts DEF ActiveEvents
  <2>3. ASSUME NEW x, NEW y
        PROVE  /\ Before(queue', x, y) <=>
                     Before(queue, x, y) \/ Before(new, x, y) \/ (x \in ElementsOf(queue) /\ y \in ElementsOf(new))
               /\ Before(log', x, y) <=>
                     Before(log, x, y) \/ Before(new, x, y) \/ (x \in ElementsOf(log) /\ y \in ElementsOf(new))
    BY <2>1, LogFacts, BeforeConcat
  <2>4. ASSUME NEW x, NEW y, Before(queue', x, y)
        PROVE  Before(log', x, y)
    BY <1>3, <1>7, <2>3, <2>4, LogFacts
  <2>5. \A x, y : Before(new, x, y) => y \in ElementsOf(new)
    BY DEF Before, ElementsOf
  <2>6. \A x, y : Before(log, x, y) => x \in ElementsOf(log)
    BY DEF Before, ElementsOf
  <2>7. ASSUME NEW x, NEW y, Before(log', x, y), Conflict(x, y), y \notin ElementsOf(queue')
        PROVE  x \notin ElementsOf(queue') \cup ActiveEvents'
    <3>1. y \notin ElementsOf(new) /\ y \notin ElementsOf(queue)
      BY <2>2, <2>7
    <3>2. Before(log, x, y)
      BY <2>3, <2>5, <2>7, <3>1
    <3>3. x \notin ElementsOf(queue) \cup ActiveEvents /\ x \in ElementsOf(log)
      BY <1>3, <1>7, <2>6, <2>7, <3>1, <3>2
    <3>4. QED
      BY <2>1, <2>2, <3>3
  <2>8. QED
    BY <2>2, <2>4, <2>7
<1>8. QED
  BY <1>1, <1>2, <1>4, <1>5, <1>6, <1>7

\* Of two events of one class, or of which one changes the state of the connection,
\* the second does not start before the first has ended.
THEOREM EventsRunInOrder == Spec => []OrderPreserved
<1>1. Init => Ended /\ Ordered
  <2>1. DOMAIN <<>> = {}
    OBVIOUS
  <2>2. QED
    BY <2>1 DEF Init, Ended, Ordered, Before, Injective
<1>2. QueueInvariant /\ Ended /\ Ordered /\ [Next]_vars => Ended' /\ Ordered'
  BY StepKinds, OrderStep
<1>3. Ordered => OrderPreserved
  BY DEF Ordered, OrderPreserved, Before
<1>4. QED
  BY <1>1, <1>2, <1>3, Invariance, PTL DEF Spec

-----------------------------------------------------------------------------
(* No stall.  While a transaction is submitted something works on it, or a *)
(* problem is recorded and events are still queued behind it, where        *)
(* ConnEventNext does not look any more.  Of the ways to record a problem, *)
(* only a partial read and the refusal of EventEngineQueueAdd during a     *)
(* shutdown leave the queue as it is.                                      *)

Works == (\E t \in Thread : pc[t] # "idle") \/ (\E c \in Class : seArg[c] # NoEvent)
LeftBehindProblem == problem # "none" /\ queue # <<>>
Moves == state = "ENGINE" => Works \/ LeftBehindProblem
Flushed ==
    /\ problem # "none" => queue = <<>>
    /\ ~shuttingDown
    /\ \A e \in Event : status[e] # "PARTIAL"

\* The thread that leaves does not leave work undone: another thread is inside, an
\* event is in progress and so owned or linked, or what is queued may not start.
LEMMA LeaverLeavesWork ==
    ASSUME QueueInvariant, NEW t \in Thread, LeaveQueue(t), state' = "ENGINE"
    PROVE  Works' \/ LeftBehindProblem'
<1> USE DEF QueueInvariant
<1>1. /\ pc[t] = "loop" /\ ~QueueDone /\ state = "ENGINE" /\ UNCHANGED <<active, queue, problem, seArg>>
      /\ pc' = [pc EXCEPT ![t] = "idle"] /\ \A i \in 1 .. Len(queue) : ~ConnEventNext(i)
  BY DEF LeaveQueue, Goto, socketEvents
<1>2. \A u \in Thread : u # t => pc'[u] = pc[u]
  BY <1>1 DEF TypeOK
<1>3. CASE ActiveEvents # {}
  <2>1. PICK e : e \in ActiveEvents
    BY <1>3
  <2>2. (\E u \in Thread : Owns(u, e)) \/ (\E c \in Class : Linked(c, e))
    BY <2>1 DEF OneOwner
  <2>3. CASE \E u \in Thread : Owns(u, e)
    BY <1>1, <1>2, <2>3 DEF Owns, OwnerPC, Works
  <2>4. CASE \E c \in Class : Linked(c, e)
    BY <1>1, <2>1, <2>4 DEF Linked, Works, ActiveEvents
  <2>5. QED
    BY <2>2, <2>3, <2>4
<1>4. CASE ActiveEvents = {} /\ queue # <<>>
  <2>1. \A c \in Class : active[c] = NoEvent
    BY <1>4 DEF ActiveEvents
  <2>2. 1 \in 1 .. Len(queue)
    BY <1>4 DEF TypeOK
  <2>3. problem # "none"
    BY <1>1, <2>1, <2>2 DEF ConnEventNext, GetNextEnqueuedEvent, Class
  <2>4. QED
    BY <1>1, <1>4, <2>3 DEF LeftBehindProblem
<1>5. CASE ActiveEvents = {} /\ queue = <<>>
  <2>1. threads - 1 # 0 /\ threads \in Nat /\ threads = Cardinality(Inside)
    BY <1>1, <1>5 DEF QueueDone, ConnEventsInProgress, ThreadsCounted, TypeOK
  <2>2. t \in Inside
    BY <1>1 DEF Inside, InsidePC
  <2>3. Inside # {t}
    <3>1. Cardinality({t}) = 1
      BY FS_Singleton
    <3>2. QED
      BY <2>1, <3>1
  <2>4. PICK u \in Inside : u # t
    BY <2>2, <2>3
  <2>5. u \in Thread /\ pc[u] # "idle"
    BY <2>4 DEF Inside, InsidePC
  <2>6. QED
    BY <1>2, <2>4, <2>5 DEF Works
<1>6. QED
  BY <1>3, <1>4, <1>5

\* A submitted transaction is worked on, or stuck behind a problem.
LEMMA MovesStep ==
    ASSUME QueueInvariant, Moves, [Next]_vars
    PROVE  Moves'
<1> SUFFICES ASSUME state' = "ENGINE"
             PROVE  Works' \/ LeftBehindProblem'
  BY DEF Moves
<1>1. pc \in [Thread -> PC] /\ seArg \in [Class -> Event \cup {NoEvent}] /\ App \in Thread
  BY DEF QueueInvariant, TypeOK, Thread
<1>2. ASSUME NEW t \in Thread, NEW l, Goto(t, l), l # "idle"
      PROVE  Works'
  BY <1>1, <1>2 DEF Goto, Works
<1>3. ASSUME UNCHANGED <<state, pc, seArg>>, problem = "none" \/ (UNCHANGED <<problem, queue>>)
      PROVE  Works' \/ LeftBehindProblem'
  BY <1>3 DEF Moves, Works, LeftBehindProblem
<1>4. CASE UNCHANGED vars
  BY <1>3, <1>4 DEF vars, transaction, locals, socketEvents
<1>5. CASE Consumer
  <2>1. CASE \E e \in Event : ConnACall(e)
    BY <1>2, <2>1, <1>1 DEF ConnACall
  <2>2. CASE EventEnqueue \/ ConnANoop \/ EventEnqueueFailure \/ ConnAWrite \/ ConnReplace
    BY <2>2 DEF EventEnqueue, ConnANoop, EventEnqueueFailure, ConnAWrite, ConnReplace
  <2>3. CASE EventsSubmit
    BY <1>1, <1>2, <2>3 DEF EventsSubmit, ConnEventsProcess
  <2>4. QED
    BY <1>5, <2>1, <2>2, <2>3 DEF Consumer
<1>6. ASSUME NEW t \in Thread, ProcessEvent(t)
      PROVE  Works'
  <2>1. \E l \in {"finish", "check", "wait", "handedOff"} : Goto(t, l)
    BY <1>6 DEF ProcessEvent, ProcessCancelled, ProcessDone, ProcessFails, ProcessBlocks, CheckProblem,
                SocketEventWait, FailEvent
  <2>2. QED
    BY <1>2, <2>1
<1>7. ASSUME NEW t \in Thread, QueueStep(t)
      PROVE  Works' \/ LeftBehindProblem'
  <2>1. CASE LeaveQueue(t)
    BY <2>1, LeaverLeavesWork
  <2>2. CASE QueueCompleteNotify(t)
    <3>1. pc[t] = "notify" /\ state = "ENGINE"
      BY <2>2 DEF QueueCompleteNotify
    <3>2. QED
      BY <3>1 DEF QueueInvariant, CompletedOnce
  <2>3. CASE StartEvent(t) \/ Relock(t) \/ FinishEvent(t) \/ AsyncEventCallback(t) \/ EnterQueue(t)
    <3>1. \E l \in {"process", "loop", "enter"} : Goto(t, l)
      BY <2>3 DEF StartEvent, Relock, FinishEvent, AsyncEventCallback, EnterQueue
    <3>2. QED
      BY <1>2, <3>1
  <2>4. QED
    BY <1>7, <2>1, <2>2, <2>3 DEF QueueStep
<1>8. CASE Environment
  <2>1. CASE \E t \in Worker, c \in Class : HandleSocketEvent(t, c)
    <3>1. PICK t \in Worker, c \in Class : HandleSocketEvent(t, c)
      BY <2>1
    <3>2. t \in Thread /\ Goto(t, "callback")
      BY <3>1 DEF HandleSocketEvent, Thread
    <3>3. QED
      BY <1>2, <3>2
  <2>2. CASE \E c \in Class : SocketReady(c) \/ SocketTimeout(c)
    <3>1. UNCHANGED <<state, pc, seArg, problem, queue>>
      BY <2>2 DEF SocketReady, SocketTimeout, SocketEventComplete, transaction, locals
    <3>2. QED
      BY <1>3, <3>1
  <2>3. CASE QueueCompleteCallback
    BY <2>3 DEF QueueCompleteCallback
  <2>4. CASE ConnKill \/ ConnectionsAbort
    <3>1. UNCHANGED <<state, pc, seArg>> /\ (problem = "none" \/ UNCHANGED <<problem, queue>>)
      BY <2>4 DEF ConnKill, ConnectionsAbort, ConnAbort, EventQueueAbort, locals
    <3>2. QED
      BY <1>3, <3>1
  <2>5. CASE HandleShutdown
    <3>1. UNCHANGED <<state, pc, seArg, problem, queue>>
      BY <2>5 DEF HandleShutdown, transaction, locals, socketEvents
    <3>2. QED
      BY <1>3, <3>1
  <2>6. QED
    BY <1>8, <2>1, <2>2, <2>3, <2>4, <2>5 DEF Environment
<1>9. QED
  BY <1>4, <1>5, <1>6, <1>7, <1>8, NextCases

\* Whatever the constants are, a submitted transaction only stalls behind a recorded
\* problem that left events in the queue.
THEOREM StallsOnlyBehindAProblem == Spec => [](NoStall \/ LeftBehindProblem)
<1>1. Init => Moves
  BY DEF Init, Moves
<1>2. QueueInvariant /\ Moves /\ [Next]_vars => Moves'
  BY MovesStep
<1>3. QueueInvariant /\ Moves => NoStall \/ LeftBehindProblem
  <2> SUFFICES ASSUME QueueInvariant, Moves, state \in {"ENGINE", "COMPLETE"}, ~LeftBehindProblem
               PROVE  \/ \E t \in Thread : pc[t] # "idle"
                      \/ \E c \in Class : seArg[c] # NoEvent
                      \/ completions > 0
    BY DEF NoStall
  <2>1. CASE state = "ENGINE"
    BY <2>1 DEF Moves, Works
  <2>2. CASE state = "COMPLETE"
    <3>1. CompletedOnce
      BY DEF QueueInvariant
    <3>2. CASE completions = 1
      BY <3>2
    <3>3. CASE \E t \in Thread : \A u \in Thread : pc[u] = "notify" <=> u = t
      BY <3>3
    <3>4. QED
      BY <2>2, <3>1, <3>2, <3>3 DEF CompletedOnce
  <2>3. QED
    BY <2>1, <2>2
<1>4. QED
  BY <1>1, <1>2, <1>3, Invariance, PTL DEF Spec

\* Without partial reads and without a shutdown, a problem and its events leave
\* together.
LEMMA FlushedStep ==
    ASSUME PartialOK = {}, "shutdown" \notin Calls, QueueInvariant, Flushed, [Next]_vars
    PROVE  Flushed'
<1>1. /\ pc \in [Thread -> PC] /\ ev \in [Thread -> Event \cup {NoEvent}] /\ status \in [Event -> Status]
      /\ problem # "none" => queue = <<>>
      /\ \A e \in Event : status[e] # "PARTIAL"
      /\ ~shuttingDown
  BY DEF QueueInvariant, TypeOK, Flushed
<1>2. ~shuttingDown'
  BY <1>1 DEF Next, Consumer, ProcessEvent, QueueStep, ConnACall, EventEnqueue, ConnANoop, EventEnqueueFailure,
       ConnAWrite, EventsSubmit, ConnReplace, ProcessCancelled, ProcessDone, ProcessFails, ProcessBlocks,
       CheckProblem, SocketEventWait, StartEvent, LeaveQueue, QueueCompleteNotify, Relock, FinishEvent,
       AsyncEventCallback, EnterQueue, HandleSocketEvent, SocketReady, SocketTimeout, SocketEventComplete,
       QueueCompleteCallback, ConnKill, ConnectionsAbort, ConnAbort, HandleShutdown, handle, vars
<1>3. ASSUME NEW e, NEW why
      PROVE  StatusOf(e, why) # "PARTIAL"
  BY DEF StatusOf
<1>4. ASSUME UNCHANGED <<problem, queue>>
      PROVE  problem' # "none" => queue' = <<>>
  BY <1>1, <1>4
<1>5. ASSUME NEW act, NEW current, NEW why, NEW also, EventQueueAbort(act, current, why, also)
      PROVE  problem' # "none" => queue' = <<>>
  BY <1>1, <1>5 DEF EventQueueAbort
<1>6. ASSUME status' = status
      PROVE  \A e \in Event : status'[e] # "PARTIAL"
  BY <1>1, <1>6
<1>7. CASE UNCHANGED vars
  BY <1>2, <1>4, <1>6, <1>7 DEF vars, transaction, events, Flushed
<1>8. CASE Consumer
  <2>1. CASE (\E e \in Event : ConnACall(e)) \/ ConnANoop \/ ConnAWrite \/ ConnReplace
    <3>1. UNCHANGED <<problem, queue, status>>
      BY <2>1 DEF ConnACall, ConnANoop, ConnAWrite, ConnReplace, transaction, events
    <3>2. QED
      BY <1>2, <1>4, <1>6, <3>1 DEF Flushed
  <2>2. CASE EventEnqueue
    <3>1. \A f \in Event : status'[f] # "PARTIAL"
      <4>1. \A f \in Event : status'[f] = "QUEUED" \/ status'[f] = status[f]
        BY <2>2 DEF EventEnqueue
      <4>2. QED
        BY <1>1, <4>1
    <3>2. PICK inserted, noMemory : EventEngineQueueAdd(inserted, ev[App], noMemory)
      BY <2>2 DEF EventEnqueue
    <3>3. CASE noMemory \/ problem # "none"
      BY <1>5, <3>2, <3>3, <1>2, <3>1 DEF EventEngineQueueAdd, Flushed
    <3>4. CASE ~noMemory /\ problem = "none"
      BY <1>1, <3>2, <3>4, <1>2, <3>1 DEF EventEngineQueueAdd, Flushed
    <3>5. QED
      BY <3>3, <3>4
  <2>3. CASE EventEnqueueFailure
    BY <1>2, <1>5, <1>6, <2>3 DEF EventEnqueueFailure, Flushed
  <2>4. CASE EventsSubmit
    <3>1. queue' = queue /\ status' = status /\ problem' = IF state = "IDLE" /\ problem = "none" THEN "FAILED" ELSE problem
      BY <2>4 DEF EventsSubmit, events
    <3>2. state = "IDLE" => queue = <<>>
      BY DEF QueueInvariant, NothingLeftBehind
    <3>3. QED
      BY <1>1, <1>2, <1>6, <3>1, <3>2 DEF Flushed
  <2>5. QED
    BY <1>8, <2>1, <2>2, <2>3, <2>4 DEF Consumer
<1>9. ASSUME NEW t \in Thread, ProcessEvent(t)
      PROVE  Flushed'
  <2>1. UNCHANGED <<problem, queue>>
    BY <1>9 DEF ProcessEvent, ProcessCancelled, ProcessDone, ProcessFails, ProcessBlocks, CheckProblem,
                SocketEventWait, transaction
  <2>2. \/ UNCHANGED status
        \/ \E s \in {"COMPLETE", "IN_PROGRESS"} : status' = [status EXCEPT ![ev[t]] = s]
        \/ \E why : status' = [status EXCEPT ![ev[t]] = StatusOf(ev[t], why)]
    <3>1. CASE ProcessCancelled(t) \/ ProcessFails(t)
      BY <3>1 DEF ProcessCancelled, ProcessFails, FailEvent
    <3>2. CASE ProcessDone(t) \/ ProcessBlocks(t)
      BY <3>2 DEF ProcessDone, ProcessBlocks, events
    <3>3. CASE CheckProblem(t)
      BY <3>3 DEF CheckProblem, FailEvent
    <3>4. CASE SocketEventWait(t)
      BY <3>4 DEF SocketEventWait, FailEvent, events
    <3>5. QED
      BY <1>9, <3>1, <3>2, <3>3, <3>4 DEF ProcessEvent
  <2>3. \A e \in Event : status'[e] # "PARTIAL"
    BY <1>1, <1>3, <2>2
  <2>4. QED
    BY <1>2, <1>4, <2>1, <2>3 DEF Flushed
<1>10. ASSUME NEW t \in Thread, QueueStep(t)
       PROVE  Flushed'
  <2>1. CASE LeaveQueue(t) \/ QueueCompleteNotify(t) \/ Relock(t) \/ AsyncEventCallback(t) \/ EnterQueue(t)
    <3>1. UNCHANGED <<problem, queue, status>>
      BY <2>1 DEF LeaveQueue, QueueCompleteNotify, Relock, AsyncEventCallback, EnterQueue, transaction, events
    <3>2. QED
      BY <1>2, <1>4, <1>6, <3>1 DEF Flushed
  <2>2. CASE StartEvent(t)
    <3>1. problem = "none" /\ UNCHANGED <<problem, status>>
      BY <2>2 DEF StartEvent, ConnEventNext, events
    <3>2. QED
      BY <1>2, <1>6, <3>1 DEF Flushed
  <2>3. CASE FinishEvent(t)
    <3>1. status' = status
      BY <2>3 DEF FinishEvent
    <3>2. pc[t] \in OwnerPC
      BY <2>3 DEF FinishEvent, OwnerPC
    <3>3. ev[t] \in Event /\ status[ev[t]] # "PARTIAL"
      BY <1>1, <3>2, OwnerFacts
    <3>4. (\E act, current, why, also : EventQueueAbort(act, current, why, also)) \/ UNCHANGED <<problem, queue>>
      BY <1>1, <2>3, <3>3 DEF FinishEvent
    <3>5. QED
      BY <1>2, <1>4, <1>5, <1>6, <3>1, <3>4 DEF Flushed
  <2>4. QED
    BY <1>10, <2>1, <2>2, <2>3 DEF QueueStep
<1>11. CASE Environment
  <2>1. CASE QueueCompleteCallback
    BY <1>2, <2>1 DEF QueueCompleteCallback, Flushed
  <2>2. CASE ConnKill \/ ConnectionsAbort
    <3>1. status' = status
      BY <2>2 DEF ConnKill, ConnectionsAbort, ConnAbort
    <3>2. (\E act, current, why, also : EventQueueAbort(act, current, why, also)) \/ UNCHANGED <<problem, queue>>
      BY <2>2 DEF ConnKill, ConnectionsAbort, ConnAbort
    <3>3. QED
      BY <1>2, <1>4, <1>5, <1>6, <3>1, <3>2 DEF Flushed
  <2>3. CASE \/ \E t \in Worker, c \in Class : HandleSocketEvent(t, c)
             \/ \E c \in Class : SocketReady(c) \/ SocketTimeout(c)
             \/ HandleShutdown
    <3>1. UNCHANGED <<problem, queue, status>>
      BY <2>3 DEF HandleSocketEvent, SocketReady, SocketTimeout, SocketEventComplete, HandleShutdown,
                  transaction, events
    <3>2. QED
      BY <1>2, <1>4, <1>6, <3>1 DEF Flushed
  <2>4. QED
    BY <1>11, <2>1, <2>2, <2>3 DEF Environment
<1>12. QED
  BY <1>7, <1>8, <1>9, <1>10, <1>11, NextCases

\* Where no read is queued with CONN_READ_PARTIAL_OK and the handle is not shut down,
\* a submitted transaction never stalls.
THEOREM NeverStalls ==
    ASSUME PartialOK = {}, "shutdown" \notin Calls
    PROVE  Spec => []NoStall
<1>1. Init => Flushed
  BY DEF Init, Flushed
<1>2. QueueInvariant /\ Flushed /\ [Next]_vars => Flushed'
  BY FlushedStep
<1>3. Flushed => ~LeftBehindProblem
  BY DEF Flushed, LeftBehindProblem
<1>4. QED
  BY <1>1, <1>2, <1>3, Invariance, StallsOnlyBehindAProblem, PTL DEF Spec

-----------------------------------------------------------------------------
(* What a kill takes out of the engine.  CancelEventsInProgress kills the  *)
(* socket events with the names of the slots it empties.  On a connection  *)
(* without SSL those are the ones that reads and writes wait on; a connect *)
(* and a handshake wait on socket events of other names.                   *)

StopKind == {"DISCONNECT", "SSL_DISCONNECT"}
PlainKind == {"READ", "WRITE", "FLUSH"} \cup StopKind
PlainLinks ==
    /\ ~sslConn /\ ~shuttingDown
    /\ \A c \in inEngine : seArg[c] # NoEvent
    /\ \A c \in Class : seArg[c] # NoEvent => EventClass(seArg[c]) = c \/ Kind[seArg[c]] \in StopKind

\* Only SocketEventWait and HandleSocketEvent change a link, and an abort only takes
\* socket events out of the engine.
LEMMA PlainLinksStep ==
    ASSUME \A e \in Event : Kind[e] \in PlainKind, "shutdown" \notin Calls,
           QueueInvariant, PlainLinks, [Next]_vars
    PROVE  PlainLinks'
<1>1. /\ ev \in [Thread -> Event \cup {NoEvent}] /\ seArg \in [Class -> Event \cup {NoEvent}]
      /\ pc \in [Thread -> PC] /\ inEngine \subseteq Class
      /\ ~sslConn /\ ~shuttingDown /\ NoEvent \notin Event
      /\ \A c \in inEngine : seArg[c] # NoEvent
      /\ \A c \in Class : seArg[c] # NoEvent => EventClass(seArg[c]) = c \/ Kind[seArg[c]] \in StopKind
  BY QueueAssumption DEF QueueInvariant, TypeOK, PlainLinks
<1>2. ASSUME NEW e \in Event, NEW ok, EndSocket(e, ok)
      PROVE  ~sslConn'
  <2>1. Kind[e] \notin {"SSL_CONNECT", "TLS_CONNECT"}
    BY DEF PlainKind, StopKind
  <2>2. QED
    BY <1>1, <1>2, <2>1 DEF EndSocket
<1>3. ASSUME ~sslConn', UNCHANGED <<seArg, shuttingDown>>, inEngine' \subseteq inEngine
      PROVE  PlainLinks'
  BY <1>1, <1>3 DEF PlainLinks
<1>4. ASSUME NEW act, NEW current, NEW why, NEW also, EventQueueAbort(act, current, why, also)
      PROVE  inEngine' \subseteq inEngine
  BY <1>4 DEF EventQueueAbort, CancelEventsInProgress
<1>5. CASE UNCHANGED vars
  BY <1>1, <1>3, <1>5 DEF vars, socketEvents, handle
<1>6. CASE Consumer
  <2>1. ~sslConn' /\ UNCHANGED <<seArg, shuttingDown>>
    <3>1. CASE EventEnqueue
      BY <1>1, <3>1 DEF EventEnqueue
    <3>2. CASE EventEnqueueFailure
      BY <1>1, <3>2 DEF EventEnqueueFailure, handle
    <3>3. CASE ~EventEnqueue /\ ~EventEnqueueFailure
      BY <1>1, <1>6, <3>3 DEF Consumer, ConnACall, ConnANoop, ConnAWrite, EventsSubmit, ConnReplace,
                              socketEvents, handle
    <3>4. QED
      BY <3>1, <3>2, <3>3
  <2>2. inEngine' \subseteq inEngine
    <3>1. CASE EventEnqueue
      <4>1. PICK inserted, noMemory : EventEngineQueueAdd(inserted, ev[App], noMemory)
        BY <3>1 DEF EventEnqueue
      <4>2. QED
        BY <1>4, <4>1 DEF EventEngineQueueAdd
    <3>2. CASE EventEnqueueFailure
      BY <1>4, <3>2 DEF EventEnqueueFailure
    <3>3. CASE ~EventEnqueue /\ ~EventEnqueueFailure
      BY <1>6, <3>3 DEF Consumer, ConnACall, ConnANoop, ConnAWrite, EventsSubmit, ConnReplace, socketEvents
    <3>4. QED
      BY <3>1, <3>2, <3>3
  <2>3. QED
    BY <1>3, <2>1, <2>2
<1>7. ASSUME NEW t \in Thread, ProcessEvent(t)
      PROVE  PlainLinks'
  <2>1. pc[t] \in OwnerPC
    BY <1>7 DEF ProcessEvent, ProcessCancelled, ProcessDone, ProcessFails, ProcessBlocks, CheckProblem,
                SocketEventWait, OwnerPC
  <2>2. ev[t] \in Event /\ Kind[ev[t]] \in PlainKind
    BY <2>1, OwnerFacts
  <2>3. ASSUME NEW why, FailEvent(t, why)
        PROVE  ~sslConn'
    BY <1>2, <2>2, <2>3 DEF FailEvent
  <2>4. CASE ProcessCancelled(t) \/ ProcessDone(t) \/ ProcessFails(t) \/ ProcessBlocks(t) \/ CheckProblem(t)
    <3>1. UNCHANGED <<seArg, inEngine, shuttingDown>>
      BY <2>4 DEF ProcessCancelled, ProcessDone, ProcessFails, ProcessBlocks, CheckProblem, socketEvents, handle
    <3>2. (\E why : FailEvent(t, why)) \/ EndSocket(ev[t], TRUE) \/ UNCHANGED sslConn
      BY <2>4 DEF ProcessCancelled, ProcessDone, ProcessFails, ProcessBlocks, CheckProblem
    <3>3. QED
      BY <1>1, <1>2, <1>3, <2>2, <2>3, <3>1, <3>2
  <2>5. CASE SocketEventWait(t)
    <3>1. PICK c \in BlockedOn(ev[t]) :
             \/ (\E why : FailEvent(t, why)) /\ UNCHANGED socketEvents
             \/ SeLinkCe(c, ev[t]) /\ inEngine' = inEngine \cup {c} /\ UNCHANGED sslConn
      BY <2>5 DEF SocketEventWait
    <3>2. shuttingDown' = shuttingDown
      BY <2>5 DEF SocketEventWait, handle
    <3>3. CASE (\E why : FailEvent(t, why)) /\ UNCHANGED socketEvents
      BY <1>3, <2>3, <3>2, <3>3 DEF socketEvents
    <3>4. CASE SeLinkCe(c, ev[t]) /\ inEngine' = inEngine \cup {c} /\ UNCHANGED sslConn
      <4>1. c \in Class /\ (EventClass(ev[t]) = c \/ Kind[ev[t]] \in StopKind)
        <5>1. CASE Kind[ev[t]] \in StopKind
          BY <5>1 DEF BlockedOn, StopKind, Class
        <5>2. CASE Kind[ev[t]] \notin StopKind
          <6>1. Kind[ev[t]] \in {"READ", "WRITE", "FLUSH"}
            BY <2>2, <5>2 DEF PlainKind
          <6>2. BlockedOn(ev[t]) = {EventClass(ev[t])}
            BY <1>1, <6>1 DEF BlockedOn
          <6>3. QED
            BY <6>2, EventClassType
        <5>3. QED
          BY <5>1, <5>2
      <4>2. seArg' = [seArg EXCEPT ![c] = ev[t]]
        BY <3>4 DEF SeLinkCe
      <4>3. \A d \in Class : seArg'[d] = IF d = c THEN ev[t] ELSE seArg[d]
        BY <1>1, <4>2
      <4>4. ~sslConn' /\ ~shuttingDown' /\ inEngine' = inEngine \cup {c}
        BY <1>1, <3>2, <3>4
      <4>5. \A d \in inEngine' : seArg'[d] # NoEvent
        BY <1>1, <2>2, <4>1, <4>3, <4>4
      <4>6. \A d \in Class : seArg'[d] # NoEvent => EventClass(seArg'[d]) = d \/ Kind[seArg'[d]] \in StopKind
        BY <1>1, <4>1, <4>3
      <4>7. QED
        BY <4>4, <4>5, <4>6 DEF PlainLinks
    <3>5. QED
      BY <3>1, <3>3, <3>4
  <2>6. QED
    BY <1>7, <2>4, <2>5 DEF ProcessEvent
<1>8. ASSUME NEW t \in Thread, QueueStep(t)
      PROVE  PlainLinks'
  <2>1. UNCHANGED <<sslConn, seArg, shuttingDown>>
    BY <1>8 DEF QueueStep, StartEvent, LeaveQueue, QueueCompleteNotify, Relock, FinishEvent,
                AsyncEventCallback, EnterQueue, socketEvents, handle
  <2>2. inEngine' \subseteq inEngine
    <3>1. CASE FinishEvent(t)
      BY <1>4, <3>1 DEF FinishEvent
    <3>2. CASE ~FinishEvent(t)
      BY <1>8, <3>2 DEF QueueStep, StartEvent, LeaveQueue, QueueCompleteNotify, Relock, AsyncEventCallback,
                        EnterQueue, socketEvents
    <3>3. QED
      BY <3>1, <3>2
  <2>3. QED
    BY <1>1, <1>3, <2>1, <2>2
<1>9. CASE Environment
  <2>1. CASE \E t \in Worker, c \in Class : HandleSocketEvent(t, c)
    <3>1. PICK t \in Worker, c \in Class : HandleSocketEvent(t, c)
      BY <2>1
    <3>2. /\ c \notin inEngine /\ seArg' = [seArg EXCEPT ![c] = NoEvent]
          /\ UNCHANGED <<inEngine, sslConn, shuttingDown>>
      BY <3>1 DEF HandleSocketEvent, SeUnlinkCe, handle
    <3>3. \A d \in Class : seArg'[d] = IF d = c THEN NoEvent ELSE seArg[d]
      BY <1>1, <3>2
    <3>4. QED
      BY <1>1, <3>2, <3>3 DEF PlainLinks
  <2>2. CASE (\E c \in Class : SocketReady(c) \/ SocketTimeout(c)) \/ QueueCompleteCallback
    <3>1. UNCHANGED <<seArg, sslConn, shuttingDown>> /\ inEngine' \subseteq inEngine
      BY <2>2 DEF SocketReady, SocketTimeout, SocketEventComplete, QueueCompleteCallback, socketEvents, handle
    <3>2. QED
      BY <1>1, <1>3, <3>1
  <2>3. CASE ConnKill \/ ConnectionsAbort
    <3>1. UNCHANGED <<seArg, sslConn, shuttingDown>>
      BY <2>3 DEF ConnKill, ConnectionsAbort, ConnAbort, handle
    <3>2. inEngine' \subseteq inEngine
      BY <1>4, <2>3 DEF ConnKill, ConnectionsAbort, ConnAbort
    <3>3. QED
      BY <1>1, <1>3, <3>1, <3>2
  <2>4. CASE HandleShutdown
    BY <2>4 DEF HandleShutdown
  <2>5. QED
    BY <1>9, <2>1, <2>2, <2>3, <2>4 DEF Environment
<1>10. QED
  BY <1>5, <1>6, <1>7, <1>8, <1>9, NextCases

\* Only a kill records that the transaction was killed, unless the handle shuts down.
LEMMA KilledByKill ==
    ASSUME "shutdown" \notin Calls, QueueInvariant, ~shuttingDown, [Next]_vars,
           problem = "none", problem' = "KILLED"
    PROVE  CancelEventsInProgress(active, NoEvent) /\ UNCHANGED seArg
<1>1. ASSUME NEW act, NEW current, NEW why, NEW also, EventQueueAbort(act, current, why, also)
      PROVE  problem' = why
  BY <1>1 DEF EventQueueAbort
<1>2. CASE UNCHANGED vars
  BY <1>2 DEF vars, transaction
<1>3. CASE Consumer
  <2>1. CASE EventEnqueue
    <3>1. PICK inserted, noMemory : EventEngineQueueAdd(inserted, ev[App], noMemory)
      BY <2>1 DEF EventEnqueue
    <3>2. CASE noMemory
      BY <1>1, <3>1, <3>2 DEF EventEngineQueueAdd
    <3>3. CASE ~noMemory
      BY <3>1, <3>3 DEF EventEngineQueueAdd
    <3>4. QED
      BY <3>2, <3>3
  <2>2. CASE EventEnqueueFailure
    BY <1>1, <2>2 DEF EventEnqueueFailure
  <2>3. CASE ~EventEnqueue /\ ~EventEnqueueFailure
    BY <1>3, <2>3 DEF Consumer, ConnACall, ConnANoop, ConnAWrite, EventsSubmit, ConnReplace, transaction
  <2>4. QED
    BY <2>1, <2>2, <2>3
<1>4. ASSUME NEW t \in Thread, ProcessEvent(t)
      PROVE  FALSE
  BY <1>4 DEF ProcessEvent, ProcessCancelled, ProcessDone, ProcessFails, ProcessBlocks, CheckProblem,
              SocketEventWait, transaction
<1>5. ASSUME NEW t \in Thread, QueueStep(t)
      PROVE  FALSE
  <2>1. CASE FinishEvent(t)
    <3>1. pc[t] \in OwnerPC
      BY <2>1 DEF FinishEvent, OwnerPC
    <3>2. status[ev[t]] # "KILLED"
      BY <3>1, OwnerFacts DEF QueueInvariant, TypeOK, Status
    <3>3. CASE status[ev[t]] \in AbortStatus
      BY <1>1, <2>1, <3>2, <3>3 DEF FinishEvent
    <3>4. CASE status[ev[t]] \notin AbortStatus
      BY <2>1, <3>4 DEF FinishEvent
    <3>5. QED
      BY <3>3, <3>4
  <2>2. CASE ~FinishEvent(t)
    BY <1>5, <2>2 DEF QueueStep, StartEvent, LeaveQueue, QueueCompleteNotify, Relock, AsyncEventCallback,
                      EnterQueue, transaction
  <2>3. QED
    BY <2>1, <2>2
<1>6. CASE Environment
  <2>1. CASE ConnKill \/ ConnectionsAbort
    <3>1. seArg' = seArg
      BY <2>1 DEF ConnKill, ConnectionsAbort, ConnAbort
    <3>2. EventQueueAbort(active, NoEvent, "KILLED", {})
      BY <2>1 DEF ConnKill, ConnectionsAbort, ConnAbort
    <3>3. QED
      BY <3>1, <3>2 DEF EventQueueAbort
  <2>2. CASE ~ConnKill /\ ~ConnectionsAbort
    BY <1>6, <2>2 DEF Environment, HandleSocketEvent, SocketReady, SocketTimeout, SocketEventComplete,
                      QueueCompleteCallback, HandleShutdown, transaction
  <2>3. QED
    BY <2>1, <2>2
<1>7. QED
  BY <1>2, <1>3, <1>4, <1>5, <1>6, NextCases

\* A kill that finds its events waiting on the socket events of their own slots takes
\* every one of them out of the engine.
LEMMA KillStops ==
    ASSUME \A e \in Event : Kind[e] \in PlainKind, "shutdown" \notin Calls,
           QueueInvariant, PlainLinks, [Next]_vars,
           problem = "none", problem' = "KILLED", socket = "open", NEW c \in Class
    PROVE  Stopped(c)'
<1> SUFFICES ASSUME c \in inEngine', Kind[seArg'[c]] \notin StopKind
             PROVE  FALSE
  BY DEF Stopped, StopKind
<1>1. /\ seArg' = seArg
      /\ inEngine' = inEngine \ {EventClass(e) : e \in CancelledEvents(active, NoEvent)}
  BY KilledByKill DEF CancelEventsInProgress, PlainLinks
<1>2. c \in inEngine /\ \A e \in CancelledEvents(active, NoEvent) : EventClass(e) # c
  BY <1>1
<1>3. seArg[c] # NoEvent /\ EventClass(seArg[c]) = c
  BY <1>1, <1>2 DEF PlainLinks
<1>4. seArg[c] \in ActiveEvents /\ seArg[c] \in Event
  BY <1>3, ActiveFacts DEF QueueInvariant, OneOwner
<1>5. active[c] = seArg[c]
  BY <1>3, <1>4, ActiveFacts DEF QueueInvariant
<1>6. c # "connect"
  <2>1. Kind[seArg[c]] \in {"READ", "WRITE", "FLUSH"}
    BY <1>1, <1>4 DEF PlainKind
  <2>2. QED
    BY <1>3, <2>1 DEF EventClass, ConnectKind, SendKind
<1>7. active["connect"] = NoEvent
  BY <1>3, <1>5, <1>6 DEF QueueInvariant, SlotExclusion
<1>8. seArg[c] \in CancelledEvents(active, NoEvent)
  BY <1>3, <1>5, <1>6, <1>7 DEF CancelledEvents, Class
<1>9. QED
  BY <1>2, <1>3, <1>8

\* On a connection that neither connects nor speaks SSL, and while its handle is not
\* shut down, killing it takes what it waits for out of the epoll engine.
THEOREM KillStopsWaiting ==
    ASSUME \A e \in Event : Kind[e] \in PlainKind, "shutdown" \notin Calls
    PROVE  Spec => KillEmptiesEngine
<1>1. Init => PlainLinks
  BY DEF Init, PlainLinks
<1>2. QueueInvariant /\ PlainLinks /\ [Next]_vars => PlainLinks'
  BY PlainLinksStep
<1>3. QueueInvariant /\ PlainLinks /\ [Next]_vars =>
        [problem = "none" /\ problem' = "KILLED" /\ socket = "open" => \A c \in Class : Stopped(c)']_vars
  BY KillStops
<1>4. QED
  BY <1>1, <1>2, <1>3, Invariance, PTL DEF Spec, KillEmptiesEngine

-----------------------------------------------------------------------------
(* Disconnects and SSL sessions.  EventEnqueue decides whether a disconnect *)
(* needs an ssl disconnect before it from sslEnabled, long before either   *)
(* runs.  The invariant follows the session along the queue: whatever may  *)
(* leave one behind, the socket as it is now, the event in progress or a   *)
(* queued ssl connect, is followed by an event that ends it before any     *)
(* disconnect comes, and by the end of the queue unless sslEnabled is set. *)

Gone == ~(sslConn /\ socket = "open")

\* There is no session when the event in progress is over.
GoneAfter ==
    /\ active["connect"] # NoEvent => Kind[active["connect"]] # "SSL_CONNECT"
    /\ Gone \/ (active["connect"] # NoEvent /\ Kind[active["connect"]] \in StopKind)

\* The sessions that there may be before and among the events S of a queue end in S.
Covered(q, gone, S) ==
    /\ ~gone => \E y \in S : Kind[y] \in StopKind
    /\ \A z \in S : Kind[z] = "SSL_CONNECT" => \E y \in S : Before(q, z, y) /\ Kind[y] \in StopKind
Ahead(q, x) == {y \in Event : Before(q, y, x)}

\* A connect is the only one, on a new socket, and nothing had a session before it.
Connecting(e) ==
    /\ Kind[e] = "CONNECT"
    /\ \/ e \in ElementsOf(queue) \/ e \in ActiveEvents
       \/ pc[App] = "enqueue" /\ ev[App] = e
Connects ==
    /\ socket = "fresh" => state = "IDLE" /\ pc[App] # "enqueue" /\ ~sslConn
    /\ \A e \in Event : Connecting(e) =>
          /\ ~sslConn
          /\ \A f \in Event : Connecting(f) => f = e
          /\ e \notin ActiveEvents => socket = "closed"

Sessions ==
    /\ active["connect"] # NoEvent /\ Kind[active["connect"]] = "DISCONNECT" => Gone
    /\ \A t \in Thread : pc[t] = "finish" /\ Kind[ev[t]] = "SSL_DISCONNECT" => Gone
    /\ problem = "none" =>
          /\ \A x \in ElementsOf(queue) : Kind[x] = "DISCONNECT" => Covered(queue, GoneAfter, Ahead(queue, x))
          /\ state = "CLIENT" /\ ~sslEnabled => Covered(queue, GoneAfter, ElementsOf(queue))

\* A step that starts nothing, and after which there is no session where there was none.
LEMMA SessionsKept ==
    ASSUME Sessions, Gone => Gone', GoneAfter => GoneAfter',
           active'["connect"] = active["connect"] \/ active'["connect"] = NoEvent,
           \A u \in Thread : pc'[u] = "finish" => pc[u] = "finish" /\ ev'[u] = ev[u],
           (queue' = queue /\ (problem' = "none" => problem = "none")) \/ queue' = <<>>,
           problem' = "none" /\ state' = "CLIENT" /\ ~sslEnabled' =>
               queue' = queue /\ Covered(queue, GoneAfter, ElementsOf(queue))
    PROVE  Sessions'
<1>1. \A S : Covered(queue, GoneAfter, S) => Covered(queue, GoneAfter', S)
  BY DEF Covered
<1>2. ASSUME problem' = "none", NEW x \in ElementsOf(queue'), Kind[x] = "DISCONNECT"
      PROVE  Covered(queue', GoneAfter', Ahead(queue', x))
  <2>1. CASE queue' = queue /\ problem = "none"
    BY <1>1, <1>2, <2>1 DEF Sessions
  <2>2. CASE queue' = <<>>
    BY <1>2, <2>2 DEF ElementsOf
  <2>3. QED
    BY <1>2, <2>1, <2>2
<1>3. ASSUME problem' = "none", state' = "CLIENT", ~sslEnabled'
      PROVE  Covered(queue', GoneAfter', ElementsOf(queue'))
  BY <1>1, <1>3
<1>4. active'["connect"] # NoEvent /\ Kind[active'["connect"]] = "DISCONNECT" => Gone'
  BY DEF Sessions
<1>5. \A u \in Thread : pc'[u] = "finish" /\ Kind[ev'[u]] = "SSL_DISCONNECT" => Gone'
  BY DEF Sessions
<1>6. QED
  BY <1>2, <1>3, <1>4, <1>5 DEF Sessions

\* A step that leaves the slots and the session alone, and may close the socket.
LEMMA SessionsStill ==
    ASSUME Sessions, UNCHANGED <<active, sslConn>>, socket' = socket \/ socket' = "closed",
           \A u \in Thread : pc'[u] = "finish" => pc[u] = "finish" /\ ev'[u] = ev[u],
           (queue' = queue /\ (problem' = "none" => problem = "none")) \/ queue' = <<>>,
           problem' = "none" /\ state' = "CLIENT" /\ ~sslEnabled' =>
               queue' = queue /\ Covered(queue, GoneAfter, ElementsOf(queue))
    PROVE  Sessions'
<1>1. Gone => Gone'
  BY DEF Gone
<1>2. GoneAfter => GoneAfter'
  BY <1>1 DEF GoneAfter
<1>3. QED
  BY <1>1, <1>2, SessionsKept

\* A step that starts no connect and leaves the session alone, and may close the socket.
LEMMA ConnectsStill ==
    ASSUME QueueInvariant, Connects, UNCHANGED sslConn, socket' = socket \/ socket' = "closed",
           socket = "fresh" => state' = "IDLE" /\ pc'[App] # "enqueue",
           \A x \in Event : Connecting(x)' => Connecting(x) /\ (x \in ActiveEvents => x \in ActiveEvents')
    PROVE  Connects'
  BY DEF Connects

\* What a thread that works on an event does to the socket and the session.
LEMMA ProcessOnSocket ==
    ASSUME \A x \in Event : Kind[x] # "TLS_CONNECT", QueueInvariant, NEW t \in Thread, ProcessEvent(t)
    PROVE  LET k == Kind[ev[t]] IN
           /\ ev[t] \in Event /\ ev[t] \in ActiveEvents
           /\ UNCHANGED <<active, queue, problem, state, sslEnabled>>
           /\ k # "SSL_CONNECT" /\ k # "SSL_DISCONNECT" => UNCHANGED sslConn
           /\ k # "CONNECT" /\ k # "DISCONNECT" => UNCHANGED socket
           /\ k = "CONNECT" => socket' \in {socket, "open", "closed"}
           /\ k = "DISCONNECT" => socket' \in {socket, "closed"}
           /\ k = "SSL_CONNECT" => UNCHANGED sslConn \/ ~sslConn' \/ socket = "open"
           /\ k = "SSL_DISCONNECT" => UNCHANGED sslConn \/ ~sslConn'
           /\ k = "SSL_DISCONNECT" /\ pc'[t] = "finish" => ~sslConn'
           /\ \A u \in Thread : u # t => pc'[u] = pc[u] /\ ev'[u] = ev[u]
           /\ pc[t] # "enqueue" /\ pc'[t] # "enqueue"
           /\ pc'[t] = "finish" => ev'[t] = ev[t]
           /\ pc[t] \in OwnerPC
<1> DEFINE e == ev[t]
<1>1. /\ pc \in [Thread -> PC] /\ ev \in [Thread -> Event \cup {NoEvent}]
  BY DEF QueueInvariant, TypeOK
<1>2. pc[t] \in {"process", "check", "wait"} /\ UNCHANGED <<active, queue, problem, state, sslEnabled>>
  BY DEF ProcessEvent, ProcessCancelled, ProcessDone, ProcessFails, ProcessBlocks, CheckProblem,
         SocketEventWait, transaction
<1>3. e \in Event /\ e \in ActiveEvents /\ Kind[e] # "TLS_CONNECT"
  <2>1. pc[t] \in OwnerPC
    BY <1>2 DEF OwnerPC
  <2>2. QED
    BY <2>1, OwnerFacts DEF QueueInvariant, OneOwner
<1>4. \E l \in {"finish", "check", "wait", "handedOff"} :
         /\ pc' = [pc EXCEPT ![t] = l]
         /\ ev' = ev \/ ev' = [ev EXCEPT ![t] = IF l = "handedOff" THEN NoEvent ELSE ev[t]]
         /\ \/ EndSocket(e, FALSE) /\ l = "finish"
            \/ EndSocket(e, TRUE) /\ IOSucceeds(e) /\ l = "finish"
            \/ socket' = (IF Kind[e] = "CONNECT" THEN "open" ELSE socket) /\ UNCHANGED sslConn /\ l = "check"
            \/ UNCHANGED <<socket, sslConn>> /\ l \in {"wait", "handedOff"}
  <2>1. CASE ProcessCancelled(t) \/ ProcessFails(t) \/ ProcessDone(t)
    BY <2>1 DEF ProcessCancelled, ProcessFails, ProcessDone, FailEvent, Goto
  <2>2. CASE ProcessBlocks(t)
    BY <2>2 DEF ProcessBlocks, Goto
  <2>3. CASE CheckProblem(t)
    BY <2>3 DEF CheckProblem, FailEvent, Goto
  <2>4. CASE SocketEventWait(t)
    <3>1. \/ FailEvent(t, "EIO") \/ FailEvent(t, "EBUSY")
          \/ Goto(t, "handedOff") /\ UNCHANGED <<socket, sslConn>>
      BY <2>4 DEF SocketEventWait
    <3>2. ev' = [ev EXCEPT ![t] = IF pc'[t] = "handedOff" THEN NoEvent ELSE ev[t]]
      BY <2>4 DEF SocketEventWait
    <3>3. \A l : Goto(t, l) => pc'[t] = l
      BY <1>1 DEF Goto
    <3>4. QED
      BY <3>1, <3>2, <3>3 DEF FailEvent, Goto
  <2>5. QED
    BY <2>1, <2>2, <2>3, <2>4 DEF ProcessEvent
<1>5. PICK l \in {"finish", "check", "wait", "handedOff"} :
         /\ pc' = [pc EXCEPT ![t] = l]
         /\ ev' = ev \/ ev' = [ev EXCEPT ![t] = IF l = "handedOff" THEN NoEvent ELSE ev[t]]
         /\ \/ EndSocket(e, FALSE) /\ l = "finish"
            \/ EndSocket(e, TRUE) /\ IOSucceeds(e) /\ l = "finish"
            \/ socket' = (IF Kind[e] = "CONNECT" THEN "open" ELSE socket) /\ UNCHANGED sslConn /\ l = "check"
            \/ UNCHANGED <<socket, sslConn>> /\ l \in {"wait", "handedOff"}
  BY <1>4
<1>6. /\ \A u \in Thread : u # t => pc'[u] = pc[u] /\ ev'[u] = ev[u]
      /\ pc'[t] = l /\ (pc'[t] = "finish" => ev'[t] = ev[t])
  BY <1>1, <1>5
<1>7. pc[t] \in OwnerPC /\ pc[t] # "enqueue" /\ pc'[t] # "enqueue"
  BY <1>2, <1>5, <1>6 DEF OwnerPC
<1> HIDE DEF e
<1>8. Kind[e] # "SSL_CONNECT" /\ Kind[e] # "SSL_DISCONNECT" => UNCHANGED sslConn
  BY <1>3, <1>5 DEF EndSocket
<1>9. Kind[e] # "CONNECT" /\ Kind[e] # "DISCONNECT" => UNCHANGED socket
  BY <1>5 DEF EndSocket
<1>10. /\ Kind[e] = "CONNECT" => socket' \in {socket, "open", "closed"}
       /\ Kind[e] = "DISCONNECT" => socket' \in {socket, "closed"}
  BY <1>5 DEF EndSocket
<1>11. Kind[e] = "SSL_CONNECT" => UNCHANGED sslConn \/ ~sslConn' \/ socket = "open"
  BY <1>5 DEF EndSocket, IOSucceeds
<1>12. Kind[e] = "SSL_DISCONNECT" => (UNCHANGED sslConn \/ ~sslConn') /\ (l = "finish" => ~sslConn')
  BY <1>5 DEF EndSocket
<1>13. QED
  BY <1>2, <1>3, <1>6, <1>7, <1>8, <1>9, <1>10, <1>11, <1>12 DEF e

\* Work on an event keeps what is known of sessions and connects.
LEMMA ProcessSessions ==
    ASSUME \A x \in Event : Kind[x] # "TLS_CONNECT", QueueInvariant, Connects, Sessions,
           NEW t \in Thread, ProcessEvent(t)
    PROVE  Connects' /\ Sessions'
<1> DEFINE e == ev[t]
           k == Kind[ev[t]]
<1>1. /\ e \in Event /\ e \in ActiveEvents /\ pc[t] \in OwnerPC
      /\ UNCHANGED <<active, queue, problem, state, sslEnabled>>
  BY ProcessOnSocket
<1>2. /\ k # "SSL_CONNECT" /\ k # "SSL_DISCONNECT" => UNCHANGED sslConn
      /\ k # "CONNECT" /\ k # "DISCONNECT" => UNCHANGED socket
      /\ k = "CONNECT" => socket' \in {socket, "open", "closed"}
      /\ k = "DISCONNECT" => socket' \in {socket, "closed"}
      /\ k = "SSL_CONNECT" => UNCHANGED sslConn \/ ~sslConn' \/ socket = "open"
      /\ k = "SSL_DISCONNECT" => UNCHANGED sslConn \/ ~sslConn'
  BY ProcessOnSocket
<1>3. /\ k = "SSL_DISCONNECT" /\ pc'[t] = "finish" => ~sslConn'
      /\ \A u \in Thread : u # t => pc'[u] = pc[u] /\ ev'[u] = ev[u]
      /\ pc[t] # "enqueue" /\ pc'[t] # "enqueue"
      /\ pc'[t] = "finish" => ev'[t] = ev[t]
  BY ProcessOnSocket
<1>4. ActiveEvents' = ActiveEvents /\ App \in Thread /\ NoEvent \notin Event
  BY <1>1, QueueAssumption DEF ActiveEvents, Thread
<1>5. /\ Kind[e] # "TLS_CONNECT"
      /\ Kind[e] \in ConnectKind => active["connect"] = e
      /\ active["connect"] # NoEvent => active["connect"] = e
  <2>1. active[EventClass(e)] = e /\ e # NoEvent
    BY <1>1, ActiveFacts DEF QueueInvariant
  <2>2. Kind[e] \in ConnectKind => EventClass(e) = "connect"
    BY DEF EventClass
  <2>3. active["connect"] # NoEvent => EventClass(e) = "connect"
    BY <2>1, EventClassType DEF QueueInvariant, SlotExclusion
  <2>4. QED
    BY <1>1, <2>1, <2>2, <2>3
<1>6. \A x \in Event : Connecting(x)' <=> Connecting(x)
  BY <1>1, <1>3, <1>4 DEF Connecting
<1>7. socket # "fresh" /\ socket' # "fresh"
  <2>1. state \notin {"IDLE"}
    BY <1>1 DEF QueueInvariant, NothingLeftBehind, OwnerPC
  <2>2. socket # "fresh"
    BY <2>1 DEF Connects
  <2>3. QED
    BY <1>2, <2>2
<1>8. Connects'
  <2> SUFFICES ASSUME NEW x \in Event, Connecting(x)
               PROVE  /\ ~sslConn'
                      /\ x \notin ActiveEvents => socket' = "closed"
    BY <1>4, <1>6, <1>7 DEF Connects
  <2>1. /\ Kind[x] = "CONNECT" /\ ~sslConn /\ (x \notin ActiveEvents => socket = "closed")
        /\ \A f \in Event : Connecting(f) => f = x
    BY DEF Connects, Connecting
  <2>2. k = "CONNECT" => e = x
    BY <1>1, <2>1 DEF Connecting
  <2>3. x \in ActiveEvents => e = x
    <3>1. ASSUME x \in ActiveEvents
          PROVE  active["connect"] = x /\ x # NoEvent
      BY <2>1, <3>1, ActiveFacts DEF QueueInvariant, EventClass, ConnectKind
    <3>2. QED
      BY <1>5, <3>1
  <2>4. ~sslConn'
    <3>1. CASE x \in ActiveEvents
      BY <1>2, <2>1, <2>3, <3>1
    <3>2. CASE x \notin ActiveEvents
      BY <1>2, <2>1, <3>2
    <3>3. QED
      BY <3>1, <3>2
  <2>5. x \notin ActiveEvents => socket' = "closed"
    BY <1>1, <1>2, <2>1, <2>2
  <2>6. QED
    BY <2>4, <2>5
<1>9. \A u \in Thread : pc'[u] = "finish" /\ Kind[ev'[u]] = "SSL_DISCONNECT" => Gone'
  <2> SUFFICES ASSUME NEW u \in Thread, pc'[u] = "finish", Kind[ev'[u]] = "SSL_DISCONNECT"
               PROVE  Gone'
    OBVIOUS
  <2>1. CASE u = t
    BY <1>3, <2>1 DEF Gone
  <2>2. CASE u # t
    <3>1. pc[u] = "finish" /\ ev'[u] = ev[u]
      BY <1>3, <2>2
    <3>2. Owns(u, ev[u]) /\ Owns(t, e)
      BY <1>1, <3>1 DEF Owns, OwnerPC
    <3>3. ev[u] \in ActiveEvents
      BY <3>2 DEF QueueInvariant, OneOwner, Owns
    <3>4. active["connect"] = ev[u] /\ ev[u] # NoEvent
      BY <3>1, <3>3, ActiveFacts DEF QueueInvariant, EventClass, ConnectKind
    <3>5. ev[u] = e
      BY <1>5, <3>4
    <3>6. QED
      BY <2>2, <3>2, <3>3, <3>5 DEF QueueInvariant, OneOwner
  <2>3. QED
    BY <2>1, <2>2
<1>10. active'["connect"] # NoEvent /\ Kind[active'["connect"]] = "DISCONNECT" => Gone'
  BY <1>1, <1>2, <1>5 DEF Sessions, Gone
<1>11. GoneAfter => GoneAfter'
  <2>1. CASE active["connect"] = NoEvent
    <3>1. k \notin ConnectKind
      BY <1>1, <1>4, <1>5, <2>1
    <3>2. UNCHANGED <<socket, sslConn>>
      BY <1>2, <3>1 DEF ConnectKind
    <3>3. QED
      BY <1>1, <3>2 DEF GoneAfter, Gone
  <2>2. CASE active["connect"] = e /\ Kind[e] = "CONNECT"
    <3>1. ~sslConn /\ ~sslConn'
      BY <1>1, <1>2, <2>2 DEF Connects, Connecting
    <3>2. QED
      BY <1>1, <2>2, <3>1 DEF GoneAfter, Gone
  <2>3. CASE active["connect"] = e /\ Kind[e] \in StopKind
    BY <1>1, <1>4, <2>3 DEF GoneAfter, StopKind
  <2>4. CASE active["connect"] = e /\ Kind[e] = "SSL_CONNECT"
    BY <1>1, <1>4, <2>4 DEF GoneAfter
  <2>5. active["connect"] = e => Kind[e] \in {"CONNECT", "SSL_CONNECT"} \cup StopKind
    <3>1. active["connect"] = e => EventClass(e) = "connect"
      BY <1>1, <1>4 DEF QueueInvariant, SlotExclusion, Class
    <3>2. QED
      BY <1>1, <1>5, <3>1, QueueAssumption DEF EventClass, ConnectKind, EventKind, StopKind
  <2>6. QED
    BY <1>5, <2>1, <2>2, <2>3, <2>4, <2>5
<1>12. \A S : Covered(queue, GoneAfter, S) => Covered(queue, GoneAfter', S)
  BY <1>11 DEF Covered
<1>13. Sessions'
  BY <1>1, <1>9, <1>10, <1>12 DEF Sessions
<1>14. QED
  BY <1>8, <1>13

\* Events that stay keep their order.
LEMMA BeforeKept ==
    ASSUME NEW q \in Seq(Event), NEW i \in 1 .. Len(q), NEW x, NEW y, Before(q, x, y), x # q[i], y # q[i]
    PROVE  Before(Without(q, i), x, y)
<1> DEFINE w == Without(q, i)
<1>1. Len(q) \in Nat /\ i \in Nat /\ DOMAIN q = 1 .. Len(q) /\ i <= Len(q)
  OBVIOUS
<1>2. /\ w \in Seq(Event) /\ Len(w) = Len(q) - 1
      /\ \A n \in 1 .. Len(w) : w[n] = IF n < i THEN q[n] ELSE q[n + 1]
  BY WithoutPositions
<1>3. DOMAIN w = 1 .. (Len(q) - 1) /\ \A n \in 1 .. (Len(q) - 1) : w[n] = IF n < i THEN q[n] ELSE q[n + 1]
  BY <1>2
<1>4. PICK m, n \in DOMAIN q : m < n /\ q[m] = x /\ q[n] = y
  BY DEF Before
<1> HIDE DEF w
<1>5. m \in Nat /\ n \in Nat /\ m # i /\ n # i /\ 1 <= m /\ n <= Len(q)
  BY <1>1, <1>4
<1> DEFINE k == IF m < i THEN m ELSE m - 1
           l == IF n < i THEN n ELSE n - 1
<1>6. k \in 1 .. (Len(q) - 1) /\ l \in 1 .. (Len(q) - 1) /\ k < l
  BY <1>1, <1>4, <1>5
<1>7. w[k] = x
  <2>1. CASE m < i
    BY <1>3, <1>4, <1>6, <2>1
  <2>2. CASE ~(m < i)
    <3>1. k = m - 1 /\ ~(k < i) /\ k + 1 = m
      BY <1>1, <1>5, <2>2
    <3>2. QED
      BY <1>3, <1>4, <1>6, <3>1
  <2>3. QED
    BY <2>1, <2>2
<1>8. w[l] = y
  <2>1. CASE n < i
    BY <1>3, <1>4, <1>6, <2>1
  <2>2. CASE ~(n < i)
    <3>1. l = n - 1 /\ ~(l < i) /\ l + 1 = n
      BY <1>1, <1>5, <2>2
    <3>2. QED
      BY <1>3, <1>4, <1>6, <3>1
  <2>3. QED
    BY <2>1, <2>2
<1>9. QED
  BY <1>3, <1>6, <1>7, <1>8 DEF Before, w

\* Starting an event keeps what is known of sessions and connects.
LEMMA StartSessions ==
    ASSUME QueueInvariant, Connects, Sessions, NEW t \in Thread, StartEvent(t)
    PROVE  Connects' /\ Sessions'
<1>1. /\ pc \in [Thread -> PC] /\ ev \in [Thread -> Event \cup {NoEvent}] /\ queue \in Seq(Event)
      /\ active \in [Class -> Event \cup {NoEvent}] /\ NoEvent \notin Event /\ App \in Thread
      /\ Injective(queue)
  BY QueueAssumption DEF QueueInvariant, TypeOK, Thread, EventPlaces, Injective
<1>2. PICK i \in 1 .. Len(queue) :
        /\ ConnEventNext(i)
        /\ queue' = Without(queue, i)
        /\ active' = [active EXCEPT ![EventClass(queue[i])] = queue[i]]
        /\ ev' = [ev EXCEPT ![t] = queue[i]]
  BY DEF StartEvent, ConnEventInProgressSet
<1>3. /\ pc[t] = "loop" /\ pc' = [pc EXCEPT ![t] = "process"]
      /\ UNCHANGED <<state, problem, sslEnabled, socket, sslConn>>
  BY DEF StartEvent, Goto
<1> DEFINE e == queue[i]
           q == queue'
<1>4. /\ e \in Event /\ e \in ElementsOf(queue) /\ problem = "none"
      /\ ElementsOf(q) = ElementsOf(queue) \ {e}
  <2>1. /\ ElementsOf(Without(queue, i)) \subseteq ElementsOf(queue)
        /\ ElementsOf(queue) \subseteq ElementsOf(Without(queue, i)) \cup {e}
        /\ e \in ElementsOf(queue)
        /\ e \notin ElementsOf(Without(queue, i))
    BY <1>1, WithoutFacts
  <2>2. e \in Event /\ problem = "none"
    BY <1>1, <1>2 DEF ConnEventNext
  <2>3. QED
    BY <1>2, <2>1, <2>2
<1>5. \A x, y : Before(q, x, y) => Before(queue, x, y)
  BY <1>1, <1>2, BeforeWithout
<1>6. \A x, y : Before(queue, x, y) /\ x # e /\ y # e => Before(q, x, y)
  BY <1>1, <1>2, BeforeKept
<1>7. /\ active["connect"] = NoEvent
      /\ EventClass(e) = "connect" => active'["connect"] = e
      /\ EventClass(e) # "connect" => active'["connect"] = NoEvent
  BY <1>1, <1>2, NextIsFree, EventClassType DEF Class
<1>8. ASSUME Kind[e] \in ConnectKind
      PROVE  /\ EventClass(e) = "connect"
             /\ \A y : ~Before(queue, y, e)
             /\ \A x \in ElementsOf(q) : Before(queue, e, x)
  <2>1. EventClass(e) = "connect"
    BY <1>8 DEF EventClass
  <2>2. i = 1
    <3>1. ASSUME i # 1
          PROVE  FALSE
      <4>1. 1 \in 1 .. Len(queue) /\ 1 < i
        BY <1>1, <3>1
      <4>2. ~Conflict(queue[1], queue[i])
        BY <1>2, <4>1, NextPassesNone
      <4>3. QED
        BY <2>1, <4>2 DEF Conflict
    <3>2. QED
      BY <3>1
  <2>3. DOMAIN queue = 1 .. Len(queue) /\ Len(queue) \in Nat
    BY <1>1
  <2>4. \A y : ~Before(queue, y, e)
    <3> SUFFICES ASSUME NEW m \in DOMAIN queue, NEW n \in DOMAIN queue, m < n, queue[n] = e
                 PROVE  FALSE
      BY DEF Before
    <3>1. n = 1
      BY <1>1, <2>2, <2>3 DEF Injective
    <3>2. QED
      BY <2>3, <3>1
  <2>5. \A x \in ElementsOf(q) : Before(queue, e, x)
    <3> SUFFICES ASSUME NEW x \in ElementsOf(queue), x # e
                 PROVE  Before(queue, e, x)
      BY <1>4
    <3>1. PICK n \in DOMAIN queue : queue[n] = x
      BY DEF ElementsOf
    <3>2. n # 1 /\ 1 \in DOMAIN queue /\ 1 < n
      BY <2>2, <2>3, <3>1
    <3>3. QED
      BY <2>2, <3>1, <3>2 DEF Before
  <2>6. QED
    BY <2>1, <2>4, <2>5
<1>9. Gone' <=> Gone
  BY <1>3 DEF Gone
<1>10. GoneAfter <=> Gone
  BY <1>7 DEF GoneAfter
<1> HIDE DEF e, q
<1>12. ASSUME NEW S, Covered(queue, GoneAfter, S), Kind[e] = "SSL_CONNECT" => e \in S
       PROVE  Covered(q, GoneAfter', S \ {e})
  <2>1. CASE Kind[e] \in StopKind
    <3>1. Kind[e] \in ConnectKind
      BY <2>1 DEF StopKind, ConnectKind
    <3>2. GoneAfter'
      BY <1>1, <1>4, <1>7, <1>8, <2>1, <3>1 DEF GoneAfter, StopKind
    <3>3. ASSUME NEW z \in S \ {e}, Kind[z] = "SSL_CONNECT"
          PROVE  \E y \in S \ {e} : Before(q, z, y) /\ Kind[y] \in StopKind
      <4>1. PICK y \in S : Before(queue, z, y) /\ Kind[y] \in StopKind
        BY <1>12, <3>3 DEF Covered
      <4>2. y # e
        BY <1>8, <3>1, <4>1
      <4>3. QED
        BY <1>6, <3>3, <4>1, <4>2
    <3>4. QED
      BY <3>2, <3>3 DEF Covered
  <2>2. CASE Kind[e] \notin StopKind
    <3>1. ASSUME NEW z \in S \ {e}, Kind[z] = "SSL_CONNECT"
          PROVE  \E y \in S \ {e} : Before(q, z, y) /\ Kind[y] \in StopKind
      <4>1. PICK y \in S : Before(queue, z, y) /\ Kind[y] \in StopKind
        BY <1>12, <3>1 DEF Covered
      <4>2. y # e
        BY <2>2, <4>1
      <4>3. QED
        BY <1>6, <3>1, <4>1, <4>2
    <3>2. ~GoneAfter' => \E y \in S \ {e} : Kind[y] \in StopKind
      <4>1. CASE Kind[e] = "SSL_CONNECT"
        <5>1. PICK y \in S : Before(queue, e, y) /\ Kind[y] \in StopKind
          BY <1>12, <4>1 DEF Covered
        <5>2. QED
          BY <2>2, <5>1
      <4>2. CASE Kind[e] # "SSL_CONNECT"
        <5>1. GoneAfter => GoneAfter'
          BY <1>7, <1>9, <1>10, <4>2 DEF GoneAfter
        <5>2. QED
          BY <1>12, <2>2, <5>1 DEF Covered
      <4>3. QED
        BY <4>1, <4>2
    <3>3. QED
      BY <3>1, <3>2 DEF Covered
  <2>3. QED
    BY <2>1, <2>2
<1>13. ASSUME NEW x \in ElementsOf(q), Kind[x] = "DISCONNECT"
       PROVE  Covered(q, GoneAfter', Ahead(q, x))
  <2>1. x \in ElementsOf(queue) /\ x # e
    BY <1>4, <1>13
  <2>2. Covered(queue, GoneAfter, Ahead(queue, x))
    BY <1>4, <1>13, <2>1 DEF Sessions
  <2>3. Kind[e] = "SSL_CONNECT" => e \in Ahead(queue, x)
    BY <1>4, <1>8, <1>13 DEF Ahead, ConnectKind
  <2>4. \A y : Before(q, y, x) => y \in ElementsOf(q)
    BY DEF Before, ElementsOf
  <2>5. Ahead(q, x) = Ahead(queue, x) \ {e}
    BY <1>4, <1>5, <1>6, <2>1, <2>4 DEF Ahead
  <2>6. QED
    BY <1>12, <2>2, <2>3, <2>5
<1>14. ASSUME state = "CLIENT", ~sslEnabled
       PROVE  Covered(q, GoneAfter', ElementsOf(q))
  BY <1>4, <1>12, <1>14 DEF Sessions
<1>15. active'["connect"] # NoEvent /\ Kind[active'["connect"]] = "DISCONNECT" => Gone'
  <2> SUFFICES ASSUME active'["connect"] # NoEvent, Kind[active'["connect"]] = "DISCONNECT"
               PROVE  Gone'
    OBVIOUS
  <2>1. active'["connect"] = e /\ Kind[e] = "DISCONNECT"
    BY <1>7
  <2>2. Covered(queue, GoneAfter, Ahead(queue, e))
    BY <1>4, <2>1 DEF Sessions
  <2>3. Ahead(queue, e) = {}
    BY <1>8, <2>1 DEF Ahead, ConnectKind
  <2>4. QED
    BY <1>9, <1>10, <2>2, <2>3 DEF Covered
<1>16. \A u \in Thread : pc'[u] = "finish" => pc[u] = "finish" /\ ev'[u] = ev[u]
  BY <1>1, <1>2, <1>3
<1>17. Sessions'
  <2>1. \A u \in Thread : pc'[u] = "finish" /\ Kind[ev'[u]] = "SSL_DISCONNECT" => Gone'
    BY <1>9, <1>16 DEF Sessions
  <2>2. QED
    BY <1>3, <1>13, <1>14, <1>15, <2>1 DEF Sessions, q
<1>18. Connects'
  <2>1. ActiveEvents' = ActiveEvents \cup {e}
    <3>1. active[EventClass(e)] = NoEvent
      BY <1>2, NextIsFree DEF e
    <3>2. \A c \in Class : active'[c] = IF c = EventClass(e) THEN e ELSE active[c]
      BY <1>1, <1>2 DEF e
    <3>3. EventClass(e) \in Class /\ e # NoEvent
      BY <1>1, <1>4, EventClassType
    <3>4. QED
      BY <3>1, <3>2, <3>3 DEF ActiveEvents
  <2>2. pc'[App] = "enqueue" => pc[App] = "enqueue" /\ ev'[App] = ev[App]
    BY <1>1, <1>2, <1>3
  <2>3. \A x \in Event : Connecting(x)' => Connecting(x) /\ (x \in ActiveEvents => x \in ActiveEvents')
    BY <1>4, <2>1, <2>2 DEF Connecting, q
  <2>4. socket = "fresh" => state' = "IDLE" /\ pc'[App] # "enqueue"
    BY <1>3, <2>2 DEF Connects
  <2>5. QED
    BY <1>3, <2>3, <2>4, ConnectsStill
<1>19. QED
  BY <1>17, <1>18

\* The end of an event keeps what is known of sessions and connects.
LEMMA FinishSessions ==
    ASSUME \A x \in Event : Kind[x] # "TLS_CONNECT", QueueInvariant, Connects, Sessions,
           NEW t \in Thread, FinishEvent(t)
    PROVE  Connects' /\ Sessions'
<1> DEFINE e == ev[t]
<1>1. /\ pc \in [Thread -> PC] /\ ev \in [Thread -> Event \cup {NoEvent}] /\ App \in Thread
      /\ active \in [Class -> Event \cup {NoEvent}] /\ NoEvent \notin Event
  BY QueueAssumption DEF QueueInvariant, TypeOK, Thread
<1>2. /\ pc[t] = "finish" /\ pc' = [pc EXCEPT ![t] = "loop"] /\ ev' = [ev EXCEPT ![t] = NoEvent]
      /\ active' = [active EXCEPT ![EventClass(e)] = NoEvent]
      /\ UNCHANGED <<state, sslEnabled, socket, sslConn>>
  BY DEF FinishEvent, Goto, ConnEventInProgressClear
<1>3. (queue' = queue /\ (problem' = "none" => problem = "none")) \/ (queue' = <<>> /\ problem' # "none")
  <2>1. ASSUME NEW act, NEW why, NEW also, why # "none", problem = "none", EventQueueAbort(act, e, why, also)
        PROVE  queue' = <<>> /\ problem' # "none"
    BY <2>1 DEF EventQueueAbort
  <2>2. CASE problem = "none" /\ status[e] \in AbortStatus
    <3>1. status[e] # "none"
      BY <2>2 DEF AbortStatus
    <3>2. QED
      BY <2>1, <2>2, <3>1 DEF FinishEvent
  <2>3. CASE problem = "none" /\ status[e] \notin AbortStatus
    <3>1. CASE status[e] = "COMPLETE" /\ shuttingDown /\ Kind[e] \notin ShutdownKind
      <4>1. \E act : EventQueueAbort(act, e, "KILLED", {e})
        BY <2>3, <3>1 DEF FinishEvent
      <4>2. QED
        BY <2>1, <2>3, <4>1
    <3>2. CASE ~(status[e] = "COMPLETE" /\ shuttingDown /\ Kind[e] \notin ShutdownKind)
      <4>1. queue' = queue
        BY <2>3, <3>2 DEF FinishEvent
      <4>2. QED
        BY <2>3, <4>1
    <3>3. QED
      BY <3>1, <3>2
  <2>4. CASE problem # "none"
    BY <2>4 DEF FinishEvent
  <2>5. QED
    BY <2>2, <2>3, <2>4
<1>4. e \in Event /\ e \in ActiveEvents /\ active[EventClass(e)] = e
  <2>1. pc[t] \in OwnerPC
    BY <1>2 DEF OwnerPC
  <2>2. QED
    BY <2>1, OwnerFacts DEF QueueInvariant, OneOwner
<1> HIDE DEF e
<1>5. Gone' <=> Gone
  BY <1>2 DEF Gone
<1>6. /\ EventClass(e) = "connect" => active["connect"] = e /\ active'["connect"] = NoEvent
      /\ EventClass(e) # "connect" => active'["connect"] = active["connect"]
  BY <1>1, <1>2, <1>4, EventClassType DEF Class
<1>7. GoneAfter => GoneAfter'
  <2>1. CASE EventClass(e) # "connect"
    BY <1>5, <1>6, <2>1 DEF GoneAfter
  <2>2. CASE EventClass(e) = "connect"
    <3> SUFFICES ASSUME GoneAfter
                 PROVE  Gone
      BY <1>5, <1>6, <2>2 DEF GoneAfter
    <3>1. CASE Kind[e] = "DISCONNECT"
      BY <1>1, <1>4, <1>6, <2>2, <3>1 DEF Sessions
    <3>2. CASE Kind[e] = "SSL_DISCONNECT"
      BY <1>2, <3>2 DEF Sessions, e
    <3>3. CASE Kind[e] \notin StopKind
      BY <1>6, <2>2, <3>3 DEF GoneAfter
    <3>4. QED
      BY <3>1, <3>2, <3>3 DEF StopKind
  <2>3. QED
    BY <2>1, <2>2
<1>8. \A u \in Thread : pc'[u] = "finish" => pc[u] = "finish" /\ ev'[u] = ev[u]
  BY <1>1, <1>2
<1>9. Sessions'
  <2>1. active'["connect"] = active["connect"] \/ active'["connect"] = NoEvent
    BY <1>6
  <2>2. problem' = "none" /\ state' = "CLIENT" /\ ~sslEnabled' =>
            queue' = queue /\ Covered(queue, GoneAfter, ElementsOf(queue))
    BY <1>2, <1>3 DEF Sessions
  <2>3. (queue' = queue /\ (problem' = "none" => problem = "none")) \/ queue' = <<>>
    BY <1>3
  <2>4. QED
    BY <1>5, <1>7, <1>8, <2>1, <2>2, <2>3, SessionsKept
<1>10. Connects'
  <2>1. ActiveEvents' = ActiveEvents \ {e}
    <3>1. \A c \in Class : active'[c] = IF c = EventClass(e) THEN NoEvent ELSE active[c]
      BY <1>1, <1>2
    <3>2. \A c \in Class : active[c] = e => EventClass(e) = c
      BY <1>1, <1>4 DEF QueueInvariant, SlotExclusion
    <3>3. QED
      BY <1>4, <3>1, <3>2, EventClassType DEF ActiveEvents
  <2>2. pc'[App] = "enqueue" => pc[App] = "enqueue" /\ ev'[App] = ev[App]
    BY <1>1, <1>2
  <2>3. e \notin ElementsOf(queue) /\ ElementsOf(queue') \subseteq ElementsOf(queue)
    <3>1. e \notin ElementsOf(queue)
      BY <1>4 DEF QueueInvariant, EventPlaces
    <3>2. QED
      BY <1>3, <3>1, SingletonFacts
  <2>4. e \in ElementsOf(log)
    BY <1>4 DEF QueueInvariant, Logged
  <2>5. pc[App] = "enqueue" => ev[App] # e
    BY <1>1, <2>4 DEF QueueInvariant, Queueing
  <2>6. \A x \in Event : Connecting(x)' => Connecting(x) /\ (x \in ActiveEvents => x \in ActiveEvents')
    BY <2>1, <2>2, <2>3, <2>5 DEF Connecting
  <2>7. socket = "fresh" => state' = "IDLE" /\ pc'[App] # "enqueue"
    BY <1>2, <2>2 DEF Connects
  <2>8. QED
    BY <1>2, <2>6, <2>7, ConnectsStill
<1>11. QED
  BY <1>9, <1>10

\* A session that EventEnqueue does not know of ends in the queue.
LEMMA StatusKnown ==
    ASSUME QueueInvariant, Sessions, queueingPermitted, problem = "none", ~SSLEnabledNow
    PROVE  Covered(queue, GoneAfter, ElementsOf(queue))
<1>1. CASE state = "IDLE"
  <2>1. queue = <<>> /\ ActiveEvents = {} /\ Gone
    BY <1>1 DEF QueueInvariant, NothingLeftBehind, ConnEventsInProgress, SSLEnabledNow, Gone
  <2>2. ElementsOf(queue) = {} /\ active["connect"] = NoEvent
    BY <2>1 DEF ElementsOf, ActiveEvents, Class
  <2>3. QED
    BY <2>1, <2>2 DEF Covered, GoneAfter
<1>2. CASE state = "CLIENT"
  BY <1>2 DEF Sessions, SSLEnabledNow
<1>3. QED
  BY <1>1, <1>2 DEF queueingPermitted

\* What EventEnqueue puts into the queue.
LEMMA EnqueuedKinds ==
    ASSUME QueueInvariant, EventEnqueue
    PROVE  \E ins \in Seq(Event) :
             /\ \A y \in ElementsOf(ins) : Kind[y] \in {"FLUSH", "SSL_DISCONNECT"} /\ y \notin ElementsOf(queue)
             /\ ElementsOf(queue') \subseteq ElementsOf(queue) \cup ElementsOf(ins) \cup {ev[App]}
             /\ problem' = "none" =>
                  /\ problem = "none" /\ queue' = queue \o (ins \o <<ev[App]>>)
                  /\ SSLDisconnectNeeded(ev[App]) => \E y \in ElementsOf(ins) : Kind[y] = "SSL_DISCONNECT"
<1> DEFINE e == ev[App]
<1>1. PICK flush \in Allocations("FLUSH", FlushNeeded(e), e),
           sslDisconnect \in Allocations("SSL_DISCONNECT", SSLDisconnectNeeded(e), e) :
        EventEngineQueueAdd(SeqOf(flush) \o SeqOf(sslDisconnect), e,
                            \/ FlushNeeded(e) /\ flush = NoEvent
                            \/ SSLDisconnectNeeded(e) /\ sslDisconnect = NoEvent)
  BY DEF EventEnqueue
<1>2. e \in Event /\ queue \in Seq(Event) /\ ElementsOf(queue) \subseteq ElementsOf(log)
  BY DEF QueueInvariant, Queueing, EventEnqueue, Thread, Logged, TypeOK
<1>3. \A k, needed : \A f \in Allocations(k, needed, e) :
         f = NoEvent \/ (f \in Event \ ElementsOf(log) /\ Kind[f] = k)
  BY DEF Allocations, Unused
<1> DEFINE ins == SeqOf(flush) \o SeqOf(sslDisconnect)
           noMemory == \/ FlushNeeded(e) /\ flush = NoEvent
                       \/ SSLDisconnectNeeded(e) /\ sslDisconnect = NoEvent
<1>4. \A f \in {flush, sslDisconnect} : SeqOf(f) \in Seq(Event) /\ ElementsOf(SeqOf(f)) = {f} \ {NoEvent}
  <2> SUFFICES ASSUME NEW f, f = NoEvent \/ f \in Event
               PROVE  SeqOf(f) \in Seq(Event) /\ ElementsOf(SeqOf(f)) = {f} \ {NoEvent}
    BY <1>1, <1>3
  <2>1. CASE f = NoEvent
    BY <2>1, SingletonFacts DEF SeqOf
  <2>2. CASE f # NoEvent
    BY <2>2, SingletonFacts DEF SeqOf
  <2>3. QED
    BY <2>1, <2>2
<1>5. ins \in Seq(Event) /\ ElementsOf(ins) = {flush, sslDisconnect} \ {NoEvent}
  <2>1. ElementsOf(ins) = ElementsOf(SeqOf(flush)) \cup ElementsOf(SeqOf(sslDisconnect))
    BY <1>4, ConcatFacts
  <2>2. QED
    BY <1>4, <2>1
<1>6. EventEngineQueueAdd(ins, e, noMemory)
  BY <1>1
<1>7. \A y \in ElementsOf(ins) : Kind[y] \in {"FLUSH", "SSL_DISCONNECT"} /\ y \notin ElementsOf(queue)
  BY <1>2, <1>3, <1>5
<1>8. SSLDisconnectNeeded(e) /\ ~noMemory => \E y \in ElementsOf(ins) : Kind[y] = "SSL_DISCONNECT"
  BY <1>3, <1>5
<1> HIDE DEF ins, noMemory, e
<1>9. /\ ElementsOf(ins \o <<e>>) = ElementsOf(ins) \cup {e} /\ ins \o <<e>> \in Seq(Event)
      /\ ElementsOf(queue \o (ins \o <<e>>)) = ElementsOf(queue) \cup ElementsOf(ins) \cup {e}
      /\ ElementsOf(queue \o ins) = ElementsOf(queue) \cup ElementsOf(ins)
  <2> DEFINE new == ins \o <<e>>
  <2>1. ElementsOf(new) = ElementsOf(ins) \cup {e} /\ new \in Seq(Event)
    BY <1>2, <1>5, AppendFacts
  <2> HIDE DEF new
  <2>2. ElementsOf(queue \o new) = ElementsOf(queue) \cup ElementsOf(new)
    BY <1>2, <2>1, ConcatFacts
  <2>3. ElementsOf(queue \o ins) = ElementsOf(queue) \cup ElementsOf(ins)
    BY <1>2, <1>5, ConcatFacts
  <2>4. QED
    BY <2>1, <2>2, <2>3 DEF new
<1>10. CASE noMemory \/ problem # "none"
  <2>1. (queue' = queue \/ queue' = <<>>) /\ problem' # "none"
    BY <1>6, <1>10 DEF EventEngineQueueAdd, EventQueueAbort
  <2>2. QED
    BY <1>5, <1>7, <2>1, SingletonFacts DEF e
<1>11. CASE ~noMemory /\ problem = "none"
  <2>1. \/ problem' = "KILLED" /\ queue' = queue \o ins
        \/ problem' = "none" /\ queue' = queue \o (ins \o <<e>>)
    BY <1>6, <1>11 DEF EventEngineQueueAdd
  <2>2. CASE problem' = "KILLED" /\ queue' = queue \o ins
    BY <1>5, <1>7, <1>9, <2>2 DEF e
  <2>3. CASE problem' = "none" /\ queue' = queue \o (ins \o <<e>>)
    BY <1>5, <1>7, <1>8, <1>9, <1>11, <2>3 DEF e
  <2>4. QED
    BY <2>1, <2>2, <2>3
<1>12. QED
  BY <1>10, <1>11

\* Queueing an event keeps what is known of sessions and connects.
LEMMA EnqueueSessions ==
    ASSUME QueueInvariant, Connects, Sessions, EventEnqueue
    PROVE  Connects' /\ Sessions'
<1> DEFINE e == ev[App]
<1>1. /\ pc \in [Thread -> PC] /\ ev \in [Thread -> Event \cup {NoEvent}] /\ App \in Thread
      /\ queue \in Seq(Event) /\ ElementsOf(queue) \subseteq Event
  BY DEF QueueInvariant, TypeOK, Thread, ElementsOf
<1>2. /\ pc[App] = "enqueue" /\ ev' = [ev EXCEPT ![App] = NoEvent] /\ state' = "CLIENT"
      /\ sslEnabled' = SSLEnabledAfter(e) /\ UNCHANGED <<active, socket, sslConn>>
      /\ \E l \in {"idle", "loop"} : pc' = [pc EXCEPT ![App] = l]
  BY DEF EventEnqueue, ConnEventsProcessUnlessWaiting, ConnEventsProcess, Goto
<1>3. /\ e \in Event /\ e \notin ElementsOf(queue) /\ queueingPermitted
  BY <1>1, <1>2 DEF QueueInvariant, Queueing, Logged, queueingPermitted
<1>4. PICK ins \in Seq(Event) :
        /\ \A y \in ElementsOf(ins) : Kind[y] \in {"FLUSH", "SSL_DISCONNECT"} /\ y \notin ElementsOf(queue)
        /\ ElementsOf(queue') \subseteq ElementsOf(queue) \cup ElementsOf(ins) \cup {e}
        /\ problem' = "none" =>
             /\ problem = "none" /\ queue' = queue \o (ins \o <<e>>)
             /\ SSLDisconnectNeeded(e) => \E y \in ElementsOf(ins) : Kind[y] = "SSL_DISCONNECT"
  BY EnqueuedKinds
<1> DEFINE new == ins \o <<e>>
           q == queue'
<1>5. /\ new \in Seq(Event) /\ ElementsOf(new) = ElementsOf(ins) \cup {e}
      /\ \A y \in ElementsOf(ins) : Before(new, y, e)
  <2>1. new \in Seq(Event) /\ ElementsOf(new) = ElementsOf(ins) \cup {e}
    BY <1>3, <1>4, AppendFacts
  <2>2. <<e>> \in Seq(Event) /\ ElementsOf(<<e>>) = {e}
    BY <1>3, SingletonFacts
  <2>3. \A y \in ElementsOf(ins) : Before(new, y, e)
    BY <1>4, <2>2, BeforeConcat
  <2>4. QED
    BY <2>1, <2>3
<1>6. Gone' = Gone /\ GoneAfter' = GoneAfter /\ ActiveEvents' = ActiveEvents
  BY <1>2 DEF Gone, GoneAfter, ActiveEvents
<1>7. /\ pc'[App] \notin {"finish", "enqueue"}
      /\ \A u \in Thread : u # App => pc'[u] = pc[u] /\ ev'[u] = ev[u]
  BY <1>1, <1>2
<1> HIDE DEF e, new
<1>8. Connects'
  <2>1. pc'[App] # "enqueue" /\ socket # "fresh"
    BY <1>2, <1>7 DEF Connects
  <2>2. \A x \in Event : Connecting(x)' => Connecting(x) /\ (x \in ActiveEvents => x \in ActiveEvents')
    <3> SUFFICES ASSUME NEW x \in Event, Connecting(x)'
                 PROVE  Connecting(x)
      BY <1>6
    <3>1. Kind[x] = "CONNECT" /\ (x \in ElementsOf(queue') \/ x \in ActiveEvents)
      BY <1>6, <2>1 DEF Connecting
    <3>2. x \notin ElementsOf(ins)
      BY <1>4, <3>1
    <3>3. x \in ElementsOf(queue) \/ x = e \/ x \in ActiveEvents
      BY <1>4, <3>1, <3>2
    <3>4. QED
      BY <1>2, <3>1, <3>3 DEF Connecting, e
  <2>3. QED
    BY <1>2, <2>1, <2>2, ConnectsStill
<1>9. ASSUME problem' = "none", NEW x, NEW y
      PROVE  Before(q, x, y) <=>
                Before(queue, x, y) \/ Before(new, x, y) \/ (x \in ElementsOf(queue) /\ y \in ElementsOf(new))
  <2>1. q = queue \o new
    BY <1>4, <1>9 DEF new
  <2>2. Before(queue \o new, x, y) <=>
            Before(queue, x, y) \/ Before(new, x, y) \/ (x \in ElementsOf(queue) /\ y \in ElementsOf(new))
    BY <1>1, <1>5, BeforeConcat
  <2>3. QED
    BY <2>1, <2>2
<1>10. ASSUME problem' = "none"
       PROVE  ElementsOf(q) = ElementsOf(queue) \cup ElementsOf(ins) \cup {e}
  <2>1. ElementsOf(queue \o new) = ElementsOf(queue) \cup ElementsOf(new)
    BY <1>1, <1>5, ConcatFacts
  <2>2. QED
    BY <1>4, <1>5, <1>10, <2>1 DEF new
<1>11. \A x, y : Before(new, x, y) => x \in ElementsOf(new) /\ y \in ElementsOf(new)
  BY DEF Before, ElementsOf
<1>12. \A x, y : Before(queue, x, y) => x \in ElementsOf(queue) /\ y \in ElementsOf(queue)
  BY DEF Before, ElementsOf
<1>13. ElementsOf(new) \cap ElementsOf(queue) = {} /\ ElementsOf(new) \subseteq Event
  <2>1. ElementsOf(new) \cap ElementsOf(queue) = {}
    BY <1>3, <1>4, <1>5
  <2>2. ElementsOf(new) \subseteq Event
    BY <1>5 DEF ElementsOf
  <2>3. QED
    BY <2>1, <2>2
<1>14. ASSUME problem' = "none", NEW x \in ElementsOf(queue), Kind[x] = "DISCONNECT"
       PROVE  Covered(q, GoneAfter, Ahead(q, x))
  <2>1. \A y : Before(q, y, x) <=> Before(queue, y, x)
    BY <1>9, <1>11, <1>13, <1>14
  <2>2. Ahead(q, x) = Ahead(queue, x)
    BY <2>1 DEF Ahead
  <2>3. Covered(queue, GoneAfter, Ahead(queue, x))
    BY <1>4, <1>14 DEF Sessions
  <2>4. \A y, z : Before(queue, z, y) => Before(q, z, y)
    BY <1>9, <1>14
  <2>5. QED
    BY <2>2, <2>3, <2>4 DEF Covered
<1>15. ASSUME problem' = "none", Kind[e] = "DISCONNECT"
       PROVE  Covered(q, GoneAfter, Ahead(q, e))
  <2>1. ElementsOf(queue) \cup ElementsOf(ins) \subseteq Ahead(q, e)
    BY <1>1, <1>5, <1>9, <1>13, <1>15 DEF Ahead
  <2>2. \A z \in Ahead(q, e) : Kind[z] = "SSL_CONNECT" => z \in ElementsOf(queue)
    <3>1. \A z \in Ahead(q, e) : z \in ElementsOf(queue) \/ z \in ElementsOf(new)
      BY <1>9, <1>11, <1>12, <1>15 DEF Ahead
    <3>2. \A z \in ElementsOf(new) : Kind[z] # "SSL_CONNECT"
      BY <1>4, <1>5, <1>15
    <3>3. QED
      BY <3>1, <3>2
  <2>3. CASE SSLEnabledNow
    <3>1. PICK y \in ElementsOf(ins) : Kind[y] = "SSL_DISCONNECT"
      BY <1>4, <1>15, <2>3 DEF SSLDisconnectNeeded
    <3>2. y \in Ahead(q, e) /\ Kind[y] \in StopKind /\ y \in ElementsOf(new)
      BY <1>5, <2>1, <3>1 DEF StopKind
    <3>3. \A z \in ElementsOf(queue) : Before(q, z, y)
      BY <1>9, <1>15, <3>2
    <3>4. QED
      BY <2>2, <3>2, <3>3 DEF Covered
  <2>4. CASE ~SSLEnabledNow
    <3>1. Covered(queue, GoneAfter, ElementsOf(queue))
      BY <1>3, <1>4, <1>15, <2>4, StatusKnown
    <3>2. \A y, z : Before(queue, z, y) => Before(q, z, y)
      BY <1>9, <1>15
    <3>3. QED
      BY <2>1, <2>2, <3>1, <3>2 DEF Covered
  <2>5. QED
    BY <2>3, <2>4
<1>16. ASSUME problem' = "none", ~sslEnabled'
       PROVE  Covered(q, GoneAfter, ElementsOf(q))
  <2>1. Kind[e] # "SSL_CONNECT"
    BY <1>2, <1>16 DEF SSLEnabledAfter, e
  <2>2. \A z \in ElementsOf(q) : Kind[z] = "SSL_CONNECT" => z \in ElementsOf(queue)
    BY <1>4, <1>10, <1>16, <2>1
  <2>3. CASE Kind[e] \in StopKind
    <3>1. \A z \in ElementsOf(queue) : Before(q, z, e)
      BY <1>5, <1>9, <1>16
    <3>2. e \in ElementsOf(q)
      BY <1>10, <1>16
    <3>3. QED
      BY <2>2, <2>3, <3>1, <3>2 DEF Covered
  <2>4. CASE Kind[e] \notin StopKind
    <3>1. ~SSLEnabledNow
      BY <1>2, <1>16, <2>1, <2>4 DEF SSLEnabledAfter, StopKind, e
    <3>2. Covered(queue, GoneAfter, ElementsOf(queue))
      BY <1>3, <1>4, <1>16, <3>1, StatusKnown
    <3>3. \A y, z : Before(queue, z, y) => Before(q, z, y)
      BY <1>9, <1>16
    <3>4. ElementsOf(queue) \subseteq ElementsOf(q)
      BY <1>10, <1>16
    <3>5. QED
      BY <2>2, <3>2, <3>3, <3>4 DEF Covered
  <2>5. QED
    BY <2>3, <2>4
<1>17. ASSUME problem' = "none", NEW x \in ElementsOf(q), Kind[x] = "DISCONNECT"
       PROVE  Covered(q, GoneAfter, Ahead(q, x))
  <2>1. x \notin ElementsOf(ins)
    BY <1>4, <1>17
  <2>2. x \in ElementsOf(queue) \/ x = e
    BY <1>10, <1>17, <2>1
  <2>3. QED
    BY <1>14, <1>15, <1>17, <2>2
<1>18. active'["connect"] # NoEvent /\ Kind[active'["connect"]] = "DISCONNECT" => Gone'
  BY <1>2, <1>6 DEF Sessions
<1>19. \A u \in Thread : pc'[u] = "finish" /\ Kind[ev'[u]] = "SSL_DISCONNECT" => Gone'
  BY <1>6, <1>7 DEF Sessions
<1>20. Sessions'
  BY <1>6, <1>16, <1>17, <1>18, <1>19 DEF Sessions, q
<1>21. QED
  BY <1>8, <1>20

\* Every step keeps what is known of sessions and connects.
LEMMA SessionsStep ==
    ASSUME \A x \in Event : Kind[x] # "TLS_CONNECT", "write" \notin Calls,
           QueueInvariant, Connects, Sessions, [Next]_vars
    PROVE  Connects' /\ Sessions'
<1>1. /\ pc \in [Thread -> PC] /\ ev \in [Thread -> Event \cup {NoEvent}] /\ App \in Thread
      /\ completions \in Nat /\ socket \in {"fresh", "open", "closed"} /\ state \in State
  BY DEF QueueInvariant, TypeOK, Thread
<1>2. ASSUME UNCHANGED <<active, sslConn>>, socket' = socket \/ socket' = "closed",
             \A u \in Thread : pc'[u] = "finish" => pc[u] = "finish" /\ ev'[u] = ev[u],
             pc'[App] = "enqueue" => pc[App] = "enqueue" /\ ev'[App] = ev[App],
             (queue' = queue /\ (problem' = "none" => problem = "none")) \/ queue' = <<>>,
             socket = "fresh" => state' = "IDLE",
             problem' = "none" /\ state' = "CLIENT" /\ ~sslEnabled' =>
                 queue' = queue /\ Covered(queue, GoneAfter, ElementsOf(queue))
      PROVE  Connects' /\ Sessions'
  <2>1. Sessions'
    BY <1>2, SessionsStill
  <2>2. ElementsOf(queue') \subseteq ElementsOf(queue) /\ ActiveEvents' = ActiveEvents
    BY <1>2, SingletonFacts DEF ActiveEvents
  <2>3. \A x \in Event : Connecting(x)' => Connecting(x) /\ (x \in ActiveEvents => x \in ActiveEvents')
    BY <1>2, <2>2 DEF Connecting
  <2>4. socket = "fresh" => state' = "IDLE" /\ pc'[App] # "enqueue"
    BY <1>2 DEF Connects
  <2>5. QED
    BY <1>2, <2>1, <2>3, <2>4, ConnectsStill
<1>3. problem = "none" /\ state = "CLIENT" /\ ~sslEnabled => Covered(queue, GoneAfter, ElementsOf(queue))
  BY DEF Sessions
<1>4. socket = "fresh" => state = "IDLE" /\ pc[App] # "enqueue" /\ ~sslConn
  BY DEF Connects
<1>5. CASE UNCHANGED vars
  BY <1>2, <1>3, <1>4, <1>5 DEF vars, transaction, locals
<1>6. CASE Consumer
  <2>1. ASSUME NEW e \in Event, ConnACall(e)
        PROVE  Connects' /\ Sessions'
    <3>1. /\ pc[App] = "idle" /\ queueingPermitted /\ pc' = [pc EXCEPT ![App] = "enqueue"]
          /\ ev' = [ev EXCEPT ![App] = e] /\ (Kind[e] = "CONNECT" <=> socket = "fresh")
          /\ socket' = IF socket = "fresh" THEN "closed" ELSE socket
          /\ UNCHANGED <<state, active, queue, problem, sslEnabled, sslConn>>
      BY <2>1 DEF ConnACall, ConsumerMayCall, Goto, transaction
    <3>2. \A u \in Thread : pc'[u] = "finish" => pc[u] = "finish" /\ ev'[u] = ev[u]
      BY <1>1, <3>1
    <3>3. Sessions'
      BY <1>3, <3>1, <3>2, SessionsStill
    <3>4. pc'[App] = "enqueue" /\ ev'[App] = e /\ socket' # "fresh" /\ ActiveEvents' = ActiveEvents
      BY <1>1, <3>1 DEF ActiveEvents
    <3>5. \A x \in Event : Connecting(x)' => Connecting(x) \/ (x = e /\ Kind[e] = "CONNECT")
      BY <3>1, <3>4 DEF Connecting
    <3>6. Connects'
      <4>1. CASE socket = "fresh"
        <5>1. queue = <<>> /\ ActiveEvents = {} /\ ~sslConn /\ socket' = "closed"
          BY <1>4, <3>1, <4>1 DEF QueueInvariant, NothingLeftBehind, ConnEventsInProgress
        <5>2. \A x \in Event : ~Connecting(x)
          BY <3>1, <5>1, SingletonFacts DEF Connecting
        <5>3. QED
          BY <3>1, <3>4, <3>5, <5>1, <5>2 DEF Connects
      <4>2. CASE socket # "fresh"
        <5>1. \A x \in Event : Connecting(x)' => Connecting(x)
          BY <3>1, <3>5, <4>2
        <5>2. socket' = socket /\ sslConn' = sslConn
          BY <3>1, <4>2
        <5>3. QED
          BY <3>4, <4>2, <5>1, <5>2 DEF Connects
      <4>3. QED
        BY <4>1, <4>2
    <3>7. QED
      BY <3>3, <3>6
  <2>2. CASE EventEnqueue
    BY <2>2, EnqueueSessions
  <2>3. CASE ConnANoop
    <3>1. /\ queueingPermitted /\ socket # "fresh" /\ sslEnabled' = SSLEnabledNow
          /\ UNCHANGED <<active, queue, problem, socket, sslConn, ev>>
          /\ \E l \in {"idle", "loop"} : pc' = [pc EXCEPT ![App] = l]
      BY <2>3 DEF ConnANoop, ConsumerMayCall, ConnEventsProcessUnlessWaiting, ConnEventsProcess, Goto
    <3>2. problem' = "none" /\ ~sslEnabled' => Covered(queue, GoneAfter, ElementsOf(queue))
      BY <3>1, StatusKnown
    <3>3. /\ \A u \in Thread : pc'[u] = "finish" => pc[u] = "finish" /\ ev'[u] = ev[u]
          /\ pc'[App] = "enqueue" => pc[App] = "enqueue" /\ ev'[App] = ev[App]
      BY <1>1, <3>1
    <3>4. QED
      BY <1>2, <3>1, <3>2, <3>3
  <2>4. CASE EventEnqueueFailure
    <3>1. /\ UNCHANGED <<active, socket, sslConn, pc, ev>> /\ problem' # "none" /\ socket # "fresh"
          /\ queue' = queue \/ queue' = <<>>
      BY <2>4 DEF EventEnqueueFailure, EventQueueAbort, locals
    <3>2. QED
      BY <1>2, <3>1
  <2>5. CASE ConnAWrite
    BY <2>5 DEF ConnAWrite
  <2>6. CASE EventsSubmit
    <3>1. /\ UNCHANGED <<active, queue, socket, sslConn, ev>> /\ socket # "fresh" /\ state' = "ENGINE"
          /\ problem' = "none" => problem = "none"
          /\ pc' = [pc EXCEPT ![App] = "loop"]
      BY <2>6 DEF EventsSubmit, ConnEventsProcess, Goto
    <3>2. /\ \A u \in Thread : pc'[u] = "finish" => pc[u] = "finish" /\ ev'[u] = ev[u]
          /\ pc'[App] # "enqueue"
      BY <1>1, <3>1
    <3>3. QED
      BY <1>2, <3>1, <3>2
  <2>7. CASE ConnReplace
    <3>1. /\ state = "IDLE" /\ pc[App] = "idle" /\ ~sslConn'
          /\ UNCHANGED <<state, active, queue, pc, ev>>
      BY <2>7 DEF ConnReplace, transaction, locals
    <3>2. queue = <<>> /\ ActiveEvents = {} /\ ActiveEvents' = {}
      BY <3>1 DEF QueueInvariant, NothingLeftBehind, ConnEventsInProgress, ActiveEvents
    <3>3. Gone' /\ state' = "IDLE" /\ queue' = <<>> /\ ElementsOf(queue') = {}
      BY <3>1, <3>2, SingletonFacts DEF Gone
    <3>4. Sessions'
      BY <3>3 DEF Sessions
    <3>5. \A x \in Event : ~Connecting(x)'
      BY <3>1, <3>2, <3>3 DEF Connecting
    <3>6. QED
      BY <3>1, <3>4, <3>5 DEF Connects
  <2>8. QED
    BY <1>6, <2>1, <2>2, <2>3, <2>4, <2>5, <2>6, <2>7 DEF Consumer
<1>7. ASSUME NEW t \in Thread, ProcessEvent(t)
      PROVE  Connects' /\ Sessions'
  BY <1>7, ProcessSessions
<1>8. ASSUME NEW t \in Thread, QueueStep(t)
      PROVE  Connects' /\ Sessions'
  <2>1. CASE StartEvent(t)
    BY <2>1, StartSessions
  <2>2. CASE FinishEvent(t)
    BY <2>2, FinishSessions
  <2>3. CASE LeaveQueue(t) \/ QueueCompleteNotify(t) \/ Relock(t) \/ AsyncEventCallback(t) \/ EnterQueue(t)
    <3>1. /\ UNCHANGED <<active, queue, problem, sslEnabled, socket, sslConn, ev>>
          /\ \E l \in {"idle", "notify", "loop", "enter", "process"} : pc' = [pc EXCEPT ![t] = l]
          /\ state' = state \/ (state' = "COMPLETE" /\ pc[t] = "loop")
      BY <2>3 DEF LeaveQueue, QueueCompleteNotify, Relock, AsyncEventCallback, EnterQueue, Goto, transaction
    <3>2. /\ \A u \in Thread : pc'[u] = "finish" => pc[u] = "finish" /\ ev'[u] = ev[u]
          /\ pc'[App] = "enqueue" => pc[App] = "enqueue" /\ ev'[App] = ev[App]
      BY <1>1, <3>1
    <3>3. socket = "fresh" => state' = "IDLE"
      <4>1. pc[t] = "loop" => state # "IDLE"
        BY DEF QueueInvariant, NothingLeftBehind
      <4>2. QED
        BY <1>4, <3>1, <4>1
    <3>4. QED
      BY <1>2, <1>3, <3>1, <3>2, <3>3
  <2>4. QED
    BY <1>8, <2>1, <2>2, <2>3 DEF QueueStep
<1>9. CASE Environment
  <2>1. CASE \E t \in Worker, c \in Class : HandleSocketEvent(t, c)
    <3>1. PICK t \in Worker, c \in Class : HandleSocketEvent(t, c)
      BY <2>1
    <3>2. /\ UNCHANGED <<state, active, queue, problem, sslEnabled, socket, sslConn>>
          /\ pc' = [pc EXCEPT ![t] = "callback"] /\ ev' = [ev EXCEPT ![t] = seArg[c]]
          /\ t \in Thread /\ pc[t] = "idle" /\ t # App
      BY <3>1, QueueAssumption DEF HandleSocketEvent, Goto, transaction, Thread
    <3>3. /\ \A u \in Thread : pc'[u] = "finish" => pc[u] = "finish" /\ ev'[u] = ev[u]
          /\ pc'[App] = "enqueue" => pc[App] = "enqueue" /\ ev'[App] = ev[App]
      BY <1>1, <3>2
    <3>4. QED
      BY <1>2, <1>3, <1>4, <3>2, <3>3
  <2>2. CASE (\E c \in Class : SocketReady(c) \/ SocketTimeout(c)) \/ HandleShutdown
    <3>1. UNCHANGED <<state, active, queue, problem, sslEnabled, socket, sslConn, pc, ev>>
      BY <2>2 DEF SocketReady, SocketTimeout, SocketEventComplete, HandleShutdown, transaction, locals
    <3>2. QED
      BY <1>2, <1>3, <1>4, <3>1
  <2>3. CASE QueueCompleteCallback
    <3>1. UNCHANGED <<active, socket, sslConn, pc, ev>> /\ state' = "IDLE" /\ queue' = <<>>
      BY <2>3 DEF QueueCompleteCallback, locals
    <3>2. QED
      BY <1>2, <3>1
  <2>4. CASE ConnKill \/ ConnectionsAbort
    <3>1. /\ UNCHANGED <<state, active, sslEnabled, sslConn, pc, ev>>
          /\ socket' = socket \/ socket' = "closed"
          /\ \/ UNCHANGED <<queue, problem>>
             \/ problem' # "none" /\ (queue' = queue \/ queue' = <<>>)
      BY <2>4 DEF ConnKill, ConnectionsAbort, ConnAbort, EventQueueAbort, locals
    <3>2. QED
      BY <1>2, <1>3, <1>4, <3>1
  <2>5. QED
    BY <1>9, <2>1, <2>2, <2>3, <2>4 DEF Environment
<1>10. QED
  BY <1>5, <1>6, <1>7, <1>8, <1>9, NextCases

\* Where every handshake that starts a session sets sslEnabled, and no transaction
\* begins with a buffered write, a disconnect never runs on an open connection that
\* still has its session.
THEOREM DisconnectsAreSecure ==
    ASSUME \A x \in Event : Kind[x] # "TLS_CONNECT", "write" \notin Calls
    PROVE  Spec => []SecureDisconnect
<1>1. Init => Connects /\ Sessions
  <2> SUFFICES ASSUME Init
               PROVE  Connects /\ Sessions
    OBVIOUS
  <2>1. /\ ~sslConn /\ state = "IDLE" /\ queue = <<>> /\ ElementsOf(queue) = {} /\ ActiveEvents = {}
        /\ pc[App] = "idle"
    BY SingletonFacts DEF Init, ActiveEvents, Thread
  <2>2. Gone /\ \A x \in Event : ~Connecting(x)
    BY <2>1 DEF Gone, Connecting
  <2>3. QED
    BY <2>1, <2>2 DEF Connects, Sessions
<1>2. QueueInvariant /\ Connects /\ Sessions /\ [Next]_vars => Connects' /\ Sessions'
  BY SessionsStep
<1>3. Sessions => SecureDisconnect
  BY DEF Sessions, SecureDisconnect, Gone
<1>4. QED
  BY <1>1, <1>2, <1>3, Invariance, PTL DEF Spec
=============================================================================
