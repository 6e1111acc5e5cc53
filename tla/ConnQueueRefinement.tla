------------------------ MODULE ConnQueueRefinement ------------------------
(***************************************************************************)
(* The event queue implements the transaction that the consumer sees:      *)
(* every step of ConnQueue is a step of AsyncTransaction, or leaves what   *)
(* the consumer sees of it alone.                                          *)
(***************************************************************************)
EXTENDS ConnQueueProofs

\* What the consumer sees, as AsyncTransaction's variables.
Phase == CASE state = "IDLE" -> "idle" [] state = "CLIENT" -> "building"
           [] OTHER -> "submitted"
Pending == ElementsOf(queue) \cup ActiveEvents

\* The consumer sees nothing of a step that changes none of the three.
LEMMA Unseen ==
    ASSUME UNCHANGED <<state, problem>>, Pending' = Pending
    PROVE  [Transaction!Next]_(Transaction!vars)
  BY DEF Pending, Transaction!vars

\* The steps that the consumer sees, in terms of the queue's own variables.
LEMMA SeenAccept ==
    ASSUME state \in {"IDLE", "CLIENT"}, state' = "CLIENT",
           Pending \subseteq Pending', Pending' \subseteq Event,
           problem # "none" => problem' = problem /\ Pending' = Pending,
           problem' # problem => problem' \in Failure
    PROVE  Transaction!Next
<1>1. Transaction!Accept
  BY DEF Transaction!Accept, Transaction!Problem, Pending, Failure
<1>2. QED
  BY <1>1 DEF Transaction!Next

\* The steps that the consumer sees as the first problem of the transaction.
LEMMA SeenFail ==
    ASSUME problem = "none", problem' \in Failure, Pending' \subseteq Pending,
           state' = state \/ (state = "IDLE" /\ state' = "CLIENT"),
           state = "IDLE" => state' = "CLIENT"
    PROVE  Transaction!Next
<1>1. Transaction!Fail
  BY DEF Transaction!Fail, Transaction!Problem, Pending, Failure
<1>2. QED
  BY <1>1 DEF Transaction!Next

\* EventQueueAbort drops what is queued, the first time.
LEMMA AbortSeen ==
    ASSUME NEW act, NEW current, NEW why \in Failure, NEW also,
           EventQueueAbort(act, current, why, also)
    PROVE  \/ problem = "none" /\ problem' = why /\ ElementsOf(queue') = {}
           \/ problem # "none" /\ problem' = problem /\ queue' = queue
  BY SingletonFacts DEF EventQueueAbort

\* What the event lock's holders see of the invariant here.
LEMMA PendingFacts ==
    ASSUME QueueInvariant
    PROVE  /\ TypeOK /\ SlotExclusion
           /\ Pending \subseteq Event
           /\ \A t \in Thread : pc[t] \in {"loop", "finish"} => state \in {"CLIENT", "ENGINE"}
<1>1. TypeOK /\ SlotExclusion
  BY DEF QueueInvariant
<1>2. Pending \subseteq Event
  BY <1>1, ActiveFacts DEF Pending, ElementsOf, TypeOK
<1>3. \A t \in Thread : pc[t] \in {"loop", "finish"} => state \in {"CLIENT", "ENGINE"}
  BY DEF QueueInvariant, NothingLeftBehind, TypeOK, State
<1>4. QED
  BY <1>1, <1>2, <1>3

\* EventEnqueue accepts its events, or fails the transaction.
LEMMA EnqueueSeen ==
    ASSUME QueueInvariant, QueueInvariant', EventEnqueue
    PROVE  Transaction!Next
<1>1. state \in {"IDLE", "CLIENT"} /\ state' = "CLIENT" /\ ActiveEvents' = ActiveEvents
  BY DEF EventEnqueue, QueueInvariant, Queueing, Thread, ActiveEvents
<1>2. Pending' \subseteq Event
  BY DEF QueueInvariant, TypeOK, Pending, ActiveEvents, ElementsOf
<1>3. PICK inserted, noMemory : EventEngineQueueAdd(inserted, ev[App], noMemory)
                                /\ inserted \in Seq(Event)
  <2>1. PICK flush \in Allocations("FLUSH", FlushNeeded(ev[App]), ev[App]),
             sslDisconnect \in Allocations("SSL_DISCONNECT",
                                           SSLDisconnectNeeded(ev[App]), ev[App]) :
          \E noMemory :
          EventEngineQueueAdd(SeqOf(flush) \o SeqOf(sslDisconnect), ev[App], noMemory)
    BY DEF EventEnqueue
  <2>2. \A k, needed, e : \A f \in Allocations(k, needed, e) : SeqOf(f) \in Seq(Event)
    BY SingletonFacts, QueueAssumption DEF Allocations, Unused, SeqOf
  <2>3. SeqOf(flush) \in Seq(Event) /\ SeqOf(sslDisconnect) \in Seq(Event)
    BY <2>2
  <2>4. QED
    BY <2>1, <2>3, ConcatFacts
<1>4. queue \in Seq(Event) /\ ev[App] \in Event
  BY DEF QueueInvariant, TypeOK, Queueing, EventEnqueue, Thread
<1> DEFINE new == inserted \o <<ev[App]>>
<1>5. new \in Seq(Event)
  BY <1>3, <1>4, AppendFacts
<1> HIDE DEF new
<1>6. CASE \E also : EventQueueAbort(active, NoEvent, "FAILED", also)
  <2>1. "FAILED" \in Failure
    BY DEF Failure
  <2>2. \/ problem = "none" /\ problem' = "FAILED" /\ ElementsOf(queue') = {}
        \/ problem # "none" /\ problem' = problem /\ queue' = queue
    BY <1>6, <2>1, AbortSeen, Zenon
  <2>3. CASE problem = "none" /\ problem' = "FAILED" /\ ElementsOf(queue') = {}
    BY <1>1, <2>1, <2>3, SeenFail DEF Pending
  <2>4. CASE problem # "none" /\ problem' = problem /\ queue' = queue
    BY <1>1, <1>2, <2>4, SeenAccept DEF Pending
  <2>5. QED
    BY <2>2, <2>3, <2>4
<1>7. CASE /\ problem = "none"
           /\ problem' \in {"none", "KILLED"}
           /\ queue' = queue \o inserted \/ queue' = queue \o new
  <2>1. ElementsOf(queue) \subseteq ElementsOf(queue')
    <3>1. /\ ElementsOf(queue \o inserted) = ElementsOf(queue) \cup ElementsOf(inserted)
          /\ ElementsOf(queue \o new) = ElementsOf(queue) \cup ElementsOf(new)
      BY <1>3, <1>4, <1>5, ConcatFacts
    <3>2. QED
      BY <1>7, <3>1
  <2>2. Pending \subseteq Pending' /\ "KILLED" \in Failure
    BY <1>1, <2>1 DEF Pending, Failure
  <2>3. QED
    BY <1>1, <1>2, <1>7, <2>2, SeenAccept
<1>8. QED
  BY <1>3, <1>6, <1>7 DEF EventEngineQueueAdd, new

\* The consumer's calls accept events, submit them, or fail the transaction.
LEMMA ConsumerSeen ==
    ASSUME QueueInvariant, QueueInvariant', Consumer
    PROVE  [Transaction!Next]_(Transaction!vars)
<1>1. CASE \E e \in Event : ConnACall(e)
  BY <1>1, Unseen DEF ConnACall, transaction, Pending, ActiveEvents
<1>2. CASE EventEnqueue
  BY <1>2, EnqueueSeen
<1>3. CASE ConnANoop \/ ConnAWrite
  <2>1. /\ state \in {"IDLE", "CLIENT"} /\ state' = "CLIENT"
        /\ Pending' = Pending /\ problem' = problem
    BY <1>3 DEF ConnANoop, ConnAWrite, ConsumerMayCall, queueingPermitted, transaction,
                Pending, ActiveEvents
  <2>2. QED
    BY <2>1, PendingFacts, SeenAccept
<1>4. CASE EventEnqueueFailure
  <2>1. /\ state \in {"IDLE", "CLIENT"} /\ state' = "CLIENT" /\ ActiveEvents' = ActiveEvents
        /\ EventQueueAbort(active, NoEvent, "FAILED", {})
        /\ "FAILED" \in Failure
    BY <1>4 DEF EventEnqueueFailure, ConsumerMayCall, queueingPermitted, ActiveEvents,
                Failure
  <2>2. \/ problem = "none" /\ problem' = "FAILED" /\ ElementsOf(queue') = {}
        \/ problem # "none" /\ problem' = problem /\ queue' = queue
    BY <2>1, AbortSeen, Zenon
  <2>3. CASE problem = "none" /\ problem' = "FAILED" /\ ElementsOf(queue') = {}
    BY <2>1, <2>3, SeenFail DEF Pending
  <2>4. CASE problem # "none" /\ problem' = problem /\ queue' = queue
    <3>1. Pending' = Pending
      BY <2>1, <2>4 DEF Pending
    <3>2. QED
      BY <2>1, <2>4, <3>1, PendingFacts, SeenAccept
  <2>5. QED
    BY <2>2, <2>3, <2>4
<1>5. CASE EventsSubmit
  <2>1. /\ state \in {"IDLE", "CLIENT"} /\ state' = "ENGINE" /\ Pending' = Pending
        /\ problem' = IF state = "IDLE" /\ problem = "none" THEN "FAILED" ELSE problem
    BY <1>5 DEF EventsSubmit, ConsumerMayCall, queueingPermitted, Pending, ActiveEvents
  <2>2. Transaction!Submit
    BY <2>1 DEF Transaction!Submit, Pending
  <2>3. QED
    BY <2>2 DEF Transaction!Next
<1>6. CASE ConnReplace
  BY <1>6, Unseen DEF ConnReplace, transaction, Pending, ActiveEvents
<1>7. QED
  BY <1>1, <1>2, <1>3, <1>4, <1>5, <1>6 DEF Consumer

\* The threads end events, fail the transaction, or do what the consumer does not see.
LEMMA ThreadSeen ==
    ASSUME QueueInvariant, NEW t \in Thread, ProcessEvent(t) \/ QueueStep(t)
    PROVE  [Transaction!Next]_(Transaction!vars)
<1>1. CASE ProcessEvent(t)
  <2>1. UNCHANGED <<state, problem, queue, active>>
    BY <1>1 DEF ProcessEvent, ProcessCancelled, ProcessDone, ProcessFails, ProcessBlocks,
                CheckProblem, SocketEventWait, transaction
  <2>2. QED
    BY <2>1, Unseen DEF Pending, ActiveEvents
<1>2. CASE StartEvent(t)
  <2>1. PICK i \in 1 .. Len(queue) :
           /\ ConnEventNext(i)
           /\ queue' = Without(queue, i)
           /\ active' = [active EXCEPT ![EventClass(queue[i])] = queue[i]]
    BY <1>2 DEF StartEvent, ConnEventInProgressSet
  <2>2. queue \in Seq(Event) /\ active \in [Class -> Event \cup {NoEvent}]
    BY DEF QueueInvariant, TypeOK
  <2>3. ElementsOf(queue') \cup {queue[i]} = ElementsOf(queue)
    BY <2>1, <2>2, WithoutFacts
  <2>4. ActiveEvents' = ActiveEvents \cup {queue[i]}
    <3>1. queue[i] \in Event /\ queue[i] # NoEvent /\ active[EventClass(queue[i])] = NoEvent
      BY <2>1, <2>2, NextIsFree, QueueAssumption
    <3>2. QED
      BY <2>1, <2>2, <3>1, EventClassType DEF ActiveEvents
  <2>5. QED
    BY <1>2, <2>3, <2>4, Unseen DEF StartEvent, Pending
<1>3. CASE LeaveQueue(t)
  <2>1. Pending' = Pending /\ problem' = problem
    BY <1>3 DEF LeaveQueue, Pending, ActiveEvents
  <2>2. state' = state \/ (state = "ENGINE" /\ state' = "COMPLETE")
    BY <1>3, PendingFacts DEF LeaveQueue, QueueDone
  <2>3. QED
    BY <2>1, <2>2 DEF Pending, Transaction!vars
<1>4. CASE QueueCompleteNotify(t) \/ Relock(t) \/ AsyncEventCallback(t) \/ EnterQueue(t)
  <2>1. UNCHANGED <<state, problem, queue, active>>
    BY <1>4 DEF QueueCompleteNotify, Relock, AsyncEventCallback, EnterQueue, transaction
  <2>2. QED
    BY <2>1, Unseen DEF Pending, ActiveEvents
<1>5. CASE FinishEvent(t)
  <2> DEFINE e == ev[t]
             act == [active EXCEPT ![EventClass(e)] = NoEvent]
  <2>1. /\ pc[t] = "finish" /\ state' = state /\ active' = act
        /\ state \in {"CLIENT", "ENGINE"}
    BY <1>5, PendingFacts DEF FinishEvent, ConnEventInProgressClear
  <2>2. e \in ActiveEvents /\ e # NoEvent
    BY <2>1, OwnerFacts, ActiveFacts, PendingFacts DEF OwnerPC
  <2>3. ActiveEvents' = ActiveEvents \ {e}
    <3>1. \A c \in Class : active'[c] = IF c = EventClass(e) THEN NoEvent ELSE active[c]
      BY <2>1 DEF QueueInvariant, TypeOK
    <3>2. \A c \in Class : active[c] = e <=> c = EventClass(e)
      BY <2>2, ActiveFacts, PendingFacts DEF SlotExclusion
    <3> HIDE DEF e, act
    <3>3. QED
      BY <2>2, <3>1, <3>2 DEF ActiveEvents
  <2>4. e \notin ElementsOf(queue)
    BY <2>2 DEF QueueInvariant, EventPlaces
  <2> HIDE DEF e, act
  <2>5. CASE problem = "none" /\ problem' \in Failure
             /\ (ElementsOf(queue') = {} \/ queue' = queue)
    BY <2>1, <2>3, <2>5, SeenFail DEF Pending
  <2>6. CASE problem' = problem /\ queue' = queue
    <3>1. Pending' = Pending \ {e} /\ e \in Pending
      BY <2>2, <2>3, <2>4, <2>6 DEF Pending
    <3>2. Transaction!End
      BY <2>1, <2>6, <3>1 DEF Transaction!End, Pending
    <3>3. QED
      BY <3>2 DEF Transaction!Next
  <2>7. QED
    BY <1>5, <2>5, <2>6, SingletonFacts DEF FinishEvent, AbortStatus, EventQueueAbort, Failure
<1>6. QED
  BY <1>1, <1>2, <1>3, <1>4, <1>5 DEF QueueStep

\* The epoll engine is not seen; kills fail the transaction; the callback ends it.
LEMMA EnvironmentSeen ==
    ASSUME QueueInvariant, Environment
    PROVE  [Transaction!Next]_(Transaction!vars)
<1>1. CASE \/ \E t \in Worker, c \in Class : HandleSocketEvent(t, c)
           \/ \E c \in Class : SocketReady(c) \/ SocketTimeout(c)
           \/ HandleShutdown
  <2>1. UNCHANGED <<state, problem, queue, active>>
    BY <1>1 DEF HandleSocketEvent, SocketReady, SocketTimeout, SocketEventComplete,
                HandleShutdown, transaction
  <2>2. QED
    BY <2>1, Unseen DEF Pending, ActiveEvents
<1>2. CASE QueueCompleteCallback
  <2>1. state = "COMPLETE" /\ queue = <<>> /\ ActiveEvents = {}
    BY <1>2 DEF QueueCompleteCallback, QueueInvariant, CompletedOnce, NothingLeftBehind,
                ConnEventsInProgress
  <2>2. state' = "IDLE" /\ problem' = "none" /\ queue' = <<>> /\ ActiveEvents' = {}
    BY <1>2, <2>1 DEF QueueCompleteCallback, ActiveEvents
  <2>3. Transaction!Callback
    BY <2>1, <2>2, SingletonFacts DEF Transaction!Callback
  <2>4. QED
    BY <2>3 DEF Transaction!Next
<1>3. CASE ConnKill \/ ConnectionsAbort
  <2>1. PICK S \in {{"CLIENT", "ENGINE", "COMPLETE"}, {"CLIENT", "ENGINE"}} : ConnAbort(S)
    BY <1>3 DEF ConnKill, ConnectionsAbort
  <2>2. state' = state /\ ActiveEvents' = ActiveEvents
    BY <2>1 DEF ConnAbort, ActiveEvents
  <2>3. CASE state \in S /\ EventQueueAbort(active, NoEvent, "KILLED", {})
    <3>1. "KILLED" \in Failure /\ state # "IDLE"
      BY <2>3 DEF Failure
    <3>2. \/ problem = "none" /\ problem' = "KILLED" /\ ElementsOf(queue') = {}
          \/ problem # "none" /\ problem' = problem /\ queue' = queue
      BY <2>3, <3>1, AbortSeen, Zenon
    <3>3. CASE problem = "none" /\ problem' = "KILLED" /\ ElementsOf(queue') = {}
      BY <2>2, <3>1, <3>3, SeenFail DEF Pending
    <3>4. CASE problem # "none" /\ problem' = problem /\ queue' = queue
      BY <2>2, <3>4, Unseen DEF Pending
    <3>5. QED
      BY <3>2, <3>3, <3>4
  <2>4. CASE UNCHANGED <<problem, queue>>
    BY <2>2, <2>4, Unseen DEF Pending
  <2>5. QED
    BY <2>1, <2>3, <2>4 DEF ConnAbort
<1>4. QED
  BY <1>1, <1>2, <1>3 DEF Environment

\* The queue implements the transaction that the description of ConnASubmit
\* promises: one callback per submit, after the last event has ended, with the
\* first problem that the transaction met.
THEOREM Refinement == Spec => TransactionSpec
<1>1. Init => Transaction!Init
  BY SingletonFacts DEF Init, Transaction!Init, ActiveEvents
<1>2. QueueInvariant /\ QueueInvariant' /\ [Next]_vars => [Transaction!Next]_(Transaction!vars)
  <2> SUFFICES ASSUME QueueInvariant, QueueInvariant', [Next]_vars
               PROVE  [Transaction!Next]_(Transaction!vars)
    OBVIOUS
  <2>1. CASE UNCHANGED vars
    BY <2>1, Unseen DEF vars, transaction, Pending, ActiveEvents
  <2>2. CASE Next
    BY <2>2, NextCases, ConsumerSeen, ThreadSeen, EnvironmentSeen
  <2>3. QED
    BY <2>1, <2>2
<1>3. QED
  BY <1>1, <1>2, Invariance, PTL DEF Spec, TransactionSpec, Transaction!Spec
=============================================================================
