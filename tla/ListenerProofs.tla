--------------------------- MODULE ListenerProofs ---------------------------
(***************************************************************************)
(* Proofs about Listener, for every number of workers, every threshold and *)
(* every bound on load, backlog and accepts.                               *)
(***************************************************************************)
EXTENDS Listener, FiniteSetTheorems, TLAPS

-----------------------------------------------------------------------------
(* The inductive invariant.                                                *)

\* Where a worker is while it has the listener.
Carrying == {"spin", "drain", "release", "null", "callback"}

NoCarrier == \A k \in Worker : pc[k] \notin Carrying
Carrier(k) == pc[k] \in Carrying /\ \A j \in Worker : j # k => pc[j] \notin Carrying

\* OnePlace, one case for each place.
Nowhere == conn = "none" /\ ~armed /\ ~reported /\ handed = 0 /\ NoCarrier
Watched == conn = "listener" /\ armed /\ ~reported /\ handed = 0 /\ NoCarrier
Polled  == conn = "listener" /\ ~armed /\ reported /\ handed = 0 /\ NoCarrier
Passed  == conn = "listener" /\ ~armed /\ ~reported /\ handed = 1 /\ NoCarrier
Carried(k) ==
    /\ conn # "none" /\ ~armed /\ ~reported /\ handed = 0
    /\ Carrier(k)
    /\ conn = "idle" => pc[k] = "callback"

Place == Nowhere \/ Watched \/ Polled \/ Passed \/ \E k \in Worker : Carried(k)

\* The event is linked until a worker begins to end the listener.
Linked ==
    /\ Watched \/ Polled \/ Passed => arg
    /\ Nowhere => ~arg
    /\ \A k \in Worker : pc[k] \in Carrying => (arg <=> pc[k] = "spin")

\* The listener is allocated until a worker releases it, and no accept is under
\* way by then.
Life ==
    /\ Nowhere => listener = "none" /\ accepts = 0 /\ flags = {}
    /\ Watched \/ Polled \/ Passed => listener = "alloc"
    /\ \A k \in Worker :
        /\ pc[k] \in {"spin", "drain", "release"} => listener = "alloc"
        /\ pc[k] = "null" => listener = "freed"
        /\ pc[k] = "callback" => listener = "none"
        /\ pc[k] \in {"release", "null", "callback"} => accepts = 0

ListenerInv == TypeOK /\ AcceptSafe /\ Place /\ Linked /\ Life

-----------------------------------------------------------------------------
(* The invariant, action by action.                                        *)

\* A listener starts: it is watched by epoll.
LEMMA AListenInv ==
    ASSUME ListenerInv, ConnAListen
    PROVE  ListenerInv'
<1> USE DEF ListenerInv, ConnAListen
<1>1. TypeOK'
  BY ListenerAssumption DEF TypeOK, Place, Carrying, NoCarrier, Carrier, Nowhere, Watched, Polled, Passed, Carried
<1>2. AcceptSafe'
  BY ListenerAssumption DEF TypeOK, AcceptSafe, Place, Life, Carrying, NoCarrier, Carrier, Nowhere, Watched, Polled, Passed, Carried
<1>3. Place'
  BY ListenerAssumption DEF TypeOK, Place, Linked, Life, Carrying, NoCarrier, Carrier, Nowhere, Watched, Polled, Passed, Carried
<1>4. Linked'
  BY ListenerAssumption DEF TypeOK, Place, Linked, Carrying, NoCarrier, Carrier, Nowhere, Watched, Polled, Passed, Carried
<1>5. Life'
  BY ListenerAssumption DEF TypeOK, AcceptSafe, Place, Life, Carrying, NoCarrier, Carrier, Nowhere, Watched, Polled, Passed, Carried
<1>6. QED
  BY <1>1, <1>2, <1>3, <1>4, <1>5

\* Suspension marks the listener.
LEMMA SuspendInv ==
    ASSUME ListenerInv, SocketListenerSuspend
    PROVE  ListenerInv'
<1> USE DEF ListenerInv, SocketListenerSuspend, Touch
<1>1. TypeOK'
  BY ListenerAssumption DEF TypeOK, Place, Carrying, NoCarrier, Carrier, Nowhere, Watched, Polled, Passed, Carried
<1>2. AcceptSafe'
  BY ListenerAssumption DEF TypeOK, AcceptSafe, Place, Life, Carrying, NoCarrier, Carrier, Nowhere, Watched, Polled, Passed, Carried
<1>3. Place'
  BY ListenerAssumption DEF TypeOK, Place, Linked, Life, Carrying, NoCarrier, Carrier, Nowhere, Watched, Polled, Passed, Carried
<1>4. Linked'
  BY ListenerAssumption DEF TypeOK, Place, Linked, Carrying, NoCarrier, Carrier, Nowhere, Watched, Polled, Passed, Carried
<1>5. Life'
  BY ListenerAssumption DEF TypeOK, AcceptSafe, Place, Life, Carrying, NoCarrier, Carrier, Nowhere, Watched, Polled, Passed, Carried
<1>6. QED
  BY <1>1, <1>2, <1>3, <1>4, <1>5

\* Resumption unmarks it.
LEMMA ResumeInv ==
    ASSUME ListenerInv, SocketListenerResume
    PROVE  ListenerInv'
<1> USE DEF ListenerInv, SocketListenerResume, Touch
<1>1. TypeOK'
  BY ListenerAssumption DEF TypeOK, Place, Carrying, NoCarrier, Carrier, Nowhere, Watched, Polled, Passed, Carried
<1>2. AcceptSafe'
  BY ListenerAssumption DEF TypeOK, AcceptSafe, Place, Life, Carrying, NoCarrier, Carrier, Nowhere, Watched, Polled, Passed, Carried
<1>3. Place'
  BY ListenerAssumption DEF TypeOK, Place, Linked, Life, Carrying, NoCarrier, Carrier, Nowhere, Watched, Polled, Passed, Carried
<1>4. Linked'
  BY ListenerAssumption DEF TypeOK, Place, Linked, Carrying, NoCarrier, Carrier, Nowhere, Watched, Polled, Passed, Carried
<1>5. Life'
  BY ListenerAssumption DEF TypeOK, AcceptSafe, Place, Life, Carrying, NoCarrier, Carrier, Nowhere, Watched, Polled, Passed, Carried
<1>6. QED
  BY <1>1, <1>2, <1>3, <1>4, <1>5

\* A kill marks the listener and connects to it.
LEMMA KillInv ==
    ASSUME ListenerInv, SocketEventKill
    PROVE  ListenerInv'
<1> USE DEF ListenerInv, SocketEventKill, Touch
<1>1. TypeOK'
  <2>1. flags' \subseteq {"IN_ENGINE", "LISTENER_KILLED", "LISTENER_PAUSED", "LISTENER_SUSPENDED"}
    BY DEF TypeOK
  <2>2. backlog' \in 0 .. MaxBacklog
    BY ListenerAssumption DEF TypeOK
  <2>3. touched' \subseteq {"consumer", "poll", "accept", "started"}
    BY DEF TypeOK
  <2>4. QED
    BY <2>1, <2>2, <2>3, ListenerAssumption DEF TypeOK
<1>2. AcceptSafe'
  BY ListenerAssumption DEF TypeOK, AcceptSafe, Place, Life, Carrying, NoCarrier, Carrier, Nowhere, Watched, Polled, Passed, Carried
<1>3. Place'
  BY ListenerAssumption DEF TypeOK, Place, Linked, Life, Carrying, NoCarrier, Carrier, Nowhere, Watched, Polled, Passed, Carried
<1>4. Linked'
  BY ListenerAssumption DEF TypeOK, Place, Linked, Carrying, NoCarrier, Carrier, Nowhere, Watched, Polled, Passed, Carried
<1>5. Life'
  BY ListenerAssumption DEF TypeOK, AcceptSafe, Place, Life, Carrying, NoCarrier, Carrier, Nowhere, Watched, Polled, Passed, Carried
<1>6. QED
  BY <1>1, <1>2, <1>3, <1>4, <1>5

\* A client connects.
LEMMA ConnectInv ==
    ASSUME ListenerInv, Connect
    PROVE  ListenerInv'
<1> USE DEF ListenerInv, Connect
<1>1. TypeOK'
  BY ListenerAssumption DEF TypeOK, Place, Carrying, NoCarrier, Carrier, Nowhere, Watched, Polled, Passed, Carried
<1>2. AcceptSafe'
  BY ListenerAssumption DEF TypeOK, AcceptSafe, Place, Life, Carrying, NoCarrier, Carrier, Nowhere, Watched, Polled, Passed, Carried
<1>3. Place'
  BY ListenerAssumption DEF TypeOK, Place, Linked, Life, Carrying, NoCarrier, Carrier, Nowhere, Watched, Polled, Passed, Carried
<1>4. Linked'
  BY ListenerAssumption DEF TypeOK, Place, Linked, Carrying, NoCarrier, Carrier, Nowhere, Watched, Polled, Passed, Carried
<1>5. Life'
  BY ListenerAssumption DEF TypeOK, AcceptSafe, Place, Life, Carrying, NoCarrier, Carrier, Nowhere, Watched, Polled, Passed, Carried
<1>6. QED
  BY <1>1, <1>2, <1>3, <1>4, <1>5

\* Threads come and go.
LEMMA LoadInv ==
    ASSUME ListenerInv, LoadChanges
    PROVE  ListenerInv'
<1> USE DEF ListenerInv, LoadChanges
<1>1. TypeOK'
  BY ListenerAssumption DEF TypeOK, Place, Carrying, NoCarrier, Carrier, Nowhere, Watched, Polled, Passed, Carried
<1>2. AcceptSafe'
  BY ListenerAssumption DEF TypeOK, AcceptSafe, Place, Life, Carrying, NoCarrier, Carrier, Nowhere, Watched, Polled, Passed, Carried
<1>3. Place'
  BY ListenerAssumption DEF TypeOK, Place, Linked, Life, Carrying, NoCarrier, Carrier, Nowhere, Watched, Polled, Passed, Carried
<1>4. Linked'
  BY ListenerAssumption DEF TypeOK, Place, Linked, Carrying, NoCarrier, Carrier, Nowhere, Watched, Polled, Passed, Carried
<1>5. Life'
  BY ListenerAssumption DEF TypeOK, AcceptSafe, Place, Life, Carrying, NoCarrier, Carrier, Nowhere, Watched, Polled, Passed, Carried
<1>6. QED
  BY <1>1, <1>2, <1>3, <1>4, <1>5

\* The count of threads is brought up to date.
LEMMA CountInv ==
    ASSUME ListenerInv, CountUpdated
    PROVE  ListenerInv'
<1> USE DEF ListenerInv, CountUpdated, AThreadCountUpdate
<1>1. TypeOK'
  BY ListenerAssumption DEF TypeOK, Place, Carrying, NoCarrier, Carrier, Nowhere, Watched, Polled, Passed, Carried
<1>2. AcceptSafe'
  BY ListenerAssumption DEF TypeOK, AcceptSafe, Place, Life, Carrying, NoCarrier, Carrier, Nowhere, Watched, Polled, Passed, Carried
<1>3. Place'
  BY ListenerAssumption DEF TypeOK, Place, Linked, Life, Carrying, NoCarrier, Carrier, Nowhere, Watched, Polled, Passed, Carried
<1>4. Linked'
  BY ListenerAssumption DEF TypeOK, Place, Linked, Carrying, NoCarrier, Carrier, Nowhere, Watched, Polled, Passed, Carried
<1>5. Life'
  BY ListenerAssumption DEF TypeOK, AcceptSafe, Place, Life, Carrying, NoCarrier, Carrier, Nowhere, Watched, Polled, Passed, Carried
<1>6. QED
  BY <1>1, <1>2, <1>3, <1>4, <1>5

\* epoll reports the listener.
LEMMA ReportsInv ==
    ASSUME ListenerInv, EpollReports
    PROVE  ListenerInv'
<1> USE DEF ListenerInv, EpollReports
<1>1. TypeOK'
  BY ListenerAssumption DEF TypeOK, Place, Carrying, NoCarrier, Carrier, Nowhere, Watched, Polled, Passed, Carried
<1>2. AcceptSafe'
  BY ListenerAssumption DEF TypeOK, AcceptSafe, Place, Life, Carrying, NoCarrier, Carrier, Nowhere, Watched, Polled, Passed, Carried
<1>3. Place'
  BY ListenerAssumption DEF TypeOK, Place, Linked, Life, Carrying, NoCarrier, Carrier, Nowhere, Watched, Polled, Passed, Carried
<1>4. Linked'
  BY ListenerAssumption DEF TypeOK, Place, Linked, Carrying, NoCarrier, Carrier, Nowhere, Watched, Polled, Passed, Carried
<1>5. Life'
  BY ListenerAssumption DEF TypeOK, AcceptSafe, Place, Life, Carrying, NoCarrier, Carrier, Nowhere, Watched, Polled, Passed, Carried
<1>6. QED
  BY <1>1, <1>2, <1>3, <1>4, <1>5

\* A killed listener goes to a worker.
LEMMA HandleKilledInv ==
    ASSUME ListenerInv, HandleKilled
    PROVE  ListenerInv'
<1> USE DEF ListenerInv, HandleKilled, NotRequeued, Touch
<1>1. TypeOK'
  <2>1. handed = 0
    BY DEF Place, Carrying, NoCarrier, Carrier, Nowhere, Watched, Polled, Passed, Carried
  <2>2. handed' \in 0 .. 1
    BY <2>1 DEF TypeOK
  <2>3. armed' \in BOOLEAN
    BY DEF TypeOK
  <2>4. flags' \subseteq {"IN_ENGINE", "LISTENER_KILLED", "LISTENER_PAUSED", "LISTENER_SUSPENDED"}
    BY DEF TypeOK
  <2>5. touched' \subseteq {"consumer", "poll", "accept", "started"}
    BY DEF TypeOK
  <2>6. QED
    BY <2>1, <2>2, <2>3, <2>4, <2>5, ListenerAssumption DEF TypeOK
<1>2. AcceptSafe'
  BY ListenerAssumption DEF TypeOK, AcceptSafe, Place, Life, Carrying, NoCarrier, Carrier, Nowhere, Watched, Polled, Passed, Carried
<1>3. Place'
  BY ListenerAssumption DEF TypeOK, Place, Linked, Life, Carrying, NoCarrier, Carrier, Nowhere, Watched, Polled, Passed, Carried
<1>4. Linked'
  BY ListenerAssumption DEF TypeOK, Place, Linked, Carrying, NoCarrier, Carrier, Nowhere, Watched, Polled, Passed, Carried
<1>5. Life'
  BY ListenerAssumption DEF TypeOK, AcceptSafe, Place, Life, Carrying, NoCarrier, Carrier, Nowhere, Watched, Polled, Passed, Carried
<1>6. QED
  BY <1>1, <1>2, <1>3, <1>4, <1>5

\* A connection is accepted; then the listener goes back or is paused.
LEMMA HandleAcceptInv ==
    ASSUME ListenerInv, NEW started \in BOOLEAN, HandleAccept(started)
    PROVE  ListenerInv'
<1> USE DEF ListenerInv, HandleAccept, Requeued, NotRequeued, Touch, AThreadCountUpdate
<1>1. TypeOK'
  <2>1. handed = 0
    BY DEF Place, Carrying, NoCarrier, Carrier, Nowhere, Watched, Polled, Passed, Carried
  <2>2. handed' \in 0 .. 1
    BY <2>1 DEF TypeOK
  <2>3. armed' \in BOOLEAN
    BY DEF TypeOK
  <2>4. flags' \subseteq {"IN_ENGINE", "LISTENER_KILLED", "LISTENER_PAUSED", "LISTENER_SUSPENDED"}
    BY DEF TypeOK
  <2>5. touched' \subseteq {"consumer", "poll", "accept", "started"}
    BY DEF TypeOK
  <2>6. backlog' \in 0 .. MaxBacklog
    BY ListenerAssumption DEF TypeOK
  <2>7. inAccept' \in 0 .. MaxAccepts /\ accepts' \in 0 .. MaxAccepts
    BY ListenerAssumption DEF TypeOK, AcceptSafe
  <2>8. count' \in 0 .. MaxLoad
    BY DEF TypeOK
  <2>9. QED
    BY <2>1, <2>2, <2>3, <2>4, <2>5, <2>6, <2>7, <2>8, ListenerAssumption DEF TypeOK
<1>2. AcceptSafe'
  BY ListenerAssumption DEF TypeOK, AcceptSafe, Place, Life, Carrying, NoCarrier, Carrier, Nowhere, Watched, Polled, Passed, Carried
<1>3. Place'
  BY ListenerAssumption DEF TypeOK, Place, Linked, Life, Carrying, NoCarrier, Carrier, Nowhere, Watched, Polled, Passed, Carried
<1>4. Linked'
  BY ListenerAssumption DEF TypeOK, Place, Linked, Carrying, NoCarrier, Carrier, Nowhere, Watched, Polled, Passed, Carried
<1>5. Life'
  BY ListenerAssumption DEF TypeOK, AcceptSafe, Place, Life, Carrying, NoCarrier, Carrier, Nowhere, Watched, Polled, Passed, Carried
<1>6. QED
  BY <1>1, <1>2, <1>3, <1>4, <1>5

\* accept fails: the listener goes back, or to a worker.
LEMMA AcceptFailsInv ==
    ASSUME ListenerInv, HandleAcceptFails
    PROVE  ListenerInv'
<1> USE DEF ListenerInv, HandleAcceptFails, Requeued, NotRequeued
<1>1. TypeOK'
  <2>1. handed = 0
    BY DEF Place, Carrying, NoCarrier, Carrier, Nowhere, Watched, Polled, Passed, Carried
  <2>2. handed' \in 0 .. 1
    BY <2>1 DEF TypeOK
  <2>3. armed' \in BOOLEAN
    BY DEF TypeOK
  <2>4. flags' \subseteq {"IN_ENGINE", "LISTENER_KILLED", "LISTENER_PAUSED", "LISTENER_SUSPENDED"}
    BY DEF TypeOK
  <2>5. QED
    BY <2>1, <2>2, <2>3, <2>4, ListenerAssumption DEF TypeOK
<1>2. AcceptSafe'
  BY ListenerAssumption DEF TypeOK, AcceptSafe, Place, Life, Carrying, NoCarrier, Carrier, Nowhere, Watched, Polled, Passed, Carried
<1>3. Place'
  BY ListenerAssumption DEF TypeOK, Place, Linked, Life, Carrying, NoCarrier, Carrier, Nowhere, Watched, Polled, Passed, Carried
<1>4. Linked'
  BY ListenerAssumption DEF TypeOK, Place, Linked, Carrying, NoCarrier, Carrier, Nowhere, Watched, Polled, Passed, Carried
<1>5. Life'
  BY ListenerAssumption DEF TypeOK, AcceptSafe, Place, Life, Carrying, NoCarrier, Carrier, Nowhere, Watched, Polled, Passed, Carried
<1>6. QED
  BY <1>1, <1>2, <1>3, <1>4, <1>5

\* An accept thread ends.
LEMMA PickupInv ==
    ASSUME ListenerInv, acceptPickup
    PROVE  ListenerInv'
<1> USE DEF ListenerInv, acceptPickup
<1>1. TypeOK'
  <2>1. inAccept' \in 0 .. MaxAccepts /\ accepts' \in 0 .. MaxAccepts
    BY ListenerAssumption DEF TypeOK, AcceptSafe
  <2>2. touched' \subseteq {"consumer", "poll", "accept", "started"}
    BY DEF TypeOK
  <2>3. QED
    BY <2>1, <2>2, ListenerAssumption DEF TypeOK
<1>2. AcceptSafe'
  BY ListenerAssumption DEF TypeOK, AcceptSafe, Place, Life, Carrying, NoCarrier, Carrier, Nowhere, Watched, Polled, Passed, Carried
<1>3. Place'
  BY ListenerAssumption DEF TypeOK, Place, Linked, Life, Carrying, NoCarrier, Carrier, Nowhere, Watched, Polled, Passed, Carried
<1>4. Linked'
  BY ListenerAssumption DEF TypeOK, Place, Linked, Carrying, NoCarrier, Carrier, Nowhere, Watched, Polled, Passed, Carried
<1>5. Life'
  BY ListenerAssumption DEF TypeOK, AcceptSafe, Place, Life, Carrying, NoCarrier, Carrier, Nowhere, Watched, Polled, Passed, Carried
<1>6. QED
  BY <1>1, <1>2, <1>3, <1>4, <1>5

\* A worker takes the listener, to sit on it or to end it.
LEMMA HandleEventInv ==
    ASSUME ListenerInv, NEW k \in Worker, HandleSocketEvent(k)
    PROVE  ListenerInv'
<1> USE DEF ListenerInv, HandleSocketEvent, listenerThrottling
<1>1. TypeOK'
  BY ListenerAssumption DEF TypeOK, Place, Carrying, NoCarrier, Carrier, Nowhere, Watched, Polled, Passed, Carried
<1>2. AcceptSafe'
  BY ListenerAssumption DEF TypeOK, AcceptSafe, Place, Life, Carrying, NoCarrier, Carrier, Nowhere, Watched, Polled, Passed, Carried
<1>3. Place'
  BY ListenerAssumption DEF TypeOK, Place, Linked, Life, Carrying, NoCarrier, Carrier, Nowhere, Watched, Polled, Passed, Carried
<1>4. Linked'
  BY ListenerAssumption DEF TypeOK, Place, Linked, Carrying, NoCarrier, Carrier, Nowhere, Watched, Polled, Passed, Carried
<1>5. Life'
  BY ListenerAssumption DEF TypeOK, AcceptSafe, Place, Life, Carrying, NoCarrier, Carrier, Nowhere, Watched, Polled, Passed, Carried
<1>6. QED
  BY <1>1, <1>2, <1>3, <1>4, <1>5

\* After the spin the listener goes back, or to another worker.
LEMMA RequeueInv ==
    ASSUME ListenerInv, NEW k \in Worker, sockEventListenerRequeue(k)
    PROVE  ListenerInv'
<1> USE DEF ListenerInv, sockEventListenerRequeue, SpinEnds, AThreadCountUpdate
<1>1. TypeOK'
  <2>1. handed = 0
    BY DEF Place, Carrying, NoCarrier, Carrier, Nowhere, Watched, Polled, Passed, Carried
  <2>2. handed' \in 0 .. 1
    BY <2>1 DEF TypeOK
  <2>3. armed' \in BOOLEAN
    BY DEF TypeOK
  <2>4. flags' \subseteq {"IN_ENGINE", "LISTENER_KILLED", "LISTENER_PAUSED", "LISTENER_SUSPENDED"}
    BY DEF TypeOK
  <2>5. count' \in 0 .. MaxLoad
    BY DEF TypeOK
  <2>6. pc' \in [Worker -> {"none", "spin", "started", "drain", "release", "null", "callback"}]
    BY DEF TypeOK
  <2>7. QED
    BY <2>1, <2>2, <2>3, <2>4, <2>5, <2>6, ListenerAssumption DEF TypeOK
<1>2. AcceptSafe'
  BY ListenerAssumption DEF TypeOK, AcceptSafe, Place, Life, Carrying, NoCarrier, Carrier, Nowhere, Watched, Polled, Passed, Carried
<1>3. Place'
  BY ListenerAssumption DEF TypeOK, Place, Linked, Life, Carrying, NoCarrier, Carrier, Nowhere, Watched, Polled, Passed, Carried
<1>4. Linked'
  BY ListenerAssumption DEF TypeOK, Place, Linked, Carrying, NoCarrier, Carrier, Nowhere, Watched, Polled, Passed, Carried
<1>5. Life'
  BY ListenerAssumption DEF TypeOK, AcceptSafe, Place, Life, Carrying, NoCarrier, Carrier, Nowhere, Watched, Polled, Passed, Carried
<1>6. QED
  BY <1>1, <1>2, <1>3, <1>4, <1>5

\* The notification that the listener goes on.
LEMMA StartedInv ==
    ASSUME ListenerInv, NEW k \in Worker, ListenerStarted(k)
    PROVE  ListenerInv'
<1> USE DEF ListenerInv, ListenerStarted, Touch
<1>1. TypeOK'
  BY ListenerAssumption DEF TypeOK, Place, Carrying, NoCarrier, Carrier, Nowhere, Watched, Polled, Passed, Carried
<1>2. AcceptSafe'
  BY ListenerAssumption DEF TypeOK, AcceptSafe, Place, Life, Carrying, NoCarrier, Carrier, Nowhere, Watched, Polled, Passed, Carried
<1>3. Place'
  BY ListenerAssumption DEF TypeOK, Place, Linked, Life, Carrying, NoCarrier, Carrier, Nowhere, Watched, Polled, Passed, Carried
<1>4. Linked'
  BY ListenerAssumption DEF TypeOK, Place, Linked, Carrying, NoCarrier, Carrier, Nowhere, Watched, Polled, Passed, Carried
<1>5. Life'
  BY ListenerAssumption DEF TypeOK, AcceptSafe, Place, Life, Carrying, NoCarrier, Carrier, Nowhere, Watched, Polled, Passed, Carried
<1>6. QED
  BY <1>1, <1>2, <1>3, <1>4, <1>5

\* The last accept has ended.
LEMMA DrainedInv ==
    ASSUME ListenerInv, NEW k \in Worker, AcceptsDrained(k)
    PROVE  ListenerInv'
<1> USE DEF ListenerInv, AcceptsDrained
<1>1. TypeOK'
  BY ListenerAssumption DEF TypeOK, Place, Carrying, NoCarrier, Carrier, Nowhere, Watched, Polled, Passed, Carried
<1>2. AcceptSafe'
  BY ListenerAssumption DEF TypeOK, AcceptSafe, Place, Life, Carrying, NoCarrier, Carrier, Nowhere, Watched, Polled, Passed, Carried
<1>3. Place'
  BY ListenerAssumption DEF TypeOK, Place, Linked, Life, Carrying, NoCarrier, Carrier, Nowhere, Watched, Polled, Passed, Carried
<1>4. Linked'
  BY ListenerAssumption DEF TypeOK, Place, Linked, Carrying, NoCarrier, Carrier, Nowhere, Watched, Polled, Passed, Carried
<1>5. Life'
  BY ListenerAssumption DEF TypeOK, AcceptSafe, Place, Life, Carrying, NoCarrier, Carrier, Nowhere, Watched, Polled, Passed, Carried
<1>6. QED
  BY <1>1, <1>2, <1>3, <1>4, <1>5

\* The listener is released, then the pointer to it is cleared.
LEMMA AListenerReleaseInv ==
    ASSUME ListenerInv, NEW k \in Worker, asyncListenerRelease(k)
    PROVE  ListenerInv'
<1> USE DEF ListenerInv, asyncListenerRelease
<1>1. TypeOK'
  BY ListenerAssumption DEF TypeOK, Place, Carrying, NoCarrier, Carrier, Nowhere, Watched, Polled, Passed, Carried
<1>2. AcceptSafe'
  BY ListenerAssumption DEF TypeOK, AcceptSafe, Place, Life, Carrying, NoCarrier, Carrier, Nowhere, Watched, Polled, Passed, Carried
<1>3. Place'
  BY ListenerAssumption DEF TypeOK, Place, Linked, Life, Carrying, NoCarrier, Carrier, Nowhere, Watched, Polled, Passed, Carried
<1>4. Linked'
  BY ListenerAssumption DEF TypeOK, Place, Linked, Carrying, NoCarrier, Carrier, Nowhere, Watched, Polled, Passed, Carried
<1>5. Life'
  BY ListenerAssumption DEF TypeOK, AcceptSafe, Place, Life, Carrying, NoCarrier, Carrier, Nowhere, Watched, Polled, Passed, Carried
<1>6. QED
  BY <1>1, <1>2, <1>3, <1>4, <1>5

\* The callbacks that end a listener.
LEMMA CallbackInv ==
    ASSUME ListenerInv, NEW k \in Worker, AsyncListenerCallback(k)
    PROVE  ListenerInv'
<1> USE DEF ListenerInv, AsyncListenerCallback
<1>1. TypeOK'
  <2>1. backlog' \in 0 .. MaxBacklog
    BY ListenerAssumption DEF TypeOK
  <2>2. pc' \in [Worker -> {"none", "spin", "started", "drain", "release", "null", "callback"}]
    BY DEF TypeOK
  <2>3. flags' \subseteq {"IN_ENGINE", "LISTENER_KILLED", "LISTENER_PAUSED", "LISTENER_SUSPENDED"}
    BY DEF TypeOK
  <2>4. QED
    BY <2>1, <2>2, <2>3, ListenerAssumption DEF TypeOK
<1>2. AcceptSafe'
  BY ListenerAssumption DEF TypeOK, AcceptSafe, Place, Life, Carrying, NoCarrier, Carrier, Nowhere, Watched, Polled, Passed, Carried
<1>3. Place'
  BY ListenerAssumption DEF TypeOK, Place, Linked, Life, Carrying, NoCarrier, Carrier, Nowhere, Watched, Polled, Passed, Carried
<1>4. Linked'
  BY ListenerAssumption DEF TypeOK, Place, Linked, Carrying, NoCarrier, Carrier, Nowhere, Watched, Polled, Passed, Carried
<1>5. Life'
  BY ListenerAssumption DEF TypeOK, AcceptSafe, Place, Life, Carrying, NoCarrier, Carrier, Nowhere, Watched, Polled, Passed, Carried
<1>6. QED
  BY <1>1, <1>2, <1>3, <1>4, <1>5

\* The invariant holds before the consumer listens.
LEMMA ListenerInit == Init => ListenerInv
<1> SUFFICES ASSUME Init
             PROVE  ListenerInv
  OBVIOUS
<1>1. TypeOK
  <2>1. {arg, armed, reported} \subseteq BOOLEAN
    BY DEF Init
  <2>2. /\ backlog \in 0 .. MaxBacklog /\ count \in 0 .. MaxLoad /\ handed \in 0 .. 1
        /\ inAccept \in 0 .. MaxAccepts /\ accepts \in 0 .. MaxAccepts
    BY ListenerAssumption DEF Init
  <2>3. QED
    BY <2>1, <2>2 DEF Init, TypeOK
<1>2. AcceptSafe
  BY DEF Init, AcceptSafe
<1>3. Nowhere /\ ~Watched /\ ~Polled /\ ~Passed
  BY DEF Init, Nowhere, NoCarrier, Carrying, Watched, Polled, Passed
<1>4. Linked /\ Life
  BY <1>3 DEF Init, Linked, Life, Carrying
<1>5. QED
  BY <1>1, <1>2, <1>3, <1>4 DEF ListenerInv, Place

\* Every step keeps the invariant.
LEMMA ListenerStep == ListenerInv /\ [Next]_vars => ListenerInv'
<1> SUFFICES ASSUME ListenerInv, [Next]_vars
             PROVE  ListenerInv'
  OBVIOUS
<1>1. CASE ConnAListen \/ SocketListenerSuspend \/ SocketListenerResume \/ SocketEventKill
  BY <1>1, AListenInv, SuspendInv, ResumeInv, KillInv
<1>2. CASE Connect \/ LoadChanges \/ CountUpdated \/ acceptPickup
  BY <1>2, ConnectInv, LoadInv, CountInv, PickupInv
<1>3. CASE Poll
  BY <1>3, ReportsInv, HandleKilledInv, HandleAcceptInv, AcceptFailsInv DEF Poll
<1>4. ASSUME NEW k \in Worker, Work(k)
      PROVE  ListenerInv'
  BY <1>4, HandleEventInv, RequeueInv, StartedInv, DrainedInv, AListenerReleaseInv, CallbackInv DEF Work
<1>5. CASE UNCHANGED vars
  BY <1>5 DEF vars, ListenerInv, TypeOK, AcceptSafe, Place, Linked, Life, Carrying, NoCarrier, Carrier,
              Nowhere, Watched, Polled, Passed, Carried
<1>6. QED
  BY <1>1, <1>2, <1>3, <1>4, <1>5 DEF Next

\* The listener's inductive invariant holds in every reachable state.
THEOREM ListenerSafe == Spec => []ListenerInv
<1>1. QED
  BY ListenerInit, ListenerStep, PTL DEF Spec

-----------------------------------------------------------------------------
(* The results.                                                            *)

\* How many workers there are somewhere, when there is none or one.
LEMMA AtZero ==
    ASSUME NEW where, \A k \in Worker : pc[k] \notin where
    PROVE  At(where) = 0
<1>1. {k \in Worker : pc[k] \in where} = {}
  OBVIOUS
<1>2. QED
  BY <1>1, FS_EmptySet DEF At

\* One worker there and no other.
LEMMA AtOne ==
    ASSUME NEW where, NEW k \in Worker, pc[k] \in where,
           \A j \in Worker : j # k => pc[j] \notin where
    PROVE  At(where) = 1
<1>1. {j \in Worker : pc[j] \in where} = {k}
  OBVIOUS
<1>2. QED
  BY <1>1, FS_Singleton DEF At

\* The cases of the inductive invariant are the ones OnePlace counts.
LEMMA PlaceCounts == ListenerInv => OnePlace
<1> SUFFICES ASSUME ListenerInv
             PROVE  OnePlace
  OBVIOUS
<1> DEFINE c == At({"spin", "drain", "release", "null", "callback"})
           p == At({"spin"})
<1>1. /\ arg \in BOOLEAN /\ armed \in BOOLEAN /\ reported \in BOOLEAN
      /\ One(TRUE) = 1 /\ One(FALSE) = 0
  BY DEF ListenerInv, TypeOK, One
<1>2. ASSUME NoCarrier
      PROVE  c = 0 /\ p = 0
  <2>1. c = 0
    BY <1>2, AtZero DEF NoCarrier, Carrying
  <2>2. p = 0
    <3>1. \A k \in Worker : pc[k] \notin {"spin"}
      BY <1>2 DEF NoCarrier, Carrying
    <3>2. QED
      BY <3>1, AtZero
  <2>3. QED
    BY <2>1, <2>2
<1>3. ASSUME NEW k \in Worker, Carrier(k)
      PROVE  c = 1 /\ p = (IF pc[k] = "spin" THEN 1 ELSE 0)
  <2>1. c = 1
    BY <1>3, AtOne DEF Carrier, Carrying
  <2>2. CASE pc[k] = "spin"
    <3>1. pc[k] \in {"spin"} /\ \A j \in Worker : j # k => pc[j] \notin {"spin"}
      BY <1>3, <2>2 DEF Carrier, Carrying
    <3>2. QED
      BY <2>1, <2>2, <3>1, AtOne
  <2>3. CASE pc[k] # "spin"
    <3>1. \A j \in Worker : pc[j] \notin {"spin"}
      BY <1>3, <2>3 DEF Carrier, Carrying
    <3>2. QED
      BY <2>1, <2>3, <3>1, AtZero
  <2>4. QED
    BY <2>2, <2>3
<1> HIDE DEF c, p
<1>4. SUFFICES /\ One(armed) + One(reported) + handed + c = One(conn # "none")
               /\ arg <=> (armed \/ reported \/ handed = 1 \/ p = 1)
  BY <1>1 DEF OnePlace, c, p
<1>5. CASE Nowhere
  <2>1. armed = FALSE /\ reported = FALSE /\ (conn # "none") = FALSE /\ handed = 0 /\ ~arg
    BY <1>1, <1>5 DEF Nowhere, ListenerInv, Linked
  <2>2. c = 0 /\ p = 0
    BY <1>2, <1>5 DEF Nowhere
  <2>3. One(armed) = 0 /\ One(reported) = 0 /\ One(conn # "none") = 0
    BY <1>1, <2>1
  <2>4. One(armed) + One(reported) + handed + c = One(conn # "none")
    BY <2>1, <2>2, <2>3
  <2>5. arg <=> (armed \/ reported \/ handed = 1 \/ p = 1)
    BY <2>1, <2>2
  <2>6. QED
    BY <2>4, <2>5
<1>6. CASE Watched
  <2>1. armed = TRUE /\ reported = FALSE /\ (conn # "none") = TRUE /\ handed = 0 /\ arg
    BY <1>1, <1>6 DEF Watched, ListenerInv, Linked
  <2>2. c = 0 /\ p = 0
    BY <1>2, <1>6 DEF Watched
  <2>3. One(armed) = 1 /\ One(reported) = 0 /\ One(conn # "none") = 1
    BY <1>1, <2>1
  <2>4. One(armed) + One(reported) + handed + c = One(conn # "none")
    BY <2>1, <2>2, <2>3
  <2>5. arg <=> (armed \/ reported \/ handed = 1 \/ p = 1)
    BY <2>1, <2>2
  <2>6. QED
    BY <2>4, <2>5
<1>7. CASE Polled
  <2>1. armed = FALSE /\ reported = TRUE /\ (conn # "none") = TRUE /\ handed = 0 /\ arg
    BY <1>1, <1>7 DEF Polled, ListenerInv, Linked
  <2>2. c = 0 /\ p = 0
    BY <1>2, <1>7 DEF Polled
  <2>3. One(armed) = 0 /\ One(reported) = 1 /\ One(conn # "none") = 1
    BY <1>1, <2>1
  <2>4. One(armed) + One(reported) + handed + c = One(conn # "none")
    BY <2>1, <2>2, <2>3
  <2>5. arg <=> (armed \/ reported \/ handed = 1 \/ p = 1)
    BY <2>1, <2>2
  <2>6. QED
    BY <2>4, <2>5
<1>8. CASE Passed
  <2>1. armed = FALSE /\ reported = FALSE /\ (conn # "none") = TRUE /\ handed = 1 /\ arg
    BY <1>1, <1>8 DEF Passed, ListenerInv, Linked
  <2>2. c = 0 /\ p = 0
    BY <1>2, <1>8 DEF Passed
  <2>3. One(armed) = 0 /\ One(reported) = 0 /\ One(conn # "none") = 1
    BY <1>1, <2>1
  <2>4. One(armed) + One(reported) + handed + c = One(conn # "none")
    BY <2>1, <2>2, <2>3
  <2>5. arg <=> (armed \/ reported \/ handed = 1 \/ p = 1)
    BY <2>1, <2>2
  <2>6. QED
    BY <2>4, <2>5
<1>9. ASSUME NEW k \in Worker, Carried(k)
      PROVE  /\ One(armed) + One(reported) + handed + c = One(conn # "none")
             /\ arg <=> (armed \/ reported \/ handed = 1 \/ p = 1)
  <2>1. /\ armed = FALSE /\ reported = FALSE /\ (conn # "none") = TRUE /\ handed = 0
        /\ arg <=> pc[k] = "spin"
    BY <1>1, <1>9 DEF Carried, Carrier, ListenerInv, Linked
  <2>2. c = 1 /\ p = (IF pc[k] = "spin" THEN 1 ELSE 0)
    BY <1>3, <1>9 DEF Carried
  <2>3. One(armed) = 0 /\ One(reported) = 0 /\ One(conn # "none") = 1
    BY <1>1, <2>1
  <2>4. One(armed) + One(reported) + handed + c = One(conn # "none")
    BY <2>1, <2>2, <2>3
  <2>5. arg <=> (armed \/ reported \/ handed = 1 \/ p = 1)
    BY <2>1, <2>2
  <2>6. QED
    BY <2>4, <2>5
<1>10. QED
  BY <1>5, <1>6, <1>7, <1>8, <1>9 DEF ListenerInv, Place

\* Every reachable state is of the declared type, whatever the bounds.
THEOREM ListenerTypeCorrect == Spec => []TypeOK
<1>1. ListenerInv => TypeOK
  BY DEF ListenerInv
<1>2. QED
  BY <1>1, ListenerSafe, PTL

\* A listener is in one place and is ended once: it is not lost between the poll
\* thread, the pause and the workers, and no two of them have it.
THEOREM ListenerInOnePlace == Spec => []OnePlace
<1>1. QED
  BY PlaceCounts, ListenerSafe, PTL

\* No accept and no poll step uses a listener that was released.
THEOREM AcceptsAreSafe == Spec => []AcceptSafe
<1>1. ListenerInv => AcceptSafe
  BY DEF ListenerInv
<1>2. QED
  BY <1>1, ListenerSafe, PTL

\* A suspension lasts until the consumer resumes or kills the listener.
THEOREM SuspensionsAreKept == Spec => SuspensionKept
<1>1. ListenerInv /\ [Next]_vars =>
        ["LISTENER_SUSPENDED" \in flags \ flags' =>
            SocketListenerResume \/ "LISTENER_KILLED" \in flags' \/ conn' = "none"]_vars
  <2> SUFFICES ASSUME ListenerInv, Next, "LISTENER_SUSPENDED" \in flags, "LISTENER_SUSPENDED" \notin flags',
                      ~SocketListenerResume
               PROVE  "LISTENER_KILLED" \in flags' \/ conn' = "none"
    OBVIOUS
  <2>1. CASE ConnAListen
    <3>1. Nowhere
      BY <2>1 DEF ConnAListen, ListenerInv, Place, Watched, Polled, Passed, Carried
    <3>2. QED
      BY <3>1 DEF ListenerInv, Life
  <2>2. CASE SocketEventKill
    BY <2>2 DEF SocketEventKill
  <2>3. ASSUME SocketListenerSuspend \/ Connect \/ LoadChanges \/ CountUpdated \/ acceptPickup
        PROVE  FALSE
    BY <2>3 DEF SocketListenerSuspend, Connect, LoadChanges, CountUpdated, acceptPickup
  <2>4. ASSUME Poll
        PROVE  FALSE
    BY <2>4 DEF Poll, EpollReports, HandleKilled, HandleAccept, HandleAcceptFails, Requeued, NotRequeued
  <2>5. ASSUME NEW k \in Worker, sockEventListenerRequeue(k)
        PROVE  "LISTENER_KILLED" \in flags'
    BY <2>5 DEF sockEventListenerRequeue, SpinEnds
  <2>6. ASSUME NEW k \in Worker, AsyncListenerCallback(k)
        PROVE  conn' = "none"
    BY <2>6 DEF AsyncListenerCallback
  <2>7. ASSUME NEW k \in Worker,
               HandleSocketEvent(k) \/ ListenerStarted(k) \/ AcceptsDrained(k) \/ asyncListenerRelease(k)
        PROVE  FALSE
    BY <2>7 DEF HandleSocketEvent, ListenerStarted, AcceptsDrained, asyncListenerRelease
  <2>8. QED
    BY <2>1, <2>2, <2>3, <2>4, <2>5, <2>6, <2>7 DEF Next, Work
<1>2. QED
  BY <1>1, ListenerSafe, PTL DEF Spec, SuspensionKept
=============================================================================
