-------------------------- MODULE SyncSlotsProofs --------------------------
(***************************************************************************)
(* Proofs about SyncSlots, for any number of threads, items and buffers    *)
(* of any size: whatever the consumer does, the types, that the slots      *)
(* serialise the calls and that they come back at the end; and, as long as *)
(* no call was beside one that writes, that no item is lost from sight,     *)
(* sent twice, out of order or under another protection than the one it    *)
(* was written under.                                                      *)
(***************************************************************************)
EXTENDS SyncSlots, TLAPS

-----------------------------------------------------------------------------
(* The invariants.                                                         *)

\* No buffer holds more than fits.
Bounded ==
    /\ Len(sendBuffer) <= BufferSize
    /\ \A t \in Thread : Len(frame[t].hold) <= BufferSize /\ Len(frame[t].seen) <= BufferSize

TypeInv == TypeOK /\ Bounded

\* What the consumer keeps to: one call sends at a time, and one that connects or
\* frees is the only one.
Apart ==
    \A t, u \in Thread :
        t # u /\ pc[t] # "idle" /\ pc[u] # "idle" =>
            /\ frame[t].call \notin {"FREE", "CONNECT"}
            /\ ~(frame[t].call \in SendCall /\ frame[u].call \in SendCall)

\* As long as no call was beside one that writes: it is the only one, too.
Alone ==
    \A t, u \in Thread :
        t # u /\ pc[t] # "idle" /\ pc[u] # "idle" => frame[t].call \notin SendCall \cup {"FREE", "CONNECT"}

\* The connection is in the hands of thread t, from the insert of its event to
\* the removal.
Has(t) ==
    \/ pc[t] \in {"callback", "flush", "work", "remove"}
    \/ pc[t] \in {"get", "clear"} /\ frame[t].call \in ConnectCall

\* Where each call can be.
PlaceOf(t) ==
    /\ pc[t] = "idle" => frame[t] = NoCall
    /\ pc[t] = "swap" => frame[t].call = "READ"
    /\ pc[t] \in {"get", "clear"} => frame[t].call # "READ"
    /\ pc[t] = "fill" => frame[t].call = "WRITE"
    /\ pc[t] = "callback" => frame[t].call = "WRITE_FROM_CB"
    /\ pc[t] = "work" => frame[t].call \notin SendCall
    /\ frame[t].failed => frame[t].call \in {"CONNECT", "WRITE"}

\* The slot of an event is the one its class takes; a read that flushes is in
\* the connect slot.
ClassOf(t) == Has(t) =>
    /\ active[frame[t].slot] = t
    /\ frame[t].call \in ConnectCall => frame[t].slot = "connect"
    /\ frame[t].call \in SendCall => frame[t].slot = "send"
    /\ frame[t].call = "READ" => frame[t].slot \in {"receive", "connect"}
    /\ frame[t].call = "READ" /\ pc[t] = "flush" => frame[t].slot = "connect"

Places == \A t \in Thread : PlaceOf(t)
Classes == \A t \in Thread : ClassOf(t)

\* A slot is taken only by a thread that has the connection, but for the send
\* slot once its event was overtaken, ...
TakenBy(t) ==
    /\ \A s \in Slot : active[s] = t => (Has(t) /\ frame[t].slot = s) \/ (s = "send" /\ overtaken)
    /\ lock = t <=> pc[t] = "swap"

Taken == \A t \in Thread : TakenBy(t)

\* ... the connect slot excludes the others, and so does a read that is about
\* to take one; with data to flush it will take the connect slot.
Sending(t) == Has(t) /\ frame[t].slot = "send"
Exclusive ==
    /\ active["connect"] # NoThread => active["receive"] = NoThread /\ \A t \in Thread : ~Sending(t)
    /\ lock # NoThread => active["connect"] = NoThread /\ active["receive"] = NoThread
    /\ \A t, u \in Thread : pc[t] = "swap" /\ frame[t].seen # << >> => ~Sending(u)

\* The state of the connection tells whether it is in use, but for a send whose
\* event was overtaken.
InUse == active["connect"] # NoThread \/ active["receive"] # NoThread \/ lock # NoThread
States ==
    /\ InUse => state = "SYNCHRONOUS"
    /\ \A t \in Thread : Sending(t) => state = "SYNCHRONOUS" \/ overtaken
    /\ state = "SYNCHRONOUS" => InUse \/ \E t \in Thread : Sending(t)
    /\ state = "CACHED" => sendBuffer = << >> /\ \A t \in Thread : pc[t] = "idle"

\* A call that sends leaves no buffer behind it while it works.
EmptyFor(t) ==
    /\ frame[t].call \in SendCall
    /\ \/ pc[t] \in {"fill", "insert", "callback", "flush", "remove"}
       \/ pc[t] = "clear" /\ frame[t].seen = << >>
Emptied == \A t \in Thread : EmptyFor(t) => sendBuffer = << >>

SlotInv == Apart /\ Places /\ Classes /\ Taken /\ Exclusive /\ States /\ Emptied

\* With the last it is what the data needs.
SoloInv == SlotInv /\ Alone

\* A thread that owns a buffer, or has found that it needs none.
Owner(t) ==
    \/ pc[t] \in {"fill", "callback", "flush"}
    \/ pc[t] = "insert" /\ frame[t].call \in SendCall

\* A thread at the start or the end of a secured session, and one that has the
\* connection all but freed.
Securing(t) == pc[t] = "work" /\ frame[t].call \in {"SSL_CONNECT", "SSL_DISCONNECT"}
Freeing(t) == pc[t] = "remove" /\ frame[t].call = "FREE"

\* Buffer s holds the items written last, and those before them have been sent
\* or freed; m are the marks, w is what was sent, l what was freed.
SentOf(w) == {w[i][1] : i \in DOMAIN w}
Settled(s, m, w, l) ==
    /\ Len(s) <= Len(m)
    /\ \A i \in 1 .. Len(s) : s[i] = (Len(m) - Len(s)) + i
    /\ SentOf(w) \cup l = 1 .. (Len(m) - Len(s))

\* The items of buffer s were written under protection x.
Under(s, m, x) == \A i \in 1 .. Len(s) : m[s[i]] = x

\* What was sent is in order and was not freed as well, ...
Ordered(w, l) ==
    /\ SentOf(w) \cap l = {}
    /\ \A i, j \in DOMAIN w : i < j => w[i][1] < w[j][1]

\* ... and was sent under the protection it was written under.
Faithful(w, m) == \A i \in DOMAIN w : w[i][2] = m[w[i][1]]

\* What thread t knows of the buffers: what it has read of the connection's one
\* is still there; if it has one of its own, the connection has none, and if
\* not, it holds nothing.
OwnData(t) ==
    /\ frame[t].seen = IF pc[t] \in {"clear", "swap"} THEN sendBuffer ELSE << >>
    /\ Owner(t) => /\ sendBuffer = << >>
                   /\ Settled(frame[t].hold, mark, wire, lost)
                   /\ Under(frame[t].hold, mark, secured)
    /\ ~Owner(t) => frame[t].hold = << >>
    /\ Securing(t) => sendBuffer = << >>

\* When no thread has a buffer the connection's one has all that is pending.
Buffered ==
    \/ \E t \in Thread : Owner(t)
    \/ /\ Settled(sendBuffer, mark, wire, lost)
       /\ Under(sendBuffer, mark, secured) \/ \E t \in Thread : Freeing(t)

DataInv ==
    /\ \A t \in Thread : OwnData(t)
    /\ Buffered
    /\ Ordered(wire, lost)
    /\ Faithful(wire, mark)

-----------------------------------------------------------------------------
(* Buffers.                                                                *)

\* What is copied is no more than fits and no more than there is.
LEMMA ChunkFits ==
    ASSUME NEW space \in Nat, NEW todo \in Nat
    PROVE  Chunk(space, todo) \in Nat /\ Chunk(space, todo) <= space /\ Chunk(space, todo) <= todo
BY DEF Chunk

\* Two sequences joined.
LEMMA SeqConcat ==
    ASSUME NEW S, NEW s \in Seq(S), NEW t \in Seq(S)
    PROVE  s \o t \in Seq(S) /\ Len(s \o t) = Len(s) + Len(t)
OBVIOUS

\* Filling appends the items that are written next.
LEMMA FilledBuffer ==
    ASSUME NEW s \in Seq(Nat), NEW n \in Nat, mark \in Seq(BOOLEAN)
    PROVE  /\ Filled(s, n) \in Seq(Nat)
           /\ Len(Filled(s, n)) = Len(s) + n
           /\ \A i \in 1 .. Len(s) : Filled(s, n)[i] = s[i]
           /\ \A i \in Len(s) + 1 .. Len(s) + n : Filled(s, n)[i] = Len(mark) + (i - Len(s))
<1> DEFINE w == [i \in 1..n |-> Len(mark) + i]
<1>1. w \in Seq(Nat) /\ Len(w) = n
  OBVIOUS
<1>2. \A i \in 1..n : w[i] = Len(mark) + i
  OBVIOUS
<1>3. Filled(s, n) = s \o w
  BY DEF Filled
<1> HIDE DEF w
<1>4. Filled(s, n) \in Seq(Nat) /\ Len(Filled(s, n)) = Len(s) + n
  BY <1>1, <1>3, SeqConcat
<1>5. \A i \in 1 .. Len(s) : Filled(s, n)[i] = s[i]
  BY <1>1, <1>3
<1>6. \A i \in Len(s) + 1 .. Len(s) + n : Filled(s, n)[i] = Len(mark) + (i - Len(s))
  <2> SUFFICES ASSUME NEW i \in Len(s) + 1 .. Len(s) + n
               PROVE  Filled(s, n)[i] = Len(mark) + (i - Len(s))
    OBVIOUS
  <2>1. Filled(s, n)[i] = w[i - Len(s)]
    BY <1>1, <1>3
  <2>2. i - Len(s) \in 1..n
    OBVIOUS
  <2>3. QED
    BY <2>1, <2>2, <1>2
<1>7. QED
  BY <1>4, <1>5, <1>6

\* Each item written is marked with the protection in force.
LEMMA WrittenMarks ==
    ASSUME NEW n \in Nat, mark \in Seq(BOOLEAN), secured \in BOOLEAN, Written(n)
    PROVE  /\ mark' \in Seq(BOOLEAN)
           /\ Len(mark') = Len(mark) + n
           /\ \A i \in 1 .. Len(mark) : mark'[i] = mark[i]
           /\ \A i \in Len(mark) + 1 .. Len(mark) + n : mark'[i] = secured
<1> DEFINE w == [i \in 1..n |-> secured]
<1>1. w \in Seq(BOOLEAN) /\ Len(w) = n
  OBVIOUS
<1>2. \A i \in 1..n : w[i] = secured
  OBVIOUS
<1>3. mark' = mark \o w
  BY DEF Written
<1> HIDE DEF w
<1>4. mark' \in Seq(BOOLEAN) /\ Len(mark') = Len(mark) + n
  BY <1>1, <1>3, SeqConcat
<1>5. \A i \in 1 .. Len(mark) : mark'[i] = mark[i]
  BY <1>1, <1>3
<1>6. \A i \in Len(mark) + 1 .. Len(mark) + n : mark'[i] = secured
  <2> SUFFICES ASSUME NEW i \in Len(mark) + 1 .. Len(mark) + n PROVE mark'[i] = secured
    OBVIOUS
  <2>1. mark'[i] = w[i - Len(mark)]
    BY <1>1, <1>3
  <2>2. i - Len(mark) \in 1..n
    OBVIOUS
  <2>3. QED
    BY <2>1, <2>2, <1>2
<1>7. QED
  BY <1>4, <1>5, <1>6

-----------------------------------------------------------------------------
(* The locals of a thread.                                                 *)

\* A step of thread t: nobody else moves.
Moves(t) ==
    /\ pc' \in [Thread -> Label]
    /\ frame' \in [Thread -> Frame]
    /\ \A u \in Thread \ {t} : pc'[u] = pc[u] /\ frame'[u] = frame[u]

\* Thread t comes to l with these locals.
Becomes(t, l, c, s, n, h, d, x) ==
    /\ pc'[t] = l
    /\ frame'[t].call = c
    /\ frame'[t].slot = s
    /\ frame'[t].seen = n
    /\ frame'[t].hold = h
    /\ frame'[t].todo = d
    /\ frame'[t].failed <=> x

\* The locals have their types.
LEMMA FrameFields ==
    ASSUME TypeOK, NEW t \in Thread
    PROVE  /\ frame[t] \in Frame
           /\ frame[t].call \in Call
           /\ frame[t].slot \in Slot
           /\ frame[t].seen \in Seq(Nat)
           /\ frame[t].hold \in Seq(Nat)
           /\ frame[t].todo \in Nat
           /\ frame[t].failed \in BOOLEAN
           /\ frame[t] = [call |-> frame[t].call, slot |-> frame[t].slot, seen |-> frame[t].seen,
                          hold |-> frame[t].hold, todo |-> frame[t].todo, failed |-> frame[t].failed]
<1>1. frame[t] \in Frame
  BY DEF TypeOK
<1>2. QED
  BY <1>1 DEF Frame

\* The locals of a call that begins.
LEMMA CalledFields ==
    ASSUME NEW c \in Call, NEW n \in Nat
    PROVE  Called(c, n) \in Frame
<1>1. << >> \in Seq(Nat) /\ "connect" \in Slot
  BY DEF Slot
<1>2. QED
  BY <1>1 DEF Called, Frame

\* A thread gets new locals and goes to a new place.
LEMMA ThreadMoves ==
    ASSUME TypeOK, NEW t \in Thread, NEW l \in Label, NEW g \in Frame,
           Goto(t, l), frame' = [frame EXCEPT ![t] = g]
    PROVE  Moves(t) /\ Becomes(t, l, g.call, g.slot, g.seen, g.hold, g.todo, g.failed) /\ frame'[t] = g
<1>1. frame' \in [Thread -> Frame] /\ frame'[t] = g /\ \A u \in Thread \ {t} : frame'[u] = frame[u]
  BY DEF TypeOK
<1>2. pc' \in [Thread -> Label] /\ pc'[t] = l /\ \A u \in Thread \ {t} : pc'[u] = pc[u]
  BY DEF Goto, TypeOK
<1>3. QED
  BY <1>1, <1>2 DEF Moves, Becomes

\* Where a thread is that has returned from its call.
Returned(t) ==
    pc'[t] = "idle" /\ frame'[t] = NoCall /\ Becomes(t, "idle", "READ", "connect", << >>, << >>, 0, FALSE)

\* Return brings the thread there and moves no other.
LEMMA ThreadReturns ==
    ASSUME TypeOK, NEW t \in Thread, Return(t)
    PROVE  Moves(t) /\ Returned(t)
<1>1. "READ" \in Call /\ "idle" \in Label
  BY DEF Call, Label
<1>2. NoCall \in Frame
  BY <1>1, CalledFields DEF NoCall
<1>3. Moves(t) /\ frame'[t] = NoCall /\ pc'[t] = "idle"
  BY <1>1, <1>2, ThreadMoves DEF Return, Becomes
<1>4. QED
  BY <1>3 DEF Returned, Becomes, NoCall, Called

-----------------------------------------------------------------------------
(* What each step does to the locals of its thread.                        *)

\* The pointer of the send buffer is read.
LEMMA SendDataReadMoves ==
    ASSUME TypeOK, NEW t \in Thread, SendDataRead(t)
    PROVE  /\ Moves(t)
           /\ Becomes(t, "clear", frame[t].call, frame[t].slot, sendBuffer, frame[t].hold, frame[t].todo, frame[t].failed)
<1>1. /\ << >> \in Seq(Nat) /\ sendBuffer \in Seq(Nat)
      /\ frame[t] \in Frame /\ frame[t].call \in Call /\ frame[t].slot \in Slot /\ frame[t].seen \in Seq(Nat)
      /\ frame[t].hold \in Seq(Nat) /\ frame[t].todo \in Nat /\ frame[t].failed \in BOOLEAN
  BY FrameFields DEF TypeOK
<1> DEFINE g == [frame[t] EXCEPT !.seen = sendBuffer]
<1>2. Goto(t, "clear")
  BY DEF SendDataRead
<1>3. "clear" \in Label
  BY <1>1 DEF SendDataRead, Slot, Label, Call, ConnectCall, SendCall
<1>4. frame' = [frame EXCEPT ![t].seen = sendBuffer]
  BY DEF SendDataRead
<1>5. sendBuffer \in Seq(Nat)
  BY <1>1 DEF SendDataRead, Slot
<1>6. g \in Frame
  BY <1>1, <1>5 DEF Frame
<1>7. frame' = [frame EXCEPT ![t] = g]
  BY <1>4
<1>8. /\ g.call = frame[t].call /\ g.slot = frame[t].slot /\ g.seen = sendBuffer
      /\ g.hold = frame[t].hold /\ g.todo = frame[t].todo /\ g.failed = frame[t].failed
  BY <1>1 DEF Frame
<1> HIDE DEF g
<1>9. Moves(t) /\ Becomes(t, "clear", frame[t].call, frame[t].slot, sendBuffer, frame[t].hold, frame[t].todo, frame[t].failed)
  BY <1>2, <1>3, <1>6, <1>7, <1>8, ThreadMoves
<1>10. QED
  BY <1>9

\* The send buffer is handed over.
LEMMA SendDataClearMoves ==
    ASSUME TypeOK, NEW t \in Thread, SendDataClear(t)
    PROVE  /\ Moves(t)
           /\ ~(frame[t].call = "FLUSH" /\ frame[t].seen = << >>) =>
                Becomes(t, WithBuffer(frame[t]), frame[t].call, frame[t].slot, << >>, frame[t].seen, frame[t].todo, frame[t].failed)
           /\ frame[t].call = "FLUSH" /\ frame[t].seen = << >> => Returned(t)
<1>1. /\ << >> \in Seq(Nat) /\ sendBuffer \in Seq(Nat)
      /\ frame[t] \in Frame /\ frame[t].call \in Call /\ frame[t].slot \in Slot /\ frame[t].seen \in Seq(Nat)
      /\ frame[t].hold \in Seq(Nat) /\ frame[t].todo \in Nat /\ frame[t].failed \in BOOLEAN
  BY FrameFields DEF TypeOK
<1>2. CASE ~(frame[t].call = "FLUSH" /\ frame[t].seen = << >>)
  <2> DEFINE g == [frame[t] EXCEPT !.hold = frame[t].seen, !.seen = << >>]
  <2>1. Goto(t, WithBuffer(frame[t]))
    BY <1>2 DEF SendDataClear
  <2>2. WithBuffer(frame[t]) \in Label
    BY <1>1 DEF SendDataClear, WithBuffer, Slot, Label, Call, ConnectCall, SendCall
  <2>3. frame' = [frame EXCEPT ![t].hold = frame[t].seen, ![t].seen = << >>]
    BY <1>2 DEF SendDataClear
  <2>4. frame[t].seen \in Seq(Nat) /\ << >> \in Seq(Nat)
    BY <1>1 DEF SendDataClear, WithBuffer, Slot
  <2>5. g \in Frame
    BY <1>1, <2>4 DEF Frame
  <2>6. frame' = [frame EXCEPT ![t] = g]
    BY <2>3
  <2>7. /\ g.call = frame[t].call /\ g.slot = frame[t].slot /\ g.seen = << >>
        /\ g.hold = frame[t].seen /\ g.todo = frame[t].todo /\ g.failed = frame[t].failed
    BY <1>1 DEF Frame
  <2> HIDE DEF g
  <2>8. Moves(t) /\ Becomes(t, WithBuffer(frame[t]), frame[t].call, frame[t].slot, << >>, frame[t].seen, frame[t].todo, frame[t].failed)
    BY <2>1, <2>2, <2>5, <2>6, <2>7, ThreadMoves
  <2>9. QED
    BY <1>2, <2>8
<1>3. CASE frame[t].call = "FLUSH" /\ frame[t].seen = << >>
  <2>1. Return(t)
    BY <1>3 DEF SendDataClear
  <2>2. QED
    BY <1>3, <2>1, ThreadReturns
<1>4. QED
  BY <1>2, <1>3

\* A call of the connect class takes its slot, or is refused.
LEMMA SynchronousConnectEventInsertMoves ==
    ASSUME TypeOK, NEW t \in Thread, SynchronousConnectEventInsert(t)
    PROVE  /\ Moves(t)
           /\ ConnectPermitted =>
                Becomes(t, ConnectStep(frame[t].call), frame[t].call, "connect", frame[t].seen, frame[t].hold, frame[t].todo, frame[t].failed)
           /\ ~ConnectPermitted => Returned(t)
<1>1. /\ << >> \in Seq(Nat) /\ sendBuffer \in Seq(Nat)
      /\ frame[t] \in Frame /\ frame[t].call \in Call /\ frame[t].slot \in Slot /\ frame[t].seen \in Seq(Nat)
      /\ frame[t].hold \in Seq(Nat) /\ frame[t].todo \in Nat /\ frame[t].failed \in BOOLEAN
  BY FrameFields DEF TypeOK
<1>2. CASE ConnectPermitted
  <2> DEFINE g == [frame[t] EXCEPT !.slot = "connect"]
  <2>1. Goto(t, ConnectStep(frame[t].call))
    BY <1>2 DEF SynchronousConnectEventInsert
  <2>2. ConnectStep(frame[t].call) \in Label
    BY <1>1 DEF SynchronousConnectEventInsert, ConnectStep, DisconnectStep, SSLConnectStep, SSLDisconnectStep, FreeStep, Slot, Label, Call, ConnectCall, SendCall
  <2>3. frame' = [frame EXCEPT ![t].slot = "connect"]
    BY <1>2 DEF SynchronousConnectEventInsert
  <2>4. "connect" \in Slot
    BY <1>1 DEF SynchronousConnectEventInsert, ConnectStep, DisconnectStep, SSLConnectStep, SSLDisconnectStep, FreeStep, Slot
  <2>5. g \in Frame
    BY <1>1, <2>4 DEF Frame
  <2>6. frame' = [frame EXCEPT ![t] = g]
    BY <2>3
  <2>7. /\ g.call = frame[t].call /\ g.slot = "connect" /\ g.seen = frame[t].seen
        /\ g.hold = frame[t].hold /\ g.todo = frame[t].todo /\ g.failed = frame[t].failed
    BY <1>1 DEF Frame
  <2> HIDE DEF g
  <2>8. Moves(t) /\ Becomes(t, ConnectStep(frame[t].call), frame[t].call, "connect", frame[t].seen, frame[t].hold, frame[t].todo, frame[t].failed)
    BY <2>1, <2>2, <2>5, <2>6, <2>7, ThreadMoves
  <2>9. QED
    BY <1>2, <2>8
<1>3. CASE ~ConnectPermitted
  <2>1. Return(t)
    BY <1>3 DEF SynchronousConnectEventInsert
  <2>2. QED
    BY <1>3, <2>1, ThreadReturns
<1>4. QED
  BY <1>2, <1>3

\* A read finds that it may take a slot, or is refused.
LEMMA SynchronousReceiveEventInsertMoves ==
    ASSUME TypeOK, NEW t \in Thread, SynchronousReceiveEventInsert(t)
    PROVE  /\ Moves(t)
           /\ ReceivePermitted =>
                Becomes(t, "swap", frame[t].call, frame[t].slot, sendBuffer, frame[t].hold, frame[t].todo, frame[t].failed)
           /\ ~ReceivePermitted => Returned(t)
<1>1. /\ << >> \in Seq(Nat) /\ sendBuffer \in Seq(Nat)
      /\ frame[t] \in Frame /\ frame[t].call \in Call /\ frame[t].slot \in Slot /\ frame[t].seen \in Seq(Nat)
      /\ frame[t].hold \in Seq(Nat) /\ frame[t].todo \in Nat /\ frame[t].failed \in BOOLEAN
  BY FrameFields DEF TypeOK
<1>2. CASE ReceivePermitted
  <2> DEFINE g == [frame[t] EXCEPT !.seen = sendBuffer]
  <2>1. Goto(t, "swap")
    BY <1>2 DEF SynchronousReceiveEventInsert
  <2>2. "swap" \in Label
    BY <1>1 DEF SynchronousReceiveEventInsert, Slot, Label, Call, ConnectCall, SendCall
  <2>3. frame' = [frame EXCEPT ![t].seen = sendBuffer]
    BY <1>2 DEF SynchronousReceiveEventInsert
  <2>4. sendBuffer \in Seq(Nat)
    BY <1>1 DEF SynchronousReceiveEventInsert, Slot
  <2>5. g \in Frame
    BY <1>1, <2>4 DEF Frame
  <2>6. frame' = [frame EXCEPT ![t] = g]
    BY <2>3
  <2>7. /\ g.call = frame[t].call /\ g.slot = frame[t].slot /\ g.seen = sendBuffer
        /\ g.hold = frame[t].hold /\ g.todo = frame[t].todo /\ g.failed = frame[t].failed
    BY <1>1 DEF Frame
  <2> HIDE DEF g
  <2>8. Moves(t) /\ Becomes(t, "swap", frame[t].call, frame[t].slot, sendBuffer, frame[t].hold, frame[t].todo, frame[t].failed)
    BY <2>1, <2>2, <2>5, <2>6, <2>7, ThreadMoves
  <2>9. QED
    BY <1>2, <2>8
<1>3. CASE ~ReceivePermitted
  <2>1. Return(t)
    BY <1>3 DEF SynchronousReceiveEventInsert
  <2>2. QED
    BY <1>3, <2>1, ThreadReturns
<1>4. QED
  BY <1>2, <1>3

\* A read takes its slot.
LEMMA ReceiveEventSetMoves ==
    ASSUME TypeOK, NEW t \in Thread, ReceiveEventSet(t)
    PROVE  /\ Moves(t)
           /\ Becomes(t, IF frame[t].seen = << >> THEN "work" ELSE "flush", frame[t].call, ReceiveSlot(frame[t]), << >>, frame[t].seen, frame[t].todo, frame[t].failed)
<1>1. /\ << >> \in Seq(Nat) /\ sendBuffer \in Seq(Nat)
      /\ frame[t] \in Frame /\ frame[t].call \in Call /\ frame[t].slot \in Slot /\ frame[t].seen \in Seq(Nat)
      /\ frame[t].hold \in Seq(Nat) /\ frame[t].todo \in Nat /\ frame[t].failed \in BOOLEAN
  BY FrameFields DEF TypeOK
<1> DEFINE g == [frame[t] EXCEPT !.slot = ReceiveSlot(frame[t]), !.hold = frame[t].seen, !.seen = << >>]
<1>2. Goto(t, IF frame[t].seen = << >> THEN "work" ELSE "flush")
  BY DEF ReceiveEventSet
<1>3. (IF frame[t].seen = << >> THEN "work" ELSE "flush") \in Label
  BY <1>1 DEF ReceiveEventSet, ReceiveSlot, Slot, Label, Call, ConnectCall, SendCall
<1>4. frame' = [frame EXCEPT ![t].slot = ReceiveSlot(frame[t]), ![t].hold = frame[t].seen, ![t].seen = << >>]
  BY DEF ReceiveEventSet
<1>5. ReceiveSlot(frame[t]) \in Slot /\ frame[t].seen \in Seq(Nat) /\ << >> \in Seq(Nat)
  BY <1>1 DEF ReceiveEventSet, ReceiveSlot, Slot
<1>6. g \in Frame
  BY <1>1, <1>5 DEF Frame
<1>7. frame' = [frame EXCEPT ![t] = g]
  BY <1>4
<1>8. /\ g.call = frame[t].call /\ g.slot = ReceiveSlot(frame[t]) /\ g.seen = << >>
      /\ g.hold = frame[t].seen /\ g.todo = frame[t].todo /\ g.failed = frame[t].failed
  BY <1>1 DEF Frame
<1> HIDE DEF g
<1>9. Moves(t) /\ Becomes(t, IF frame[t].seen = << >> THEN "work" ELSE "flush", frame[t].call, ReceiveSlot(frame[t]), << >>, frame[t].seen, frame[t].todo, frame[t].failed)
  BY <1>2, <1>3, <1>6, <1>7, <1>8, ThreadMoves
<1>10. QED
  BY <1>9

\* A call that sends takes its slot, or is refused.
LEMMA SynchronousSendEventInsertMoves ==
    ASSUME TypeOK, NEW t \in Thread, SynchronousSendEventInsert(t)
    PROVE  /\ Moves(t)
           /\ SendPermitted =>
                Becomes(t, IF frame[t].call = "WRITE_FROM_CB" THEN "callback" ELSE "flush", frame[t].call, "send", frame[t].seen, frame[t].hold, frame[t].todo, frame[t].failed)
           /\ ~SendPermitted => Returned(t)
<1>1. /\ << >> \in Seq(Nat) /\ sendBuffer \in Seq(Nat)
      /\ frame[t] \in Frame /\ frame[t].call \in Call /\ frame[t].slot \in Slot /\ frame[t].seen \in Seq(Nat)
      /\ frame[t].hold \in Seq(Nat) /\ frame[t].todo \in Nat /\ frame[t].failed \in BOOLEAN
  BY FrameFields DEF TypeOK
<1>2. CASE SendPermitted
  <2> DEFINE g == [frame[t] EXCEPT !.slot = "send"]
  <2>1. Goto(t, IF frame[t].call = "WRITE_FROM_CB" THEN "callback" ELSE "flush")
    BY <1>2 DEF SynchronousSendEventInsert
  <2>2. (IF frame[t].call = "WRITE_FROM_CB" THEN "callback" ELSE "flush") \in Label
    BY <1>1 DEF SynchronousSendEventInsert, Slot, Label, Call, ConnectCall, SendCall
  <2>3. frame' = [frame EXCEPT ![t].slot = "send"]
    BY <1>2 DEF SynchronousSendEventInsert
  <2>4. "send" \in Slot
    BY <1>1 DEF SynchronousSendEventInsert, Slot
  <2>5. g \in Frame
    BY <1>1, <2>4 DEF Frame
  <2>6. frame' = [frame EXCEPT ![t] = g]
    BY <2>3
  <2>7. /\ g.call = frame[t].call /\ g.slot = "send" /\ g.seen = frame[t].seen
        /\ g.hold = frame[t].hold /\ g.todo = frame[t].todo /\ g.failed = frame[t].failed
    BY <1>1 DEF Frame
  <2> HIDE DEF g
  <2>8. Moves(t) /\ Becomes(t, IF frame[t].call = "WRITE_FROM_CB" THEN "callback" ELSE "flush", frame[t].call, "send", frame[t].seen, frame[t].hold, frame[t].todo, frame[t].failed)
    BY <2>1, <2>2, <2>5, <2>6, <2>7, ThreadMoves
  <2>9. QED
    BY <1>2, <2>8
<1>3. CASE ~SendPermitted
  <2>1. Return(t)
    BY <1>3 DEF SynchronousSendEventInsert
  <2>2. QED
    BY <1>3, <2>1, ThreadReturns
<1>4. QED
  BY <1>2, <1>3

\* An item is sent.
LEMMA flushSendBufferMoves ==
    ASSUME TypeOK, NEW t \in Thread, flushSendBuffer(t)
    PROVE  /\ Moves(t)
           /\ Becomes(t, "flush", frame[t].call, frame[t].slot, frame[t].seen, Tail(frame[t].hold), frame[t].todo, frame[t].failed)
<1>1. /\ << >> \in Seq(Nat) /\ sendBuffer \in Seq(Nat)
      /\ frame[t] \in Frame /\ frame[t].call \in Call /\ frame[t].slot \in Slot /\ frame[t].seen \in Seq(Nat)
      /\ frame[t].hold \in Seq(Nat) /\ frame[t].todo \in Nat /\ frame[t].failed \in BOOLEAN
  BY FrameFields DEF TypeOK
<1> DEFINE g == [frame[t] EXCEPT !.hold = Tail(frame[t].hold)]
<1>2. Goto(t, "flush")
  BY DEF flushSendBuffer, Goto, TypeOK
<1>3. "flush" \in Label
  BY <1>1 DEF flushSendBuffer, Slot, Label, Call, ConnectCall, SendCall
<1>4. frame' = [frame EXCEPT ![t].hold = Tail(frame[t].hold)]
  BY DEF flushSendBuffer
<1>5. Tail(frame[t].hold) \in Seq(Nat)
  BY <1>1 DEF flushSendBuffer, Slot
<1>6. g \in Frame
  BY <1>1, <1>5 DEF Frame
<1>7. frame' = [frame EXCEPT ![t] = g]
  BY <1>4
<1>8. /\ g.call = frame[t].call /\ g.slot = frame[t].slot /\ g.seen = frame[t].seen
      /\ g.hold = Tail(frame[t].hold) /\ g.todo = frame[t].todo /\ g.failed = frame[t].failed
  BY <1>1 DEF Frame
<1> HIDE DEF g
<1>9. Moves(t) /\ Becomes(t, "flush", frame[t].call, frame[t].slot, frame[t].seen, Tail(frame[t].hold), frame[t].todo, frame[t].failed)
  BY <1>2, <1>3, <1>6, <1>7, <1>8, ThreadMoves
<1>10. QED
  BY <1>9

\* The flush fails.
LEMMA FlushFailsMoves ==
    ASSUME TypeOK, NEW t \in Thread, FlushFails(t)
    PROVE  /\ Moves(t)
           /\ Becomes(t, AfterFlush(frame[t].call), frame[t].call, frame[t].slot, frame[t].seen, << >>, frame[t].todo, (frame[t].failed \/ frame[t].call = "WRITE"))
<1>1. /\ << >> \in Seq(Nat) /\ sendBuffer \in Seq(Nat)
      /\ frame[t] \in Frame /\ frame[t].call \in Call /\ frame[t].slot \in Slot /\ frame[t].seen \in Seq(Nat)
      /\ frame[t].hold \in Seq(Nat) /\ frame[t].todo \in Nat /\ frame[t].failed \in BOOLEAN
  BY FrameFields DEF TypeOK
<1> DEFINE g == [frame[t] EXCEPT !.hold = << >>, !.failed = (frame[t].failed \/ frame[t].call = "WRITE")]
<1>2. Goto(t, AfterFlush(frame[t].call))
  BY DEF FlushFails
<1>3. AfterFlush(frame[t].call) \in Label
  BY <1>1 DEF FlushFails, AfterFlush, Slot, Label, Call, ConnectCall, SendCall
<1>4. frame' = [frame EXCEPT ![t].hold = << >>, ![t].failed = (frame[t].failed \/ frame[t].call = "WRITE")]
  BY DEF FlushFails
<1>5. << >> \in Seq(Nat) /\ (frame[t].failed \/ frame[t].call = "WRITE") \in BOOLEAN
  BY <1>1 DEF FlushFails, AfterFlush, Slot
<1>6. g \in Frame
  BY <1>1, <1>5 DEF Frame
<1>7. frame' = [frame EXCEPT ![t] = g]
  BY <1>4
<1>8. /\ g.call = frame[t].call /\ g.slot = frame[t].slot /\ g.seen = frame[t].seen
      /\ g.hold = << >> /\ g.todo = frame[t].todo /\ g.failed = (frame[t].failed \/ frame[t].call = "WRITE")
  BY <1>1 DEF Frame
<1> HIDE DEF g
<1>9. Moves(t) /\ Becomes(t, AfterFlush(frame[t].call), frame[t].call, frame[t].slot, frame[t].seen, << >>, frame[t].todo, (frame[t].failed \/ frame[t].call = "WRITE"))
  BY <1>2, <1>3, <1>6, <1>7, <1>8, ThreadMoves
<1>10. QED
  BY <1>9

\* A call begins.
LEMMA BeginCallMoves ==
    ASSUME TypeOK, NEW t \in Thread, BeginCall(t)
    PROVE  /\ pc[t] = "idle"
           /\ Moves(t)
           /\ \E c \in Call, n \in Nat :
                 /\ MayCall(c) /\ beside' = (beside \/ Beside(c))
                 /\ Becomes(t, IF c \in SendCall THEN "get" ELSE "insert", c, "connect", << >>, << >>, n, FALSE)
<1>1. PICK c \in Call, n \in 0..MaxItems :
        /\ pc[t] = "idle"
        /\ MayCall(c) /\ beside' = (beside \/ Beside(c))
        /\ frame' = [frame EXCEPT ![t] = Called(c, n)]
        /\ Goto(t, IF c \in SendCall THEN "get" ELSE "insert")
  BY DEF BeginCall
<1>2. n \in Nat
  BY SyncAssumption
<1>3. Called(c, n) \in Frame
  BY <1>2, CalledFields
<1>4. (IF c \in SendCall THEN "get" ELSE "insert") \in Label
  BY DEF Label
<1> DEFINE g == Called(c, n)
           l == IF c \in SendCall THEN "get" ELSE "insert"
<1>5. g.call = c /\ g.slot = "connect" /\ g.seen = << >> /\ g.hold = << >> /\ g.todo = n /\ g.failed = FALSE
  BY DEF Called
<1>6. frame' = [frame EXCEPT ![t] = g] /\ g \in Frame /\ Goto(t, l) /\ l \in Label
  BY <1>1, <1>3, <1>4
<1> HIDE DEF g, l
<1>7. Moves(t) /\ Becomes(t, l, c, "connect", << >>, << >>, n, FALSE)
  BY <1>5, <1>6, ThreadMoves
<1>8. QED
  BY <1>1, <1>2, <1>7 DEF l

\* A thread goes on with the locals it has.
LEMMA ThreadGoes ==
    ASSUME TypeOK, NEW t \in Thread, NEW l \in Label, Goto(t, l), UNCHANGED frame
    PROVE  Moves(t) /\ pc'[t] = l /\ frame'[t] = frame[t]
BY DEF TypeOK, Goto, Moves

\* The work of a call is done.
LEMMA WorkMoves ==
    ASSUME TypeOK, NEW t \in Thread, Work(t)
    PROVE  /\ Moves(t)
           /\ \E x \in BOOLEAN :
                 /\ x => frame[t].call = "CONNECT"
                 /\ Becomes(t, "remove", frame[t].call, frame[t].slot, frame[t].seen, frame[t].hold, frame[t].todo, x)
<1>1. PICK ok \in BOOLEAN : frame' = [frame EXCEPT ![t].failed = frame[t].call = "CONNECT" /\ ~ok]
  BY DEF Work
<1> DEFINE x == frame[t].call = "CONNECT" /\ ~ok
           g == [frame[t] EXCEPT !.failed = x]
<1>2. x \in BOOLEAN /\ (x => frame[t].call = "CONNECT")
  OBVIOUS
<1>3. frame' = [frame EXCEPT ![t] = g]
  BY <1>1
<1> HIDE DEF x
<1>4. g \in Frame
  BY <1>2, FrameFields DEF Frame
<1>5. /\ g.call = frame[t].call /\ g.slot = frame[t].slot /\ g.seen = frame[t].seen
      /\ g.hold = frame[t].hold /\ g.todo = frame[t].todo /\ g.failed = x
  BY FrameFields DEF Frame
<1> HIDE DEF g
<1>6. Goto(t, "remove") /\ "remove" \in Label
  BY DEF Work, Label
<1>7. Moves(t) /\ Becomes(t, "remove", frame[t].call, frame[t].slot, frame[t].seen, frame[t].hold, frame[t].todo, x)
  BY <1>3, <1>4, <1>5, <1>6, ThreadMoves
<1>8. QED
  BY <1>2, <1>7

\* A ConnConnect that failed goes on as ConnFree.
LEMMA ConnectRemoveMoves ==
    ASSUME TypeOK, NEW t \in Thread, SynchronousConnectEventRemove(t)
    PROVE  /\ Moves(t)
           /\ frame[t].failed => Becomes(t, "insert", "FREE", "connect", << >>, << >>, 0, FALSE)
           /\ ~frame[t].failed => Returned(t)
<1>1. CASE frame[t].failed
  <2> DEFINE g == Called("FREE", 0)
  <2>1. frame' = [frame EXCEPT ![t] = g] /\ Goto(t, "insert")
    BY <1>1 DEF SynchronousConnectEventRemove
  <2>2. g \in Frame /\ "insert" \in Label
    BY CalledFields DEF Call, ConnectCall, Label
  <2>3. g.call = "FREE" /\ g.slot = "connect" /\ g.seen = << >> /\ g.hold = << >> /\ g.todo = 0 /\ g.failed = FALSE
    BY DEF Called
  <2> HIDE DEF g
  <2>4. QED
    BY <1>1, <2>1, <2>2, <2>3, ThreadMoves
<1>2. CASE ~frame[t].failed
  <2>1. Return(t)
    BY <1>2 DEF SynchronousConnectEventRemove
  <2>2. QED
    BY <1>2, <2>1, ThreadReturns
<1>3. QED
  BY <1>1, <1>2

\* A ConnWrite whose flush went well goes on copying.
LEMMA SendRemoveMoves ==
    ASSUME TypeOK, NEW t \in Thread, SynchronousSendEventRemove(t)
    PROVE  /\ Moves(t)
           /\ \/ frame[t].call = "WRITE" /\ pc'[t] = "get" /\ frame'[t] = frame[t]
              \/ Returned(t)
<1>1. CASE frame[t].call = "WRITE" /\ ~frame[t].failed
  BY <1>1, ThreadGoes DEF SynchronousSendEventRemove, Label
<1>2. CASE ~(frame[t].call = "WRITE" /\ ~frame[t].failed)
  <2>1. Return(t)
    BY <1>2 DEF SynchronousSendEventRemove
  <2>2. QED
    BY <2>1, ThreadReturns
<1>3. QED
  BY <1>1, <1>2

\* An empty buffer leads to the work of the call, or back to the callback.
LEMMA FlushDoneMoves ==
    ASSUME TypeOK, NEW t \in Thread, FlushDone(t)
    PROVE  /\ Moves(t) /\ frame'[t] = frame[t]
           /\ \/ pc'[t] = AfterFlush(frame[t].call)
              \/ frame[t].call = "WRITE_FROM_CB" /\ pc'[t] = "callback"
<1>1. AfterFlush(frame[t].call) \in Label /\ "callback" \in Label
  BY DEF AfterFlush, Label
<1>2. QED
  BY <1>1, ThreadGoes DEF FlushDone

\* Items are copied: the rest of a full buffer waits for the flush.
LEMMA WriteMoves ==
    ASSUME TypeInv, NEW t \in Thread, writeClientData(t)
    PROVE  /\ Moves(t)
           /\ \E n \in Nat :
                 LET filled == Filled(frame[t].hold, n)
                 IN  /\ n <= frame[t].todo
                     /\ filled \in Seq(Nat) /\ Len(filled) <= BufferSize
                     /\ Written(n)
                     /\ \/ Returned(t) /\ bufferedSendDataKeep(filled)
                        \/ /\ Becomes(t, "insert", frame[t].call, frame[t].slot, frame[t].seen, filled,
                                      frame[t].todo - n, frame[t].failed)
                           /\ UNCHANGED sendBuffer
<1> USE DEF TypeInv
<1> DEFINE space == BufferSize - Len(frame[t].hold)
           n == Chunk(space, frame[t].todo)
           filled == Filled(frame[t].hold, n)
<1>1. /\ frame[t] \in Frame /\ frame[t].call \in Call /\ frame[t].slot \in Slot /\ frame[t].seen \in Seq(Nat)
      /\ frame[t].hold \in Seq(Nat) /\ frame[t].todo \in Nat /\ frame[t].failed \in BOOLEAN
  BY FrameFields
<1>2. space \in Nat
  BY <1>1, SyncAssumption DEF Bounded
<1>3. n \in Nat /\ n <= space /\ n <= frame[t].todo
  BY <1>1, <1>2, ChunkFits
<1>4. filled \in Seq(Nat) /\ Len(filled) = Len(frame[t].hold) + n
  BY <1>1, <1>3, FilledBuffer DEF TypeOK
<1>5. Len(filled) <= BufferSize
  BY <1>1, <1>2, <1>3, <1>4, SyncAssumption
<1>6. /\ Written(n)
      /\ IF space > n
         THEN /\ bufferedSendDataKeep(filled)
              /\ Return(t)
         ELSE /\ frame' = [frame EXCEPT ![t].hold = filled, ![t].todo = @ - n]
              /\ Goto(t, "insert")
              /\ UNCHANGED sendBuffer
  BY DEF writeClientData
<1> HIDE DEF n, filled
<1>7. CASE space > n
  <2>1. Moves(t) /\ Returned(t)
    BY <1>6, <1>7, ThreadReturns
  <2>2. QED
    BY <1>3, <1>4, <1>5, <1>6, <1>7, <2>1 DEF filled
<1>8. CASE ~(space > n)
  <2> DEFINE g == [frame[t] EXCEPT !.hold = filled, !.todo = frame[t].todo - n]
  <2>1. frame' = [frame EXCEPT ![t].hold = filled, ![t].todo = frame[t].todo - n]
    BY <1>6, <1>8
  <2>2. frame' = [frame EXCEPT ![t] = g]
    BY <2>1
  <2>3. frame[t].todo - n \in Nat
    BY <1>1, <1>3
  <2>4. g \in Frame
    BY <1>1, <1>4, <2>3 DEF Frame
  <2>5. /\ g.call = frame[t].call /\ g.slot = frame[t].slot /\ g.seen = frame[t].seen
        /\ g.hold = filled /\ g.todo = frame[t].todo - n /\ g.failed = frame[t].failed
    BY <1>1 DEF Frame
  <2> HIDE DEF g
  <2>6. "insert" \in Label /\ Goto(t, "insert")
    BY <1>6, <1>8 DEF Label
  <2>7. /\ Moves(t)
        /\ Becomes(t, "insert", frame[t].call, frame[t].slot, frame[t].seen, filled,
                   frame[t].todo - n, frame[t].failed)
    BY <2>2, <2>4, <2>5, <2>6, ThreadMoves
  <2>8. QED
    BY <1>3, <1>4, <1>5, <1>6, <1>8, <2>7 DEF filled
<1>9. QED
  BY <1>7, <1>8

\* The callback writes an item, or has done.
LEMMA CallbackMoves ==
    ASSUME TypeInv, NEW t \in Thread, writeFromCB(t)
    PROVE  /\ Moves(t)
           /\ \/ /\ Len(frame[t].hold) < BufferSize
                 /\ Written(1)
                 /\ Filled(frame[t].hold, 1) \in Seq(Nat) /\ Len(Filled(frame[t].hold, 1)) <= BufferSize
                 /\ Becomes(t, "callback", frame[t].call, frame[t].slot, frame[t].seen, Filled(frame[t].hold, 1),
                            frame[t].todo, frame[t].failed)
              \/ pc'[t] = "flush" /\ frame'[t] = frame[t] /\ UNCHANGED mark
<1> USE DEF TypeInv
<1>1. /\ frame[t] \in Frame /\ frame[t].call \in Call /\ frame[t].slot \in Slot /\ frame[t].seen \in Seq(Nat)
      /\ frame[t].hold \in Seq(Nat) /\ frame[t].todo \in Nat /\ frame[t].failed \in BOOLEAN
  BY FrameFields
<1>2. CASE Goto(t, "flush") /\ UNCHANGED <<frame, mark>>
  BY <1>2, ThreadGoes DEF Label
<1>3. CASE /\ Len(frame[t].hold) < BufferSize
           /\ frame' = [frame EXCEPT ![t].hold = Filled(@, 1)]
           /\ Written(1)
           /\ UNCHANGED pc
  <2> DEFINE h == Filled(frame[t].hold, 1)
             g == [frame[t] EXCEPT !.hold = h]
  <2>1. h \in Seq(Nat) /\ Len(h) = Len(frame[t].hold) + 1
    BY <1>1, FilledBuffer DEF TypeOK
  <2>2. Len(h) <= BufferSize
    BY <1>1, <1>3, <2>1, SyncAssumption
  <2>3. frame' = [frame EXCEPT ![t].hold = h]
    BY <1>3
  <2>4. frame' = [frame EXCEPT ![t] = g]
    BY <2>3
  <2> HIDE DEF h
  <2>5. g \in Frame
    BY <1>1, <2>1 DEF Frame
  <2>6. /\ g.call = frame[t].call /\ g.slot = frame[t].slot /\ g.seen = frame[t].seen
        /\ g.hold = h /\ g.todo = frame[t].todo /\ g.failed = frame[t].failed
    BY <1>1 DEF Frame
  <2> HIDE DEF g
  <2>7. "callback" \in Label /\ Goto(t, "callback")
    BY <1>3 DEF Label, Goto, TypeOK, writeFromCB
  <2>8. Moves(t) /\ Becomes(t, "callback", frame[t].call, frame[t].slot, frame[t].seen, h, frame[t].todo, frame[t].failed)
    BY <2>4, <2>5, <2>6, <2>7, ThreadMoves
  <2>9. QED
    BY <1>3, <2>1, <2>2, <2>8 DEF h
<1>4. QED
  BY <1>2, <1>3 DEF writeFromCB

-----------------------------------------------------------------------------
(* Type correctness, whatever the consumer does.                           *)

\* A step of one thread keeps the types if it leaves the connection and the
\* buffers of the thread in order.
LEMMA TypedStep ==
    ASSUME TypeInv, NEW t \in Thread, Moves(t),
           state' \in {"IDLE", "SYNCHRONOUS", "CACHED"},
           active' \in [Slot -> Thread \cup {NoThread}],
           lock' \in Thread \cup {NoThread}, overtaken' \in BOOLEAN,
           sendBuffer' \in Seq(Nat), Len(sendBuffer') <= BufferSize,
           socket' \in {"new", "open", "closed"}, secured' \in BOOLEAN, beside' \in BOOLEAN,
           wire' \in Seq(Nat \X BOOLEAN), mark' \in Seq(BOOLEAN), lost' \subseteq Nat,
           Len(frame'[t].hold) <= BufferSize, Len(frame'[t].seen) <= BufferSize
    PROVE  TypeInv'
<1>1. TypeOK'
  BY DEF TypeOK, Moves
<1>2. \A u \in Thread : Len(frame'[u].hold) <= BufferSize /\ Len(frame'[u].seen) <= BufferSize
  BY DEF TypeInv, Bounded, Moves
<1>3. QED
  BY <1>1, <1>2 DEF TypeInv, Bounded

\* Items are numbers.
LEMMA ItemsTyped ==
    ASSUME NEW s \in Seq(Nat)
    PROVE  Items(s) \subseteq Nat
BY DEF Items

\* Every step of a thread keeps the types.
LEMMA ThreadTyped ==
    ASSUME TypeInv, NEW t \in Thread, ThreadStep(t)
    PROVE  TypeInv'
<1>1. TypeOK /\ Bounded
  BY DEF TypeInv
<1>2. /\ frame[t].hold \in Seq(Nat) /\ Len(frame[t].hold) <= BufferSize
      /\ frame[t].seen \in Seq(Nat) /\ Len(frame[t].seen) <= BufferSize
      /\ sendBuffer \in Seq(Nat) /\ Len(sendBuffer) <= BufferSize
      /\ frame[t].slot \in Slot
  BY <1>1, FrameFields DEF Bounded, TypeOK
<1>3. Len(<< >>) <= BufferSize /\ << >> \in Seq(Nat)
  BY SyncAssumption
<1>4. CASE BeginCall(t)
  <2>1. Moves(t)
    BY <1>4, <1>1, BeginCallMoves DEF TypeInv
  <2>2. Len(frame'[t].hold) <= BufferSize /\ Len(frame'[t].seen) <= BufferSize
    BY <1>4, <1>1, <1>2, <1>3, BeginCallMoves DEF Returned, Becomes
  <2>3. sendBuffer' \in Seq(Nat) /\ Len(sendBuffer') <= BufferSize
    BY <1>4, <1>2, <1>3 DEF BeginCall, data
  <2>4. /\ state' \in {"IDLE", "SYNCHRONOUS", "CACHED"} /\ active' \in [Slot -> Thread \cup {NoThread}]
        /\ lock' \in Thread \cup {NoThread} /\ overtaken' \in BOOLEAN
    BY <1>4, <1>1, <1>2 DEF BeginCall, TypeOK, Slot, ReceiveSlot, conn
  <2>5. wire' \in Seq(Nat \X BOOLEAN) /\ mark' \in Seq(BOOLEAN) /\ lost' \subseteq Nat
    BY <1>4, <1>1, <1>2 DEF BeginCall, TypeOK, data
  <2>6. socket' \in {"new", "open", "closed"} /\ secured' \in BOOLEAN /\ beside' \in BOOLEAN
    BY <1>4, <1>1, <1>2 DEF BeginCall, TypeOK, link
  <2>7. QED
    BY <2>1, <2>2, <2>3, <2>4, <2>5, <2>6, TypedStep
<1>5. CASE SendDataRead(t)
  <2>1. Moves(t)
    BY <1>5, <1>1, SendDataReadMoves DEF TypeInv
  <2>2. Len(frame'[t].hold) <= BufferSize /\ Len(frame'[t].seen) <= BufferSize
    BY <1>5, <1>1, <1>2, <1>3, SendDataReadMoves DEF Returned, Becomes
  <2>3. sendBuffer' \in Seq(Nat) /\ Len(sendBuffer') <= BufferSize
    BY <1>5, <1>2, <1>3 DEF SendDataRead, data
  <2>4. /\ state' \in {"IDLE", "SYNCHRONOUS", "CACHED"} /\ active' \in [Slot -> Thread \cup {NoThread}]
        /\ lock' \in Thread \cup {NoThread} /\ overtaken' \in BOOLEAN
    BY <1>5, <1>1, <1>2 DEF SendDataRead, TypeOK, Slot, ReceiveSlot, conn
  <2>5. wire' \in Seq(Nat \X BOOLEAN) /\ mark' \in Seq(BOOLEAN) /\ lost' \subseteq Nat
    BY <1>5, <1>1, <1>2 DEF SendDataRead, TypeOK, data
  <2>6. socket' \in {"new", "open", "closed"} /\ secured' \in BOOLEAN /\ beside' \in BOOLEAN
    BY <1>5, <1>1, <1>2 DEF SendDataRead, TypeOK, link
  <2>7. QED
    BY <2>1, <2>2, <2>3, <2>4, <2>5, <2>6, TypedStep
<1>6. CASE SendDataClear(t)
  <2>1. Moves(t)
    BY <1>6, <1>1, SendDataClearMoves DEF TypeInv
  <2>2. Len(frame'[t].hold) <= BufferSize /\ Len(frame'[t].seen) <= BufferSize
    BY <1>6, <1>1, <1>2, <1>3, SendDataClearMoves DEF Returned, Becomes
  <2>3. sendBuffer' \in Seq(Nat) /\ Len(sendBuffer') <= BufferSize
    BY <1>6, <1>2, <1>3 DEF SendDataClear, bufferedSendDataGet, data
  <2>4. /\ state' \in {"IDLE", "SYNCHRONOUS", "CACHED"} /\ active' \in [Slot -> Thread \cup {NoThread}]
        /\ lock' \in Thread \cup {NoThread} /\ overtaken' \in BOOLEAN
    BY <1>6, <1>1, <1>2 DEF SendDataClear, bufferedSendDataGet, TypeOK, Slot, ReceiveSlot, conn
  <2>5. wire' \in Seq(Nat \X BOOLEAN) /\ mark' \in Seq(BOOLEAN) /\ lost' \subseteq Nat
    BY <1>6, <1>1, <1>2 DEF SendDataClear, bufferedSendDataGet, TypeOK, data
  <2>6. socket' \in {"new", "open", "closed"} /\ secured' \in BOOLEAN /\ beside' \in BOOLEAN
    BY <1>6, <1>1, <1>2 DEF SendDataClear, TypeOK, link
  <2>7. QED
    BY <2>1, <2>2, <2>3, <2>4, <2>5, <2>6, TypedStep
<1>7. CASE NoMemory(t)
  <2>1. Moves(t) /\ Returned(t)
    BY <1>7, <1>1, ThreadReturns DEF NoMemory
  <2>2. Len(frame'[t].hold) <= BufferSize /\ Len(frame'[t].seen) <= BufferSize
    BY <2>1, <1>3 DEF Returned, Becomes
  <2>3. sendBuffer' \in Seq(Nat) /\ Len(sendBuffer') <= BufferSize
    BY <1>7, <1>2, <1>3 DEF NoMemory, data
  <2>4. /\ state' \in {"IDLE", "SYNCHRONOUS", "CACHED"} /\ active' \in [Slot -> Thread \cup {NoThread}]
        /\ lock' \in Thread \cup {NoThread} /\ overtaken' \in BOOLEAN
    BY <1>7, <1>1, <1>2 DEF NoMemory, TypeOK, Slot, ReceiveSlot, conn
  <2>5. wire' \in Seq(Nat \X BOOLEAN) /\ mark' \in Seq(BOOLEAN) /\ lost' \subseteq Nat
    BY <1>7, <1>1, <1>2 DEF NoMemory, TypeOK, data
  <2>6. socket' \in {"new", "open", "closed"} /\ secured' \in BOOLEAN /\ beside' \in BOOLEAN
    BY <1>7, <1>1, <1>2 DEF NoMemory, TypeOK, link
  <2>7. QED
    BY <2>1, <2>2, <2>3, <2>4, <2>5, <2>6, TypedStep
<1>8. CASE writeClientData(t)
  <2>1. Moves(t)
    BY <1>8, <1>1, WriteMoves DEF TypeInv
  <2>2. Len(frame'[t].hold) <= BufferSize /\ Len(frame'[t].seen) <= BufferSize
    BY <1>8, <1>1, <1>2, <1>3, WriteMoves DEF Returned, Becomes
  <2>3. mark' \in Seq(BOOLEAN)
    BY <1>8, <1>1, WriteMoves, WrittenMarks DEF TypeOK
  <2>4. sendBuffer' \in Seq(Nat) /\ Len(sendBuffer') <= BufferSize
    BY <1>8, <1>2, WriteMoves DEF writeClientData, bufferedSendDataKeep
  <2>5. QED
    BY <1>8, <1>1, <2>1, <2>2, <2>3, <2>4, TypedStep DEF writeClientData, TypeOK, conn, data, link
<1>9. CASE SynchronousConnectEventInsert(t)
  <2>1. Moves(t)
    BY <1>9, <1>1, SynchronousConnectEventInsertMoves DEF TypeInv
  <2>2. Len(frame'[t].hold) <= BufferSize /\ Len(frame'[t].seen) <= BufferSize
    BY <1>9, <1>1, <1>2, <1>3, SynchronousConnectEventInsertMoves DEF Returned, Becomes
  <2>3. sendBuffer' \in Seq(Nat) /\ Len(sendBuffer') <= BufferSize
    BY <1>9, <1>2, <1>3 DEF SynchronousConnectEventInsert, Take, data
  <2>4. /\ state' \in {"IDLE", "SYNCHRONOUS", "CACHED"} /\ active' \in [Slot -> Thread \cup {NoThread}]
        /\ lock' \in Thread \cup {NoThread} /\ overtaken' \in BOOLEAN
    BY <1>9, <1>1, <1>2 DEF SynchronousConnectEventInsert, Take, TypeOK, Slot, ReceiveSlot, conn
  <2>5. wire' \in Seq(Nat \X BOOLEAN) /\ mark' \in Seq(BOOLEAN) /\ lost' \subseteq Nat
    BY <1>9, <1>1, <1>2 DEF SynchronousConnectEventInsert, Take, TypeOK, data
  <2>6. socket' \in {"new", "open", "closed"} /\ secured' \in BOOLEAN /\ beside' \in BOOLEAN
    BY <1>9, <1>1, <1>2 DEF SynchronousConnectEventInsert, TypeOK, link
  <2>7. QED
    BY <2>1, <2>2, <2>3, <2>4, <2>5, <2>6, TypedStep
<1>10. CASE SynchronousReceiveEventInsert(t)
  <2>1. Moves(t)
    BY <1>10, <1>1, SynchronousReceiveEventInsertMoves DEF TypeInv
  <2>2. Len(frame'[t].hold) <= BufferSize /\ Len(frame'[t].seen) <= BufferSize
    BY <1>10, <1>1, <1>2, <1>3, SynchronousReceiveEventInsertMoves DEF Returned, Becomes
  <2>3. sendBuffer' \in Seq(Nat) /\ Len(sendBuffer') <= BufferSize
    BY <1>10, <1>2, <1>3 DEF SynchronousReceiveEventInsert, data
  <2>4. /\ state' \in {"IDLE", "SYNCHRONOUS", "CACHED"} /\ active' \in [Slot -> Thread \cup {NoThread}]
        /\ lock' \in Thread \cup {NoThread} /\ overtaken' \in BOOLEAN
    BY <1>10, <1>1, <1>2 DEF SynchronousReceiveEventInsert, TypeOK, Slot, ReceiveSlot, conn
  <2>5. wire' \in Seq(Nat \X BOOLEAN) /\ mark' \in Seq(BOOLEAN) /\ lost' \subseteq Nat
    BY <1>10, <1>1, <1>2 DEF SynchronousReceiveEventInsert, TypeOK, data
  <2>6. socket' \in {"new", "open", "closed"} /\ secured' \in BOOLEAN /\ beside' \in BOOLEAN
    BY <1>10, <1>1, <1>2 DEF SynchronousReceiveEventInsert, TypeOK, link
  <2>7. QED
    BY <2>1, <2>2, <2>3, <2>4, <2>5, <2>6, TypedStep
<1>11. CASE ReceiveEventSet(t)
  <2>1. Moves(t)
    BY <1>11, <1>1, ReceiveEventSetMoves DEF TypeInv
  <2>2. Len(frame'[t].hold) <= BufferSize /\ Len(frame'[t].seen) <= BufferSize
    BY <1>11, <1>1, <1>2, <1>3, ReceiveEventSetMoves DEF Returned, Becomes
  <2>3. sendBuffer' \in Seq(Nat) /\ Len(sendBuffer') <= BufferSize
    BY <1>11, <1>2, <1>3 DEF ReceiveEventSet, bufferedSendDataGet, Take, data
  <2>4. /\ state' \in {"IDLE", "SYNCHRONOUS", "CACHED"} /\ active' \in [Slot -> Thread \cup {NoThread}]
        /\ lock' \in Thread \cup {NoThread} /\ overtaken' \in BOOLEAN
    BY <1>11, <1>1, <1>2 DEF ReceiveEventSet, bufferedSendDataGet, Take, TypeOK, Slot, ReceiveSlot, conn
  <2>5. wire' \in Seq(Nat \X BOOLEAN) /\ mark' \in Seq(BOOLEAN) /\ lost' \subseteq Nat
    BY <1>11, <1>1, <1>2 DEF ReceiveEventSet, bufferedSendDataGet, Take, TypeOK, data
  <2>6. socket' \in {"new", "open", "closed"} /\ secured' \in BOOLEAN /\ beside' \in BOOLEAN
    BY <1>11, <1>1, <1>2 DEF ReceiveEventSet, TypeOK, link
  <2>7. QED
    BY <2>1, <2>2, <2>3, <2>4, <2>5, <2>6, TypedStep
<1>12. CASE SynchronousSendEventInsert(t)
  <2>1. Moves(t)
    BY <1>12, <1>1, SynchronousSendEventInsertMoves DEF TypeInv
  <2>2. Len(frame'[t].hold) <= BufferSize /\ Len(frame'[t].seen) <= BufferSize
    BY <1>12, <1>1, <1>2, <1>3, SynchronousSendEventInsertMoves DEF Returned, Becomes
  <2>3. sendBuffer' \in Seq(Nat) /\ Len(sendBuffer') <= BufferSize
    BY <1>12, <1>2, <1>3 DEF SynchronousSendEventInsert, Take, bufferedSendDataKeep, Lose, Items, data
  <2>4. /\ state' \in {"IDLE", "SYNCHRONOUS", "CACHED"} /\ active' \in [Slot -> Thread \cup {NoThread}]
        /\ lock' \in Thread \cup {NoThread} /\ overtaken' \in BOOLEAN
    BY <1>12, <1>1, <1>2 DEF SynchronousSendEventInsert, Take, bufferedSendDataKeep, Lose, Items, TypeOK, Slot, ReceiveSlot, conn
  <2>5. wire' \in Seq(Nat \X BOOLEAN) /\ mark' \in Seq(BOOLEAN) /\ lost' \subseteq Nat
    BY <1>12, <1>1, <1>2, ItemsTyped DEF SynchronousSendEventInsert, Take, bufferedSendDataKeep, Lose, TypeOK, data
  <2>6. socket' \in {"new", "open", "closed"} /\ secured' \in BOOLEAN /\ beside' \in BOOLEAN
    BY <1>12, <1>1, <1>2 DEF SynchronousSendEventInsert, TypeOK, link
  <2>7. QED
    BY <2>1, <2>2, <2>3, <2>4, <2>5, <2>6, TypedStep
<1>13. CASE writeFromCB(t)
  <2>1. Moves(t)
    BY <1>13, <1>1, CallbackMoves DEF TypeInv
  <2>2. Len(frame'[t].hold) <= BufferSize /\ Len(frame'[t].seen) <= BufferSize
    BY <1>13, <1>1, <1>2, <1>3, CallbackMoves DEF Returned, Becomes
  <2>3. mark' \in Seq(BOOLEAN)
    BY <1>13, <1>1, CallbackMoves, WrittenMarks DEF TypeOK
  <2>4. sendBuffer' \in Seq(Nat) /\ Len(sendBuffer') <= BufferSize
    BY <1>13, <1>2, CallbackMoves DEF writeFromCB
  <2>5. QED
    BY <1>13, <1>1, <2>1, <2>2, <2>3, <2>4, TypedStep DEF writeFromCB, TypeOK, conn, data, link
<1>14. CASE flushSendBuffer(t)
  <2>1. Moves(t)
    BY <1>14, <1>1, flushSendBufferMoves DEF TypeInv
  <2>2. Len(frame'[t].hold) <= BufferSize /\ Len(frame'[t].seen) <= BufferSize
    <3>1. frame'[t].hold = Tail(frame[t].hold) /\ frame'[t].seen = frame[t].seen
      BY <1>14, <1>1, flushSendBufferMoves DEF Becomes
    <3>2. Len(Tail(frame[t].hold)) = Len(frame[t].hold) - 1 /\ Len(frame[t].hold) \in Nat
      BY <1>14, <1>2 DEF flushSendBuffer
    <3>3. QED
      BY <1>2, <3>1, <3>2, SyncAssumption
  <2>3. sendBuffer' \in Seq(Nat) /\ Len(sendBuffer') <= BufferSize
    BY <1>14, <1>2, <1>3 DEF flushSendBuffer, data
  <2>4. /\ state' \in {"IDLE", "SYNCHRONOUS", "CACHED"} /\ active' \in [Slot -> Thread \cup {NoThread}]
        /\ lock' \in Thread \cup {NoThread} /\ overtaken' \in BOOLEAN
    BY <1>14, <1>1, <1>2 DEF flushSendBuffer, TypeOK, Slot, ReceiveSlot, conn
  <2>5. wire' \in Seq(Nat \X BOOLEAN) /\ mark' \in Seq(BOOLEAN) /\ lost' \subseteq Nat
    BY <1>14, <1>1, <1>2 DEF flushSendBuffer, TypeOK, data
  <2>6. socket' \in {"new", "open", "closed"} /\ secured' \in BOOLEAN /\ beside' \in BOOLEAN
    BY <1>14, <1>1, <1>2 DEF flushSendBuffer, TypeOK, link
  <2>7. QED
    BY <2>1, <2>2, <2>3, <2>4, <2>5, <2>6, TypedStep
<1>15. CASE FlushDone(t)
  <2>1. Moves(t)
    BY <1>15, <1>1, FlushDoneMoves DEF TypeInv
  <2>2. Len(frame'[t].hold) <= BufferSize /\ Len(frame'[t].seen) <= BufferSize
    BY <1>15, <1>1, <1>2, <1>3, FlushDoneMoves DEF Returned, Becomes
  <2>3. sendBuffer' \in Seq(Nat) /\ Len(sendBuffer') <= BufferSize
    BY <1>15, <1>2, <1>3 DEF FlushDone, data
  <2>4. /\ state' \in {"IDLE", "SYNCHRONOUS", "CACHED"} /\ active' \in [Slot -> Thread \cup {NoThread}]
        /\ lock' \in Thread \cup {NoThread} /\ overtaken' \in BOOLEAN
    BY <1>15, <1>1, <1>2 DEF FlushDone, TypeOK, Slot, ReceiveSlot, conn
  <2>5. wire' \in Seq(Nat \X BOOLEAN) /\ mark' \in Seq(BOOLEAN) /\ lost' \subseteq Nat
    BY <1>15, <1>1, <1>2 DEF FlushDone, TypeOK, data
  <2>6. socket' \in {"new", "open", "closed"} /\ secured' \in BOOLEAN /\ beside' \in BOOLEAN
    BY <1>15, <1>1, <1>2 DEF FlushDone, TypeOK, link
  <2>7. QED
    BY <2>1, <2>2, <2>3, <2>4, <2>5, <2>6, TypedStep
<1>16. CASE FlushFails(t)
  <2>1. Moves(t)
    BY <1>16, <1>1, FlushFailsMoves DEF TypeInv
  <2>2. Len(frame'[t].hold) <= BufferSize /\ Len(frame'[t].seen) <= BufferSize
    BY <1>16, <1>1, <1>2, <1>3, FlushFailsMoves DEF Returned, Becomes
  <2>3. sendBuffer' \in Seq(Nat) /\ Len(sendBuffer') <= BufferSize
    BY <1>16, <1>2, <1>3 DEF FlushFails, Lose, Items, data
  <2>4. /\ state' \in {"IDLE", "SYNCHRONOUS", "CACHED"} /\ active' \in [Slot -> Thread \cup {NoThread}]
        /\ lock' \in Thread \cup {NoThread} /\ overtaken' \in BOOLEAN
    BY <1>16, <1>1, <1>2 DEF FlushFails, Lose, Items, TypeOK, Slot, ReceiveSlot, conn
  <2>5. wire' \in Seq(Nat \X BOOLEAN) /\ mark' \in Seq(BOOLEAN) /\ lost' \subseteq Nat
    BY <1>16, <1>1, <1>2, ItemsTyped DEF FlushFails, Lose, TypeOK, data
  <2>6. socket' \in {"new", "open", "closed"} /\ secured' \in BOOLEAN /\ beside' \in BOOLEAN
    BY <1>16, <1>1, <1>2 DEF FlushFails, TypeOK, link
  <2>7. QED
    BY <2>1, <2>2, <2>3, <2>4, <2>5, <2>6, TypedStep
<1>17. CASE Work(t)
  <2>1. Moves(t)
    BY <1>17, <1>1, WorkMoves DEF TypeInv
  <2>2. Len(frame'[t].hold) <= BufferSize /\ Len(frame'[t].seen) <= BufferSize
    BY <1>17, <1>1, <1>2, <1>3, WorkMoves DEF Returned, Becomes
  <2>3. sendBuffer' \in Seq(Nat) /\ Len(sendBuffer') <= BufferSize
    BY <1>17, <1>2, <1>3 DEF Work, data
  <2>4. /\ state' \in {"IDLE", "SYNCHRONOUS", "CACHED"} /\ active' \in [Slot -> Thread \cup {NoThread}]
        /\ lock' \in Thread \cup {NoThread} /\ overtaken' \in BOOLEAN
    BY <1>17, <1>1, <1>2 DEF Work, TypeOK, Slot, ReceiveSlot, conn
  <2>5. wire' \in Seq(Nat \X BOOLEAN) /\ mark' \in Seq(BOOLEAN) /\ lost' \subseteq Nat
    BY <1>17, <1>1, <1>2 DEF Work, TypeOK, data
  <2>6. socket' \in {"new", "open", "closed"} /\ secured' \in BOOLEAN /\ beside' \in BOOLEAN
    BY <1>17, <1>1, <1>2 DEF Work, TypeOK, link
  <2>7. QED
    BY <2>1, <2>2, <2>3, <2>4, <2>5, <2>6, TypedStep
<1>18. CASE SynchronousConnectEventRemove(t)
  <2>1. Moves(t)
    BY <1>18, <1>1, ConnectRemoveMoves DEF TypeInv
  <2>2. Len(frame'[t].hold) <= BufferSize /\ Len(frame'[t].seen) <= BufferSize
    BY <1>18, <1>1, <1>2, <1>3, ConnectRemoveMoves DEF Returned, Becomes
  <2>3. sendBuffer' \in Seq(Nat) /\ Len(sendBuffer') <= BufferSize
    BY <1>18, <1>2, <1>3 DEF SynchronousConnectEventRemove, Clear, data
  <2>4. /\ state' \in {"IDLE", "SYNCHRONOUS", "CACHED"} /\ active' \in [Slot -> Thread \cup {NoThread}]
        /\ lock' \in Thread \cup {NoThread} /\ overtaken' \in BOOLEAN
    BY <1>18, <1>1, <1>2 DEF SynchronousConnectEventRemove, Clear, TypeOK, Slot, ReceiveSlot, conn
  <2>5. wire' \in Seq(Nat \X BOOLEAN) /\ mark' \in Seq(BOOLEAN) /\ lost' \subseteq Nat
    BY <1>18, <1>1, <1>2 DEF SynchronousConnectEventRemove, Clear, TypeOK, data
  <2>6. socket' \in {"new", "open", "closed"} /\ secured' \in BOOLEAN /\ beside' \in BOOLEAN
    BY <1>18, <1>1, <1>2 DEF SynchronousConnectEventRemove, TypeOK, link
  <2>7. QED
    BY <2>1, <2>2, <2>3, <2>4, <2>5, <2>6, TypedStep
<1>19. CASE SynchronousReceiveEventRemove(t)
  <2>1. Moves(t) /\ Returned(t)
    BY <1>19, <1>1, ThreadReturns DEF SynchronousReceiveEventRemove
  <2>2. Len(frame'[t].hold) <= BufferSize /\ Len(frame'[t].seen) <= BufferSize
    BY <2>1, <1>3 DEF Returned, Becomes
  <2>3. sendBuffer' \in Seq(Nat) /\ Len(sendBuffer') <= BufferSize
    BY <1>19, <1>2, <1>3 DEF SynchronousReceiveEventRemove, Clear, data
  <2>4. /\ state' \in {"IDLE", "SYNCHRONOUS", "CACHED"} /\ active' \in [Slot -> Thread \cup {NoThread}]
        /\ lock' \in Thread \cup {NoThread} /\ overtaken' \in BOOLEAN
    BY <1>19, <1>1, <1>2 DEF SynchronousReceiveEventRemove, Clear, TypeOK, Slot, ReceiveSlot, conn
  <2>5. wire' \in Seq(Nat \X BOOLEAN) /\ mark' \in Seq(BOOLEAN) /\ lost' \subseteq Nat
    BY <1>19, <1>1, <1>2 DEF SynchronousReceiveEventRemove, Clear, TypeOK, data
  <2>6. socket' \in {"new", "open", "closed"} /\ secured' \in BOOLEAN /\ beside' \in BOOLEAN
    BY <1>19, <1>1, <1>2 DEF SynchronousReceiveEventRemove, TypeOK, link
  <2>7. QED
    BY <2>1, <2>2, <2>3, <2>4, <2>5, <2>6, TypedStep
<1>20. CASE SynchronousSendEventRemove(t)
  <2>1. Moves(t)
    BY <1>20, <1>1, SendRemoveMoves DEF TypeInv
  <2>2. Len(frame'[t].hold) <= BufferSize /\ Len(frame'[t].seen) <= BufferSize
    BY <1>20, <1>1, <1>2, <1>3, SendRemoveMoves DEF Returned, Becomes
  <2>3. sendBuffer' \in Seq(Nat) /\ Len(sendBuffer') <= BufferSize
    BY <1>20, <1>2, <1>3 DEF SynchronousSendEventRemove, Clear, data
  <2>4. /\ state' \in {"IDLE", "SYNCHRONOUS", "CACHED"} /\ active' \in [Slot -> Thread \cup {NoThread}]
        /\ lock' \in Thread \cup {NoThread} /\ overtaken' \in BOOLEAN
    BY <1>20, <1>1, <1>2 DEF SynchronousSendEventRemove, Clear, TypeOK, Slot, ReceiveSlot, conn
  <2>5. wire' \in Seq(Nat \X BOOLEAN) /\ mark' \in Seq(BOOLEAN) /\ lost' \subseteq Nat
    BY <1>20, <1>1, <1>2 DEF SynchronousSendEventRemove, Clear, TypeOK, data
  <2>6. socket' \in {"new", "open", "closed"} /\ secured' \in BOOLEAN /\ beside' \in BOOLEAN
    BY <1>20, <1>1, <1>2 DEF SynchronousSendEventRemove, TypeOK, link
  <2>7. QED
    BY <2>1, <2>2, <2>3, <2>4, <2>5, <2>6, TypedStep
<1>21. CASE ConnRecycle(t)
  <2>1. Moves(t) /\ Returned(t)
    BY <1>21, <1>1, ThreadReturns DEF ConnRecycle
  <2>2. Len(frame'[t].hold) <= BufferSize /\ Len(frame'[t].seen) <= BufferSize
    BY <2>1, <1>3 DEF Returned, Becomes
  <2>3. sendBuffer' \in Seq(Nat) /\ Len(sendBuffer') <= BufferSize
    BY <1>21, <1>2, <1>3 DEF ConnRecycle, Lose, Items, data
  <2>4. /\ state' \in {"IDLE", "SYNCHRONOUS", "CACHED"} /\ active' \in [Slot -> Thread \cup {NoThread}]
        /\ lock' \in Thread \cup {NoThread} /\ overtaken' \in BOOLEAN
    BY <1>21, <1>1, <1>2 DEF ConnRecycle, Lose, Items, TypeOK, Slot, ReceiveSlot, conn
  <2>5. wire' \in Seq(Nat \X BOOLEAN) /\ mark' \in Seq(BOOLEAN) /\ lost' \subseteq Nat
    BY <1>21, <1>1, <1>2, ItemsTyped DEF ConnRecycle, Lose, TypeOK, data
  <2>6. socket' \in {"new", "open", "closed"} /\ secured' \in BOOLEAN /\ beside' \in BOOLEAN
    BY <1>21, <1>1, <1>2 DEF ConnRecycle, TypeOK, link
  <2>7. QED
    BY <2>1, <2>2, <2>3, <2>4, <2>5, <2>6, TypedStep
<1>22. QED
  BY <1>4, <1>5, <1>6, <1>7, <1>8, <1>9, <1>10, <1>11, <1>12, <1>13, <1>14, <1>15, <1>16, <1>17, <1>18, <1>19, <1>20, <1>21 DEF ThreadStep

\* The types hold in every reachable state.
LEMMA TypesHold == Spec => []TypeInv
<1>1. Init => TypeInv
  <2> SUFFICES ASSUME Init PROVE TypeInv
    OBVIOUS
  <2>1. NoCall \in Frame
    BY CalledFields DEF NoCall, Call
  <2>2. TypeOK
    <3>1. << >> \in Seq(Nat) /\ << >> \in Seq(BOOLEAN) /\ << >> \in Seq(Nat \X BOOLEAN)
      OBVIOUS
    <3>2. pc \in [Thread -> Label] /\ frame \in [Thread -> Frame]
      BY <2>1 DEF Init, Label
    <3>3. QED
      BY <3>1, <3>2 DEF Init, TypeOK
  <2>3. NoCall.hold = << >> /\ NoCall.seen = << >>
    BY DEF NoCall, Called
  <2>4. Bounded
    BY <2>3, SyncAssumption DEF Init, Bounded
  <2>5. QED
    BY <2>2, <2>4 DEF TypeInv
<1>2. TypeInv /\ [Next]_vars => TypeInv'
  <2> SUFFICES ASSUME TypeInv, [Next]_vars PROVE TypeInv'
    OBVIOUS
  <2>1. CASE UNCHANGED vars
    BY <2>1 DEF TypeInv, TypeOK, Bounded, vars, conn, data, link
  <2>2. CASE ConnKill
    BY <2>2 DEF ConnKill, TypeInv, TypeOK, Bounded, conn, data
  <2>3. CASE ConnAlloc
    <3>1. << >> \in Seq(BOOLEAN) /\ << >> \in Seq(Nat \X BOOLEAN)
      OBVIOUS
    <3>2. QED
      BY <2>3, <3>1 DEF ConnAlloc, TypeInv, TypeOK, Bounded
  <2>4. QED
    BY <2>1, <2>2, <2>3, ThreadTyped DEF Next
<1>3. QED
  BY <1>1, <1>2, PTL DEF Spec

\* Every reachable state is of the declared type, for any number of threads and
\* a consumer that reads and writes as it likes.
THEOREM SyncTypeCorrect == Spec => []TypeOK
<1>1. TypeInv => TypeOK
  BY DEF TypeInv
<1>2. QED
  BY <1>1, TypesHold, PTL

-----------------------------------------------------------------------------
(* The slots, whatever the consumer does.                                  *)

\* An event is in its slot until it is removed, and unless it is a send the
\* connection knows.
LEMMA HasHolds ==
    ASSUME TypeOK, SlotInv, NEW t \in Thread, Has(t)
    PROVE  /\ frame[t].slot \in Slot /\ active[frame[t].slot] = t
           /\ frame[t].slot # "send" => Holds(t) /\ lock = NoThread
<1>1. frame[t].slot \in Slot /\ active[frame[t].slot] = t
  BY FrameFields DEF SlotInv, Classes, ClassOf
<1>2. ASSUME frame[t].slot # "send" PROVE InUse /\ lock = NoThread
  BY <1>1, <1>2, SyncAssumption DEF Slot, InUse, SlotInv, Exclusive
<1>3. QED
  BY <1>1, <1>2 DEF SlotInv, States, Holds

\* A call that is sending has taken the connection's buffer.
LEMMA SendingFacts ==
    ASSUME TypeOK, SlotInv, NEW t \in Thread, Sending(t)
    PROVE  frame[t].call \in SendCall /\ active["send"] = t /\ sendBuffer = << >>
<1>1. Has(t) /\ frame[t].slot = "send" /\ frame[t].call \in Call
  BY FrameFields DEF Sending
<1>2. frame[t].call \in SendCall /\ active["send"] = t
  BY <1>1 DEF SlotInv, Classes, ClassOf, Call
<1>3. EmptyFor(t)
  BY <1>1, <1>2 DEF Has, EmptyFor, SlotInv, Places, PlaceOf, SendCall, ConnectCall
<1>4. QED
  BY <1>2, <1>3 DEF SlotInv, Emptied

\* A step of thread t changes no slot but its own.
OwnSlots(t) ==
    \A s \in Slot : \/ active'[s] = active[s]
                    \/ active[s] \in {NoThread, t} /\ active'[s] \in {NoThread, t}

\* The call goes on, or ends; a connect that failed becomes a free.
SameCall(t) ==
    \/ pc'[t] = "idle"
    \/ /\ pc[t] # "idle"
       /\ frame'[t].call = frame[t].call \/ (frame[t].call = "CONNECT" /\ frame'[t].call = "FREE")

\* The calls that other threads must keep away from.
Lonely == SendCall \cup {"FREE", "CONNECT"}

\* What is said of the others stays.
LEMMA OthersStay ==
    ASSUME NEW t \in Thread, Moves(t), NEW u \in Thread, u # t
    PROVE  /\ PlaceOf(u)' <=> PlaceOf(u)
           /\ Has(u)' <=> Has(u)
           /\ Sending(u)' <=> Sending(u)
           /\ EmptyFor(u)' <=> EmptyFor(u)
           /\ pc'[u] = pc[u] /\ frame'[u] = frame[u]
<1>1. pc'[u] = pc[u] /\ frame'[u] = frame[u]
  BY DEF Moves
<1>2. QED
  BY <1>1 DEF PlaceOf, Has, Sending, EmptyFor

\* A thread makes one step of a call at a time.
LEMMA StepMoves ==
    ASSUME TypeInv, SlotInv, NEW t \in Thread, ThreadStep(t)
    PROVE  Moves(t) /\ (SameCall(t) \/ BeginCall(t))
<1> USE DEF Becomes, Returned, SameCall, TypeInv
<1>1. CASE BeginCall(t)
  BY <1>1, BeginCallMoves
<1>2. CASE SendDataRead(t)
  BY <1>2, SendDataReadMoves DEF SendDataRead
<1>3. CASE SendDataClear(t)
  BY <1>3, SendDataClearMoves DEF SendDataClear
<1>4. CASE NoMemory(t)
  BY <1>4, ThreadReturns DEF NoMemory
<1>5. CASE writeClientData(t)
  BY <1>5, WriteMoves DEF writeClientData
<1>6. CASE SynchronousConnectEventInsert(t)
  BY <1>6, SynchronousConnectEventInsertMoves DEF SynchronousConnectEventInsert
<1>7. CASE SynchronousReceiveEventInsert(t)
  BY <1>7, SynchronousReceiveEventInsertMoves DEF SynchronousReceiveEventInsert
<1>8. CASE ReceiveEventSet(t)
  BY <1>8, ReceiveEventSetMoves DEF ReceiveEventSet
<1>9. CASE SynchronousSendEventInsert(t)
  BY <1>9, SynchronousSendEventInsertMoves DEF SynchronousSendEventInsert
<1>10. CASE writeFromCB(t)
  BY <1>10, CallbackMoves DEF writeFromCB
<1>11. CASE flushSendBuffer(t)
  BY <1>11, flushSendBufferMoves DEF flushSendBuffer
<1>12. CASE FlushDone(t)
  BY <1>12, FlushDoneMoves DEF FlushDone
<1>13. CASE FlushFails(t)
  BY <1>13, FlushFailsMoves DEF FlushFails
<1>14. CASE Work(t)
  BY <1>14, WorkMoves DEF Work
<1>15. CASE SynchronousConnectEventRemove(t)
  BY <1>15, ConnectRemoveMoves DEF SynchronousConnectEventRemove, SlotInv, Places, PlaceOf, ConnectCall
<1>16. CASE SynchronousReceiveEventRemove(t)
  BY <1>16, ThreadReturns DEF SynchronousReceiveEventRemove
<1>17. CASE SynchronousSendEventRemove(t)
  BY <1>17, SendRemoveMoves DEF SynchronousSendEventRemove
<1>18. CASE ConnRecycle(t)
  BY <1>18, ThreadReturns DEF ConnRecycle
<1>19. QED
  BY <1>1, <1>2, <1>3, <1>4, <1>5, <1>6, <1>7, <1>8, <1>9, <1>10, <1>11, <1>12, <1>13, <1>14, <1>15, <1>16, <1>17, <1>18 DEF ThreadStep

\* The calls stay apart: a new one comes when MayCall allows it.
LEMMA ApartKept ==
    ASSUME TypeInv, SlotInv, NEW t \in Thread, ThreadStep(t)
    PROVE  Apart'
<1> USE DEF TypeInv
<1> SUFFICES ASSUME NEW u \in Thread, NEW v \in Thread, u # v, pc'[u] # "idle", pc'[v] # "idle"
             PROVE  /\ frame'[u].call \notin {"FREE", "CONNECT"}
                    /\ ~(frame'[u].call \in SendCall /\ frame'[v].call \in SendCall)
  BY DEF Apart
<1>1. Moves(t) /\ (SameCall(t) \/ BeginCall(t)) /\ \A x \in Thread : frame[x].call \in Call
  BY StepMoves, FrameFields
<1>2. \A x, y \in Thread : x # y /\ pc[x] # "idle" /\ pc[y] # "idle" =>
        /\ frame[x].call \notin {"FREE", "CONNECT"}
        /\ ~(frame[x].call \in SendCall /\ frame[y].call \in SendCall)
  BY DEF SlotInv, Apart
<1>3. CASE SameCall(t)
  BY <1>1, <1>2, <1>3 DEF SameCall, Moves, SendCall
<1>4. CASE BeginCall(t)
  <2>1. PICK c \in Call : MayCall(c) /\ frame'[t].call = c
    BY <1>4, BeginCallMoves DEF Becomes
  <2>2. /\ c \in {"FREE", "CONNECT"} => \A x \in Thread : pc[x] = "idle"
        /\ \A x \in Thread : pc[x] # "idle" => frame[x].call \notin {"FREE", "CONNECT"}
        /\ c \in SendCall => \A x \in Thread : pc[x] # "idle" => frame[x].call \notin SendCall
    BY <1>1, <2>1 DEF MayCall, InCall
  <2>3. QED
    BY <1>1, <1>2, <2>1, <2>2 DEF Moves
<1>5. QED
  BY <1>1, <1>3, <1>4

\* Only the consumer's next call can be beside another one.
LEMMA BesideStays ==
    ASSUME NEW t \in Thread, ThreadStep(t), ~beside'
    PROVE  ~beside
<1>1. CASE BeginCall(t)
  BY <1>1 DEF BeginCall
<1>2. CASE ~BeginCall(t)
  BY <1>2 DEF ThreadStep, SendDataRead, SendDataClear, NoMemory, writeClientData, SynchronousConnectEventInsert,
     SynchronousReceiveEventInsert, ReceiveEventSet, SynchronousSendEventInsert, writeFromCB, flushSendBuffer,
     FlushDone, FlushFails, Work, SynchronousConnectEventRemove, SynchronousReceiveEventRemove,
     SynchronousSendEventRemove, ConnRecycle, link
<1>3. QED
  BY <1>1, <1>2

\* A call that sends stays alone if the next one is not beside it.
LEMMA AloneKept ==
    ASSUME TypeInv, SlotInv, Alone, ~beside', NEW t \in Thread, ThreadStep(t)
    PROVE  Alone'
<1> USE DEF TypeInv
<1> SUFFICES ASSUME NEW u \in Thread, NEW v \in Thread, u # v, pc'[u] # "idle", pc'[v] # "idle"
             PROVE  frame'[u].call \notin Lonely
  BY DEF Alone, Lonely
<1>1. Moves(t) /\ (SameCall(t) \/ BeginCall(t)) /\ \A x \in Thread : frame[x].call \in Call
  BY StepMoves, FrameFields
<1>2. \A x, y \in Thread : x # y /\ pc[x] # "idle" /\ pc[y] # "idle" => frame[x].call \notin Lonely
  BY DEF Alone, Lonely
<1>3. CASE SameCall(t)
  BY <1>1, <1>2, <1>3 DEF SameCall, Moves, Lonely, SendCall
<1>4. CASE BeginCall(t)
  <2>1. PICK c \in Call : MayCall(c) /\ ~Beside(c) /\ frame'[t].call = c
    BY <1>4, BeginCallMoves DEF Becomes
  <2>2. \A w \in Thread : pc[w] # "idle" => frame[w].call \notin Lonely
    BY <1>1, <2>1 DEF MayCall, Beside, InCall, Lonely, Call
  <2>3. c \in Lonely => \A w \in Thread : pc[w] = "idle"
    BY <1>1, <2>1 DEF MayCall, Beside, InCall, Lonely
  <2>4. QED
    BY <1>1, <2>1, <2>2, <2>3 DEF Moves
<1>5. QED
  BY <1>1, <1>3, <1>4

\* The part of the invariant that is about single threads.
LEMMA ThreadSlots ==
    ASSUME TypeOK, SlotInv, NEW t \in Thread, Moves(t), OwnSlots(t),
           \A u \in Thread \ {t} : lock' = u <=> lock = u,
           overtaken => overtaken' \/ active'["send"] = NoThread,
           PlaceOf(t)', ClassOf(t)', TakenBy(t)'
    PROVE  Places' /\ Classes' /\ Taken'
<1>1. Places'
  BY OthersStay DEF Places, SlotInv
<1>2. ASSUME NEW u \in Thread, u # t PROVE ClassOf(u)'
  <2>1. pc'[u] = pc[u] /\ frame'[u] = frame[u] /\ (Has(u)' <=> Has(u)) /\ ClassOf(u)
    BY <1>2, OthersStay DEF SlotInv, Classes
  <2>2. Has(u) => active'[frame[u].slot] = u
    BY <1>2, HasHolds, SyncAssumption DEF OwnSlots
  <2>3. QED
    BY <2>1, <2>2 DEF ClassOf
<1>3. Classes'
  BY <1>2 DEF Classes
<1>4. ASSUME NEW u \in Thread, u # t PROVE TakenBy(u)'
  <2>1. pc'[u] = pc[u] /\ frame'[u] = frame[u] /\ (Has(u)' <=> Has(u)) /\ TakenBy(u) /\ u # NoThread
    BY <1>4, OthersStay, SyncAssumption DEF SlotInv, Taken
  <2>2. ASSUME NEW s \in Slot, active'[s] = u PROVE active[s] = u
    BY <1>4, <2>1, <2>2 DEF OwnSlots
  <2>3. ASSUME NEW s \in Slot, active'[s] = u PROVE (Has(u)' /\ frame'[u].slot = s) \/ (s = "send" /\ overtaken')
    BY <2>1, <2>2, <2>3 DEF TakenBy
  <2>4. lock' = u <=> pc'[u] = "swap"
    BY <1>4, <2>1 DEF TakenBy
  <2>5. QED
    BY <2>3, <2>4 DEF TakenBy
<1>5. Taken'
  BY <1>4 DEF Taken
<1>6. QED
  BY <1>1, <1>3, <1>5

\* A step that leaves the slots alone.
LEMMA SlotsStay ==
    ASSUME TypeOK, SlotInv, Apart', NEW t \in Thread, Moves(t),
           UNCHANGED <<state, active, overtaken, lock>>, state # "CACHED",
           pc[t] # "swap", pc'[t] # "swap",
           Has(t)' <=> Has(t), Has(t) => frame'[t].slot = frame[t].slot,
           PlaceOf(t)', ClassOf(t)', EmptyFor(t)' => sendBuffer' = << >>,
           \/ sendBuffer' = sendBuffer \/ sendBuffer' = << >>
           \/ pc[t] # "idle" /\ frame[t].call \in SendCall
    PROVE  SlotInv'
<1>1. \A u \in Thread : Sending(u)' <=> Sending(u)
  BY OthersStay DEF Sending
<1>2. TakenBy(t)'
  BY DEF TakenBy, SlotInv, Taken
<1>3. Places' /\ Classes' /\ Taken'
  BY <1>2, ThreadSlots DEF OwnSlots
<1>4. Exclusive'
  <2>1. \A u \in Thread : pc'[u] = "swap" => pc[u] = "swap" /\ frame'[u] = frame[u]
    BY OthersStay
  <2>2. QED
    BY <1>1, <2>1 DEF SlotInv, Exclusive
<1>5. InUse' <=> InUse
  BY DEF InUse
<1>6. States'
  BY <1>1, <1>5 DEF SlotInv, States
<1>7. ASSUME NEW u \in Thread, u # t, EmptyFor(u) PROVE sendBuffer' = << >>
  <2>1. pc[u] # "idle" /\ frame[u].call \in SendCall /\ sendBuffer = << >>
    BY <1>7 DEF EmptyFor, SlotInv, Emptied
  <2>2. QED
    BY <1>7, <2>1 DEF SlotInv, Apart
<1>8. Emptied'
  BY <1>7, OthersStay DEF Emptied
<1>9. QED
  BY <1>3, <1>4, <1>6, <1>8 DEF SlotInv

\* A connection that is in use is not recycled.
LEMMA InCallNotCached ==
    ASSUME SlotInv, NEW t \in Thread, pc[t] # "idle"
    PROVE  state # "CACHED"
BY DEF SlotInv, States

\* A call begins.
LEMMA BeginCallSlots ==
    ASSUME TypeOK, SlotInv, Apart', NEW t \in Thread, BeginCall(t)
    PROVE  SlotInv'
<1> USE DEF Becomes, Returned, Call, SendCall, ConnectCall
<1>1. /\ frame[t].call \in Call /\ PlaceOf(t) /\ ClassOf(t)
      /\ EmptyFor(t) => sendBuffer = << >>
  BY FrameFields DEF SlotInv, Places, Classes, Emptied
<1>2. Moves(t) /\ UNCHANGED <<state, active, overtaken, lock>>
  BY BeginCallMoves DEF BeginCall, conn
<1>3. state # "CACHED"
  BY InCallNotCached DEF BeginCall, MayCall
<1>4. pc[t] # "swap" /\ pc'[t] # "swap"
  BY <1>1, BeginCallMoves DEF BeginCall, MayCall, data
<1>5. Has(t)' <=> Has(t)
  BY <1>1, BeginCallMoves DEF BeginCall, MayCall, data, PlaceOf, Has
<1>6. Has(t) => frame'[t].slot = frame[t].slot /\ frame'[t].call = frame[t].call
  BY <1>1, <1>5, BeginCallMoves DEF BeginCall, MayCall, data, PlaceOf, Has
<1>7. PlaceOf(t)'
  BY <1>1, BeginCallMoves DEF BeginCall, MayCall, data, PlaceOf, NoCall, Called
<1>8. ClassOf(t)'
  BY <1>1, <1>2, <1>5, <1>6, BeginCallMoves DEF BeginCall, MayCall, data, PlaceOf, ClassOf, Has
<1>9. EmptyFor(t)' => sendBuffer' = << >>
  BY <1>1, BeginCallMoves DEF BeginCall, MayCall, data, PlaceOf, EmptyFor
<1>10. \/ sendBuffer' = sendBuffer \/ sendBuffer' = << >>
       \/ pc[t] # "idle" /\ frame[t].call \in SendCall
  BY <1>1, BeginCallMoves DEF BeginCall, MayCall, data, PlaceOf
<1>11. QED
  BY <1>2, <1>3, <1>4, <1>5, <1>6, <1>7, <1>8, <1>9, <1>10, SlotsStay

\* The pointer of the send buffer is read.
LEMMA SendDataReadSlots ==
    ASSUME TypeOK, SlotInv, Apart', NEW t \in Thread, SendDataRead(t)
    PROVE  SlotInv'
<1> USE DEF Becomes, Returned, Call, SendCall, ConnectCall
<1>1. /\ frame[t].call \in Call /\ PlaceOf(t) /\ ClassOf(t)
      /\ EmptyFor(t) => sendBuffer = << >>
  BY FrameFields DEF SlotInv, Places, Classes, Emptied
<1>2. Moves(t) /\ UNCHANGED <<state, active, overtaken, lock>>
  BY SendDataReadMoves DEF SendDataRead, conn
<1>3. state # "CACHED"
  BY InCallNotCached DEF SendDataRead
<1>4. pc[t] # "swap" /\ pc'[t] # "swap"
  BY <1>1, SendDataReadMoves DEF SendDataRead, data
<1>5. Has(t)' <=> Has(t)
  BY <1>1, SendDataReadMoves DEF SendDataRead, data, PlaceOf, Has
<1>6. Has(t) => frame'[t].slot = frame[t].slot /\ frame'[t].call = frame[t].call
  BY <1>1, <1>5, SendDataReadMoves DEF SendDataRead, data, PlaceOf, Has
<1>7. PlaceOf(t)'
  BY <1>1, SendDataReadMoves DEF SendDataRead, data, PlaceOf, NoCall, Called
<1>8. ClassOf(t)'
  BY <1>1, <1>2, <1>5, <1>6, SendDataReadMoves DEF SendDataRead, data, PlaceOf, ClassOf, Has
<1>9. EmptyFor(t)' => sendBuffer' = << >>
  BY <1>1, SendDataReadMoves DEF SendDataRead, data, PlaceOf, EmptyFor
<1>10. \/ sendBuffer' = sendBuffer \/ sendBuffer' = << >>
       \/ pc[t] # "idle" /\ frame[t].call \in SendCall
  BY <1>1, SendDataReadMoves DEF SendDataRead, data, PlaceOf
<1>11. QED
  BY <1>2, <1>3, <1>4, <1>5, <1>6, <1>7, <1>8, <1>9, <1>10, SlotsStay

\* The send buffer is handed over.
LEMMA SendDataClearSlots ==
    ASSUME TypeOK, SlotInv, Apart', NEW t \in Thread, SendDataClear(t)
    PROVE  SlotInv'
<1> USE DEF Becomes, Returned, Call, SendCall, ConnectCall
<1>1. /\ frame[t].call \in Call /\ PlaceOf(t) /\ ClassOf(t)
      /\ EmptyFor(t) => sendBuffer = << >>
  BY FrameFields DEF SlotInv, Places, Classes, Emptied
<1>2. Moves(t) /\ UNCHANGED <<state, active, overtaken, lock>>
  BY SendDataClearMoves DEF SendDataClear, conn
<1>3. state # "CACHED"
  BY InCallNotCached DEF SendDataClear
<1>4. pc[t] # "swap" /\ pc'[t] # "swap"
  BY <1>1, SendDataClearMoves DEF SendDataClear, WithBuffer, bufferedSendDataGet
<1>5. Has(t)' <=> Has(t)
  BY <1>1, SendDataClearMoves DEF SendDataClear, WithBuffer, bufferedSendDataGet, PlaceOf, Has
<1>6. Has(t) => frame'[t].slot = frame[t].slot /\ frame'[t].call = frame[t].call
  BY <1>1, <1>5, SendDataClearMoves DEF SendDataClear, WithBuffer, bufferedSendDataGet, PlaceOf, Has
<1>7. PlaceOf(t)'
  BY <1>1, SendDataClearMoves DEF SendDataClear, WithBuffer, bufferedSendDataGet, PlaceOf, NoCall, Called
<1>8. ClassOf(t)'
  BY <1>1, <1>2, <1>5, <1>6, SendDataClearMoves DEF SendDataClear, WithBuffer, bufferedSendDataGet, PlaceOf, ClassOf, Has
<1>9. EmptyFor(t)' => sendBuffer' = << >>
  BY <1>1, SendDataClearMoves DEF SendDataClear, WithBuffer, bufferedSendDataGet, PlaceOf, EmptyFor
<1>10. \/ sendBuffer' = sendBuffer \/ sendBuffer' = << >>
       \/ pc[t] # "idle" /\ frame[t].call \in SendCall
  BY <1>1, SendDataClearMoves DEF SendDataClear, WithBuffer, bufferedSendDataGet, PlaceOf
<1>11. QED
  BY <1>2, <1>3, <1>4, <1>5, <1>6, <1>7, <1>8, <1>9, <1>10, SlotsStay

\* A write finds no memory.
LEMMA NoMemorySlots ==
    ASSUME TypeOK, SlotInv, Apart', NEW t \in Thread, NoMemory(t)
    PROVE  SlotInv'
<1> USE DEF Becomes, Returned, Call, SendCall, ConnectCall
<1>1. /\ frame[t].call \in Call /\ PlaceOf(t) /\ ClassOf(t)
      /\ EmptyFor(t) => sendBuffer = << >>
  BY FrameFields DEF SlotInv, Places, Classes, Emptied
<1>2. Moves(t) /\ UNCHANGED <<state, active, overtaken, lock>>
  BY ThreadReturns DEF NoMemory, conn
<1>3. state # "CACHED"
  BY InCallNotCached DEF NoMemory
<1>4. pc[t] # "swap" /\ pc'[t] # "swap"
  BY <1>1, ThreadReturns DEF NoMemory, data
<1>5. Has(t)' <=> Has(t)
  BY <1>1, ThreadReturns DEF NoMemory, data, PlaceOf, Has
<1>6. Has(t) => frame'[t].slot = frame[t].slot /\ frame'[t].call = frame[t].call
  BY <1>1, <1>5, ThreadReturns DEF NoMemory, data, PlaceOf, Has
<1>7. PlaceOf(t)'
  BY <1>1, ThreadReturns DEF NoMemory, data, PlaceOf, NoCall, Called
<1>8. ClassOf(t)'
  BY <1>1, <1>2, <1>5, <1>6, ThreadReturns DEF NoMemory, data, PlaceOf, ClassOf, Has
<1>9. EmptyFor(t)' => sendBuffer' = << >>
  BY <1>1, ThreadReturns DEF NoMemory, data, PlaceOf, EmptyFor
<1>10. \/ sendBuffer' = sendBuffer \/ sendBuffer' = << >>
       \/ pc[t] # "idle" /\ frame[t].call \in SendCall
  BY <1>1, ThreadReturns DEF NoMemory, data, PlaceOf
<1>11. QED
  BY <1>2, <1>3, <1>4, <1>5, <1>6, <1>7, <1>8, <1>9, <1>10, SlotsStay

\* Items are copied.
LEMMA WriteClientDataSlots ==
    ASSUME TypeInv, SlotInv, Apart', NEW t \in Thread, writeClientData(t)
    PROVE  SlotInv'
<1> USE DEF Becomes, Returned, Call, SendCall, ConnectCall, TypeInv
<1>1. /\ frame[t].call \in Call /\ PlaceOf(t) /\ ClassOf(t)
      /\ EmptyFor(t) => sendBuffer = << >>
  BY FrameFields DEF SlotInv, Places, Classes, Emptied
<1>2. Moves(t) /\ UNCHANGED <<state, active, overtaken, lock>>
  BY WriteMoves DEF writeClientData, conn
<1>3. state # "CACHED"
  BY InCallNotCached DEF writeClientData
<1>4. pc[t] # "swap" /\ pc'[t] # "swap"
  BY <1>1, WriteMoves DEF writeClientData
<1>5. Has(t)' <=> Has(t)
  BY <1>1, WriteMoves DEF writeClientData, PlaceOf, Has
<1>6. Has(t) => frame'[t].slot = frame[t].slot /\ frame'[t].call = frame[t].call
  BY <1>1, <1>5, WriteMoves DEF writeClientData, PlaceOf, Has
<1>7. PlaceOf(t)'
  BY <1>1, WriteMoves DEF writeClientData, PlaceOf, NoCall, Called
<1>8. ClassOf(t)'
  BY <1>1, <1>2, <1>5, <1>6, WriteMoves DEF writeClientData, PlaceOf, ClassOf, Has
<1>9. EmptyFor(t)' => sendBuffer' = << >>
  BY <1>1, WriteMoves DEF writeClientData, PlaceOf, EmptyFor
<1>10. \/ sendBuffer' = sendBuffer \/ sendBuffer' = << >>
       \/ pc[t] # "idle" /\ frame[t].call \in SendCall
  BY <1>1, WriteMoves DEF writeClientData, PlaceOf
<1>11. QED
  BY <1>2, <1>3, <1>4, <1>5, <1>6, <1>7, <1>8, <1>9, <1>10, SlotsStay

\* The callback writes.
LEMMA WriteFromCBSlots ==
    ASSUME TypeInv, SlotInv, Apart', NEW t \in Thread, writeFromCB(t)
    PROVE  SlotInv'
<1> USE DEF Becomes, Returned, Call, SendCall, ConnectCall, TypeInv
<1>1. /\ frame[t].call \in Call /\ PlaceOf(t) /\ ClassOf(t)
      /\ EmptyFor(t) => sendBuffer = << >>
  BY FrameFields DEF SlotInv, Places, Classes, Emptied
<1>2. Moves(t) /\ UNCHANGED <<state, active, overtaken, lock>>
  BY CallbackMoves DEF writeFromCB, conn
<1>3. state # "CACHED"
  BY InCallNotCached DEF writeFromCB
<1>4. pc[t] # "swap" /\ pc'[t] # "swap"
  BY <1>1, CallbackMoves DEF writeFromCB, data
<1>5. Has(t)' <=> Has(t)
  BY <1>1, CallbackMoves DEF writeFromCB, data, PlaceOf, Has
<1>6. Has(t) => frame'[t].slot = frame[t].slot /\ frame'[t].call = frame[t].call
  BY <1>1, <1>5, CallbackMoves DEF writeFromCB, data, PlaceOf, Has
<1>7. PlaceOf(t)'
  BY <1>1, CallbackMoves DEF writeFromCB, data, PlaceOf, NoCall, Called
<1>8. ClassOf(t)'
  BY <1>1, <1>2, <1>5, <1>6, CallbackMoves DEF writeFromCB, data, PlaceOf, ClassOf, Has
<1>9. EmptyFor(t)' => sendBuffer' = << >>
  BY <1>1, CallbackMoves DEF writeFromCB, data, PlaceOf, EmptyFor
<1>10. \/ sendBuffer' = sendBuffer \/ sendBuffer' = << >>
       \/ pc[t] # "idle" /\ frame[t].call \in SendCall
  BY <1>1, CallbackMoves DEF writeFromCB, data, PlaceOf
<1>11. QED
  BY <1>2, <1>3, <1>4, <1>5, <1>6, <1>7, <1>8, <1>9, <1>10, SlotsStay

\* An item is sent.
LEMMA FlushSendBufferSlots ==
    ASSUME TypeOK, SlotInv, Apart', NEW t \in Thread, flushSendBuffer(t)
    PROVE  SlotInv'
<1> USE DEF Becomes, Returned, Call, SendCall, ConnectCall
<1>1. /\ frame[t].call \in Call /\ PlaceOf(t) /\ ClassOf(t)
      /\ EmptyFor(t) => sendBuffer = << >>
  BY FrameFields DEF SlotInv, Places, Classes, Emptied
<1>2. Moves(t) /\ UNCHANGED <<state, active, overtaken, lock>>
  BY flushSendBufferMoves DEF flushSendBuffer, conn
<1>3. state # "CACHED"
  BY InCallNotCached DEF flushSendBuffer
<1>4. pc[t] # "swap" /\ pc'[t] # "swap"
  BY <1>1, flushSendBufferMoves DEF flushSendBuffer
<1>5. Has(t)' <=> Has(t)
  BY <1>1, flushSendBufferMoves DEF flushSendBuffer, PlaceOf, Has
<1>6. Has(t) => frame'[t].slot = frame[t].slot /\ frame'[t].call = frame[t].call
  BY <1>1, <1>5, flushSendBufferMoves DEF flushSendBuffer, PlaceOf, Has
<1>7. PlaceOf(t)'
  BY <1>1, flushSendBufferMoves DEF flushSendBuffer, PlaceOf, NoCall, Called
<1>8. ClassOf(t)'
  BY <1>1, <1>2, <1>5, <1>6, flushSendBufferMoves DEF flushSendBuffer, PlaceOf, ClassOf, Has
<1>9. EmptyFor(t)' => sendBuffer' = << >>
  BY <1>1, flushSendBufferMoves DEF flushSendBuffer, PlaceOf, EmptyFor
<1>10. \/ sendBuffer' = sendBuffer \/ sendBuffer' = << >>
       \/ pc[t] # "idle" /\ frame[t].call \in SendCall
  BY <1>1, flushSendBufferMoves DEF flushSendBuffer, PlaceOf
<1>11. QED
  BY <1>2, <1>3, <1>4, <1>5, <1>6, <1>7, <1>8, <1>9, <1>10, SlotsStay

\* A flush is done.
LEMMA FlushDoneSlots ==
    ASSUME TypeOK, SlotInv, Apart', NEW t \in Thread, FlushDone(t)
    PROVE  SlotInv'
<1> USE DEF Becomes, Returned, Call, SendCall, ConnectCall
<1>1. /\ frame[t].call \in Call /\ PlaceOf(t) /\ ClassOf(t)
      /\ EmptyFor(t) => sendBuffer = << >>
  BY FrameFields DEF SlotInv, Places, Classes, Emptied
<1>2. Moves(t) /\ UNCHANGED <<state, active, overtaken, lock>>
  BY FlushDoneMoves DEF FlushDone, conn
<1>3. state # "CACHED"
  BY InCallNotCached DEF FlushDone
<1>4. pc[t] # "swap" /\ pc'[t] # "swap"
  BY <1>1, FlushDoneMoves DEF FlushDone, AfterFlush, data
<1>5. Has(t)' <=> Has(t)
  BY <1>1, FlushDoneMoves DEF FlushDone, AfterFlush, data, PlaceOf, Has
<1>6. Has(t) => frame'[t].slot = frame[t].slot /\ frame'[t].call = frame[t].call
  BY <1>1, <1>5, FlushDoneMoves DEF FlushDone, AfterFlush, data, PlaceOf, Has
<1>7. PlaceOf(t)'
  BY <1>1, FlushDoneMoves DEF FlushDone, AfterFlush, data, PlaceOf, NoCall, Called
<1>8. ClassOf(t)'
  BY <1>1, <1>2, <1>5, <1>6, FlushDoneMoves DEF FlushDone, AfterFlush, data, PlaceOf, ClassOf, Has
<1>9. EmptyFor(t)' => sendBuffer' = << >>
  BY <1>1, FlushDoneMoves DEF FlushDone, AfterFlush, data, PlaceOf, EmptyFor
<1>10. \/ sendBuffer' = sendBuffer \/ sendBuffer' = << >>
       \/ pc[t] # "idle" /\ frame[t].call \in SendCall
  BY <1>1, FlushDoneMoves DEF FlushDone, AfterFlush, data, PlaceOf
<1>11. QED
  BY <1>2, <1>3, <1>4, <1>5, <1>6, <1>7, <1>8, <1>9, <1>10, SlotsStay

\* A flush fails.
LEMMA FlushFailsSlots ==
    ASSUME TypeOK, SlotInv, Apart', NEW t \in Thread, FlushFails(t)
    PROVE  SlotInv'
<1> USE DEF Becomes, Returned, Call, SendCall, ConnectCall
<1>1. /\ frame[t].call \in Call /\ PlaceOf(t) /\ ClassOf(t)
      /\ EmptyFor(t) => sendBuffer = << >>
  BY FrameFields DEF SlotInv, Places, Classes, Emptied
<1>2. Moves(t) /\ UNCHANGED <<state, active, overtaken, lock>>
  BY FlushFailsMoves DEF FlushFails, conn
<1>3. state # "CACHED"
  BY InCallNotCached DEF FlushFails
<1>4. pc[t] # "swap" /\ pc'[t] # "swap"
  BY <1>1, FlushFailsMoves DEF FlushFails, AfterFlush
<1>5. Has(t)' <=> Has(t)
  BY <1>1, FlushFailsMoves DEF FlushFails, AfterFlush, PlaceOf, Has
<1>6. Has(t) => frame'[t].slot = frame[t].slot /\ frame'[t].call = frame[t].call
  BY <1>1, <1>5, FlushFailsMoves DEF FlushFails, AfterFlush, PlaceOf, Has
<1>7. PlaceOf(t)'
  BY <1>1, FlushFailsMoves DEF FlushFails, AfterFlush, PlaceOf, NoCall, Called
<1>8. ClassOf(t)'
  BY <1>1, <1>2, <1>5, <1>6, FlushFailsMoves DEF FlushFails, AfterFlush, PlaceOf, ClassOf, Has
<1>9. EmptyFor(t)' => sendBuffer' = << >>
  BY <1>1, FlushFailsMoves DEF FlushFails, AfterFlush, PlaceOf, EmptyFor
<1>10. \/ sendBuffer' = sendBuffer \/ sendBuffer' = << >>
       \/ pc[t] # "idle" /\ frame[t].call \in SendCall
  BY <1>1, FlushFailsMoves DEF FlushFails, AfterFlush, PlaceOf
<1>11. QED
  BY <1>2, <1>3, <1>4, <1>5, <1>6, <1>7, <1>8, <1>9, <1>10, SlotsStay

\* The work of a call is done.
LEMMA WorkSlots ==
    ASSUME TypeOK, SlotInv, Apart', NEW t \in Thread, Work(t)
    PROVE  SlotInv'
<1> USE DEF Becomes, Returned, Call, SendCall, ConnectCall
<1>1. /\ frame[t].call \in Call /\ PlaceOf(t) /\ ClassOf(t)
      /\ EmptyFor(t) => sendBuffer = << >>
  BY FrameFields DEF SlotInv, Places, Classes, Emptied
<1>2. Moves(t) /\ UNCHANGED <<state, active, overtaken, lock>>
  BY WorkMoves DEF Work, conn
<1>3. state # "CACHED"
  BY InCallNotCached DEF Work
<1>4. pc[t] # "swap" /\ pc'[t] # "swap"
  BY <1>1, WorkMoves DEF Work, data
<1>5. Has(t)' <=> Has(t)
  BY <1>1, WorkMoves DEF Work, data, PlaceOf, Has
<1>6. Has(t) => frame'[t].slot = frame[t].slot /\ frame'[t].call = frame[t].call
  BY <1>1, <1>5, WorkMoves DEF Work, data, PlaceOf, Has
<1>7. PlaceOf(t)'
  BY <1>1, WorkMoves DEF Work, data, PlaceOf, NoCall, Called
<1>8. ClassOf(t)'
  BY <1>1, <1>2, <1>5, <1>6, WorkMoves DEF Work, data, PlaceOf, ClassOf, Has
<1>9. EmptyFor(t)' => sendBuffer' = << >>
  BY <1>1, WorkMoves DEF Work, data, PlaceOf, EmptyFor
<1>10. \/ sendBuffer' = sendBuffer \/ sendBuffer' = << >>
       \/ pc[t] # "idle" /\ frame[t].call \in SendCall
  BY <1>1, WorkMoves DEF Work, data, PlaceOf
<1>11. QED
  BY <1>2, <1>3, <1>4, <1>5, <1>6, <1>7, <1>8, <1>9, <1>10, SlotsStay

\* A call of the connect class asks for its slot.
LEMMA ConnectInsertSlots ==
    ASSUME TypeOK, SlotInv, Apart', NEW t \in Thread, SynchronousConnectEventInsert(t)
    PROVE  SlotInv'
<1> USE DEF Becomes, Returned, Call, SendCall, ConnectCall
<1>1. /\ frame[t].call \in Call /\ frame[t].slot \in Slot /\ PlaceOf(t) /\ ClassOf(t) /\ TakenBy(t) /\ NoThread \notin Thread
      /\ EmptyFor(t) => sendBuffer = << >>
      /\ active \in [Slot -> Thread \cup {NoThread}]
  BY FrameFields, SyncAssumption DEF SlotInv, Places, Classes, Taken, Emptied, TypeOK
<1>2. pc[t] = "insert" /\ lock = NoThread /\ ~Has(t) /\ ~Sending(t) /\ Moves(t)
  BY SynchronousConnectEventInsertMoves DEF SynchronousConnectEventInsert, Has, Sending
<1>3. \A u \in Thread : pc[u] # "swap"
  BY <1>1, <1>2 DEF SlotInv, Taken, TakenBy
<1>4. CASE ~ConnectPermitted
  <2>1. UNCHANGED <<state, active, overtaken, lock>> /\ Returned(t)
    BY <1>4, SynchronousConnectEventInsertMoves DEF SynchronousConnectEventInsert
  <2>2. state # "CACHED"
    BY <1>2, InCallNotCached
  <2>3. ~Has(t)' /\ PlaceOf(t)' /\ ClassOf(t)' /\ ~EmptyFor(t)'
    BY <2>1 DEF Has, PlaceOf, ClassOf, EmptyFor
  <2>4. \/ sendBuffer' = sendBuffer \/ sendBuffer' = << >>
        \/ pc[t] # "idle" /\ frame[t].call \in SendCall
    BY <1>2, <1>4 DEF SynchronousConnectEventInsert, data
  <2>5. QED
    BY <1>2, <2>1, <2>2, <2>3, <2>4, SlotsStay

<1>5. CASE ConnectPermitted
  <2>1. /\ frame[t].call \in ConnectCall
        /\ pc'[t] \in {"get", "work", "remove"} /\ frame'[t].slot = "connect" /\ frame'[t].call = frame[t].call
        /\ (frame'[t].failed <=> frame[t].failed)
        /\ state' = "SYNCHRONOUS" /\ active' = [active EXCEPT !["connect"] = t]
        /\ UNCHANGED <<overtaken, lock, sendBuffer>>
    BY <1>1, <1>2, <1>5, SynchronousConnectEventInsertMoves DEF SynchronousConnectEventInsert, Take, ConnectStep, DisconnectStep,
       SSLConnectStep, SSLDisconnectStep, FreeStep, data
  <2>2. \A s \in Slot : active[s] = NoThread
    BY <1>5 DEF ConnectPermitted, AllFree
  <2>3. active'["connect"] = t /\ \A s \in Slot : s # "connect" => active'[s] = NoThread
    BY <1>1, <2>1, <2>2 DEF Slot
  <2>4. OwnSlots(t) /\ PlaceOf(t)' /\ ClassOf(t)' /\ TakenBy(t)'
    BY <1>1, <1>2, <2>1, <2>2, <2>3 DEF OwnSlots, PlaceOf, ClassOf, TakenBy, Has
  <2>5. Places' /\ Classes' /\ Taken'
    BY <1>2, <2>1, <2>4, ThreadSlots
  <2>6. \A u \in Thread : ~Sending(u)'
    BY <1>1, <1>2, <2>1, <2>2, OthersStay, SendingFacts DEF Sending, Slot
  <2>7. Exclusive'
    BY <1>1, <1>2, <1>3, <2>1, <2>3, <2>6, OthersStay DEF Exclusive, Slot
  <2>8. States'
    BY <1>1, <2>1, <2>3 DEF States, InUse
  <2>9. Emptied'
    BY <1>2, <2>1, OthersStay DEF Emptied, EmptyFor, SlotInv
  <2>10. QED
    BY <2>5, <2>7, <2>8, <2>9 DEF SlotInv
<1>6. QED
  BY <1>4, <1>5

\* A read asks for a slot.
LEMMA ReceiveInsertSlots ==
    ASSUME TypeOK, SlotInv, Apart', NEW t \in Thread, SynchronousReceiveEventInsert(t)
    PROVE  SlotInv'
<1> USE DEF Becomes, Returned, Call, SendCall, ConnectCall
<1>1. /\ frame[t].call \in Call /\ frame[t].slot \in Slot /\ PlaceOf(t) /\ ClassOf(t) /\ TakenBy(t) /\ NoThread \notin Thread
      /\ EmptyFor(t) => sendBuffer = << >>
      /\ active \in [Slot -> Thread \cup {NoThread}]
  BY FrameFields, SyncAssumption DEF SlotInv, Places, Classes, Taken, Emptied, TypeOK
<1>2. pc[t] = "insert" /\ lock = NoThread /\ ~Has(t) /\ ~Sending(t) /\ Moves(t)
  BY SynchronousReceiveEventInsertMoves DEF SynchronousReceiveEventInsert, Has, Sending
<1>3. \A u \in Thread : pc[u] # "swap"
  BY <1>1, <1>2 DEF SlotInv, Taken, TakenBy
<1>4. CASE ~ReceivePermitted
  <2>1. UNCHANGED <<state, active, overtaken, lock>> /\ Returned(t)
    BY <1>4, SynchronousReceiveEventInsertMoves DEF SynchronousReceiveEventInsert
  <2>2. state # "CACHED"
    BY <1>2, InCallNotCached
  <2>3. ~Has(t)' /\ PlaceOf(t)' /\ ClassOf(t)' /\ ~EmptyFor(t)'
    BY <2>1 DEF Has, PlaceOf, ClassOf, EmptyFor
  <2>4. \/ sendBuffer' = sendBuffer \/ sendBuffer' = << >>
        \/ pc[t] # "idle" /\ frame[t].call \in SendCall
    BY <1>2, <1>4 DEF SynchronousReceiveEventInsert, data
  <2>5. QED
    BY <1>2, <2>1, <2>2, <2>3, <2>4, SlotsStay

<1>5. CASE ReceivePermitted
  <2>1. /\ frame[t].call = "READ" /\ frame'[t].call = "READ" /\ pc'[t] = "swap" /\ frame'[t].seen = sendBuffer
        /\ (frame'[t].failed <=> frame[t].failed)
        /\ state' = "SYNCHRONOUS" /\ lock' = t
        /\ UNCHANGED <<active, overtaken, sendBuffer>>
    BY <1>5, SynchronousReceiveEventInsertMoves DEF SynchronousReceiveEventInsert, data
  <2>2. ~Has(t)' /\ ~Sending(t)'
    BY <2>1 DEF Has, Sending
  <2>3. OwnSlots(t) /\ PlaceOf(t)' /\ ClassOf(t)' /\ TakenBy(t)'
    BY <1>1, <1>2, <2>1, <2>2 DEF OwnSlots, PlaceOf, ClassOf, TakenBy
  <2>4. Places' /\ Classes' /\ Taken'
    BY <1>1, <1>2, <2>1, <2>3, ThreadSlots
  <2>5. \A u \in Thread : Sending(u)' => Sending(u) /\ sendBuffer = << >>
    BY <1>2, <2>2, OthersStay, SendingFacts
  <2>6. Exclusive'
    BY <1>1, <1>2, <1>3, <1>5, <2>1, <2>5, OthersStay DEF Exclusive, ReceivePermitted
  <2>7. States'
    BY <1>1, <2>1 DEF States, InUse
  <2>8. Emptied'
    BY <1>2, <2>1, OthersStay DEF Emptied, EmptyFor, SlotInv
  <2>9. QED
    BY <2>4, <2>6, <2>7, <2>8 DEF SlotInv
<1>6. QED
  BY <1>4, <1>5

\* A read takes its slot.
LEMMA ReceiveSetSlots ==
    ASSUME TypeOK, SlotInv, Apart', NEW t \in Thread, ReceiveEventSet(t)
    PROVE  SlotInv'
<1> DEFINE s == ReceiveSlot(frame[t])
<1>1. /\ frame[t].call = "READ" /\ pc[t] = "swap" /\ lock = t /\ t # NoThread /\ PlaceOf(t) /\ TakenBy(t)
      /\ active["connect"] = NoThread /\ active["receive"] = NoThread
      /\ active \in [Slot -> Thread \cup {NoThread}]
  BY SyncAssumption DEF ReceiveEventSet, SlotInv, Places, PlaceOf, Taken, TakenBy, Exclusive, TypeOK
<1>2. /\ Moves(t) /\ frame'[t].call = "READ" /\ frame'[t].slot = s
      /\ pc'[t] = IF s = "receive" THEN "work" ELSE "flush"
      /\ (frame'[t].failed <=> frame[t].failed)
  BY <1>1, ReceiveEventSetMoves DEF Becomes, ReceiveSlot
<1>3. /\ state' = "SYNCHRONOUS" /\ active' = [active EXCEPT ![s] = t] /\ lock' = NoThread /\ UNCHANGED overtaken
      /\ sendBuffer' = sendBuffer \/ sendBuffer' = << >>
  BY DEF ReceiveEventSet, Take, bufferedSendDataGet
<1>4. s \in {"receive", "connect"} /\ (s = "connect" => frame[t].seen # << >>)
  BY DEF ReceiveSlot
<1> HIDE DEF s
<1>5. active'[s] = t /\ \A r \in Slot : r # s => active'[r] = active[r]
  BY <1>1, <1>3, <1>4 DEF Slot
<1>6. Has(t)' /\ ~Has(t) /\ ~Sending(t)'
  BY <1>1, <1>2, <1>4 DEF Has, Sending
<1>7. OwnSlots(t) /\ PlaceOf(t)' /\ ClassOf(t)' /\ TakenBy(t)'
  BY <1>1, <1>2, <1>3, <1>4, <1>5, <1>6 DEF OwnSlots, PlaceOf, ClassOf, TakenBy, SendCall, ConnectCall
<1>8. Places' /\ Classes' /\ Taken'
  BY <1>1, <1>2, <1>3, <1>7, SyncAssumption, ThreadSlots
<1>9. \A u \in Thread : Sending(u)' => Sending(u) /\ s # "connect"
  BY <1>1, <1>2, <1>4, <1>6, OthersStay DEF SlotInv, Exclusive
<1>10. \A u \in Thread : pc'[u] # "swap"
  BY <1>1, <1>2, OthersStay DEF SlotInv, Taken, TakenBy
<1>11. Exclusive'
  BY <1>1, <1>3, <1>4, <1>5, <1>9, <1>10 DEF Exclusive, Slot
<1>12. States'
  BY <1>1, <1>3, <1>4, <1>5 DEF States, InUse, Slot
<1>13. Emptied'
  BY <1>2, <1>3, OthersStay DEF Emptied, EmptyFor, SlotInv, SendCall
<1>14. QED
  BY <1>8, <1>11, <1>12, <1>13 DEF SlotInv

\* A call that sends asks for its slot.
LEMMA SendInsertSlots ==
    ASSUME TypeOK, SlotInv, Apart', NEW t \in Thread, SynchronousSendEventInsert(t)
    PROVE  SlotInv'
<1> USE DEF Becomes, Returned, Call, SendCall, ConnectCall
<1>1. /\ frame[t].call \in Call /\ frame[t].slot \in Slot /\ PlaceOf(t) /\ ClassOf(t) /\ TakenBy(t) /\ NoThread \notin Thread
      /\ EmptyFor(t) => sendBuffer = << >>
      /\ active \in [Slot -> Thread \cup {NoThread}]
  BY FrameFields, SyncAssumption DEF SlotInv, Places, Classes, Taken, Emptied, TypeOK
<1>2. pc[t] = "insert" /\ lock = NoThread /\ ~Has(t) /\ ~Sending(t) /\ Moves(t)
  BY SynchronousSendEventInsertMoves DEF SynchronousSendEventInsert, Has, Sending
<1>3. \A u \in Thread : pc[u] # "swap"
  BY <1>1, <1>2 DEF SlotInv, Taken, TakenBy
<1>4. CASE ~SendPermitted
  <2>1. UNCHANGED <<state, active, overtaken, lock>> /\ Returned(t)
    BY <1>4, SynchronousSendEventInsertMoves DEF SynchronousSendEventInsert
  <2>2. state # "CACHED"
    BY <1>2, InCallNotCached
  <2>3. ~Has(t)' /\ PlaceOf(t)' /\ ClassOf(t)' /\ ~EmptyFor(t)'
    BY <2>1 DEF Has, PlaceOf, ClassOf, EmptyFor
  <2>4. \/ sendBuffer' = sendBuffer \/ sendBuffer' = << >>
        \/ pc[t] # "idle" /\ frame[t].call \in SendCall
    BY <1>2, <1>4 DEF SynchronousSendEventInsert, data
  <2>5. QED
    BY <1>2, <2>1, <2>2, <2>3, <2>4, SlotsStay

<1>5. CASE SendPermitted
  <2>1. /\ frame[t].call \in SendCall /\ frame'[t].call = frame[t].call /\ frame'[t].slot = "send"
        /\ pc'[t] = IF frame[t].call = "WRITE_FROM_CB" THEN "callback" ELSE "flush"
        /\ (frame'[t].failed <=> frame[t].failed)
        /\ state' = "SYNCHRONOUS" /\ active' = [active EXCEPT !["send"] = t]
        /\ UNCHANGED <<overtaken, lock, sendBuffer>>
    BY <1>5, SynchronousSendEventInsertMoves DEF SynchronousSendEventInsert, Take
  <2>2. active'["send"] = t /\ \A s \in Slot : s # "send" => active'[s] = active[s]
    BY <1>1, <2>1 DEF Slot
  <2>3. active["send"] = NoThread /\ active["connect"] = NoThread /\ "connect" \in Slot /\ "receive" \in Slot
    BY <1>5 DEF SendPermitted, Slot
  <2>4. Has(t)' /\ Sending(t)'
    BY <2>1 DEF Has, Sending
  <2>5. OwnSlots(t) /\ PlaceOf(t)' /\ ClassOf(t)' /\ TakenBy(t)'
    BY <1>1, <1>2, <2>1, <2>2, <2>3, <2>4 DEF OwnSlots, PlaceOf, ClassOf, TakenBy
  <2>6. Places' /\ Classes' /\ Taken'
    BY <1>2, <2>1, <2>5, ThreadSlots
  <2>7. Exclusive'
    BY <1>2, <1>3, <2>1, <2>2, <2>3, OthersStay DEF Exclusive
  <2>8. States'
    BY <2>1, <2>4 DEF States
  <2>9. sendBuffer = << >>
    BY <1>1, <1>2, <2>1 DEF EmptyFor
  <2>10. Emptied'
    BY <2>1, <2>9 DEF Emptied
  <2>11. QED
    BY <2>6, <2>7, <2>8, <2>10 DEF SlotInv
<1>6. QED
  BY <1>4, <1>5

\* A call of the connect class gives its slot back.
LEMMA ConnectRemoveSlots ==
    ASSUME TypeOK, SlotInv, Apart', NEW t \in Thread, SynchronousConnectEventRemove(t)
    PROVE  SlotInv'
<1> USE DEF Becomes, Returned, SendCall, ConnectCall
<1>1. /\ pc[t] = "remove" /\ frame[t].call \in ConnectCall /\ Has(t) /\ lock = NoThread /\ lock' = NoThread
      /\ UNCHANGED <<overtaken, sendBuffer>> /\ active \in [Slot -> Thread \cup {NoThread}]
  BY DEF SynchronousConnectEventRemove, Has, data, TypeOK
<1>2. frame[t].slot = "connect" /\ active["connect"] = t /\ Holds(t) /\ t # NoThread
  BY <1>1, HasHolds, SyncAssumption DEF SlotInv, Classes, ClassOf
<1>3. active' = [active EXCEPT !["connect"] = NoThread] /\ state' = "IDLE"
  BY <1>2 DEF SynchronousConnectEventRemove, Clear
<1>4. /\ active'["connect"] = NoThread /\ active["receive"] = NoThread /\ active'["receive"] = NoThread
      /\ \A s \in Slot : active'[s] = active[s] \/ (active[s] = t /\ active'[s] = NoThread)
      /\ \A u \in Thread : ~Sending(u)
  BY <1>1, <1>2, <1>3 DEF SlotInv, Exclusive, Slot
<1>5. Moves(t) /\ (Returned(t) \/ (pc'[t] = "insert" /\ frame'[t].call = "FREE" /\ ~frame'[t].failed))
  BY ConnectRemoveMoves DEF SynchronousConnectEventRemove
<1>6. ~Has(t)' /\ ~Sending(t)' /\ pc'[t] # "swap" /\ ~EmptyFor(t)'
  BY <1>5 DEF Has, Sending, EmptyFor
<1>7. OwnSlots(t) /\ PlaceOf(t)' /\ ClassOf(t)'
  BY <1>4, <1>5, <1>6 DEF OwnSlots, PlaceOf, ClassOf
<1>8. TakenBy(t)'
  BY <1>1, <1>2, <1>3, <1>4, <1>6 DEF SlotInv, Taken, TakenBy, Slot
<1>9. Places' /\ Classes' /\ Taken'
  BY <1>1, <1>5, <1>7, <1>8, ThreadSlots
<1>10. \A u \in Thread : pc'[u] # "swap" /\ ~Sending(u)'
  BY <1>1, <1>4, <1>5, <1>6, OthersStay, SyncAssumption DEF SlotInv, Taken, TakenBy
<1>11. Exclusive' /\ States'
  BY <1>1, <1>3, <1>4, <1>10 DEF Exclusive, States, InUse
<1>12. Emptied'
  BY <1>1, <1>5, <1>6, OthersStay DEF Emptied, SlotInv
<1>13. QED
  BY <1>9, <1>11, <1>12 DEF SlotInv

\* A read gives its slot back, and overtakes the event in the send slot.
LEMMA ReceiveRemoveSlots ==
    ASSUME TypeOK, SlotInv, Apart', NEW t \in Thread, SynchronousReceiveEventRemove(t)
    PROVE  SlotInv'
<1>1. /\ pc[t] = "remove" /\ frame[t].call = "READ" /\ Has(t) /\ lock = NoThread /\ lock' = NoThread
      /\ UNCHANGED sendBuffer /\ active \in [Slot -> Thread \cup {NoThread}]
  BY DEF SynchronousReceiveEventRemove, Has, data, TypeOK
<1> DEFINE s == frame[t].slot
<1>2. s \in {"receive", "connect"} /\ active[s] = t /\ Holds(t) /\ t # NoThread
  BY <1>1, HasHolds, SyncAssumption DEF SlotInv, Classes, ClassOf
<1>3. /\ active' = [active EXCEPT ![s] = NoThread] /\ state' = "IDLE"
      /\ overtaken' = (overtaken \/ active["send"] # NoThread)
  BY <1>2 DEF SynchronousReceiveEventRemove, Clear
<1> HIDE DEF s
<1>4. active["connect"] # NoThread => active["receive"] = NoThread
  BY DEF SlotInv, Exclusive
<1>5. /\ active'["connect"] = NoThread /\ active'["receive"] = NoThread
      /\ \A r \in Slot : active'[r] = active[r] \/ (r = s /\ active[r] = t /\ active'[r] = NoThread)
  BY <1>1, <1>2, <1>3, <1>4 DEF Slot
<1>6. Moves(t) /\ Returned(t)
  BY ThreadReturns DEF SynchronousReceiveEventRemove
<1>7. ~Has(t)' /\ ~Sending(t)' /\ pc'[t] # "swap" /\ ~EmptyFor(t)'
  BY <1>6 DEF Returned, Has, Sending, EmptyFor
<1>8. OwnSlots(t) /\ PlaceOf(t)' /\ ClassOf(t)'
  BY <1>5, <1>6, <1>7 DEF OwnSlots, PlaceOf, ClassOf, Returned, Becomes
<1>9. TakenBy(t)'
  <2>1. ASSUME NEW r \in Slot, active'[r] = t PROVE r = "send" /\ overtaken'
    <3>1. r # s /\ active[r] = t
      BY <1>2, <1>3, <1>5, <2>1 DEF Slot
    <3>2. r = "send" /\ overtaken
      BY <3>1 DEF s, SlotInv, Taken, TakenBy
    <3>3. QED
      BY <1>3, <3>2
  <2>2. QED
    BY <1>1, <1>2, <1>7, <2>1 DEF TakenBy
<1>10. Places' /\ Classes' /\ Taken'
  BY <1>1, <1>3, <1>6, <1>8, <1>9, ThreadSlots
<1>11. \A u \in Thread : pc'[u] # "swap"
  BY <1>1, <1>6, <1>7, OthersStay, SyncAssumption DEF SlotInv, Taken, TakenBy
<1>12. \A u \in Thread : Sending(u)' => overtaken'
  <2> SUFFICES ASSUME NEW u \in Thread, Sending(u)' PROVE overtaken'
    OBVIOUS
  <2>1. u # t /\ Sending(u)
    BY <1>6, <1>7, OthersStay
  <2>2. active["send"] = u /\ u # NoThread
    BY <2>1, SendingFacts, SyncAssumption
  <2>3. QED
    BY <1>3, <2>2
<1>13. Exclusive' /\ States'
  BY <1>1, <1>3, <1>5, <1>11, <1>12 DEF Exclusive, States, InUse
<1>14. Emptied'
  BY <1>1, <1>6, <1>7, OthersStay DEF Emptied, SlotInv
<1>15. QED
  BY <1>10, <1>13, <1>14 DEF SlotInv

\* A call that sends gives its slot back, unless it was overtaken.
LEMMA SendRemoveSlots ==
    ASSUME TypeOK, SlotInv, Apart', NEW t \in Thread, SynchronousSendEventRemove(t)
    PROVE  SlotInv'
<1>1. /\ pc[t] = "remove" /\ frame[t].call \in SendCall /\ Has(t) /\ lock = NoThread /\ lock' = NoThread
      /\ UNCHANGED sendBuffer /\ active \in [Slot -> Thread \cup {NoThread}]
  BY DEF SynchronousSendEventRemove, Has, data, TypeOK
<1>2. frame[t].slot = "send" /\ active["send"] = t /\ Sending(t) /\ t # NoThread
  BY <1>1, HasHolds, SyncAssumption DEF SlotInv, Classes, ClassOf, Sending
<1>3. active["connect"] = NoThread
  BY <1>2 DEF SlotInv, Exclusive
<1>4. /\ Moves(t) /\ PlaceOf(t)
      /\ Returned(t) \/ (pc'[t] = "get" /\ frame'[t] = frame[t] /\ frame[t].call = "WRITE")
  BY SendRemoveMoves DEF SynchronousSendEventRemove, SlotInv, Places
<1>5. ~Has(t)' /\ ~Sending(t)' /\ pc'[t] # "swap" /\ ~EmptyFor(t)'
  BY <1>4 DEF Returned, Becomes, Has, Sending, EmptyFor, ConnectCall
<1>6. PlaceOf(t)' /\ ClassOf(t)'
  BY <1>4, <1>5 DEF PlaceOf, ClassOf, Returned, Becomes, SendCall
<1>7. \A u \in Thread : pc'[u] # "swap" /\ ~Sending(u)'
  BY <1>1, <1>2, <1>4, <1>5, OthersStay, SendingFacts, SyncAssumption DEF SlotInv, Taken, TakenBy
<1>8. Emptied'
  BY <1>1, <1>4, <1>5, OthersStay DEF Emptied, SlotInv
<1>9. \A s \in Slot : active[s] = t => s = "send"
  BY <1>2 DEF SlotInv, Taken, TakenBy
<1>10. CASE Holds(t)
  <2>1. /\ active' = [active EXCEPT !["send"] = NoThread] /\ ~overtaken'
        /\ state' = IF active["receive"] = NoThread THEN "IDLE" ELSE state
    BY <1>2, <1>10 DEF SynchronousSendEventRemove, Clear
  <2>2. /\ active'["send"] = NoThread /\ active'["connect"] = NoThread /\ active'["receive"] = active["receive"]
        /\ \A s \in Slot : s # "send" => active'[s] = active[s]
    BY <1>1, <1>3, <2>1 DEF Slot
  <2>3. OwnSlots(t) /\ TakenBy(t)'
    BY <1>1, <1>2, <1>5, <1>9, <2>2 DEF OwnSlots, TakenBy
  <2>4. Places' /\ Classes' /\ Taken'
    BY <1>1, <1>4, <1>6, <2>2, <2>3, ThreadSlots
  <2>5. Exclusive' /\ States'
    BY <1>1, <1>7, <1>10, <2>1, <2>2 DEF Exclusive, States, InUse, Holds
  <2>6. QED
    BY <1>8, <2>4, <2>5 DEF SlotInv
<1>11. CASE ~Holds(t)
  <2>1. UNCHANGED <<state, active, overtaken>> /\ state # "SYNCHRONOUS" /\ state # "CACHED"
    BY <1>1, <1>2, <1>11, InCallNotCached DEF SynchronousSendEventRemove, Holds
  <2>2. overtaken /\ ~InUse
    BY <1>2, <2>1 DEF SlotInv, States
  <2>3. OwnSlots(t) /\ TakenBy(t)'
    BY <1>1, <1>2, <1>5, <1>9, <2>1, <2>2 DEF OwnSlots, TakenBy
  <2>4. Places' /\ Classes' /\ Taken'
    BY <1>1, <1>4, <1>6, <2>1, <2>3, ThreadSlots
  <2>5. Exclusive' /\ States'
    BY <1>1, <1>3, <1>7, <2>1, <2>2 DEF Exclusive, States, InUse
  <2>6. QED
    BY <1>8, <2>4, <2>5 DEF SlotInv
<1>12. QED
  BY <1>10, <1>11

\* The connection is recycled.
LEMMA ConnRecycleSlots ==
    ASSUME TypeOK, SlotInv, Apart', NEW t \in Thread, ConnRecycle(t)
    PROVE  SlotInv'
<1>1. /\ pc[t] = "remove" /\ frame[t].call = "FREE" /\ lock = NoThread /\ lock' = NoThread
      /\ state' = "CACHED" /\ active' = [s \in Slot |-> NoThread] /\ sendBuffer' = << >>
  BY DEF ConnRecycle
<1>2. Moves(t) /\ Returned(t)
  BY ThreadReturns DEF ConnRecycle
<1>3. \A u \in Thread : pc'[u] = "idle" /\ PlaceOf(u)'
  <2>1. \A u \in Thread : u # t => pc[u] = "idle"
    BY <1>1 DEF SlotInv, Apart
  <2>2. PlaceOf(t)'
    BY <1>2 DEF PlaceOf, Returned, Becomes
  <2>3. QED
    BY <1>2, <2>1, <2>2, OthersStay DEF Returned, SlotInv, Places
<1>4. \A s \in Slot : active'[s] = NoThread
  BY <1>1
<1>5. \A u \in Thread : ~Has(u)' /\ ~Sending(u)' /\ u # NoThread
  BY <1>3, SyncAssumption DEF Has, Sending
<1>6. Places' /\ Classes' /\ Taken'
  BY <1>1, <1>3, <1>4, <1>5 DEF Places, Classes, ClassOf, Taken, TakenBy
<1>7. Exclusive' /\ States' /\ Emptied'
  BY <1>1, <1>3, <1>4, <1>5 DEF Exclusive, States, InUse, Emptied, Slot
<1>8. QED
  BY <1>6, <1>7 DEF SlotInv

\* Killing and allocating the connection.
LEMMA ConnSlots ==
    ASSUME SlotInv, ConnKill \/ ConnAlloc
    PROVE  SlotInv'
<1>1. UNCHANGED <<active, overtaken, lock, sendBuffer, pc, frame>>
  BY DEF ConnKill, ConnAlloc, conn, data
<1>2. /\ \A t \in Thread : (Has(t)' <=> Has(t)) /\ (Sending(t)' <=> Sending(t)) /\ (EmptyFor(t)' <=> EmptyFor(t))
      /\ InUse' <=> InUse
  BY <1>1 DEF Has, Sending, EmptyFor, InUse
<1>3. Apart' /\ Places' /\ Classes' /\ Taken' /\ Exclusive' /\ Emptied'
  BY <1>1, <1>2 DEF SlotInv, Apart, Places, PlaceOf, Classes, ClassOf, Taken, TakenBy, Exclusive, Emptied
<1>4. States'
  <2>1. CASE state' = state
    BY <1>1, <1>2, <2>1 DEF SlotInv, States
  <2>2. CASE state = "CACHED" /\ state' = "IDLE"
    <3>1. ~InUse /\ \A t \in Thread : ~Sending(t)
      BY <2>2 DEF SlotInv, States, Sending, Has
    <3>2. QED
      BY <1>2, <2>2, <3>1 DEF States
  <2>3. QED
    BY <2>1, <2>2 DEF ConnKill, ConnAlloc, conn
<1>5. QED
  BY <1>3, <1>4 DEF SlotInv

\* Every step keeps the slots in order.
LEMMA SlotsStep ==
    ASSUME TypeInv, SlotInv, [Next]_vars
    PROVE  SlotInv'
<1>1. CASE UNCHANGED vars
  <2>1. UNCHANGED <<state, active, overtaken, lock, sendBuffer, pc, frame>>
    BY <1>1 DEF vars, conn, data
  <2>2. /\ \A t \in Thread : (Has(t)' <=> Has(t)) /\ (Sending(t)' <=> Sending(t)) /\ (EmptyFor(t)' <=> EmptyFor(t))
        /\ InUse' <=> InUse
    BY <2>1 DEF Has, Sending, EmptyFor, InUse
  <2>3. QED
    BY <2>1, <2>2 DEF SlotInv, Apart, Places, PlaceOf, Classes, ClassOf, Taken, TakenBy, Exclusive, States, Emptied
<1>2. ASSUME NEW t \in Thread, ThreadStep(t) PROVE SlotInv'
  BY <1>2, ApartKept, BeginCallSlots, SendDataReadSlots, SendDataClearSlots, NoMemorySlots, WriteClientDataSlots,
     ConnectInsertSlots, ReceiveInsertSlots, ReceiveSetSlots, SendInsertSlots, WriteFromCBSlots, FlushSendBufferSlots,
     FlushDoneSlots, FlushFailsSlots, WorkSlots, ConnectRemoveSlots, ReceiveRemoveSlots, SendRemoveSlots,
     ConnRecycleSlots DEF ThreadStep, TypeInv
<1>3. QED
  BY <1>1, <1>2, ConnSlots DEF Next

\* Nobody has called yet.
LEMMA SlotsInit == Init => SlotInv /\ Alone
<1> SUFFICES ASSUME Init PROVE SlotInv /\ Alone
  OBVIOUS
<1>1. NoCall.failed = FALSE /\ NoCall.call = "READ"
  BY DEF NoCall, Called
<1>2. (\A s \in Slot : active[s] = NoThread) /\ lock = NoThread /\ NoThread \notin Thread /\ state = "IDLE"
  BY SyncAssumption DEF Init
<1>3. \A t \in Thread : pc[t] = "idle" /\ frame[t] = NoCall
  BY DEF Init
<1>4. \A t \in Thread : ~Has(t) /\ ~Sending(t) /\ ~EmptyFor(t)
  BY <1>3 DEF Has, Sending, EmptyFor
<1>5. Apart /\ Alone /\ Places /\ Classes
  BY <1>1, <1>3, <1>4 DEF Apart, Alone, Places, PlaceOf, Classes, ClassOf
<1>6. Taken /\ Exclusive /\ Emptied
  BY <1>2, <1>3, <1>4 DEF Taken, TakenBy, Exclusive, Emptied, Slot
<1>7. States
  BY <1>2, <1>4 DEF States, InUse, Slot
<1>8. QED
  BY <1>5, <1>6, <1>7 DEF SlotInv

\* The slots are in order in every reachable state.
LEMMA SlotsHold == Spec => [](TypeInv /\ SlotInv)
<1>1. TypeInv /\ SlotInv /\ [Next]_vars => SlotInv'
  BY SlotsStep
<1>2. QED
  BY <1>1, SlotsInit, TypesHold, PTL DEF Spec

\* The slots serialise what the threads do to the connection, for a consumer
\* that writes, reads, connects and disconnects as it likes: any two calls at
\* work are a receiver and a sender.
THEOREM SlotsDoSerialise == Spec => []SlotsSerialise
<1>1. TypeInv /\ SlotInv => SlotsSerialise
  <2> SUFFICES ASSUME TypeInv, SlotInv, NEW t \in Thread, NEW u \in Thread, t # u, Processing(t), Processing(u)
               PROVE  {frame[t].slot, frame[u].slot} = {"receive", "send"}
    BY DEF SlotsSerialise
  <2>1. Has(t) /\ Has(u)
    BY DEF Processing, Has
  <2>2. /\ active[frame[t].slot] = t /\ active[frame[u].slot] = u
        /\ frame[t].slot \in Slot /\ frame[u].slot \in Slot
    BY <2>1, HasHolds DEF TypeInv
  <2>3. ASSUME NEW v \in Thread, NEW w \in Thread, v # w, Has(w), active["connect"] = v
        PROVE  frame[w].slot \notin {"receive", "send"}
    <3>1. active["receive"] = NoThread /\ ~Sending(w)
      BY <2>3, SyncAssumption DEF SlotInv, Exclusive
    <3>2. active[frame[w].slot] = w
      BY <2>3, HasHolds DEF TypeInv
    <3>3. QED
      BY <2>3, <3>1, <3>2, SyncAssumption DEF Sending
  <2>4. frame[t].slot # "connect" /\ frame[u].slot # "connect" /\ frame[t].slot # frame[u].slot
    BY <2>1, <2>2, <2>3 DEF Slot
  <2>5. QED
    BY <2>2, <2>4 DEF Slot
<1>2. QED
  BY <1>1, SlotsHold, PTL

\* When no call is in progress every slot has come back, but for the send slot
\* of a call that a read beside it has overtaken: what
\* SynchronousReceiveEventRemove does to it is the only way to leave one behind.
THEOREM SlotsDoComeBack == Spec => []SlotsComeBack
<1>1. TypeInv /\ SlotInv => SlotsComeBack
  <2> SUFFICES ASSUME TypeInv, SlotInv, \A t \in Thread : pc[t] = "idle"
               PROVE  /\ state # "SYNCHRONOUS" /\ lock = NoThread
                      /\ active["connect"] = NoThread /\ active["receive"] = NoThread
                      /\ active["send"] = NoThread \/ overtaken
    BY DEF SlotsComeBack, Quiet
  <2>1. \A t \in Thread : ~Has(t) /\ ~Sending(t) /\ TakenBy(t)
    BY DEF Has, Sending, SlotInv, Taken
  <2>2. lock = NoThread /\ \A s \in Slot : active[s] # NoThread => s = "send" /\ overtaken
    BY <2>1 DEF TypeInv, TypeOK, TakenBy
  <2>3. ~InUse
    BY <2>2 DEF InUse, Slot
  <2>4. QED
    BY <2>1, <2>2, <2>3 DEF SlotInv, States, InUse, Slot
<1>2. QED
  BY <1>1, SlotsHold, PTL

-----------------------------------------------------------------------------
(* Pending and settled items.                                              *)

\* f is s and the next n items after the b written so far; k are the marks m
\* and n times x.
Continues(f, s, n, b) ==
    /\ Len(f) = Len(s) + n
    /\ \A i \in 1 .. Len(s) : f[i] = s[i]
    /\ \A i \in Len(s) + 1 .. Len(s) + n : f[i] = b + (i - Len(s))
Marked(k, m, n, x) ==
    /\ Len(k) = Len(m) + n
    /\ \A i \in 1 .. Len(m) : k[i] = m[i]
    /\ \A i \in Len(m) + 1 .. Len(m) + n : k[i] = x

\* Items that are copied into a buffer are pending.
LEMMA SettledFill ==
    ASSUME NEW s \in Seq(Nat), NEW m \in Seq(BOOLEAN), NEW w, NEW l, NEW n \in Nat, NEW x \in BOOLEAN,
           NEW f \in Seq(Nat), NEW k \in Seq(BOOLEAN),
           Settled(s, m, w, l), Under(s, m, x),
           Continues(f, s, n, Len(m)), Marked(k, m, n, x)
    PROVE  Settled(f, k, w, l) /\ Under(f, k, x)
<1> DEFINE a == Len(s)
           b == Len(m)
<1>1. a \in Nat /\ b \in Nat /\ a <= b /\ Len(f) = a + n /\ Len(k) = b + n
  BY DEF Settled, Continues, Marked
<1>2. \A i \in 1 .. a : s[i] = (b - a) + i /\ m[s[i]] = x
  BY DEF Settled, Under
<1>3. SentOf(w) \cup l = 1 .. (b - a)
  BY DEF Settled
<1>4. /\ \A i \in 1 .. a : f[i] = s[i]
      /\ \A i \in a + 1 .. a + n : f[i] = b + (i - a)
      /\ \A i \in 1 .. b : k[i] = m[i]
      /\ \A i \in b + 1 .. b + n : k[i] = x
  BY DEF Continues, Marked
<1> HIDE DEF a, b
<1>5. (b + n) - (a + n) = b - a
  BY ONLY <1>1, n \in Nat
<1>6. ASSUME NEW i \in 1 .. (a + n)
      PROVE  f[i] = ((b + n) - (a + n)) + i /\ k[f[i]] = x
  <2>1. CASE i <= a
    <3>1. i \in 1 .. a
      BY <1>1, <1>6, <2>1
    <3>2. f[i] = (b - a) + i /\ m[f[i]] = x
      BY <1>2, <1>4, <3>1
    <3>3. (b - a) + i \in 1 .. b
      BY <1>1, <3>1
    <3>4. QED
      BY <1>4, <1>5, <3>2, <3>3
  <2>2. CASE ~(i <= a)
    <3>1. i \in a + 1 .. a + n
      BY <1>1, <1>6, <2>2
    <3>2. f[i] = b + (i - a)
      BY <1>4, <3>1
    <3>3. b + (i - a) \in b + 1 .. b + n /\ b + (i - a) = (b - a) + i
      BY <1>1, <3>1
    <3>4. QED
      BY <1>4, <1>5, <3>2, <3>3
  <2>3. QED
    BY <2>1, <2>2
<1>7. Len(f) <= Len(k)
  BY <1>1
<1>8. \A i \in 1 .. Len(f) : f[i] = (Len(k) - Len(f)) + i /\ k[f[i]] = x
  BY <1>1, <1>6, Zenon
<1>9. SentOf(w) \cup l = 1 .. (Len(k) - Len(f))
  BY <1>1, <1>3, <1>5, Zenon
<1>10. QED
  BY <1>7, <1>8, <1>9, Zenon DEF Settled, Under

\* The items of a buffer are the last ones, and no others are sent or freed.
LEMMA PendingItems ==
    ASSUME NEW s \in Seq(Nat), NEW m \in Seq(BOOLEAN), NEW w, NEW l, Settled(s, m, w, l)
    PROVE  /\ Items(s) \cap (SentOf(w) \cup l) = {}
           /\ (SentOf(w) \cup l) \cup Items(s) = 1 .. Len(m)
<1> DEFINE a == Len(s)
           b == Len(m)
<1>1. a \in Nat /\ b \in Nat /\ a <= b
  BY DEF Settled
<1>2. (\A i \in 1 .. a : s[i] = (b - a) + i) /\ SentOf(w) \cup l = 1 .. (b - a)
  BY DEF Settled
<1>3. Items(s) = {s[i] : i \in 1 .. a}
  BY DEF Items
<1> HIDE DEF a, b
<1>4. ASSUME NEW n \in ((b - a) + 1) .. b PROVE n \in Items(s)
  <2>1. n - (b - a) \in 1 .. a /\ (b - a) + (n - (b - a)) = n
    BY <1>1, <1>4
  <2>2. QED
    BY <1>2, <1>3, <2>1
<1>5. ASSUME NEW i \in 1 .. a PROVE s[i] \in ((b - a) + 1) .. b
  BY <1>1, <1>2, <1>5
<1>6. Items(s) = ((b - a) + 1) .. b
  BY <1>3, <1>4, <1>5
<1>7. QED
  BY <1>1, <1>2, <1>6 DEF b

\* Freeing a buffer settles its items.
LEMMA SettledLose ==
    ASSUME NEW s \in Seq(Nat), NEW m \in Seq(BOOLEAN), NEW w, NEW l, Settled(s, m, w, l), Ordered(w, l)
    PROVE  Settled(<< >>, m, w, l \cup Items(s)) /\ Ordered(w, l \cup Items(s))
<1>1. /\ Items(s) \cap (SentOf(w) \cup l) = {}
      /\ (SentOf(w) \cup l) \cup Items(s) = 1 .. Len(m)
  BY PendingItems
<1>2. Ordered(w, l \cup Items(s))
  BY <1>1 DEF Ordered
<1>3. Len(<< >>) = 0 /\ Len(m) - 0 = Len(m) /\ Len(m) \in Nat
  OBVIOUS
<1>4. SentOf(w) \cup (l \cup Items(s)) = 1 .. (Len(m) - Len(<< >>))
  BY <1>1, <1>3
<1>5. QED
  BY <1>2, <1>3, <1>4 DEF Settled

\* What a sequence of items that were sent becomes when one more is.
LEMMA SentAppend ==
    ASSUME NEW w \in Seq(Nat \X BOOLEAN), NEW e \in Nat \X BOOLEAN
    PROVE  /\ Append(w, e) \in Seq(Nat \X BOOLEAN) /\ Len(Append(w, e)) = Len(w) + 1
           /\ \A i \in DOMAIN w : Append(w, e)[i] = w[i]
           /\ Append(w, e)[Len(w) + 1] = e
           /\ SentOf(Append(w, e)) = SentOf(w) \cup {e[1]}
<1> DEFINE v == Append(w, e)
<1>1. v \in Seq(Nat \X BOOLEAN) /\ Len(v) = Len(w) + 1 /\ v[Len(w) + 1] = e
  OBVIOUS
<1>2. \A i \in 1 .. Len(w) : v[i] = w[i]
  OBVIOUS
<1> HIDE DEF v
<1>3. DOMAIN w = 1 .. Len(w) /\ DOMAIN v = 1 .. (Len(w) + 1)
  BY <1>1
<1>4. DOMAIN v = DOMAIN w \cup {Len(w) + 1}
  BY <1>3
<1>5. \A i \in DOMAIN w : v[i] = w[i]
  BY <1>2, <1>3
<1>6. SentOf(v) = SentOf(w) \cup {e[1]}
  <2> DEFINE h == e[1]
  <2>1. v[Len(w) + 1][1] = h
    BY <1>1
  <2> HIDE DEF h
  <2>2. ASSUME NEW i \in DOMAIN v PROVE v[i][1] \in SentOf(w) \cup {h}
    <3>1. CASE i \in DOMAIN w
      BY <1>5, <3>1 DEF SentOf
    <3>2. CASE i = Len(w) + 1
      BY <2>1, <3>2
    <3>3. QED
      BY <1>4, <3>1, <3>2
  <2>3. ASSUME NEW i \in DOMAIN w PROVE w[i][1] \in SentOf(v)
    <3>1. i \in DOMAIN v /\ v[i][1] = w[i][1]
      BY <1>4, <1>5
    <3>2. QED
      BY <3>1 DEF SentOf
  <2>4. h \in SentOf(v)
    BY <1>4, <2>1 DEF SentOf
  <2>5. SentOf(v) \subseteq SentOf(w) \cup {h}
    BY <2>2 DEF SentOf
  <2>6. SentOf(w) \subseteq SentOf(v)
    BY <2>3 DEF SentOf
  <2>7. QED
    BY <2>4, <2>5, <2>6 DEF h
<1>7. QED
  BY <1>1, <1>5, <1>6 DEF v

\* Sending the first item of a buffer settles it, in order and under the
\* protection it was written under.
LEMMA SettledSend ==
    ASSUME NEW s \in Seq(Nat), s # << >>, NEW m \in Seq(BOOLEAN), NEW w \in Seq(Nat \X BOOLEAN), NEW l, NEW x \in BOOLEAN,
           Settled(s, m, w, l), Under(s, m, x), Ordered(w, l), Faithful(w, m),
           NEW v, v = Append(w, <<Head(s), x>>)
    PROVE  Settled(Tail(s), m, v, l) /\ Under(Tail(s), m, x) /\ Ordered(v, l) /\ Faithful(v, m)
<1> DEFINE a == Len(s)
           b == Len(m)
           r == Tail(s)
           h == Head(s)
<1>1. a \in Nat /\ b \in Nat /\ 1 <= a /\ a <= b
  BY DEF Settled
<1>2. r \in Seq(Nat) /\ Len(r) = a - 1 /\ (\A i \in 1 .. (a - 1) : r[i] = s[i + 1]) /\ h = s[1] /\ h \in Nat
  OBVIOUS
<1>3. \A i \in 1 .. a : s[i] = (b - a) + i /\ m[s[i]] = x
  BY DEF Settled, Under
<1>4. SentOf(w) \cup l = 1 .. (b - a)
  BY DEF Settled
<1>5. v = Append(w, <<h, x>>)
  OBVIOUS
<1> HIDE DEF a, r, h
<1>6. h = (b - a) + 1 /\ m[h] = x
  BY <1>1, <1>2, <1>3
<1>7. /\ \A i \in DOMAIN w : v[i] = w[i]
      /\ v[Len(w) + 1][1] = h /\ v[Len(w) + 1][2] = x
      /\ SentOf(v) = SentOf(w) \cup {h}
      /\ v \in Seq(Nat \X BOOLEAN) /\ Len(v) = Len(w) + 1
  <2> DEFINE e == <<h, x>>
  <2>1. e \in Nat \X BOOLEAN /\ e[1] = h /\ e[2] = x /\ v = Append(w, e)
    BY <1>2, <1>5
  <2> HIDE DEF e
  <2>2. /\ v \in Seq(Nat \X BOOLEAN) /\ Len(v) = Len(w) + 1
        /\ \A i \in DOMAIN w : v[i] = w[i]
        /\ v[Len(w) + 1] = e
        /\ SentOf(v) = SentOf(w) \cup {e[1]}
    <3>1. w \in Seq(Nat \X BOOLEAN)
      OBVIOUS
    <3>2. e \in Nat \X BOOLEAN
      BY <2>1
    <3>3. v = Append(w, e)
      BY <2>1
    <3>4. v \in Seq(Nat \X BOOLEAN) /\ Len(v) = Len(w) + 1
      BY <3>1, <3>2, <3>3, SentAppend
    <3>5. \A i \in DOMAIN w : v[i] = w[i]
      BY <3>1, <3>2, <3>3, SentAppend
    <3>6. v[Len(w) + 1] = e
      BY <3>1, <3>2, <3>3, SentAppend
    <3>7. SentOf(v) = SentOf(w) \cup {e[1]}
      BY <3>1, <3>2, <3>3, SentAppend
    <3>8. QED
      BY <3>4, <3>5, <3>6, <3>7
  <2>3. QED
    BY <2>1, <2>2
<1>8. DOMAIN w = 1 .. Len(w) /\ DOMAIN v = 1 .. (Len(w) + 1) /\ Len(w) \in Nat
  BY <1>7
<1> HIDE DEF b
<1>9. Settled(r, m, v, l) /\ Under(r, m, x)
  <2>1. b - (a - 1) = (b - a) + 1 /\ a - 1 <= b
    BY ONLY <1>1
  <2>2. SentOf(v) \cup l = 1 .. (b - (a - 1))
    <3> DEFINE d == b - a
               S == SentOf(w)
               V == SentOf(v)
    <3>1. d \in Nat /\ S \cup l = 1 .. d /\ V = S \cup {d + 1}
      <4>1. d \in Nat
        BY ONLY <1>1
      <4>2. QED
        BY <1>4, <1>6, <1>7, <4>1
    <3> HIDE DEF d, S, V
    <3>2. V \cup l = (1 .. d) \cup {d + 1}
      BY ONLY <3>1
    <3>3. (1 .. d) \cup {d + 1} = 1 .. (d + 1)
      BY ONLY <3>1
    <3>4. QED
      BY <2>1, <3>2, <3>3 DEF d, V
  <2>3. ASSUME NEW i \in 1 .. (a - 1) PROVE r[i] = (b - (a - 1)) + i /\ m[r[i]] = x
    <3>1. i + 1 \in 1 .. a /\ (b - a) + (i + 1) = (b - (a - 1)) + i
      BY <1>1, <2>3
    <3>2. QED
      BY <1>2, <1>3, <2>3, <3>1
  <2>4. QED
    BY <1>2, <2>1, <2>2, <2>3 DEF Settled, Under, b
<1>10. Ordered(v, l)
  <2>1. SentOf(v) \cap l = {}
    <3>1. h \notin l
      <4>1. h \notin 1 .. (b - a)
        BY <1>1, <1>6
      <4>2. QED
        BY ONLY <1>4, <4>1
    <3>2. SentOf(w) \cap l = {}
      BY DEF Ordered
    <3>3. QED
      BY ONLY <1>7, <3>1, <3>2
  <2>2. ASSUME NEW i \in DOMAIN v, NEW j \in DOMAIN v, i < j PROVE v[i][1] < v[j][1]
    <3>1. i \in DOMAIN w
      BY <1>8, <2>2
    <3>2. v[i] = w[i]
      BY <1>7, <3>1
    <3>3. CASE j \in DOMAIN w
      BY <1>7, <2>2, <3>1, <3>2, <3>3 DEF Ordered
    <3>4. CASE j \notin DOMAIN w
      <4>1. j = Len(w) + 1
        BY <1>8, <2>2, <3>4
      <4>2. w[i][1] \in 1 .. (b - a)
        BY <1>4, <3>1 DEF SentOf
      <4>3. v[j][1] = (b - a) + 1
        BY <1>6, <1>7, <4>1
      <4>4. QED
        BY <1>1, <3>2, <4>2, <4>3
    <3>5. QED
      BY <3>3, <3>4
  <2>3. QED
    BY <2>1, <2>2 DEF Ordered
<1>11. Faithful(v, m)
  <2> SUFFICES ASSUME NEW i \in DOMAIN v PROVE v[i][2] = m[v[i][1]]
    BY DEF Faithful
  <2>1. CASE i \in DOMAIN w
    BY <1>7, <2>1 DEF Faithful
  <2>2. CASE i \notin DOMAIN w
    <3>1. i = Len(w) + 1
      BY <1>8, <2>2
    <3>2. QED
      BY <1>6, <1>7, <3>1
  <2>3. QED
    BY <2>1, <2>2
<1>12. QED
  BY <1>9, <1>10, <1>11 DEF r

\* More marks do not change those of the items that were sent.
LEMMA FaithfulFill ==
    ASSUME NEW w, NEW l, NEW s \in Seq(Nat), NEW m \in Seq(BOOLEAN), NEW k \in Seq(BOOLEAN),
           Settled(s, m, w, l), Faithful(w, m), \A i \in 1 .. Len(m) : k[i] = m[i]
    PROVE  Faithful(w, k)
<1> SUFFICES ASSUME NEW i \in DOMAIN w PROVE w[i][2] = k[w[i][1]]
  BY DEF Faithful
<1>1. w[i][1] \in SentOf(w)
  BY DEF SentOf
<1>2. w[i][1] \in 1 .. (Len(m) - Len(s))
  BY <1>1 DEF Settled
<1>3. w[i][1] \in 1 .. Len(m)
  BY <1>2
<1>4. QED
  BY <1>3 DEF Faithful

-----------------------------------------------------------------------------
(* Who may touch the buffers.                                              *)

\* A thread that is the only one with an eye on the buffers: its call suffers no
\* other, or it is in the connect slot, or it has the event lock.
Sole(t) ==
    \/ pc[t] # "idle" /\ frame[t].call \in Lonely
    \/ Has(t) /\ frame[t].slot = "connect"
    \/ lock = t
Busy(t) == Owner(t) \/ pc[t] \in {"clear", "swap"} \/ Securing(t)

\* A thread that has something to do with a buffer is such a one, ...
LEMMA BusyIsSole ==
    ASSUME TypeOK, SoloInv, NEW t \in Thread, Busy(t)
    PROVE  Sole(t)
<1>1. frame[t].call \in Call
  BY FrameFields
<1>2. PlaceOf(t) /\ ClassOf(t) /\ (lock = t <=> pc[t] = "swap")
  BY DEF SoloInv, SlotInv, Places, Classes, Taken, TakenBy
<1>3. CASE frame[t].call \in SendCall
  BY <1>3 DEF Sole, Busy, Owner, Securing, Lonely
<1>4. CASE frame[t].call \notin SendCall
  BY <1>1, <1>2, <1>4 DEF Sole, Busy, Owner, Securing, PlaceOf, ClassOf, Has, Call, ConnectCall, SendCall
<1>5. QED
  BY <1>3, <1>4

\* ... and there is one at most.
LEMMA SoleIsOne ==
    ASSUME TypeOK, SoloInv, NEW t \in Thread, NEW u \in Thread, Sole(t), Sole(u)
    PROVE  t = u
<1> SUFFICES ASSUME t # u PROVE FALSE
  OBVIOUS
<1> DEFINE InConnect(v) == Has(v) /\ frame[v].slot = "connect"
<1>1. ASSUME NEW v \in Thread, Sole(v) PROVE pc[v] # "idle"
  BY <1>1 DEF Sole, Has, SoloInv, SlotInv, Taken, TakenBy
<1>2. frame[t].call \notin Lonely /\ frame[u].call \notin Lonely
  BY <1>1 DEF SoloInv, SlotInv, Alone, Lonely
<1>3. (InConnect(t) \/ lock = t) /\ (InConnect(u) \/ lock = u)
  BY <1>2 DEF Sole
<1>4. ASSUME NEW v \in Thread, InConnect(v) PROVE active["connect"] = v /\ lock = NoThread
  BY <1>4, HasHolds DEF SoloInv
<1>5. QED
  BY <1>3, <1>4, SyncAssumption

\* What a thread knows of the buffers is left alone by the steps of the others.
LEMMA OthersData ==
    ASSUME TypeOK, SoloInv, DataInv, NEW t \in Thread, Moves(t),
           Sole(t) \/ UNCHANGED <<data, secured>>
    PROVE  \A u \in Thread : u # t => OwnData(u)'
<1> SUFFICES ASSUME NEW u \in Thread, u # t PROVE OwnData(u)'
  OBVIOUS
<1>1. pc'[u] = pc[u] /\ frame'[u] = frame[u]
  BY DEF Moves
<1>2. (Owner(u)' <=> Owner(u)) /\ (Securing(u)' <=> Securing(u))
  BY <1>1 DEF Owner, Securing
<1>3. OwnData(u)
  BY DEF DataInv
<1>4. CASE Sole(t)
  <2>1. ~Busy(u)
    BY <1>4, BusyIsSole, SoleIsOne
  <2>2. QED
    BY <1>1, <1>2, <1>3, <2>1 DEF Busy, OwnData
<1>5. CASE UNCHANGED <<data, secured>>
  BY <1>1, <1>2, <1>3, <1>5 DEF OwnData, data
<1>6. QED
  BY <1>4, <1>5

\* A step of one thread that keeps its own view and the account keeps it all.
LEMMA DataStep ==
    ASSUME TypeOK, SoloInv, DataInv, NEW t \in Thread, Moves(t),
           Sole(t) \/ UNCHANGED <<data, secured>>,
           OwnData(t)', Buffered', Ordered(wire', lost'), Faithful(wire', mark')
    PROVE  DataInv'
<1>1. \A u \in Thread : OwnData(u)'
  BY OthersData
<1>2. Ordered(wire, lost)' /\ Faithful(wire, mark)'
  BY Zenon DEF Ordered, Faithful, SentOf
<1>3. QED
  BY <1>1, <1>2 DEF DataInv

\* A step that leaves the data alone and makes nobody an owner or less of one.
LEMMA DataStays ==
    ASSUME TypeOK, SoloInv, DataInv, NEW t \in Thread, Moves(t), UNCHANGED <<data, secured>>,
           ~Owner(t)', ~Owner(t), ~Freeing(t), frame'[t].hold = << >>,
           frame'[t].seen = IF pc'[t] \in {"clear", "swap"} THEN sendBuffer ELSE << >>,
           Securing(t)' => sendBuffer = << >>
    PROVE  DataInv'
<1>1. OwnData(t)'
  BY DEF OwnData, data
<1>2. \A u \in Thread : Owner(u)' <=> Owner(u)
  BY DEF Moves, Owner
<1>3. \A u \in Thread : Freeing(u) => Freeing(u)'
  BY DEF Moves, Freeing
<1>4. Buffered'
  BY <1>2, <1>3 DEF DataInv, Buffered, data
<1>5. Ordered(wire', lost') /\ Faithful(wire', mark')
  BY DEF DataInv, data
<1>6. QED
  BY <1>1, <1>4, <1>5, DataStep

\* A thread that has just given up its buffer leaves what is pending in the
\* connection's one.
LEMMA NobodyElseOwns ==
    ASSUME TypeOK, SoloInv, NEW t \in Thread, Sole(t)
    PROVE  \A u \in Thread : u # t => ~Owner(u) /\ ~Freeing(u)
<1>1. ASSUME NEW u \in Thread, Freeing(u) PROVE Sole(u)
  BY <1>1 DEF Freeing, Sole, Lonely
<1>2. QED
  BY <1>1, BusyIsSole, SoleIsOne DEF Busy

-----------------------------------------------------------------------------
(* The data, action by action.                                             *)

\* The locals of a thread that is neither an owner nor about to become one are
\* empty.
LEMMA EmptyHands ==
    ASSUME DataInv, NEW t \in Thread, ~Owner(t)
    PROVE  frame[t].hold = << >> /\ (pc[t] \notin {"clear", "swap"} => frame[t].seen = << >>)
BY DEF DataInv, OwnData

\* What a thread that is about to take the send buffer has read of it is all
\* that is pending.
LEMMA SeenIsAll ==
    ASSUME TypeOK, SoloInv, DataInv, NEW t \in Thread, pc[t] \in {"clear", "swap"}
    PROVE  /\ Sole(t)
           /\ frame[t].seen = sendBuffer
           /\ Settled(sendBuffer, mark, wire, lost)
           /\ Under(sendBuffer, mark, secured)
<1>1. Sole(t)
  BY BusyIsSole DEF Busy
<1>2. ~Owner(t) /\ ~Freeing(t)
  BY DEF Owner, Freeing
<1>3. \A u \in Thread : ~Owner(u) /\ ~Freeing(u)
  BY <1>1, <1>2, NobodyElseOwns
<1>4. QED
  BY <1>1, <1>3 DEF DataInv, Buffered, OwnData

\* The buffer passes from the connection to the thread.
LEMMA BufferTaken ==
    ASSUME TypeOK, SoloInv, DataInv, NEW t \in Thread, Moves(t),
           pc[t] \in {"clear", "swap"}, pc'[t] \notin {"clear", "swap"},
           sendBuffer' = IF frame[t].seen = << >> THEN sendBuffer ELSE << >>,
           UNCHANGED <<wire, mark, lost, secured>>,
           frame'[t].seen = << >>, frame'[t].hold = frame[t].seen,
           Owner(t)' \/ frame[t].seen = << >>
    PROVE  DataInv'
<1>1. /\ Sole(t)
      /\ frame[t].seen = sendBuffer
      /\ Settled(sendBuffer, mark, wire, lost)
      /\ Under(sendBuffer, mark, secured)
  BY SeenIsAll
<1>2. sendBuffer' = << >> /\ frame'[t].hold = sendBuffer
  BY <1>1
<1>3. OwnData(t)'
  BY <1>1, <1>2 DEF OwnData
<1>4. Buffered'
  <2>1. CASE Owner(t)'
    BY <2>1 DEF Buffered
  <2>2. CASE frame[t].seen = << >>
    BY <1>1, <1>2, <2>2 DEF Buffered
  <2>3. QED
    BY <2>1, <2>2
<1>5. Ordered(wire', lost') /\ Faithful(wire', mark')
  BY DEF DataInv
<1>6. QED
  BY <1>1, <1>3, <1>4, <1>5, DataStep

\* What an owner has is all that is pending.
LEMMA OwnerHasAll ==
    ASSUME TypeOK, SoloInv, DataInv, NEW t \in Thread, Owner(t)
    PROVE  /\ Sole(t)
           /\ sendBuffer = << >>
           /\ frame[t].seen = << >>
           /\ Settled(frame[t].hold, mark, wire, lost)
           /\ Under(frame[t].hold, mark, secured)
           /\ Ordered(wire, lost) /\ Faithful(wire, mark)
<1>1. Sole(t)
  BY BusyIsSole DEF Busy
<1>2. pc[t] \notin {"clear", "swap"}
  BY DEF Owner
<1>3. QED
  BY <1>1, <1>2 DEF DataInv, OwnData

\* An owner goes on with its buffer.
LEMMA OwnerGoesOn ==
    ASSUME TypeOK, SoloInv, DataInv, NEW t \in Thread, Moves(t), Owner(t), Owner(t)',
           UNCHANGED <<sendBuffer, secured>>, frame'[t].seen = frame[t].seen,
           Settled(frame'[t].hold, mark', wire', lost'),
           Under(frame'[t].hold, mark', secured),
           Ordered(wire', lost'), Faithful(wire', mark')
    PROVE  DataInv'
<1>1. Sole(t) /\ sendBuffer = << >> /\ frame[t].seen = << >>
  BY OwnerHasAll
<1>2. pc'[t] \notin {"clear", "swap"} /\ ~Securing(t)'
  BY DEF Owner, Securing
<1>3. OwnData(t)'
  BY <1>1, <1>2 DEF OwnData
<1>4. Buffered'
  BY DEF Buffered
<1>5. QED
  BY <1>1, <1>3, <1>4, DataStep

\* An owner leaves its buffer to the connection, or has it freed.
LEMMA OwnerGivesUp ==
    ASSUME TypeOK, SoloInv, DataInv, NEW t \in Thread, Moves(t), Owner(t), ~Owner(t)',
           UNCHANGED secured, pc'[t] \notin {"clear", "swap"}, frame'[t].seen = << >>, frame'[t].hold = << >>,
           Settled(sendBuffer', mark', wire', lost'),
           Under(sendBuffer', mark', secured),
           Securing(t)' => sendBuffer' = << >>,
           Ordered(wire', lost'), Faithful(wire', mark')
    PROVE  DataInv'
<1>1. Sole(t)
  BY OwnerHasAll
<1>2. OwnData(t)'
  BY DEF OwnData
<1>3. Buffered'
  BY DEF Buffered
<1>4. QED
  BY <1>1, <1>2, <1>3, DataStep

\* An owner's buffer is freed.
LEMMA OwnerFrees ==
    ASSUME TypeOK, SoloInv, DataInv, NEW t \in Thread, Moves(t), Owner(t), ~Owner(t)',
           UNCHANGED <<secured, sendBuffer, wire, mark>>, lost' = lost \cup Items(frame[t].hold),
           pc'[t] \notin {"clear", "swap"}, frame'[t].seen = << >>, frame'[t].hold = << >>
    PROVE  DataInv'
<1>1. /\ sendBuffer = << >>
      /\ Settled(frame[t].hold, mark, wire, lost)
      /\ Ordered(wire, lost) /\ Faithful(wire, mark)
  BY OwnerHasAll
<1>2. frame[t].hold \in Seq(Nat) /\ mark \in Seq(BOOLEAN)
  BY FrameFields DEF TypeOK
<1>3. Settled(sendBuffer', mark', wire', lost') /\ Ordered(wire', lost') /\ Faithful(wire', mark')
  BY <1>1, <1>2, SettledLose
<1>4. Under(sendBuffer', mark', secured)
  BY <1>1 DEF Under
<1>5. QED
  BY <1>1, <1>3, <1>4, OwnerGivesUp

\* A call begins.
LEMMA BeginCallData ==
    ASSUME TypeInv, SoloInv, DataInv, NEW t \in Thread, BeginCall(t)
    PROVE  DataInv'
<1>1. TypeOK
  BY DEF TypeInv
<1>2. /\ pc[t] = "idle"
      /\ Moves(t)
      /\ \E c \in Call, n \in Nat :
            /\ MayCall(c)
            /\ Becomes(t, IF c \in SendCall THEN "get" ELSE "insert", c, "connect", << >>, << >>, n, FALSE)
  BY <1>1, BeginCallMoves
<1>3. frame[t].call \in Call /\ PlaceOf(t)
  BY <1>1, FrameFields DEF SoloInv, SlotInv, Places
<1>4. ~Owner(t) /\ ~Freeing(t)
  BY <1>2 DEF BeginCall, Owner, Freeing, ConnectCall, SendCall
<1>5. frame[t].hold = << >> /\ (pc[t] \notin {"clear", "swap"} => frame[t].seen = << >>)
  BY <1>4, EmptyHands
<1>6. ~Owner(t)' /\ ~Securing(t)'
  BY <1>2, <1>3 DEF BeginCall, Owner, Securing, Becomes, Returned, Call, ConnectCall, SendCall
<1>7. frame'[t].hold = << >> /\ frame'[t].seen = IF pc'[t] \in {"clear", "swap"} THEN sendBuffer ELSE << >>
  BY <1>2, <1>3, <1>5 DEF BeginCall, Becomes, Returned, Call, ConnectCall, SendCall
<1>8. UNCHANGED <<data, secured>>
  BY DEF BeginCall, link, data
<1>9. QED
  BY <1>1, <1>2, <1>4, <1>6, <1>7, <1>8, DataStays

\* The pointer of the send buffer is read.
LEMMA SendDataReadData ==
    ASSUME TypeInv, SoloInv, DataInv, NEW t \in Thread, SendDataRead(t)
    PROVE  DataInv'
<1>1. TypeOK
  BY DEF TypeInv
<1>2. /\ Moves(t)
      /\ Becomes(t, "clear", frame[t].call, frame[t].slot, sendBuffer, frame[t].hold, frame[t].todo, frame[t].failed)
  BY <1>1, SendDataReadMoves
<1>3. frame[t].call \in Call /\ PlaceOf(t)
  BY <1>1, FrameFields DEF SoloInv, SlotInv, Places
<1>4. ~Owner(t) /\ ~Freeing(t)
  BY <1>2 DEF SendDataRead, Owner, Freeing, ConnectCall, SendCall
<1>5. frame[t].hold = << >> /\ (pc[t] \notin {"clear", "swap"} => frame[t].seen = << >>)
  BY <1>4, EmptyHands
<1>6. ~Owner(t)' /\ ~Securing(t)'
  BY <1>2, <1>3 DEF SendDataRead, Owner, Securing, Becomes, Returned, Call, ConnectCall, SendCall
<1>7. frame'[t].hold = << >> /\ frame'[t].seen = IF pc'[t] \in {"clear", "swap"} THEN sendBuffer ELSE << >>
  BY <1>2, <1>3, <1>5 DEF SendDataRead, Becomes, Returned, Call, ConnectCall, SendCall
<1>8. UNCHANGED <<data, secured>>
  BY DEF SendDataRead, link, data
<1>9. QED
  BY <1>1, <1>2, <1>4, <1>6, <1>7, <1>8, DataStays

\* A write finds no memory.
LEMMA NoMemoryData ==
    ASSUME TypeInv, SoloInv, DataInv, NEW t \in Thread, NoMemory(t)
    PROVE  DataInv'
<1>1. TypeOK
  BY DEF TypeInv
<1>2. Moves(t) /\ Returned(t)
  BY <1>1, ThreadReturns DEF NoMemory
<1>3. frame[t].call \in Call /\ PlaceOf(t)
  BY <1>1, FrameFields DEF SoloInv, SlotInv, Places
<1>4. ~Owner(t) /\ ~Freeing(t)
  BY <1>2 DEF NoMemory, Owner, Freeing, ConnectCall, SendCall
<1>5. frame[t].hold = << >> /\ (pc[t] \notin {"clear", "swap"} => frame[t].seen = << >>)
  BY <1>4, EmptyHands
<1>6. ~Owner(t)' /\ ~Securing(t)'
  BY <1>2, <1>3 DEF NoMemory, Owner, Securing, Becomes, Returned, Call, ConnectCall, SendCall
<1>7. frame'[t].hold = << >> /\ frame'[t].seen = IF pc'[t] \in {"clear", "swap"} THEN sendBuffer ELSE << >>
  BY <1>2, <1>3, <1>5 DEF NoMemory, Becomes, Returned, Call, ConnectCall, SendCall
<1>8. UNCHANGED <<data, secured>>
  BY DEF NoMemory, link, data
<1>9. QED
  BY <1>1, <1>2, <1>4, <1>6, <1>7, <1>8, DataStays

\* A call of the connect class asks for its slot.
LEMMA ConnectInsertData ==
    ASSUME TypeInv, SoloInv, DataInv, NEW t \in Thread, SynchronousConnectEventInsert(t)
    PROVE  DataInv'
<1>1. TypeOK
  BY DEF TypeInv
<1>2. /\ Moves(t)
      /\ ConnectPermitted =>
           Becomes(t, ConnectStep(frame[t].call), frame[t].call, "connect", frame[t].seen, frame[t].hold, frame[t].todo, frame[t].failed)
      /\ ~ConnectPermitted => Returned(t)
  BY <1>1, SynchronousConnectEventInsertMoves
<1>3. frame[t].call \in Call /\ PlaceOf(t)
  BY <1>1, FrameFields DEF SoloInv, SlotInv, Places
<1>4. ~Owner(t) /\ ~Freeing(t)
  BY <1>2 DEF SynchronousConnectEventInsert, Owner, Freeing, ConnectCall, SendCall
<1>5. frame[t].hold = << >> /\ (pc[t] \notin {"clear", "swap"} => frame[t].seen = << >>)
  BY <1>4, EmptyHands
<1>6. ~Owner(t)' /\ ~Securing(t)'
  BY <1>2, <1>3 DEF SynchronousConnectEventInsert, ConnectStep, DisconnectStep, SSLConnectStep, SSLDisconnectStep, FreeStep, Owner, Securing, Becomes, Returned, Call, ConnectCall, SendCall
<1>7. frame'[t].hold = << >> /\ frame'[t].seen = IF pc'[t] \in {"clear", "swap"} THEN sendBuffer ELSE << >>
  BY <1>2, <1>3, <1>5 DEF SynchronousConnectEventInsert, ConnectStep, DisconnectStep, SSLConnectStep, SSLDisconnectStep, FreeStep, Becomes, Returned, Call, ConnectCall, SendCall
<1>8. UNCHANGED <<data, secured>>
  BY DEF SynchronousConnectEventInsert, link, data
<1>9. QED
  BY <1>1, <1>2, <1>4, <1>6, <1>7, <1>8, DataStays

\* A read asks for a slot.
LEMMA ReceiveInsertData ==
    ASSUME TypeInv, SoloInv, DataInv, NEW t \in Thread, SynchronousReceiveEventInsert(t)
    PROVE  DataInv'
<1>1. TypeOK
  BY DEF TypeInv
<1>2. /\ Moves(t)
      /\ ReceivePermitted =>
           Becomes(t, "swap", frame[t].call, frame[t].slot, sendBuffer, frame[t].hold, frame[t].todo, frame[t].failed)
      /\ ~ReceivePermitted => Returned(t)
  BY <1>1, SynchronousReceiveEventInsertMoves
<1>3. frame[t].call \in Call /\ PlaceOf(t)
  BY <1>1, FrameFields DEF SoloInv, SlotInv, Places
<1>4. ~Owner(t) /\ ~Freeing(t)
  BY <1>2 DEF SynchronousReceiveEventInsert, Owner, Freeing, ConnectCall, SendCall
<1>5. frame[t].hold = << >> /\ (pc[t] \notin {"clear", "swap"} => frame[t].seen = << >>)
  BY <1>4, EmptyHands
<1>6. ~Owner(t)' /\ ~Securing(t)'
  BY <1>2, <1>3 DEF SynchronousReceiveEventInsert, Owner, Securing, Becomes, Returned, Call, ConnectCall, SendCall
<1>7. frame'[t].hold = << >> /\ frame'[t].seen = IF pc'[t] \in {"clear", "swap"} THEN sendBuffer ELSE << >>
  BY <1>2, <1>3, <1>5 DEF SynchronousReceiveEventInsert, Becomes, Returned, Call, ConnectCall, SendCall
<1>8. UNCHANGED <<data, secured>>
  BY DEF SynchronousReceiveEventInsert, link, data
<1>9. QED
  BY <1>1, <1>2, <1>4, <1>6, <1>7, <1>8, DataStays

\* A call of the connect class gives its slot back.
LEMMA ConnectRemoveData ==
    ASSUME TypeInv, SoloInv, DataInv, NEW t \in Thread, SynchronousConnectEventRemove(t)
    PROVE  DataInv'
<1>1. TypeOK
  BY DEF TypeInv
<1>2. /\ Moves(t)
      /\ frame[t].failed => Becomes(t, "insert", "FREE", "connect", << >>, << >>, 0, FALSE)
      /\ ~frame[t].failed => Returned(t)
  BY <1>1, ConnectRemoveMoves
<1>3. frame[t].call \in Call /\ PlaceOf(t)
  BY <1>1, FrameFields DEF SoloInv, SlotInv, Places
<1>4. ~Owner(t) /\ ~Freeing(t)
  BY <1>2 DEF SynchronousConnectEventRemove, Owner, Freeing, ConnectCall, SendCall
<1>5. frame[t].hold = << >> /\ (pc[t] \notin {"clear", "swap"} => frame[t].seen = << >>)
  BY <1>4, EmptyHands
<1>6. ~Owner(t)' /\ ~Securing(t)'
  BY <1>2, <1>3 DEF SynchronousConnectEventRemove, Owner, Securing, Becomes, Returned, Call, ConnectCall, SendCall
<1>7. frame'[t].hold = << >> /\ frame'[t].seen = IF pc'[t] \in {"clear", "swap"} THEN sendBuffer ELSE << >>
  BY <1>2, <1>3, <1>5 DEF SynchronousConnectEventRemove, Becomes, Returned, Call, ConnectCall, SendCall
<1>8. UNCHANGED <<data, secured>>
  BY DEF SynchronousConnectEventRemove, link, data
<1>9. QED
  BY <1>1, <1>2, <1>4, <1>6, <1>7, <1>8, DataStays

\* A read gives its slot back.
LEMMA ReceiveRemoveData ==
    ASSUME TypeInv, SoloInv, DataInv, NEW t \in Thread, SynchronousReceiveEventRemove(t)
    PROVE  DataInv'
<1>1. TypeOK
  BY DEF TypeInv
<1>2. Moves(t) /\ Returned(t)
  BY <1>1, ThreadReturns DEF SynchronousReceiveEventRemove
<1>3. frame[t].call \in Call /\ PlaceOf(t)
  BY <1>1, FrameFields DEF SoloInv, SlotInv, Places
<1>4. ~Owner(t) /\ ~Freeing(t)
  BY <1>2 DEF SynchronousReceiveEventRemove, Owner, Freeing, ConnectCall, SendCall
<1>5. frame[t].hold = << >> /\ (pc[t] \notin {"clear", "swap"} => frame[t].seen = << >>)
  BY <1>4, EmptyHands
<1>6. ~Owner(t)' /\ ~Securing(t)'
  BY <1>2, <1>3 DEF SynchronousReceiveEventRemove, Owner, Securing, Becomes, Returned, Call, ConnectCall, SendCall
<1>7. frame'[t].hold = << >> /\ frame'[t].seen = IF pc'[t] \in {"clear", "swap"} THEN sendBuffer ELSE << >>
  BY <1>2, <1>3, <1>5 DEF SynchronousReceiveEventRemove, Becomes, Returned, Call, ConnectCall, SendCall
<1>8. UNCHANGED <<data, secured>>
  BY DEF SynchronousReceiveEventRemove, link, data
<1>9. QED
  BY <1>1, <1>2, <1>4, <1>6, <1>7, <1>8, DataStays

\* A call that sends gives its slot back.
LEMMA SendRemoveData ==
    ASSUME TypeInv, SoloInv, DataInv, NEW t \in Thread, SynchronousSendEventRemove(t)
    PROVE  DataInv'
<1>1. TypeOK
  BY DEF TypeInv
<1>2. /\ Moves(t)
      /\ \/ frame[t].call = "WRITE" /\ pc'[t] = "get" /\ frame'[t] = frame[t]
         \/ Returned(t)
  BY <1>1, SendRemoveMoves
<1>3. frame[t].call \in Call /\ PlaceOf(t)
  BY <1>1, FrameFields DEF SoloInv, SlotInv, Places
<1>4. ~Owner(t) /\ ~Freeing(t)
  BY <1>2 DEF SynchronousSendEventRemove, Owner, Freeing, ConnectCall, SendCall
<1>5. frame[t].hold = << >> /\ (pc[t] \notin {"clear", "swap"} => frame[t].seen = << >>)
  BY <1>4, EmptyHands
<1>6. ~Owner(t)' /\ ~Securing(t)'
  BY <1>2, <1>3 DEF SynchronousSendEventRemove, Owner, Securing, Becomes, Returned, Call, ConnectCall, SendCall
<1>7. frame'[t].hold = << >> /\ frame'[t].seen = IF pc'[t] \in {"clear", "swap"} THEN sendBuffer ELSE << >>
  BY <1>2, <1>3, <1>5 DEF SynchronousSendEventRemove, Becomes, Returned, Call, ConnectCall, SendCall
<1>8. UNCHANGED <<data, secured>>
  BY DEF SynchronousSendEventRemove, link, data
<1>9. QED
  BY <1>1, <1>2, <1>4, <1>6, <1>7, <1>8, DataStays

\* A new connection has nothing pending and nothing sent.
LEMMA NothingWritten ==
    /\ Settled(<< >>, << >>, << >>, {})
    /\ \A x : Under(<< >>, << >>, x)
    /\ Ordered(<< >>, {})
    /\ Faithful(<< >>, << >>)
<1>1. SentOf(<< >>) = {}
  BY DEF SentOf
<1>2. 1 .. (0 - 0) = {}
  OBVIOUS
<1>3. Len(<< >>) = 0 /\ DOMAIN << >> = {}
  OBVIOUS
<1>4. Settled(<< >>, << >>, << >>, {})
  BY <1>1, <1>2, <1>3 DEF Settled
<1>5. QED
  BY <1>1, <1>4 DEF Under, Ordered, Faithful

\* The send buffer is handed over.
LEMMA SendDataClearData ==
    ASSUME TypeInv, SoloInv, DataInv, NEW t \in Thread, SendDataClear(t)
    PROVE  DataInv'
<1>1. TypeOK
  BY DEF TypeInv
<1>2. /\ Moves(t)
      /\ ~(frame[t].call = "FLUSH" /\ frame[t].seen = << >>) =>
           Becomes(t, WithBuffer(frame[t]), frame[t].call, frame[t].slot, << >>, frame[t].seen, frame[t].todo, frame[t].failed)
      /\ frame[t].call = "FLUSH" /\ frame[t].seen = << >> => Returned(t)
  BY <1>1, SendDataClearMoves
<1>3. frame[t].call \in Call /\ PlaceOf(t) /\ pc[t] = "clear"
  BY <1>1, FrameFields DEF SoloInv, SlotInv, Places, SendDataClear
<1>4. UNCHANGED <<wire, mark, lost, secured>> /\ bufferedSendDataGet(t)
  BY DEF SendDataClear, link
<1>5. CASE frame[t].call = "FLUSH" /\ frame[t].seen = << >>
  <2>1. Returned(t)
    BY <1>2, <1>5
  <2>2. frame'[t].seen = << >> /\ frame'[t].hold = frame[t].seen /\ pc'[t] \notin {"clear", "swap"}
    BY <1>5, <2>1 DEF Returned, Becomes
  <2>3. QED
    BY <1>1, <1>2, <1>3, <1>4, <1>5, <2>2, BufferTaken DEF bufferedSendDataGet
<1>6. CASE ~(frame[t].call = "FLUSH" /\ frame[t].seen = << >>)
  <2>1. /\ pc'[t] = WithBuffer(frame[t]) /\ frame'[t].call = frame[t].call
        /\ frame'[t].seen = << >> /\ frame'[t].hold = frame[t].seen
    BY <1>2, <1>6 DEF Becomes
  <2>2. pc'[t] \notin {"clear", "swap"} /\ (Owner(t)' \/ frame[t].seen = << >>)
    BY <1>3, <2>1 DEF WithBuffer, Owner, Call, ConnectCall, SendCall
  <2>3. QED
    BY <1>1, <1>2, <1>3, <1>4, <2>1, <2>2, BufferTaken DEF bufferedSendDataGet
<1>7. QED
  BY <1>5, <1>6

\* A read takes its slot and the buffer.
LEMMA ReceiveSetData ==
    ASSUME TypeInv, SoloInv, DataInv, NEW t \in Thread, ReceiveEventSet(t)
    PROVE  DataInv'
<1>1. TypeOK
  BY DEF TypeInv
<1>2. /\ Moves(t)
      /\ Becomes(t, IF frame[t].seen = << >> THEN "work" ELSE "flush", frame[t].call, ReceiveSlot(frame[t]), << >>, frame[t].seen, frame[t].todo, frame[t].failed)
  BY <1>1, ReceiveEventSetMoves
<1>3. /\ pc[t] = "swap"
      /\ UNCHANGED <<wire, mark, lost, secured>>
      /\ sendBuffer' = IF frame[t].seen = << >> THEN sendBuffer ELSE << >>
  BY DEF ReceiveEventSet, link, bufferedSendDataGet
<1>4. /\ pc'[t] \notin {"clear", "swap"} /\ (Owner(t)' \/ frame[t].seen = << >>)
      /\ frame'[t].seen = << >> /\ frame'[t].hold = frame[t].seen
  BY <1>2 DEF Becomes, Owner
<1>5. QED
  BY <1>1, <1>2, <1>3, <1>4, BufferTaken

\* A call that sends asks for its slot: refused, it puts the buffer back or frees it.
LEMMA SendInsertData ==
    ASSUME TypeInv, SoloInv, DataInv, NEW t \in Thread, SynchronousSendEventInsert(t)
    PROVE  DataInv'
<1>1. TypeOK
  BY DEF TypeInv
<1>2. /\ Moves(t)
      /\ SendPermitted =>
           Becomes(t, IF frame[t].call = "WRITE_FROM_CB" THEN "callback" ELSE "flush", frame[t].call, "send", frame[t].seen, frame[t].hold, frame[t].todo, frame[t].failed)
      /\ ~SendPermitted => Returned(t)
  BY <1>1, SynchronousSendEventInsertMoves
<1>3. Owner(t) /\ UNCHANGED <<wire, mark, secured>>
  BY DEF SynchronousSendEventInsert, Owner, link
<1>4. /\ sendBuffer = << >>
      /\ frame[t].seen = << >>
      /\ Settled(frame[t].hold, mark, wire, lost)
      /\ Under(frame[t].hold, mark, secured)
      /\ Ordered(wire, lost) /\ Faithful(wire, mark)
  BY <1>1, <1>3, OwnerHasAll
<1>5. CASE SendPermitted
  <2>1. UNCHANGED <<sendBuffer, lost>>
    BY <1>5 DEF SynchronousSendEventInsert
  <2>2. Owner(t)' /\ frame'[t].seen = frame[t].seen /\ frame'[t].hold = frame[t].hold
    BY <1>2, <1>5 DEF Becomes, Owner
  <2>3. QED
    BY <1>1, <1>2, <1>3, <1>4, <2>1, <2>2, OwnerGoesOn
<1>6. CASE ~SendPermitted
  <2>1. /\ pc'[t] = "idle" /\ frame'[t].seen = << >> /\ frame'[t].hold = << >>
        /\ ~Owner(t)' /\ ~Securing(t)'
    BY <1>2, <1>6 DEF Returned, Becomes, Owner, Securing
  <2>2. CASE frame[t].call = "WRITE_FROM_CB"
    <3>1. sendBuffer' = frame[t].hold /\ UNCHANGED lost
      BY <1>4, <1>6, <2>2 DEF SynchronousSendEventInsert, bufferedSendDataKeep
    <3>2. QED
      BY <1>1, <1>2, <1>3, <1>4, <2>1, <3>1, OwnerGivesUp
  <2>3. CASE frame[t].call # "WRITE_FROM_CB"
    <3>1. lost' = lost \cup Items(frame[t].hold) /\ UNCHANGED sendBuffer
      BY <1>6, <2>3 DEF SynchronousSendEventInsert, Lose
    <3>2. QED
      BY <1>1, <1>2, <1>3, <2>1, <3>1, OwnerFrees
  <2>4. QED
    BY <2>2, <2>3
<1>7. QED
  BY <1>5, <1>6

\* What an owner copies into its buffer is pending with the rest.
LEMMA OwnerFills ==
    ASSUME TypeOK, SoloInv, DataInv, NEW t \in Thread, Owner(t), NEW n \in Nat, Written(n), UNCHANGED <<wire, lost>>
    PROVE  LET f == Filled(frame[t].hold, n)
           IN  /\ Settled(f, mark', wire', lost')
               /\ Under(f, mark', secured)
               /\ Ordered(wire', lost') /\ Faithful(wire', mark')
<1> DEFINE s == frame[t].hold
           f == Filled(s, n)
<1>1. /\ Settled(s, mark, wire, lost)
      /\ Under(s, mark, secured)
      /\ Ordered(wire, lost) /\ Faithful(wire, mark)
  BY OwnerHasAll
<1>2. s \in Seq(Nat) /\ mark \in Seq(BOOLEAN) /\ secured \in BOOLEAN
  BY FrameFields DEF TypeOK
<1>3. /\ f \in Seq(Nat)
      /\ Len(f) = Len(s) + n
      /\ \A i \in 1 .. Len(s) : f[i] = s[i]
      /\ \A i \in Len(s) + 1 .. Len(s) + n : f[i] = Len(mark) + (i - Len(s))
  BY <1>2, FilledBuffer
<1>4. /\ mark' \in Seq(BOOLEAN)
      /\ Len(mark') = Len(mark) + n
      /\ \A i \in 1 .. Len(mark) : mark'[i] = mark[i]
      /\ \A i \in Len(mark) + 1 .. Len(mark) + n : mark'[i] = secured
  BY <1>2, WrittenMarks
<1>5. Continues(f, s, n, Len(mark)) /\ Marked(mark', mark, n, secured)
  BY <1>3, <1>4 DEF Continues, Marked
<1> HIDE DEF s, f
<1>6. Settled(f, mark', wire, lost) /\ Under(f, mark', secured)
  <2>1. f \in Seq(Nat) /\ mark' \in Seq(BOOLEAN)
    BY <1>3, <1>4
  <2>2. QED
    BY ONLY <1>1, <1>2, <1>5, <2>1, n \in Nat, SettledFill
<1>7. Faithful(wire, mark')
  BY <1>1, <1>2, <1>4, FaithfulFill
<1>8. QED
  BY <1>1, <1>6, <1>7 DEF f, s

\* Items are copied, and kept or taken to the flush.
LEMMA WriteData ==
    ASSUME TypeInv, SoloInv, DataInv, NEW t \in Thread, writeClientData(t)
    PROVE  DataInv'
<1>1. TypeOK
  BY DEF TypeInv
<1>2. Moves(t)
  BY WriteMoves
<1>3. PICK n \in Nat :
        /\ Written(n)
        /\ \/ Returned(t) /\ bufferedSendDataKeep(Filled(frame[t].hold, n))
           \/ /\ Becomes(t, "insert", frame[t].call, frame[t].slot, frame[t].seen, Filled(frame[t].hold, n),
                         frame[t].todo - n, frame[t].failed)
              /\ UNCHANGED sendBuffer
  BY WriteMoves
<1>4. Owner(t) /\ UNCHANGED <<wire, lost, secured>> /\ frame[t].call = "WRITE"
  BY DEF writeClientData, Owner, link, SoloInv, SlotInv, Places, PlaceOf
<1> DEFINE f == Filled(frame[t].hold, n)
<1>5. /\ Settled(f, mark', wire', lost')
      /\ Under(f, mark', secured)
      /\ Ordered(wire', lost') /\ Faithful(wire', mark')
  BY <1>1, <1>3, <1>4, OwnerFills
<1>6. sendBuffer = << >>
  BY <1>1, <1>4, OwnerHasAll
<1>7. CASE Returned(t) /\ bufferedSendDataKeep(f)
  <2> HIDE DEF f
  <2>1. sendBuffer' = f
    BY <1>6, <1>7 DEF bufferedSendDataKeep
  <2>2. /\ pc'[t] = "idle" /\ frame'[t].seen = << >> /\ frame'[t].hold = << >>
        /\ ~Owner(t)' /\ ~Securing(t)'
    BY <1>7 DEF Returned, Becomes, Owner, Securing
  <2>3. QED
    BY <1>1, <1>2, <1>4, <1>5, <2>1, <2>2, OwnerGivesUp
<1>8. CASE /\ Becomes(t, "insert", frame[t].call, frame[t].slot, frame[t].seen, f, frame[t].todo - n, frame[t].failed)
           /\ UNCHANGED sendBuffer
  <2> HIDE DEF f
  <2>1. Owner(t)' /\ frame'[t].hold = f /\ frame'[t].seen = frame[t].seen
    BY <1>4, <1>8 DEF Becomes, Owner, SendCall
  <2>2. QED
    BY <1>1, <1>2, <1>4, <1>5, <1>8, <2>1, OwnerGoesOn
<1>9. QED
  BY <1>3, <1>7, <1>8

\* The callback writes an item, or has done.
LEMMA CallbackData ==
    ASSUME TypeInv, SoloInv, DataInv, NEW t \in Thread, writeFromCB(t)
    PROVE  DataInv'
<1>1. TypeOK
  BY DEF TypeInv
<1>2. Moves(t)
  BY CallbackMoves
<1>3. Owner(t) /\ UNCHANGED <<sendBuffer, wire, lost, secured>>
  BY DEF writeFromCB, Owner, link
<1> DEFINE f == Filled(frame[t].hold, 1)
<1>4. CASE /\ Written(1)
           /\ Becomes(t, "callback", frame[t].call, frame[t].slot, frame[t].seen, f, frame[t].todo, frame[t].failed)
  <2>1. /\ Settled(f, mark', wire', lost')
        /\ Under(f, mark', secured)
        /\ Ordered(wire', lost') /\ Faithful(wire', mark')
    BY <1>1, <1>3, <1>4, OwnerFills
  <2> HIDE DEF f
  <2>2. Owner(t)' /\ frame'[t].hold = f /\ frame'[t].seen = frame[t].seen
    BY <1>4 DEF Becomes, Owner
  <2>3. QED
    BY <1>1, <1>2, <1>3, <2>1, <2>2, OwnerGoesOn
<1>5. CASE pc'[t] = "flush" /\ frame'[t] = frame[t] /\ UNCHANGED mark
  <2>1. Owner(t)'
    BY <1>5 DEF Owner
  <2>2. /\ Settled(frame[t].hold, mark, wire, lost)
        /\ Under(frame[t].hold, mark, secured)
        /\ Ordered(wire, lost) /\ Faithful(wire, mark)
    BY <1>1, <1>3, OwnerHasAll
  <2>3. QED
    BY <1>1, <1>2, <1>3, <1>5, <2>1, <2>2, OwnerGoesOn
<1>6. QED
  BY <1>4, <1>5, CallbackMoves

\* An item is sent.
LEMMA FlushData ==
    ASSUME TypeInv, SoloInv, DataInv, NEW t \in Thread, flushSendBuffer(t)
    PROVE  DataInv'
<1>1. TypeOK
  BY DEF TypeInv
<1>2. /\ Moves(t)
      /\ Becomes(t, "flush", frame[t].call, frame[t].slot, frame[t].seen, Tail(frame[t].hold), frame[t].todo, frame[t].failed)
  BY <1>1, flushSendBufferMoves
<1>3. /\ Owner(t) /\ UNCHANGED <<sendBuffer, mark, lost, secured>>
      /\ frame[t].hold # << >>
      /\ wire' = Append(wire, <<Head(frame[t].hold), secured>>)
  BY DEF flushSendBuffer, Owner, link
<1>4. Owner(t)' /\ frame'[t].hold = Tail(frame[t].hold) /\ frame'[t].seen = frame[t].seen
  BY <1>2 DEF Becomes, Owner
<1>5. /\ Settled(frame[t].hold, mark, wire, lost)
      /\ Under(frame[t].hold, mark, secured)
      /\ Ordered(wire, lost) /\ Faithful(wire, mark)
  BY <1>1, <1>3, OwnerHasAll
<1>6. frame[t].hold \in Seq(Nat) /\ mark \in Seq(BOOLEAN) /\ wire \in Seq(Nat \X BOOLEAN) /\ secured \in BOOLEAN
  BY <1>1, FrameFields DEF TypeOK
<1>7. /\ Settled(Tail(frame[t].hold), mark, wire', lost) /\ Under(Tail(frame[t].hold), mark, secured)
      /\ Ordered(wire', lost) /\ Faithful(wire', mark)
  BY <1>3, <1>5, <1>6, SettledSend
<1>8. QED
  BY <1>1, <1>2, <1>3, <1>4, <1>7, OwnerGoesOn

\* The buffer is empty.
LEMMA FlushDoneData ==
    ASSUME TypeInv, SoloInv, DataInv, NEW t \in Thread, FlushDone(t)
    PROVE  DataInv'
<1>1. TypeOK
  BY DEF TypeInv
<1>2. /\ Moves(t) /\ frame'[t] = frame[t]
      /\ \/ pc'[t] = AfterFlush(frame[t].call)
         \/ frame[t].call = "WRITE_FROM_CB" /\ pc'[t] = "callback"
  BY <1>1, FlushDoneMoves
<1>3. Owner(t) /\ frame[t].hold = << >> /\ UNCHANGED <<data, secured>>
  BY DEF FlushDone, Owner, link
<1>4. /\ sendBuffer = << >> /\ frame[t].seen = << >>
      /\ Settled(frame[t].hold, mark, wire, lost)
      /\ Under(frame[t].hold, mark, secured)
      /\ Ordered(wire, lost) /\ Faithful(wire, mark)
  BY <1>1, <1>3, OwnerHasAll
<1>5. CASE pc'[t] = AfterFlush(frame[t].call)
  <2>1. ~Owner(t)' /\ pc'[t] \notin {"clear", "swap"}
    BY <1>5 DEF AfterFlush, Owner
  <2>2. QED
    BY <1>1, <1>2, <1>3, <1>4, <2>1, OwnerGivesUp DEF data
<1>6. CASE pc'[t] = "callback"
  <2>1. Owner(t)'
    BY <1>6 DEF Owner
  <2>2. QED
    BY <1>1, <1>2, <1>3, <1>4, <2>1, OwnerGoesOn DEF data
<1>7. QED
  BY <1>2, <1>5, <1>6

\* The flush fails and the buffer is freed.
LEMMA FlushFailsData ==
    ASSUME TypeInv, SoloInv, DataInv, NEW t \in Thread, FlushFails(t)
    PROVE  DataInv'
<1>1. TypeOK
  BY DEF TypeInv
<1>2. /\ Moves(t)
      /\ Becomes(t, AfterFlush(frame[t].call), frame[t].call, frame[t].slot, frame[t].seen, << >>, frame[t].todo, (frame[t].failed \/ frame[t].call = "WRITE"))
  BY <1>1, FlushFailsMoves
<1>3. /\ Owner(t) /\ UNCHANGED <<sendBuffer, wire, mark, secured>>
      /\ lost' = lost \cup Items(frame[t].hold)
  BY DEF FlushFails, Owner, link, Lose
<1>4. frame[t].seen = << >>
  BY <1>1, <1>3, OwnerHasAll
<1>5. /\ ~Owner(t)' /\ pc'[t] \notin {"clear", "swap"}
      /\ frame'[t].seen = << >> /\ frame'[t].hold = << >>
  BY <1>2, <1>4 DEF Becomes, AfterFlush, Owner
<1>6. QED
  BY <1>1, <1>2, <1>3, <1>5, OwnerFrees

\* The work of a call: the protection changes only when nothing is pending, or for a connection that is freed.
LEMMA WorkData ==
    ASSUME TypeInv, SoloInv, DataInv, NEW t \in Thread, Work(t)
    PROVE  DataInv'
<1>1. TypeOK
  BY DEF TypeInv
<1>2. /\ Moves(t)
      /\ \E x \in BOOLEAN :
            /\ x => frame[t].call = "CONNECT"
            /\ Becomes(t, "remove", frame[t].call, frame[t].slot, frame[t].seen, frame[t].hold, frame[t].todo, x)
  BY <1>1, WorkMoves
<1>3. ~Owner(t) /\ ~Freeing(t) /\ pc[t] = "work" /\ UNCHANGED data
  BY DEF Work, Owner, Freeing
<1>4. frame[t].hold = << >> /\ frame[t].seen = << >>
  BY <1>3, EmptyHands
<1>5. /\ pc'[t] = "remove" /\ frame'[t].call = frame[t].call
      /\ frame'[t].hold = << >> /\ frame'[t].seen = << >>
  BY <1>2, <1>4 DEF Becomes
<1>6. ~Owner(t)' /\ ~Securing(t)'
  BY <1>5 DEF Owner, Securing
<1>7. CASE UNCHANGED secured
  BY <1>1, <1>2, <1>3, <1>5, <1>6, <1>7, DataStays
<1>8. CASE ~UNCHANGED secured
  <2>1. frame[t].call \in {"SSL_CONNECT", "SSL_DISCONNECT", "FREE"}
    BY <1>8 DEF Work
  <2>2. Sole(t)
    BY <1>1, <1>3, <2>1, BusyIsSole DEF Busy, Securing, Sole, Lonely
  <2>3. \A u \in Thread : ~Owner(u) /\ ~Freeing(u)
    BY <1>1, <1>3, <2>2, NobodyElseOwns
  <2>4. Settled(sendBuffer, mark, wire, lost)
    BY <2>3 DEF DataInv, Buffered
  <2>5. Under(sendBuffer', mark', secured') \/ Freeing(t)'
    <3>1. CASE frame[t].call = "FREE"
      BY <1>5, <3>1 DEF Freeing
    <3>2. CASE frame[t].call # "FREE"
      <4>1. sendBuffer = << >>
        BY <1>3, <2>1, <3>2 DEF DataInv, OwnData, Securing
      <4>2. QED
        BY <1>3, <4>1 DEF data, Under
    <3>3. QED
      BY <3>1, <3>2
  <2>6. Buffered'
    BY <1>3, <2>4, <2>5 DEF Buffered, data
  <2>7. OwnData(t)'
    BY <1>5, <1>6 DEF OwnData
  <2>8. Ordered(wire', lost') /\ Faithful(wire', mark')
    BY <1>3 DEF DataInv, data
  <2>9. QED
    BY <1>1, <1>2, <2>2, <2>6, <2>7, <2>8, DataStep
<1>9. QED
  BY <1>7, <1>8

\* The connection is recycled and what is pending is freed.
LEMMA RecycleData ==
    ASSUME TypeInv, SoloInv, DataInv, NEW t \in Thread, ConnRecycle(t)
    PROVE  DataInv'
<1>1. TypeOK
  BY DEF TypeInv
<1>2. Moves(t) /\ Returned(t)
  BY <1>1, ThreadReturns DEF ConnRecycle
<1>3. /\ Freeing(t) /\ ~Owner(t) /\ UNCHANGED <<wire, mark, secured>>
      /\ sendBuffer' = << >> /\ lost' = lost \cup Items(sendBuffer)
  BY DEF ConnRecycle, Freeing, Owner, Lose, link
<1>4. Sole(t)
  BY <1>3 DEF Sole, Freeing, Lonely
<1>5. \A u \in Thread : ~Owner(u)
  BY <1>1, <1>3, <1>4, NobodyElseOwns
<1>6. Settled(sendBuffer, mark, wire, lost) /\ Ordered(wire, lost) /\ Faithful(wire, mark)
  BY <1>5 DEF DataInv, Buffered
<1>7. sendBuffer \in Seq(Nat) /\ mark \in Seq(BOOLEAN)
  BY <1>1 DEF TypeOK
<1>8. Settled(sendBuffer', mark', wire', lost') /\ Ordered(wire', lost') /\ Faithful(wire', mark')
  BY <1>3, <1>6, <1>7, SettledLose
<1>9. Under(sendBuffer', mark', secured')
  BY <1>3 DEF Under
<1>10. Buffered'
  BY <1>8, <1>9 DEF Buffered
<1>11. OwnData(t)'
  BY <1>2, <1>3 DEF OwnData, Returned, Becomes, Owner, Securing
<1>12. QED
  BY <1>1, <1>2, <1>4, <1>8, <1>10, <1>11, DataStep

\* The connection is killed.
LEMMA KillData ==
    ASSUME DataInv, ConnKill
    PROVE  DataInv'
<1>1. UNCHANGED <<data, secured, pc, frame>>
  BY DEF ConnKill
<1>2. \A t \in Thread : OwnData(t)'
  BY <1>1 DEF DataInv, OwnData, Owner, Securing, data
<1>3. Buffered'
  BY <1>1 DEF DataInv, Buffered, Owner, Freeing, data
<1>4. Ordered(wire, lost)' /\ Faithful(wire, mark)'
  BY <1>1 DEF DataInv, data
<1>5. QED
  BY <1>2, <1>3, <1>4 DEF DataInv

\* The connection is allocated again: whatever happened to it before, nothing is
\* left in a buffer.
LEMMA AllocData ==
    ASSUME SlotInv, ConnAlloc
    PROVE  Alone' /\ DataInv'
<1>1. /\ UNCHANGED <<sendBuffer, pc, frame>>
      /\ wire' = << >> /\ mark' = << >> /\ lost' = {}
      /\ \A t \in Thread : pc[t] = "idle"
  BY DEF ConnAlloc
<1>2. Alone'
  BY <1>1 DEF Alone
<1>3. sendBuffer = << >> /\ \A t \in Thread : frame[t] = NoCall
  BY <1>1 DEF ConnAlloc, SlotInv, States, Places, PlaceOf
<1>4. NoCall.hold = << >> /\ NoCall.seen = << >>
  BY DEF NoCall, Called
<1>5. \A t \in Thread : OwnData(t)'
  BY <1>1, <1>3, <1>4 DEF OwnData, Owner, Securing
<1>6. Buffered' /\ Ordered(wire, lost)' /\ Faithful(wire, mark)'
  BY <1>1, <1>3, NothingWritten DEF Buffered
<1>7. QED
  BY <1>2, <1>5, <1>6 DEF DataInv

-----------------------------------------------------------------------------
(* The theorems about the data.                                            *)

\* The data is in order as long as no call was beside one that writes.
LoneInv == ~beside => Alone /\ DataInv

\* It stays so, and it is so again for a connection that is allocated again.
LEMMA LoneStep ==
    ASSUME TypeInv, SlotInv, LoneInv, [Next]_vars
    PROVE  LoneInv'
<1> SUFFICES ASSUME ~beside' PROVE Alone' /\ DataInv'
  BY DEF LoneInv
<1>1. CASE UNCHANGED vars
  <2>1. UNCHANGED <<sendBuffer, wire, mark, lost, secured, beside, pc, frame>>
    BY <1>1 DEF vars, data, link
  <2>2. Alone /\ DataInv
    BY <2>1 DEF LoneInv
  <2>3. \A t \in Thread : OwnData(t)'
    BY <2>1, <2>2 DEF DataInv, OwnData, Owner, Securing
  <2>4. Buffered'
    BY <2>1, <2>2 DEF DataInv, Buffered, Owner, Freeing
  <2>5. QED
    BY <2>1, <2>2, <2>3, <2>4 DEF DataInv, Alone
<1>2. ASSUME NEW t \in Thread, ThreadStep(t) PROVE Alone' /\ DataInv'
  <2>1. SoloInv /\ DataInv
    BY <1>2, BesideStays DEF LoneInv, SoloInv
  <2>2. Alone'
    BY <1>2, <2>1, AloneKept DEF SoloInv
  <2>3. DataInv'
    BY <1>2, <2>1, BeginCallData, SendDataReadData, SendDataClearData, NoMemoryData, WriteData, ConnectInsertData,
       ReceiveInsertData, ReceiveSetData, SendInsertData, CallbackData, FlushData, FlushDoneData, FlushFailsData,
       WorkData, ConnectRemoveData, ReceiveRemoveData, SendRemoveData, RecycleData
       DEF ThreadStep
  <2>4. QED
    BY <2>2, <2>3
<1>3. CASE ConnKill
  <2>1. ~beside /\ UNCHANGED <<pc, frame>>
    BY <1>3 DEF ConnKill
  <2>2. Alone' /\ DataInv
    BY <2>1 DEF LoneInv, Alone
  <2>3. QED
    BY <1>3, <2>2, KillData
<1>4. QED
  BY <1>1, <1>2, <1>3, AllocData DEF Next

\* The invariant of the data holds in every reachable state.
LEMMA DataHolds == Spec => [](TypeInv /\ SlotInv /\ LoneInv)
<1>1. Init => DataInv
  <2> SUFFICES ASSUME Init PROVE DataInv
    OBVIOUS
  <2>1. NoCall.hold = << >> /\ NoCall.seen = << >>
    BY DEF NoCall, Called
  <2>2. \A t \in Thread : pc[t] = "idle" /\ frame[t] = NoCall
    BY DEF Init
  <2>3. \A t \in Thread : OwnData(t)
    BY <2>1, <2>2 DEF OwnData, Owner, Securing
  <2>4. Buffered /\ Ordered(wire, lost) /\ Faithful(wire, mark)
    BY NothingWritten DEF Init, Buffered
  <2>5. QED
    BY <2>3, <2>4 DEF DataInv
<1>2. Init => LoneInv
  BY <1>1, SlotsInit DEF LoneInv
<1>3. TypeInv /\ SlotInv /\ LoneInv /\ [Next]_vars => LoneInv'
  BY LoneStep
<1>4. QED
  BY <1>2, <1>3, SlotsHold, PTL DEF Spec

\* An item is in one place, none is sent twice or forgotten, and they reach the
\* wire in the order in which they were written, as long as no call was beside
\* one that writes.
THEOREM ItemsGoOutOnce == Spec => []DataOnce
<1>1. TypeInv /\ SlotInv /\ LoneInv => DataOnce
  <2> SUFFICES ASSUME TypeInv, SoloInv, DataInv, ~beside PROVE DataOnce
    BY DEF DataOnce, LoneInv, SoloInv
  <2>1. TypeOK /\ sendBuffer \in Seq(Nat) /\ mark \in Seq(BOOLEAN)
    BY DEF TypeInv, TypeOK
  <2>2. Sent = SentOf(wire)
    BY DEF Sent, SentOf
  <2>3. \A t \in Thread : ~Owner(t) => Items(frame[t].hold) = {}
    BY EmptyHands DEF Items
  <2>4. Ordered(wire, lost)
    BY DEF DataInv
  <2>5. CASE \E t \in Thread : Owner(t)
    <3>1. PICK t \in Thread : Owner(t)
      BY <2>5
    <3>2. sendBuffer = << >> /\ Settled(frame[t].hold, mark, wire, lost) /\ Sole(t)
      BY <2>1, <3>1, OwnerHasAll
    <3>3. frame[t].hold \in Seq(Nat)
      BY <2>1, FrameFields
    <3>4. /\ Items(frame[t].hold) \cap (Sent \cup lost) = {}
          /\ (Sent \cup lost) \cup Items(frame[t].hold) = 1 .. Len(mark)
      BY <2>1, <2>2, <3>2, <3>3, PendingItems
    <3>5. \A u \in Thread : u # t => Items(frame[u].hold) = {}
      BY <2>1, <2>3, <3>2, NobodyElseOwns
    <3>6. Items(sendBuffer) = {}
      BY <3>2 DEF Items
    <3>7. QED
      BY <2>2, <2>4, <3>4, <3>5, <3>6 DEF DataOnce, Ordered
  <2>6. CASE ~\E t \in Thread : Owner(t)
    <3>1. Settled(sendBuffer, mark, wire, lost)
      BY <2>6 DEF DataInv, Buffered
    <3>2. /\ Items(sendBuffer) \cap (Sent \cup lost) = {}
          /\ (Sent \cup lost) \cup Items(sendBuffer) = 1 .. Len(mark)
      BY <2>1, <2>2, <3>1, PendingItems
    <3>3. \A u \in Thread : Items(frame[u].hold) = {}
      BY <2>3, <2>6
    <3>4. QED
      BY <2>2, <2>4, <3>2, <3>3 DEF DataOnce, Ordered
  <2>7. QED
    BY <2>5, <2>6
<1>2. QED
  BY <1>1, DataHolds, PTL

\* An item is sent under the protection that was in force when it was written,
\* as long as no call was beside one that writes.
THEOREM ProtectionIsKept == Spec => []ProtectionKept
<1>1. LoneInv => ProtectionKept
  BY DEF LoneInv, DataInv, Faithful, ProtectionKept
<1>2. QED
  BY <1>1, DataHolds, PTL
=============================================================================
