------------------------------ MODULE SyncSlots ------------------------------
(***************************************************************************)
(* The synchronous side of one connection (src/connio.c): threads of the   *)
(* consumer call ConnRead, ConnWrite, ConnFlush, ConnDisconnect and so on,  *)
(* and each call puts a conn event of its own stack into one of the three   *)
(* slots conn->activeEvent for as long as it works on the connection.       *)
(* Writes collect in conn->sendBuffer, which has no lock of its own, and    *)
(* every other call flushes it first.                                       *)
(*                                                                         *)
(* Data is counted in items: item n is the n-th one written. A conn event   *)
(* on the stack is named by its thread.                                     *)
(***************************************************************************)
EXTENDS Naturals, Sequences

CONSTANTS
    Thread,         \* the consumer's threads
    NoThread,       \* no thread holds the event lock; no event is in a slot
    MaxItems,       \* bound: items written to one connection
    BufferSize      \* CONN_IOB_SIZE, in items

ASSUME SyncAssumption ==
    /\ NoThread \notin Thread
    /\ MaxItems \in Nat
    /\ BufferSize \in Nat \ {0}

VARIABLES
    state,          \* conn->state
    active,         \* conn->activeEvent: the thread whose event is in a slot
    overtaken,      \* history: a receive ended beside the event in the send slot
    lock,           \* the holder of conn->mutex between two steps
    sendBuffer,     \* conn->sendBuffer; << >> is NULL
    socket,         \* "new" (no socket yet), "open" or "closed"
    secured,        \* conn->sp->ssl.conn is there
    beside,         \* history: a call that writes was not the only one
    wire,           \* the items sent, each with the protection it was sent under
    mark,           \* history: the protection in force when an item was written
    lost,           \* items freed without being sent
    pc,             \* where each thread is
    frame           \* the locals of the call each thread is in

conn == <<state, active, overtaken, lock>>
data == <<sendBuffer, wire, mark, lost>>
link == <<socket, secured, beside>>
vars == <<conn, data, link, pc, frame>>

Slot == {"connect", "receive", "send"}
ConnectCall == {"CONNECT", "DISCONNECT", "SSL_CONNECT", "SSL_DISCONNECT", "FREE"}
SendCall == {"WRITE", "WRITE_FROM_CB", "FLUSH"}
Call == ConnectCall \cup SendCall \cup {"READ"}
Label == {"idle", "insert", "swap", "get", "clear", "fill", "callback", "flush", "work", "remove"}

\* The locals of a call: the function, the slot its event was put into, the
\* sendBuffer it has read and not yet cleared, the buffer it owns, the items
\* a ConnWrite still has to copy, and whether its event ended with an error.
Frame == [call : Call, slot : Slot, seen : Seq(Nat), hold : Seq(Nat), todo : Nat, failed : BOOLEAN]
Called(c, n) == [call |-> c, slot |-> "connect", seen |-> << >>, hold |-> << >>,
                 todo |-> n, failed |-> FALSE]
NoCall == Called("READ", 0)

Items(s) == {s[i] : i \in DOMAIN s}
Goto(t, l) == pc' = [pc EXCEPT ![t] = l]
Return(t) == Goto(t, "idle") /\ frame' = [frame EXCEPT ![t] = NoCall]
Lose(s) == lost' = lost \cup Items(s)

\* The connection as _ConnAllocEx leaves it for ConnConnect, or ConnAccept
\* with the socket of the child.
Init ==
    /\ state = "IDLE"
    /\ active = [s \in Slot |-> NoThread] /\ overtaken = FALSE
    /\ lock = NoThread
    /\ sendBuffer = << >> /\ wire = << >> /\ mark = << >> /\ lost = {}
    /\ socket \in {"new", "open"} /\ secured = FALSE /\ beside = FALSE
    /\ pc = [t \in Thread |-> "idle"]
    /\ frame = [t \in Thread |-> NoCall]

-----------------------------------------------------------------------------
(* The consumer.                                                           *)

InCall(C) == \E t \in Thread : pc[t] # "idle" /\ frame[t].call \in C

\* What the assertions of connio ask of its consumer: one thread writes at a
\* time (startWriter), and ConnFree comes when nothing else is going on
\* (connFreeEx). ConnConnect returns the connection, so nobody else has it yet.
MayCall(c) ==
    /\ state # "CACHED"
    /\ ~InCall({"FREE", "CONNECT"})
    /\ c \in {"FREE", "CONNECT"} => ~InCall(Call)
    /\ c = "CONNECT" <=> socket = "new"
    /\ c \in SendCall => ~InCall(SendCall)

\* Whether a call of c is one that writes beside another, or the other.
Beside(c) == InCall(IF c \in SendCall THEN Call ELSE SendCall)

\* A function of the API is called.
BeginCall(t) ==
    \E c \in Call, n \in 0..MaxItems :
        /\ pc[t] = "idle"
        /\ MayCall(c)
        /\ IF c = "WRITE" THEN n > 0 /\ Len(mark) + n <= MaxItems ELSE n = 0
        /\ frame' = [frame EXCEPT ![t] = Called(c, n)]
        /\ Goto(t, IF c \in SendCall THEN "get" ELSE "insert")
        /\ beside' = (beside \/ Beside(c))
        /\ UNCHANGED <<conn, data, socket, secured>>

\* ConnKill: with the event lock it closes the socket, whoever uses it.
ConnKill ==
    /\ lock = NoThread
    /\ state \in {"IDLE", "SYNCHRONOUS"}
    /\ socket = "open"
    /\ socket' = "closed"
    /\ UNCHANGED <<conn, data, secured, beside, pc, frame>>

\* The recycled connection is allocated again.
ConnAlloc ==
    /\ state = "CACHED"
    /\ \A t \in Thread : pc[t] = "idle"
    /\ state' = "IDLE"
    /\ socket' \in {"new", "open"}
    /\ secured' = FALSE /\ beside' = FALSE
    /\ wire' = << >> /\ mark' = << >> /\ lost' = {}
    /\ UNCHANGED <<active, overtaken, lock, sendBuffer, pc, frame>>

-----------------------------------------------------------------------------
(* The send buffer. bufferedSendDataGet reads the pointer and then clears   *)
(* it; only SynchronousReceiveEventInsert calls it with the event lock.     *)

\* Faulty variant: the pointer is read and not cleared.
PointerKept(t) == UNCHANGED sendBuffer

bufferedSendDataGet(t) ==
    sendBuffer' = IF frame[t].seen = << >> THEN sendBuffer ELSE << >>

bufferedSendDataKeep(s) == sendBuffer' = IF s = << >> THEN sendBuffer ELSE s

SendDataRead(t) ==
    /\ pc[t] = "get"
    /\ frame' = [frame EXCEPT ![t].seen = sendBuffer]
    /\ Goto(t, "clear")
    /\ UNCHANGED <<conn, data, link>>

\* Where a call goes once it has the buffer.
WithBuffer(f) ==
    CASE f.call = "WRITE" -> "fill"
      [] f.call \in {"WRITE_FROM_CB", "FLUSH"} -> "insert"
      [] OTHER -> IF f.seen = << >> THEN "work" ELSE "flush"

SendDataClear(t) ==
    /\ pc[t] = "clear"
    /\ bufferedSendDataGet(t)
    /\ IF frame[t].call = "FLUSH" /\ frame[t].seen = << >>
       THEN Return(t)
       ELSE /\ frame' = [frame EXCEPT ![t].hold = frame[t].seen, ![t].seen = << >>]
            /\ Goto(t, WithBuffer(frame[t]))
    /\ UNCHANGED <<conn, wire, mark, lost, link>>

\* No buffer yet and IOBAlloc fails: the write ends with ENOMEM.
NoMemory(t) ==
    /\ pc[t] = "clear"
    /\ frame[t].call \in {"WRITE", "WRITE_FROM_CB"}
    /\ frame[t].seen = << >>
    /\ Return(t)
    /\ UNCHANGED <<conn, data, link>>

\* The next n items are copied into a buffer.
Filled(s, n) == s \o [i \in 1..n |-> Len(mark) + i]
Written(n) == mark' = mark \o [i \in 1..n |-> secured]

\* Faulty variant: a buffer is filled up whatever is left to write.
WholeBuffer(space, todo) == space

\* How much of what is left is copied.
Chunk(space, todo) == IF space > todo THEN todo ELSE space

\* The loop of writeClientData: what fits is kept for later, a full buffer is
\* flushed.
writeClientData(t) ==
    LET space == BufferSize - Len(frame[t].hold)
        n == Chunk(space, frame[t].todo)
        filled == Filled(frame[t].hold, n)
    IN  /\ pc[t] = "fill"
        /\ Written(n)
        /\ IF space > n
           THEN /\ bufferedSendDataKeep(filled)
                /\ Return(t)
           ELSE /\ frame' = [frame EXCEPT ![t].hold = filled, ![t].todo = @ - n]
                /\ Goto(t, "insert")
                /\ UNCHANGED sendBuffer
        /\ UNCHANGED <<conn, wire, lost, link>>

-----------------------------------------------------------------------------
(* Taking a slot, under the event lock.                                    *)

Take(t, s) ==
    /\ state' = "SYNCHRONOUS"
    /\ active' = [active EXCEPT ![s] = t]

AllFree == \A s \in Slot : active[s] = NoThread
ConnectPermitted == state = "IDLE" /\ AllFree
\* Faulty variant: the connect slot is not looked at.
ReceiveBesideConnect ==
    /\ state \in {"IDLE", "SYNCHRONOUS"}
    /\ active["receive"] = NoThread

ReceivePermitted ==
    /\ state \in {"IDLE", "SYNCHRONOUS"}
    /\ active["connect"] = NoThread /\ active["receive"] = NoThread
SendPermitted ==
    /\ state \in {"IDLE", "SYNCHRONOUS"}
    /\ active["connect"] = NoThread /\ active["send"] = NoThread

\* What a call of the connect class does with the connection, if anything:
\* an implicit flush first, only the work itself, or nothing.
connIsStillConnected == socket = "open"

DisconnectStep == IF connIsStillConnected /\ ~secured THEN "get" ELSE "remove"

\* Faulty variant: the handshake begins without a flush.
HandshakeUnflushed == IF connIsStillConnected /\ ~secured THEN "work" ELSE "remove"

SSLConnectStep == IF connIsStillConnected /\ ~secured THEN "get" ELSE "remove"

SSLDisconnectStep == IF secured THEN "get" ELSE "remove"

FreeStep == IF connIsStillConnected THEN "get" ELSE "work"

ConnectStep(c) ==
    CASE c = "DISCONNECT" -> DisconnectStep
      [] c = "SSL_CONNECT" -> SSLConnectStep
      [] c = "SSL_DISCONNECT" -> SSLDisconnectStep
      [] c = "FREE" -> FreeStep
      [] c = "CONNECT" -> "work"

SynchronousConnectEventInsert(t) ==
    /\ pc[t] = "insert" /\ frame[t].call \in ConnectCall
    /\ lock = NoThread
    /\ IF ConnectPermitted
       THEN /\ Take(t, "connect")
            /\ frame' = [frame EXCEPT ![t].slot = "connect"]
            /\ Goto(t, ConnectStep(frame[t].call))
       ELSE /\ Return(t)
            /\ UNCHANGED <<state, active>>
    /\ UNCHANGED <<overtaken, lock, data, link>>

SynchronousReceiveEventInsert(t) ==
    /\ pc[t] = "insert" /\ frame[t].call = "READ"
    /\ lock = NoThread
    /\ IF ReceivePermitted
       THEN /\ state' = "SYNCHRONOUS"
            /\ lock' = t
            /\ frame' = [frame EXCEPT ![t].seen = sendBuffer]
            /\ Goto(t, "swap")
       ELSE /\ Return(t)
            /\ UNCHANGED <<state, lock>>
    /\ UNCHANGED <<active, overtaken, data, link>>

\* The rest of it: the buffer is taken, and with data in it the connect slot.
ReceiveSlot(f) == IF f.seen = << >> THEN "receive" ELSE "connect"

ReceiveEventSet(t) ==
    /\ pc[t] = "swap"
    /\ bufferedSendDataGet(t)
    /\ Take(t, ReceiveSlot(frame[t]))
    /\ frame' = [frame EXCEPT ![t].slot = ReceiveSlot(frame[t]),
                              ![t].hold = frame[t].seen, ![t].seen = << >>]
    /\ lock' = NoThread
    /\ Goto(t, IF frame[t].seen = << >> THEN "work" ELSE "flush")
    /\ UNCHANGED <<overtaken, wire, mark, lost, link>>

\* The callers are connFlushEx, which frees the buffer when it is refused, and
\* ConnWriteFromCB, which puts it back.
SynchronousSendEventInsert(t) ==
    /\ pc[t] = "insert" /\ frame[t].call \in SendCall
    /\ lock = NoThread
    /\ IF SendPermitted
       THEN /\ Take(t, "send")
            /\ frame' = [frame EXCEPT ![t].slot = "send"]
            /\ Goto(t, IF frame[t].call = "WRITE_FROM_CB" THEN "callback" ELSE "flush")
            /\ UNCHANGED <<sendBuffer, lost>>
       ELSE /\ Return(t)
            /\ IF frame[t].call = "WRITE_FROM_CB"
               THEN bufferedSendDataKeep(frame[t].hold) /\ UNCHANGED lost
               ELSE Lose(frame[t].hold) /\ UNCHANGED sendBuffer
            /\ UNCHANGED <<state, active>>
    /\ UNCHANGED <<overtaken, lock, wire, mark, link>>

-----------------------------------------------------------------------------
(* ConnEventProcess for synchronous events, without the event lock.        *)

\* writeFromCB: the callback fills the buffer, until it is full or done.
writeFromCB(t) ==
    /\ pc[t] = "callback"
    /\ \/ /\ Len(frame[t].hold) < BufferSize
          /\ Len(mark) < MaxItems
          /\ frame' = [frame EXCEPT ![t].hold = Filled(@, 1)]
          /\ Written(1)
          /\ UNCHANGED pc
       \/ /\ Goto(t, "flush")
          /\ UNCHANGED <<frame, mark>>
    /\ UNCHANGED <<conn, sendBuffer, wire, lost, link>>

\* flushSendBuffer: SocketSend takes some of the buffer.
flushSendBuffer(t) ==
    /\ pc[t] = "flush"
    /\ frame[t].hold # << >>
    /\ socket = "open"
    /\ wire' = Append(wire, <<Head(frame[t].hold), secured>>)
    /\ frame' = [frame EXCEPT ![t].hold = Tail(@)]
    /\ UNCHANGED <<conn, sendBuffer, mark, lost, link, pc>>

\* After a flush a send call is done; the others come to their own work.
AfterFlush(c) == IF c \in SendCall THEN "remove" ELSE "work"

FlushDone(t) ==
    /\ pc[t] = "flush"
    /\ frame[t].hold = << >>
    /\ \/ Goto(t, AfterFlush(frame[t].call))
       \/ frame[t].call = "WRITE_FROM_CB" /\ Goto(t, "callback")
    /\ UNCHANGED <<conn, data, link, frame>>

\* SocketSend or the consumer's callback fails, or the wait times out: the
\* buffer is freed. A call that has work of its own goes on with it, its
\* event is assigned anew.
FlushFails(t) ==
    /\ pc[t] \in {"flush", "callback"}
    /\ Lose(frame[t].hold)
    /\ frame' = [frame EXCEPT ![t].hold = << >>, ![t].failed = @ \/ frame[t].call = "WRITE"]
    /\ Goto(t, AfterFlush(frame[t].call))
    /\ UNCHANGED <<conn, sendBuffer, wire, mark, link>>

\* socketEventComplete and socketEventAbort.
Work(t) ==
    /\ pc[t] = "work"
    /\ \E ok \in BOOLEAN :
          /\ socket' = CASE frame[t].call = "CONNECT" -> IF ok THEN "open" ELSE "closed"
                         [] frame[t].call \in {"DISCONNECT", "FREE"} -> "closed"
                         [] OTHER -> socket
          /\ secured' = CASE frame[t].call = "SSL_CONNECT" -> ok /\ socket = "open"
                          [] frame[t].call \in {"SSL_DISCONNECT", "FREE"} -> FALSE
                          [] OTHER -> secured
          /\ frame' = [frame EXCEPT ![t].failed = frame[t].call = "CONNECT" /\ ~ok]
    /\ Goto(t, "remove")
    /\ UNCHANGED <<conn, data, beside>>

-----------------------------------------------------------------------------
(* Giving the slot back, under the event lock. The callers ignore a refusal.*)

Holds(t) == state = "SYNCHRONOUS" /\ active[frame[t].slot] = t
\* Faulty variant: a read that has flushed forgets that it is in the connect slot.
ClearReceive(t) ==
    active' = [active EXCEPT ![IF frame[t].call = "READ" THEN "receive" ELSE frame[t].slot] = NoThread]

Clear(t) == active' = [active EXCEPT ![frame[t].slot] = NoThread]

\* ConnConnect frees a connection that it could not connect.
SynchronousConnectEventRemove(t) ==
    /\ pc[t] = "remove" /\ frame[t].call \in ConnectCall \ {"FREE"}
    /\ lock = NoThread
    /\ IF Holds(t)
       THEN Clear(t) /\ state' = "IDLE"
       ELSE UNCHANGED <<state, active>>
    /\ IF frame[t].failed
       THEN Goto(t, "insert") /\ frame' = [frame EXCEPT ![t] = Called("FREE", 0)]
       ELSE Return(t)
    /\ UNCHANGED <<overtaken, lock, data, link>>

\* The connection is IDLE afterwards, although a send may be in progress.
SynchronousReceiveEventRemove(t) ==
    /\ pc[t] = "remove" /\ frame[t].call = "READ"
    /\ lock = NoThread
    /\ IF Holds(t)
       THEN /\ Clear(t) /\ state' = "IDLE"
            /\ overtaken' = (overtaken \/ active["send"] # NoThread)
       ELSE UNCHANGED <<state, active, overtaken>>
    /\ Return(t)
    /\ UNCHANGED <<lock, data, link>>

\* A ConnWrite whose flush went well goes on copying.
SynchronousSendEventRemove(t) ==
    /\ pc[t] = "remove" /\ frame[t].call \in SendCall
    /\ lock = NoThread
    /\ IF Holds(t)
       THEN /\ Clear(t) /\ overtaken' = FALSE
            /\ state' = IF active["receive"] = NoThread THEN "IDLE" ELSE state
       ELSE UNCHANGED <<state, active, overtaken>>
    /\ IF frame[t].call = "WRITE" /\ ~frame[t].failed
       THEN Goto(t, "get") /\ UNCHANGED frame
       ELSE Return(t)
    /\ UNCHANGED <<lock, data, link>>

\* The end of connFreeEx: the slot is given back and ConnRecycle wipes the
\* connection.
ConnRecycle(t) ==
    /\ pc[t] = "remove" /\ frame[t].call = "FREE"
    /\ lock = NoThread
    /\ state' = "CACHED"
    /\ active' = [s \in Slot |-> NoThread] /\ overtaken' = FALSE
    /\ Lose(sendBuffer)
    /\ sendBuffer' = << >>
    /\ Return(t)
    /\ UNCHANGED <<lock, wire, mark, link>>

-----------------------------------------------------------------------------
ThreadStep(t) ==
    \/ BeginCall(t)
    \/ SendDataRead(t)
    \/ SendDataClear(t)
    \/ NoMemory(t)
    \/ writeClientData(t)
    \/ SynchronousConnectEventInsert(t)
    \/ SynchronousReceiveEventInsert(t)
    \/ ReceiveEventSet(t)
    \/ SynchronousSendEventInsert(t)
    \/ writeFromCB(t)
    \/ flushSendBuffer(t)
    \/ FlushDone(t)
    \/ FlushFails(t)
    \/ Work(t)
    \/ SynchronousConnectEventRemove(t)
    \/ SynchronousReceiveEventRemove(t)
    \/ SynchronousSendEventRemove(t)
    \/ ConnRecycle(t)

Next == ConnKill \/ ConnAlloc \/ \E t \in Thread : ThreadStep(t)

Spec == Init /\ [][Next]_vars

-----------------------------------------------------------------------------
(* Properties.                                                             *)

\* Type correctness of the fields of the connection and of the threads' locals.
TypeOK ==
    /\ state \in {"IDLE", "SYNCHRONOUS", "CACHED"}
    /\ active \in [Slot -> Thread \cup {NoThread}] /\ overtaken \in BOOLEAN
    /\ lock \in Thread \cup {NoThread}
    /\ sendBuffer \in Seq(Nat)
    /\ socket \in {"new", "open", "closed"}
    /\ secured \in BOOLEAN /\ beside \in BOOLEAN
    /\ wire \in Seq(Nat \X BOOLEAN)
    /\ mark \in Seq(BOOLEAN)
    /\ lost \subseteq Nat
    /\ pc \in [Thread -> Label]
    /\ frame \in [Thread -> Frame]

\* Thread t is inside ConnEventProcess, or works on the connection under the
\* protection of the connect slot.
Processing(t) ==
    \/ pc[t] \in {"callback", "flush", "work"}
    \/ pc[t] \in {"get", "clear"} /\ frame[t].call \in ConnectCall

\* The slots serialise what threads do to the connection (the Synchronous*
\* functions): two threads work on it at the same time only if one of them
\* receives and the other one sends.
SlotsSerialise ==
    \A t, u \in Thread :
        t # u /\ Processing(t) /\ Processing(u) =>
            {frame[t].slot, frame[u].slot} = {"receive", "send"}

\* A call gives back the slot it took, also a read that moved to the connect
\* slot, whoever else is in a call, so that connFreeEx finds the connection idle
\* (ConnIsIdle) when no call is in progress; a send's slot is left behind in one
\* way only, by SynchronousReceiveEventRemove in another thread.
Quiet == \A t \in Thread : pc[t] = "idle"
SlotsComeBack == Quiet =>
    /\ state # "SYNCHRONOUS" /\ lock = NoThread
    /\ active["connect"] = NoThread /\ active["receive"] = NoThread
    /\ active["send"] = NoThread \/ overtaken

\* An item is in one place: the connection's buffer, the buffer of one thread,
\* the wire, or freed. None is sent twice or forgotten (bufferedSendDataGet
\* and bufferedSendDataKeep hand a buffer over), and they reach the wire in the
\* order in which they were written, although the flush is done by whichever call
\* comes next. The hand-over has no lock, so this is for calls that write alone.
Sent == {wire[i][1] : i \in DOMAIN wire}
DataOnce == ~beside =>
    /\ \A n \in 1..Len(mark) :
          \/ n \in Sent \cup lost \cup Items(sendBuffer)
          \/ \E t \in Thread : n \in Items(frame[t].hold)
    /\ Sent \cap lost = {}
    /\ Items(sendBuffer) \cap (Sent \cup lost) = {}
    /\ \A t \in Thread :
          /\ Items(frame[t].hold) \cap (Sent \cup lost \cup Items(sendBuffer)) = {}
          /\ \A u \in Thread \ {t} : Items(frame[t].hold) \cap Items(frame[u].hold) = {}
    /\ \A i, j \in DOMAIN wire : i < j => wire[i][1] < wire[j][1]

\* The implicit flush of ConnSSLConnect, ConnSSLAccept, ConnSSLDisconnect and
\* ConnFree: an item is sent under the protection that was in force when it
\* was written, never in the clear after an SSL session or inside a later one.
ProtectionKept == ~beside =>
    \A i \in DOMAIN wire : wire[i][2] = mark[wire[i][1]]

=============================================================================
