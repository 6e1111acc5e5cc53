---- MODULE EventData ----
(***************************************************************************)
(* What processing a conn event does to the data of a connection: the      *)
(* reads, peeks, tests and eats of the receive buffer, reads to a callback *)
(* or to another connection, flushes, writes from a callback or from the   *)
(* client's buffer, the start of TLS, and the draining of a disconnect.    *)
(*                                                                         *)
(* One event at a time: SyncSlots and ConnQueue show that the events of a  *)
(* class are serial, and the classes share no data.  A byte is the number  *)
(* of its place in the stream; a step of the environment decides how many  *)
(* bytes a recv or send moves, whether it would block, and what the        *)
(* consumer's callback answers.  An IOBuffer is a bounded queue of bytes   *)
(* whose used part is contiguous, so IOBDefrag finds nothing to join.  An  *)
(* operator whose comment begins with "As if" is not part of the model: it *)
(* is the definition after it with a plausible bug.                        *)
(***************************************************************************)
EXTENDS Naturals, Sequences, FiniteSetsExt, SequencesExt

CONSTANTS
    Text,     \* what a peer may send before it closes: sequences of "cr", "lf"
    IOBSize,  \* CONN_IOB_SIZE
    Sizes     \* sizes of the client's buffers, and counts

ASSUME DataAssumption ==
    /\ Text \subseteq Seq({"cr", "lf"})
    /\ IOBSize \in Nat \ {0}
    /\ Sizes \subseteq Nat \ {0}

VARIABLES
    text,     \* what this peer sends
    rcvd,     \* bytes received from the socket so far
    freed,    \* bytes the receive buffer has given up (IOBMarkFree)
    secured,  \* socket->ssl.conn
    plain,    \* bytes received before TLS started
    over,     \* a disconnect was processed
    pc,       \* where EventProcess is
    ce,       \* the conn event in progress, or just ended
    client,   \* the bytes it has handed to the consumer
    given,    \* the bytes it was given to send
    sent,     \* the bytes of them its buffer has given up
    wire      \* the bytes it has put on the wire

recvVars == <<text, rcvd, freed, secured, plain, over, client>>
sendVars == <<given, sent, wire>>
vars == <<recvVars, sendVars, pc, ce>>

\* A pattern is the set of its spellings: with SEARCH_IGNORE_CR a line feed may
\* have a carriage return before it.
Line == {<<"lf">>, <<"cr", "lf">>}                                 \* "\n"
Blank == {<<"lf", "lf">>, <<"lf", "cr", "lf">>,
          <<"cr", "lf", "lf">>, <<"cr", "lf", "cr", "lf">>}        \* "\n\n"
CRLF == {<<"cr", "lf">>}                                           \* SPECIAL_PATTERN_CRLF
CD == {"COPY", "DELETE"}

Used == rcvd - freed
Unsent == given - sent

-----------------------------------------------------------------------------
(* The calls that create events *)

Conditional == {"READ", "READ_COUNT", "READ_UNTIL_PATTERN"}
Forward == {"READ_TO_CB", "READ_TO_CONN"}
Send == {"FLUSH", "WRITE_FROM_CB", "WRITE_FROM_CLIENT_BUFFER"}

Call(type, mode, flags, pattern, sizes) ==
    [type: {type}, mode: {mode}, flags: {flags}, pattern: pattern, size: sizes]

SyncReads ==
    LET Until(flags, p) == Call("READ_UNTIL_PATTERN", "SYNC", CD \cup flags, {p}, Sizes)
    IN  Call("READ", "SYNC", CD, {{}}, Sizes)
        \cup Call("READ_COUNT", "SYNC", CD, {{}}, Sizes)
        \cup Until({"INCLUDE", "TERMINATE"}, Line)                \* ConnReadLine
        \cup Until({"TERMINATE"}, CRLF)                           \* ConnReadCRLF
        \cup Until({"PARTIAL_OK", "TERMINATE", "INCLUDE"}, Line)  \* ConnReadGetS
        \cup Until({"PARTIAL_OK", "TERMINATE"}, Line)
        \cup Until({"TERMINATE"}, Line)                           \* ConnReadAnswer
        \cup Until({}, Line) \cup Until({}, Blank)                \* ConnReadUntilPattern

\* ConnEatCount hands on a size of 0, whatever its count.
SyncEats == Call("READ_COUNT", "SYNC", {"DELETE"}, {{}}, {0})

SyncPeeks ==
    LET Until(flags, p) == Call("READ_UNTIL_PATTERN", "NON_BLOCKING", {"COPY"} \cup flags, {p}, Sizes)
    IN  Call("READ", "NON_BLOCKING", {"COPY"}, {{}}, Sizes)
        \cup Call("READ_COUNT", "NON_BLOCKING", {"COPY"}, {{}}, Sizes)
        \cup Until({"INCLUDE", "TERMINATE"}, Line) \cup Until({"TERMINATE"}, Line)
        \cup Until({}, Line) \cup Until({}, Blank)

AsyncReads ==
    LET Until(flags, p) == Call("READ_UNTIL_PATTERN", "ASYNC", CD \cup flags, {p}, Sizes)
    IN  Call("READ", "ASYNC", CD, {{}}, Sizes)
        \cup Call("READ_COUNT", "ASYNC", CD, {{}}, Sizes)
        \cup Until({"INCLUDE", "TERMINATE"}, Line)                \* ConnAReadLine
        \cup (UNION {Until({"PARTIAL_OK", "TERMINATE", "INCLUDE"}, p)
                     \cup Until({"PARTIAL_OK", "TERMINATE"}, p) : p \in {Line, CRLF}})
        \cup Until({"TERMINATE"}, Line)                           \* ConnAReadAnswer
        \cup Until({}, Line) \cup Until({}, Blank)                \* ConnAReadUntilPattern

AsyncEats == Call("READ_COUNT", "ASYNC", {"DELETE"}, {{}}, Sizes)

AsyncPeeks ==
    LET Until(flags, p) == Call("READ_UNTIL_PATTERN", "ASYNC", {"COPY"} \cup flags, {p}, Sizes)
    IN  Call("READ", "ASYNC", {"COPY"}, {{}}, Sizes)
        \cup Call("READ_COUNT", "ASYNC", {"COPY"}, {{}}, Sizes)
        \cup Until({"TERMINATE"}, Line) \cup Until({"INCLUDE", "TERMINATE"}, Line)
        \cup Until({}, Line) \cup Until({}, Blank)

AsyncTests ==
    Call("READ", "ASYNC", {}, {{}}, {0})
    \cup Call("READ_COUNT", "ASYNC", {}, {{}}, Sizes)
    \cup Call("READ_UNTIL_PATTERN", "ASYNC", {}, {Line, CRLF, Blank}, {0})

\* A count of 0 leaves the end to the callback.
ReadsToCB == UNION {Call("READ_TO_CB", m, {}, {{}}, Sizes \cup {0}) : m \in {"SYNC", "ASYNC"}}
ReadsToConn == UNION {Call("READ_TO_CONN", m, {}, {{}}, Sizes) : m \in {"SYNC", "ASYNC"}}
WritesFromCB == UNION {Call("WRITE_FROM_CB", m, {}, {{}}, Sizes \cup {0}) : m \in {"SYNC", "ASYNC"}}
\* ConnAWriteFromBuffer copies a smaller buffer as ConnAWrite does.
WritesFromBuffer == Call("WRITE_FROM_CLIENT_BUFFER", "ASYNC", {}, {{}}, {n \in Sizes : n >= IOBSize})
Flushes == UNION {Call("FLUSH", m, {}, {{}}, {0}) : m \in {"SYNC", "ASYNC"}}
Connects == UNION {Call(t, m, {}, {{}}, {0}) : t \in {"TLS", "SSL_DISCONNECT", "DISCONNECT"}, m \in {"SYNC", "ASYNC"}}

Calls == SyncReads \cup SyncEats \cup SyncPeeks \cup AsyncReads \cup AsyncEats \cup AsyncPeeks
         \cup AsyncTests \cup ReadsToCB \cup ReadsToConn \cup Connects

Assign(c, at) ==
    [type |-> c.type, mode |-> c.mode, flags |-> c.flags, pattern |-> c.pattern, size |-> c.size,
     remaining |-> c.size, count |-> c.size, transferred |-> 0, status |-> "NEW", error |-> "none",
     start |-> at, then |-> "done", done |-> FALSE, again |-> FALSE]

ConnEventAssign(c) == Assign(c, freed)
NoEvent == Assign([type |-> "NONE", mode |-> "SYNC", flags |-> {}, pattern |-> {}, size |-> 0], 0)

Init ==
    /\ text \in Text
    /\ rcvd = 0 /\ freed = 0 /\ secured = FALSE /\ plain = 0 /\ over = FALSE
    /\ pc = "idle"
    /\ client = <<>> /\ given = 0 /\ sent = 0 /\ wire = <<>>
    /\ ce = NoEvent

\* A read, a handshake or a disconnect begins.  Only the synchronous calls look
\* whether the connection is secured.
Begin(c) ==
    /\ pc = "idle" /\ ~over
    /\ c.mode = "SYNC" /\ c.type \in {"TLS", "DISCONNECT"} => ~secured
    /\ c.mode = "SYNC" /\ c.type = "SSL_DISCONNECT" => secured
    /\ pc' = "process" /\ ce' = ConnEventAssign(c)
    /\ UNCHANGED <<recvVars, sendVars>>

\* A write begins with n bytes: what ConnWrite has buffered, which never fills
\* the buffer, or the client's buffer.
BeginWrite(c, n) ==
    /\ pc = "idle" /\ ~over
    /\ CASE c.type = "FLUSH" -> n \in 1 .. IOBSize
         [] c.type = "WRITE_FROM_CB" -> n < IOBSize
         [] OTHER -> n = c.size
    /\ pc' = "process" /\ ce' = ConnEventAssign(c)
    /\ given' = n
    /\ UNCHANGED <<recvVars, sent, wire>>

\* The consumer has its result, the event and the send buffer are freed.
Return ==
    /\ pc = "ended"
    /\ pc' = "idle" /\ ce' = NoEvent
    /\ client' = <<>> /\ given' = 0 /\ sent' = 0 /\ wire' = <<>>
    /\ UNCHANGED <<text, rcvd, freed, secured, plain, over>>

\* The connection is freed after a disconnect and serves another peer.
ConnReset ==
    /\ pc = "idle" /\ over
    /\ text' \in Text
    /\ rcvd' = 0 /\ freed' = 0 /\ secured' = FALSE /\ plain' = 0 /\ over' = FALSE
    /\ UNCHANGED <<pc, ce, client, sendVars>>

-----------------------------------------------------------------------------
(* EventProcess *)

Outcome(c, err) ==
    CASE err = "none" -> "COMPLETE"
      [] err = "ETIMEDOUT" -> "TIMED_OUT"
      [] err = "EMSGSIZE" /\ "PARTIAL_OK" \in c.flags -> "PARTIAL"
      [] OTHER -> "FAILED"

Ends(c, err) == pc' = "ended" /\ ce' = [c EXCEPT !.status = Outcome(c, err), !.error = err]
Goes(c, where) == pc' = where /\ ce' = c

\* EWOULDBLOCK: a peek fails, other calls wait, unless the transaction has a
\* problem or the socket event cannot be started.
Blocks(c) ==
    \/ c.mode = "NON_BLOCKING" /\ Ends(c, "EWOULDBLOCK")
    \/ c.mode # "NON_BLOCKING" /\ Goes([c EXCEPT !.status = "IN_PROGRESS"], "blocked")
    \/ c.mode = "ASYNC" /\ \E e \in {"ECANCELED", "EIO"} : Ends(c, e)

\* The socket is ready: an event that waited for data receives first.
Resume ==
    /\ pc = "blocked"
    /\ pc' = IF ce.type \in Conditional \cup Forward THEN "fill" ELSE "process"
    /\ UNCHANGED <<ce, recvVars, sendVars>>

\* The wait ends with an error.
WaitFails ==
    /\ pc = "blocked"
    /\ \E e \in {"ETIMEDOUT", "ECANCELED"} : Ends(ce, e)
    /\ over' = (ce.type = "DISCONNECT")
    /\ secured' = (secured /\ ce.type # "SSL_DISCONNECT")
    /\ UNCHANGED <<text, rcvd, freed, plain, client, sendVars>>

-----------------------------------------------------------------------------
(* Conditional reads *)

\* The spelling of P that s has at i: none or one, because none is the beginning
\* of another.
SpellingAt(s, P, i) == {p \in P : IsPrefix(p, SubSeq(s, i, Len(s)))}

\* The first place of P in s, or Len(s) + 1, and the length it has there.
Place(s, P) == Min({i \in 1 .. Len(s) : SpellingAt(s, P, i) # {}} \cup {Len(s) + 1})
LengthThere(s, P) == Max({0} \cup {Len(p) : p \in SpellingAt(s, P, Place(s, P))})

\* The pattern's place in the used part of the buffer; without one, what comes
\* before the bytes that may be the beginning of it.
IOBSearch(s, P) ==
    LET place == Place(s, P)
        begun(k) == \E p \in P : Len(p) > k /\ IsPrefix(SubSeq(s, Len(s) - k + 1, Len(s)), p)
        maybe == Max({0} \cup {k \in 1 .. Len(s) : begun(k)})
    IN  [match |-> place <= Len(s),
         count |-> IF place <= Len(s) THEN place - 1 ELSE Len(s) - maybe,
         len |-> LengthThere(s, P)]

Buffered == SubSeq(text, freed + 1, rcvd)

\* As if any data were enough for a count.
AnyDataIsEnough ==
    IF ce.type = "READ_UNTIL_PATTERN" THEN IOBSearch(Buffered, ce.pattern)
    ELSE [match |-> Used > 0, count |-> Min({Used, ce.remaining}), len |-> 0]

EventConditionSatisfied ==
    IF ce.type = "READ_UNTIL_PATTERN" THEN IOBSearch(Buffered, ce.pattern)
    ELSE [match |-> IF ce.type = "READ" THEN Used > 0 ELSE Used >= ce.remaining,
          count |-> Min({Used, ce.remaining}), len |-> 0]

Bytes(from, n) == [i \in 1 .. n |-> from + i]

CopyBufferedDataToClient(c, n) ==
    [c EXCEPT !.remaining = @ - n, !.transferred = @ + n]

\* The condition is satisfied: the event ends.  No call replaces the pattern
\* (CONN_READ_REPLACE_PATTERN).
moveFinalConditionalDataToClient(m) ==
    LET copy == "COPY" \in ce.flags
        extra == IF "INCLUDE" \in ce.flags THEN m.len ELSE 0
        terminator == IF "TERMINATE" \in ce.flags THEN 1 ELSE 0
        fits == ~copy \/ m.count + extra + terminator <= ce.remaining
        data == IF fits THEN m.count ELSE Min({m.count, ce.remaining})
        copied == IF ~copy THEN 0 ELSE IF fits THEN data + extra ELSE data
        moved == CASE copy -> CopyBufferedDataToClient(ce, copied)
                   [] ~copy /\ "DELETE" \notin ce.flags -> [ce EXCEPT !.transferred = m.count]
                   [] OTHER -> ce
    IN  /\ client' = client \o Bytes(freed, copied)
        /\ freed' = IF "DELETE" \in ce.flags THEN freed + data + (IF fits THEN m.len ELSE 0) ELSE freed
        /\ Ends(moved, IF fits THEN "none" ELSE "EMSGSIZE")

\* It is not: a read that consumes makes room in the buffer.  An eat does not
\* count what it throws away.
movePartialConditionalDataToClient(m) ==
    LET copy == "COPY" \in ce.flags
        short == copy /\ ce.remaining < m.count
        n == IF "DELETE" \notin ce.flags THEN 0
             ELSE IF short THEN ce.remaining ELSE m.count
        moved == IF copy THEN CopyBufferedDataToClient(ce, n) ELSE ce
    IN  /\ client' = IF copy THEN client \o Bytes(freed, n) ELSE client
        /\ freed' = freed + n
        /\ IF "DELETE" \in ce.flags /\ short THEN Ends(moved, "EMSGSIZE") ELSE Goes(moved, "fill")

SatisfyEvent ==
    /\ pc = "process" /\ ce.type \in Conditional
    /\ LET m == EventConditionSatisfied
       IN  IF m.match THEN moveFinalConditionalDataToClient(m)
                      ELSE movePartialConditionalDataToClient(m)
    /\ UNCHANGED <<text, rcvd, secured, plain, over, sendVars>>

\* As if the buffer had room for its terminator.
RoomForTerminator == IOBSize + 1 - Used
Room == IOBSize - Used

\* What SocketReceive can bring: a full buffer is a satisfied ConnATest and the
\* end of every other event; ReadToConn comes here only with room.
fillRecvBuffer ==
    /\ pc = "fill"
    /\ \/ /\ \E n \in 1 .. Min({Room, Len(text) - rcvd}) : rcvd' = rcvd + n
          /\ Goes(ce, "process")
       \/ /\ Room = 0
          /\ IF ce.type \in Conditional /\ ce.flags \cap CD = {}
             THEN Ends([ce EXCEPT !.transferred = Used], "none")
             ELSE Ends(ce, "ENOBUFS")
          /\ UNCHANGED rcvd
       \/ Room > 0 /\ Blocks(ce) /\ UNCHANGED rcvd
       \/ Room > 0 /\ rcvd = Len(text) /\ Ends(ce, "ECONNCLOSEDBYPEER") /\ UNCHANGED rcvd
       \/ Room > 0 /\ Ends(ce, "ECONNRESET") /\ UNCHANGED rcvd
    /\ UNCHANGED <<text, freed, secured, plain, over, client, sendVars>>

-----------------------------------------------------------------------------
(* Reads to a callback and to another connection *)

Response == {"CONTINUE", "DONE", "NEED_MORE_DATA", "NEED_MORE_BUFFER", "ERROR"}

Hand(n) ==
    /\ client' = client \o Bytes(freed, n)
    /\ freed' = freed + n

\* What follows an answer r of the callback that took n of the bytes offered.
AfterCallback(c, n, offered, r) ==
    IF c.count # 0 /\ c.transferred >= c.count THEN Ends(c, "none") ELSE
    CASE r = "CONTINUE" -> Goes(c, "process")
      [] r = "DONE" -> Ends(c, IF c.count = 0 THEN "none" ELSE "ECONNIOCBSHORT")
      [] r = "NEED_MORE_DATA" ->
            IF n = offered THEN Goes(c, "process")
            ELSE IF Used - n = IOBSize THEN Ends(c, "ENOBUFS") ELSE Goes(c, "fill")
      [] r = "NEED_MORE_BUFFER" -> Ends(c, "ECONNIOMODE")
      [] OTHER -> Ends(c, "EIO")

readToCallbackProcess ==
    /\ pc = "process" /\ ce.type = "READ_TO_CB"
    /\ LET offered == IF ce.count = 0 THEN Used ELSE Min({Used, ce.count - ce.transferred})
       IN  IF Used = 0
           THEN Goes(ce, "fill") /\ UNCHANGED <<client, freed>>
           ELSE \E n \in 0 .. offered + 1, r \in Response :
                   IF n > offered
                   THEN Ends(ce, "ECONNIOCBLONG") /\ UNCHANGED <<client, freed>>
                   ELSE /\ Hand(n)
                        /\ AfterCallback([ce EXCEPT !.transferred = @ + n], n, offered, r)
    /\ UNCHANGED <<text, rcvd, secured, plain, over, sendVars>>

\* It waits for all the bytes, or a full buffer, before it writes any to the
\* other connection, which may take some of them or all and fail.
readToConnProcess ==
    /\ pc = "process" /\ ce.type = "READ_TO_CONN"
    /\ LET needed == ce.count - ce.transferred
           n == Min({Used, needed})
       IN  \/ /\ needed = 0 /\ Ends(ce, "none")
              /\ UNCHANGED <<client, freed>>
           \/ /\ Used < needed /\ Room > 0 /\ Goes(ce, "fill")
              /\ UNCHANGED <<client, freed>>
           \/ /\ needed > 0 /\ (Used >= needed \/ Room = 0)
              /\ \/ Hand(n) /\ Goes([ce EXCEPT !.transferred = @ + n], "process")
                 \/ \E k \in 0 .. n : Hand(k) /\ Ends([ce EXCEPT !.transferred = @ + k], "EIO")
    /\ UNCHANGED <<text, rcvd, secured, plain, over, sendVars>>

-----------------------------------------------------------------------------
(* Writes *)

\* SocketSend puts n bytes on the wire; the buffer gives up those it reports.
SocketSend(n) == wire' = wire \o Bytes(sent, n)

IOBMarkFree(n) == sent' = sent + n

\* One turn of the loop: after a short count it returns the error of the send.
flushSendBuffer ==
    /\ pc = "flush"
    /\ IF Unsent = 0
       THEN /\ IF ce.then = "done" THEN Ends(ce, "none") ELSE Goes(ce, "process")
            /\ UNCHANGED sendVars
       ELSE \E n \in 0 .. Unsent :
               /\ SocketSend(n) /\ IOBMarkFree(n) /\ UNCHANGED given
               /\ IF n = Unsent THEN Goes(ce, "flush") ELSE Blocks(ce) \/ Ends(ce, "ECONNRESET")
    /\ UNCHANGED recvVars

Flush ==
    /\ pc = "process" /\ ce.type = "FLUSH"
    /\ Goes(ce, "flush")
    /\ UNCHANGED <<recvVars, sendVars>>

sendFromClientBuffer ==
    /\ pc = "process" /\ ce.type = "WRITE_FROM_CLIENT_BUFFER"
    /\ IF Unsent = 0
       THEN Ends(ce, "none") /\ UNCHANGED sendVars
       ELSE \E n \in 0 .. Unsent :
               /\ SocketSend(n) /\ IOBMarkFree(n) /\ UNCHANGED given
               /\ IF n > 0 THEN Goes(ce, "process") ELSE Blocks(ce) \/ Ends(ce, "ECONNRESET")
    /\ UNCHANGED recvVars

FlushThen(c, next) == Goes([c EXCEPT !.then = next], "flush")

\* As if DONE did not put an end to the callback's calls.
KeepsAsking(c) == FlushThen(c, "done")
CallbackDone(c) == FlushThen([c EXCEPT !.count = c.transferred], "done")

\* What follows an answer r of the callback; IOBIncreaseFree may make room.
AfterWriteCallback(c, r) ==
    IF c.count # 0 /\ c.transferred >= c.count THEN FlushThen(c, "done") ELSE
    CASE r = "CONTINUE" -> Goes(c, "process")
      [] r = "NEED_MORE_BUFFER" -> Goes(c, "process") \/ FlushThen(c, "more")
      [] r = "DONE" -> IF c.count = 0 THEN CallbackDone(c) ELSE Ends(c, "ECONNIOCBSHORT")
      [] r = "NEED_MORE_DATA" -> Ends(c, "ECONNIOMODE")
      [] OTHER -> Ends(c, "EIO")

MaxGiven == Max(Sizes) + 1

\* The top of the loop, where an event also comes back after it has blocked.
\* The callback gives at most MaxGiven bytes, a bound of the model.
writeFromCB ==
    /\ pc = "process" /\ ce.type = "WRITE_FROM_CB"
    /\ LET space == IOBSize - Unsent
           request == IF ce.count = 0 THEN space ELSE Min({space, ce.count - ce.transferred})
       IN  CASE space = 0 -> FlushThen(ce, "more") /\ UNCHANGED given
             [] space > 0 /\ ce.count # 0 /\ ce.transferred >= ce.count ->
                    FlushThen(ce, "done") /\ UNCHANGED given
             [] OTHER -> \E n \in 0 .. request + 1, r \in Response :
                    /\ ce.transferred + n <= MaxGiven
                    /\ r = "CONTINUE" => n > 0
                    /\ IF n > request
                       THEN Ends(ce, "ECONNIOCBLONG") /\ UNCHANGED given
                       ELSE /\ given' = given + n
                            /\ AfterWriteCallback(
                                   [ce EXCEPT !.transferred = @ + n, !.again = @ \/ ce.done,
                                              !.done = @ \/ (r = "DONE" /\ ce.transferred + n > 0)], r)
    /\ UNCHANGED <<recvVars, sent, wire>>

-----------------------------------------------------------------------------
(* TLS and disconnect *)

\* As if TLS could start over what was received in the clear.
AnyBuffer == TRUE
NothingBuffered == Used = 0

\* SSL_ACCEPT, TLS_ACCEPT, SSL_CONNECT and TLS_CONNECT.  SocketSSLAbort ends
\* the session of a connection that was secured before.
StartTLS ==
    /\ pc = "process" /\ ce.type = "TLS"
    /\ IF NothingBuffered /\ ~secured
       THEN \/ secured' = TRUE /\ plain' = rcvd /\ Ends(ce, "none")
            \/ (Blocks(ce) \/ Ends(ce, "EIO")) /\ UNCHANGED <<secured, plain>>
       ELSE /\ Ends(ce, IF NothingBuffered THEN "ECONNALREADYSECURED" ELSE "EOVERFLOW")
            /\ secured' = FALSE /\ UNCHANGED plain
    /\ UNCHANGED <<text, rcvd, freed, over, client, sendVars>>

SSLDisconnect ==
    /\ pc = "process" /\ ce.type = "SSL_DISCONNECT"
    /\ IF secured THEN Ends(ce, "none") \/ Blocks(ce) \/ Ends(ce, "EIO")
                  ELSE Ends(ce, "ECONNALREADYSECURED")
    /\ secured' = (secured /\ pc' # "ended")
    /\ UNCHANGED <<text, rcvd, freed, plain, over, client, sendVars>>

drainReceiveBuffer ==
    /\ pc = "process" /\ ce.type = "DISCONNECT" /\ ce.status = "NEW"
    /\ freed' = rcvd
    /\ Blocks(ce)
    /\ over' = (pc' = "ended")
    /\ UNCHANGED <<text, rcvd, secured, plain, client, sendVars>>

drainWire ==
    /\ pc = "process" /\ ce.type = "DISCONNECT" /\ ce.status = "IN_PROGRESS"
    /\ \E n \in 0 .. Len(text) - rcvd : rcvd' = rcvd + n /\ freed' = freed + n
    /\ \/ rcvd' = Len(text) /\ Ends(ce, "none")
       \/ Blocks(ce)
       \/ Ends(ce, "ECONNRESET")
    /\ over' = (pc' = "ended")
    /\ UNCHANGED <<text, secured, plain, client, sendVars>>

EventStep ==
    \/ Resume \/ WaitFails
    \/ SatisfyEvent \/ fillRecvBuffer \/ readToCallbackProcess \/ readToConnProcess
    \/ flushSendBuffer \/ Flush \/ sendFromClientBuffer \/ writeFromCB
    \/ StartTLS \/ SSLDisconnect \/ drainReceiveBuffer \/ drainWire

Next ==
    \/ \E c \in Calls : Begin(c)
    \/ \E c \in Flushes \cup WritesFromCB \cup WritesFromBuffer, n \in 0 .. Max(Sizes \cup {IOBSize}) :
           BeginWrite(c, n)
    \/ EventStep
    \/ Return
    \/ ConnReset

Spec == Init /\ [][Next]_vars

-----------------------------------------------------------------------------
(* Properties *)

TypeOK ==
    /\ text \in Text
    /\ rcvd \in 0 .. Len(text) /\ freed \in 0 .. rcvd /\ Used <= IOBSize
    /\ plain \in 0 .. rcvd /\ {secured, over} \subseteq BOOLEAN
    /\ pc \in {"idle", "ended", "process", "fill", "flush", "blocked"}
    /\ {ce.remaining, ce.count, ce.transferred} \subseteq Nat
    /\ ce.status \in {"NEW", "IN_PROGRESS", "COMPLETE", "PARTIAL", "TIMED_OUT", "FAILED"}
    /\ ToSet(client) \subseteq 1 .. Len(text)
    /\ sent \in 0 .. given /\ (ce.type = "WRITE_FROM_CB" => Unsent <= IOBSize)

\* A read means the same however the stream arrives in pieces, blocks or breaks
\* off.  What it hands over is what follows the last byte read before, without
\* a gap; a line is what comes before the first end of line in the stream, and
\* is reported too long exactly when it is; a count is all of its bytes; what
\* was not handed over is still there for the next read, except for the end of
\* line of a read that does not include it; and a peek or test takes nothing.
ReadMeaning ==
    LET n == Len(client)
        rest == SubSeq(text, ce.start + 1, Len(text))
        data == Place(rest, ce.pattern) - 1
        length == LengthThere(rest, ce.pattern)
        include == IF "INCLUDE" \in ce.flags THEN length ELSE 0
        needs == data + include + (IF "TERMINATE" \in ce.flags THEN 1 ELSE 0)
        complete == ce.status = "COMPLETE"
        taken == freed - ce.start
    IN  /\ client = Bytes(ce.start, n)
        /\ pc = "ended" /\ ce.type \in Conditional =>
             /\ "DELETE" \notin ce.flags => taken = 0
             /\ "COPY" \in ce.flags => ce.transferred = n /\ n <= ce.size
             /\ CD \subseteq ce.flags =>
                    taken = n + (IF complete THEN length - include ELSE 0)
             /\ complete /\ ce.flags = {"DELETE"} => taken >= ce.size
             /\ complete /\ "COPY" \in ce.flags =>
                    CASE ce.type = "READ" -> n > 0
                      [] ce.type = "READ_COUNT" -> n = ce.size
                      [] OTHER -> data < Len(rest) /\ n = data + include /\ needs <= ce.size
             /\ ce.error = "EMSGSIZE" => needs > ce.size /\ n = Min({ce.size, data})
             /\ complete /\ ce.flags = {} =>
                    ce.transferred \in {IOBSize, IF ce.pattern = {} THEN ce.size ELSE data}
        /\ pc = "ended" /\ ce.type \in Forward =>
             /\ taken = n /\ ce.transferred = n
             /\ ce.size # 0 => n <= ce.size /\ (complete => n = ce.size)

\* No byte that came in the clear is handed over after TLS has started, although
\* peeks and partial reads leave such bytes in the receive buffer.
NoClearAfterTLS == secured => \A p \in ToSet(client) : p > plain

\* A write puts its bytes on the wire in order and once, although sends are
\* short and block and writeFromCB starts again at its top; success means all of
\* them, and a count is met exactly.  A callback that was done is not called
\* again, if it had given anything.
WriteMeaning ==
    /\ wire = Bytes(0, sent)
    /\ ce.type = "WRITE_FROM_CB" /\ ce.size # 0 => ce.transferred <= ce.size
    /\ ~ce.again
    /\ pc = "ended" /\ ce.type \in Send /\ ce.status = "COMPLETE" =>
         /\ sent = given
         /\ ce.type = "WRITE_FROM_CB" /\ ce.size # 0 => ce.transferred = ce.size
====
