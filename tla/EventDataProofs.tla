--------------------------- MODULE EventDataProofs ---------------------------
(***************************************************************************)
(* Proofs about EventData, for every stream, every size of the buffers and *)
(* every count: the types, what a read means however its stream arrives,   *)
(* what a write means however its sends are cut short, and that nothing    *)
(* received in the clear is handed over after TLS has started.             *)
(***************************************************************************)
EXTENDS EventData, WellFoundedInduction, TLAPS

-----------------------------------------------------------------------------
(* The inductive invariant.                                                *)

Symbol == {"cr", "lf"}
Pattern == {{}, Line, CRLF, Blank}
Flag == {"COPY", "DELETE", "INCLUDE", "TERMINATE", "PARTIAL_OK"}
Type == Conditional \cup Forward \cup Send \cup {"TLS", "SSL_DISCONNECT", "DISCONNECT", "NONE"}
Status == {"NEW", "IN_PROGRESS", "COMPLETE", "PARTIAL", "TIMED_OUT", "FAILED"}

Error == {"none", "EMSGSIZE", "EWOULDBLOCK", "ETIMEDOUT", "ECANCELED", "EIO", "ENOBUFS", "EOVERFLOW",
          "ECONNCLOSEDBYPEER", "ECONNRESET", "ECONNIOCBSHORT", "ECONNIOCBLONG", "ECONNIOMODE", "ECONNALREADYSECURED"}

\* A conn event.
Event == [type : Type, mode : {"SYNC", "ASYNC", "NON_BLOCKING"}, flags : SUBSET Flag, pattern : Pattern,
          size : Nat, remaining : Nat, count : Nat, transferred : Nat, status : Status, error : Error,
          start : Nat, then : {"done", "more"}, done : BOOLEAN, again : BOOLEAN]

\* What the functions of the API ask for: a pattern goes with a search, what is
\* neither copied nor a test is an eat of a count, and only counts of callbacks
\* and of events that copy nothing may be 0.
WellFormed(c) ==
    /\ c.type \in {"READ", "READ_COUNT"} => c.pattern = {} /\ c.flags \subseteq CD
    /\ c.type = "READ_UNTIL_PATTERN" => c.pattern # {} /\ (c.flags = {} \/ "COPY" \in c.flags)
    /\ c.flags = {"DELETE"} => c.type = "READ_COUNT"
    /\ c.type = "READ" /\ c.flags = {} => c.size = 0
    /\ "COPY" \in c.flags \/ c.type \in {"READ_TO_CONN", "WRITE_FROM_CLIENT_BUFFER"} => c.size # 0

\* The stream after the place where the event began.
Rest == SubSeq(text, ce.start + 1, Len(text))

Typed ==
    /\ text \in Text /\ text \in Seq(Symbol)
    /\ rcvd \in 0 .. Len(text) /\ freed \in 0 .. rcvd /\ rcvd - freed <= IOBSize
    /\ plain \in 0 .. rcvd /\ secured \in BOOLEAN /\ over \in BOOLEAN
    /\ pc \in {"idle", "ended", "process", "fill", "flush", "blocked"}
    /\ ce \in Event /\ WellFormed(ce)
    /\ given \in Nat /\ sent \in 0 .. given
    /\ pc = "idle" => ce = NoEvent /\ client = <<>> /\ given = 0 /\ sent = 0
    /\ pc = "fill" => ce.type \in Conditional \cup Forward
    /\ pc = "flush" => ce.type \in Send

\* What an event has handed over is what follows the place where it began.
Handed ==
    /\ client \in Seq(Nat) /\ client = Bytes(ce.start, Len(client))
    /\ ce.start <= freed /\ ce.start + Len(client) <= rcvd
    /\ ce.type \notin Conditional \cup Forward => client = <<>>

\* A conditional read in progress: it has freed what it has copied, if it frees
\* anything, and the pattern does not begin in what it has freed.
Reading == pc \notin {"idle", "ended"} /\ ce.type \in Conditional =>
    /\ ce.remaining + Len(client) = ce.size /\ ce.transferred = Len(client)
    /\ "COPY" \in ce.flags => freed = ce.start + Len(client)
    /\ "DELETE" \notin ce.flags => freed = ce.start
    /\ "COPY" \notin ce.flags => client = <<>>
    /\ Place(Rest, ce.pattern) > freed - ce.start

\* A read to a callback or another connection.
Forwarding == pc # "idle" /\ ce.type \in Forward =>
    /\ freed = ce.start + Len(client) /\ ce.transferred = Len(client)
    /\ ce.count = ce.size
    /\ ce.size # 0 => ce.transferred <= ce.size

\* What TLS protects is what was received after it started.
Protected == secured => plain <= freed /\ \A i \in DOMAIN client : client[i] > plain

ReadPart == Handed /\ Reading /\ Forwarding /\ Protected /\ ReadMeaning

\* A write: the buffer never holds more than fits, a callback is asked for no
\* more than its count, and after its last call the event only flushes.
Writing == ce.type = "WRITE_FROM_CB" =>
    /\ given - sent <= IOBSize
    /\ ce.size # 0 => ce.count = ce.size /\ ce.transferred <= ce.size
    /\ ce.done /\ pc # "ended" => ce.count # 0 /\ ce.transferred >= ce.count
    /\ pc = "flush" /\ ce.then = "done" => ce.count = 0 \/ ce.transferred >= ce.count

WritePart == Writing /\ WriteMeaning

DataInv == Typed /\ ReadPart /\ WritePart

-----------------------------------------------------------------------------
(* Least and greatest elements.                                            *)

\* A set of natural numbers has a least element.
LEMMA NatLeast ==
    ASSUME NEW S, S \subseteq Nat, S # {}
    PROVE  \E x \in S : \A y \in S : x <= y
<1> DEFINE R == OpToRel(<, Nat)
<1>1. IsWellFoundedOn(R, Nat)
  BY NatLessThanWellFounded, Zenon
<1>2. \A x, y \in Nat : <<y, x>> \in R <=> y < x
  BY DEF OpToRel
<1> HIDE DEF R
<1>3. PICK x \in S : \A y \in S : ~(<<y, x>> \in R)
  BY <1>1, WFMin
<1>4. \A y \in S : ~(y < x) /\ x \in Nat /\ y \in Nat
  BY <1>2, <1>3
<1>5. \A y \in S : x <= y
  BY <1>4
<1>6. QED
  BY <1>5

\* What Min returns.
LEMMA MinFacts ==
    ASSUME NEW S, S \subseteq Nat, S # {}
    PROVE  Min(S) \in S /\ \A y \in S : Min(S) <= y
  BY NatLeast DEF Min

\* What Max returns, for a set with a bound.
LEMMA MaxFacts ==
    ASSUME NEW b \in Nat, NEW S, S \subseteq 0 .. b, S # {}
    PROVE  Max(S) \in S /\ \A y \in S : y <= Max(S)
<1> DEFINE D == {b - x : x \in S}
<1>1. D \subseteq Nat /\ D # {}
  <2>1. PICK x \in S : TRUE
    OBVIOUS
  <2>2. b - x \in D
    BY <2>1
  <2>3. ASSUME NEW d \in D
        PROVE  d \in Nat
    BY <2>3
  <2>4. QED
    BY <2>2, <2>3
<1>2. PICK d \in D : \A e \in D : d <= e
  BY <1>1, NatLeast
<1>3. PICK x \in S : d = b - x
  OBVIOUS
<1>4. \A y \in S : x >= y
  BY <1>2, <1>3
<1>5. \E m \in S : \A y \in S : m >= y
  BY <1>4
<1>6. Max(S) \in S /\ \A y \in S : Max(S) >= y
  BY <1>5 DEF Max
<1>7. QED
  BY <1>6

\* The smaller of two numbers.
LEMMA MinPair ==
    ASSUME NEW a \in Nat, NEW b \in Nat
    PROVE  Min({a, b}) = IF a <= b THEN a ELSE b
<1>1. Min({a, b}) \in {a, b} /\ \A y \in {a, b} : Min({a, b}) <= y
  BY MinFacts
<1>2. QED
  BY <1>1

-----------------------------------------------------------------------------
(* Patterns and where they are found.                                      *)

\* The spelling p is in s at i.
At(s, p, i) ==
    /\ i + Len(p) <= Len(s) + 1
    /\ \A k \in 1 .. Len(p) : s[(i + k) - 1] = p[k]

\* What IsPrefix says of a part of a sequence.
LEMMA PrefixAt ==
    ASSUME NEW S, NEW s \in Seq(S), NEW p \in Seq(S), NEW i \in 1 .. Len(s) + 1
    PROVE  IsPrefix(p, SubSeq(s, i, Len(s))) <=> At(s, p, i)
<1> DEFINE t == SubSeq(s, i, Len(s))
<1>1. /\ t \in Seq(S) /\ Len(t) = (Len(s) + 1) - i
      /\ \A k \in 1 .. (Len(s) + 1) - i : t[k] = s[(i + k) - 1]
  OBVIOUS
<1> HIDE DEF t
<1>2. ASSUME Len(p) <= Len(t)
      PROVE  SubSeq(p, 1, Len(p)) = SubSeq(t, 1, Len(p)) <=> \A k \in 1 .. Len(p) : t[k] = p[k]
  <2> DEFINE a == SubSeq(p, 1, Len(p))
             b == SubSeq(t, 1, Len(p))
  <2>1. a \in Seq(S) /\ Len(a) = Len(p) /\ \A k \in 1 .. Len(p) : a[k] = p[k]
    OBVIOUS
  <2>2. b \in Seq(S) /\ Len(b) = Len(p) /\ \A k \in 1 .. Len(p) : b[k] = t[k]
    BY <1>1, <1>2
  <2> HIDE DEF a, b
  <2>3. (\A k \in 1 .. Len(p) : t[k] = p[k]) => a = b
    BY <2>1, <2>2
  <2>4. a = b => \A k \in 1 .. Len(p) : t[k] = p[k]
    BY <2>1, <2>2
  <2>5. QED
    BY <2>3, <2>4 DEF a, b
<1>3. Len(p) <= Len(t) <=> i + Len(p) <= Len(s) + 1
  BY <1>1
<1>4. ASSUME Len(p) <= Len(t)
      PROVE  \A k \in 1 .. Len(p) : t[k] = s[(i + k) - 1]
  BY <1>1, <1>4
<1>5. QED
  BY <1>2, <1>3, <1>4 DEF At, IsPrefix, t

\* The spellings of the patterns.
LEMMA Spellings ==
    ASSUME NEW P \in Pattern, NEW p \in P
    PROVE  /\ p \in Seq(Symbol) /\ Len(p) \in 1 .. 4
           /\ \/ /\ P \in {Line, CRLF}
                 /\ \/ Len(p) = 1 /\ p[1] = "lf" /\ P = Line
                    \/ Len(p) = 2 /\ p[1] = "cr" /\ p[2] = "lf"
              \/ /\ P = Blank
                 /\ \/ Len(p) = 2 /\ p[1] = "lf" /\ p[2] = "lf"
                    \/ Len(p) = 3 /\ p[1] = "lf" /\ p[2] = "cr" /\ p[3] = "lf"
                    \/ Len(p) = 3 /\ p[1] = "cr" /\ p[2] = "lf" /\ p[3] = "lf"
                    \/ Len(p) = 4 /\ p[1] = "cr" /\ p[2] = "lf" /\ p[3] = "cr" /\ p[4] = "lf"
<1>1. CASE P = Line
  <2>1. p = <<"lf">> \/ p = <<"cr", "lf">>
    BY <1>1 DEF Line
  <2>2. CASE p = <<"lf">>
    BY <1>1, <2>2 DEF Symbol
  <2>3. CASE p = <<"cr", "lf">>
    BY <1>1, <2>3 DEF Symbol
  <2>4. QED
    BY <2>1, <2>2, <2>3
<1>2. CASE P = CRLF
  <2>1. p = <<"cr", "lf">>
    BY <1>2 DEF CRLF
  <2>2. QED
    BY <1>2, <2>1 DEF Symbol
<1>3. CASE P = Blank
  <2>1. \/ p = <<"lf", "lf">> \/ p = <<"lf", "cr", "lf">>
        \/ p = <<"cr", "lf", "lf">> \/ p = <<"cr", "lf", "cr", "lf">>
    BY <1>3 DEF Blank
  <2>2. CASE p = <<"lf", "lf">>
    BY <1>3, <2>2 DEF Symbol
  <2>3. CASE p = <<"lf", "cr", "lf">>
    BY <1>3, <2>3 DEF Symbol
  <2>4. CASE p = <<"cr", "lf", "lf">>
    BY <1>3, <2>4 DEF Symbol
  <2>5. CASE p = <<"cr", "lf", "cr", "lf">>
    BY <1>3, <2>5 DEF Symbol
  <2>6. QED
    BY <2>1, <2>2, <2>3, <2>4, <2>5
<1>4. P # {}
  OBVIOUS
<1>5. QED
  BY <1>1, <1>2, <1>3, <1>4 DEF Pattern

\* A blank line is not a line.
LEMMA BlankDiffers == Line # Blank /\ CRLF # Blank
<1>1. <<"cr", "lf">> \in Line /\ <<"cr", "lf">> \in CRLF
  BY DEF Line, CRLF
<1>2. <<"cr", "lf">> \notin Blank
  BY DEF Blank
<1>3. QED
  BY <1>1, <1>2

\* A spelling as symbols of the sequence it is in, and where it ends.
Line_(s, P, i, e) ==
    \/ e = i + 1 /\ s[i] = "lf" /\ P = Line
    \/ e = i + 2 /\ s[i] = "cr" /\ s[i + 1] = "lf"
Blank_(s, i, e) ==
    \/ e = i + 2 /\ s[i] = "lf" /\ s[i + 1] = "lf"
    \/ e = i + 3 /\ s[i] = "lf" /\ s[i + 1] = "cr" /\ s[i + 2] = "lf"
    \/ e = i + 3 /\ s[i] = "cr" /\ s[i + 1] = "lf" /\ s[i + 2] = "lf"
    \/ e = i + 4 /\ s[i] = "cr" /\ s[i + 1] = "lf" /\ s[i + 2] = "cr" /\ s[i + 3] = "lf"

\* What a match looks like.
LEMMA Shapes ==
    ASSUME NEW s, NEW P \in Pattern, NEW p \in P, NEW i \in Nat, At(s, p, i)
    PROVE  \/ P \in {Line, CRLF} /\ Line_(s, P, i, i + Len(p))
           \/ P = Blank /\ Blank_(s, i, i + Len(p))
<1>1. Len(p) \in 1 .. 4
  BY Spellings
<1>2. /\ s[i] = p[1]
      /\ Len(p) >= 2 => s[i + 1] = p[2]
      /\ Len(p) >= 3 => s[i + 2] = p[3]
      /\ Len(p) >= 4 => s[i + 3] = p[4]
  <2>1. \A k \in 1 .. Len(p) : s[(i + k) - 1] = p[k]
    BY DEF At
  <2>2. (i + 1) - 1 = i /\ (i + 2) - 1 = i + 1 /\ (i + 3) - 1 = i + 2 /\ (i + 4) - 1 = i + 3
    OBVIOUS
  <2>3. 1 \in 1 .. Len(p)
    BY <1>1
  <2>4. Len(p) >= 2 => 2 \in 1 .. Len(p)
    BY <1>1
  <2>5. Len(p) >= 3 => 3 \in 1 .. Len(p)
    BY <1>1
  <2>6. Len(p) >= 4 => 4 \in 1 .. Len(p)
    BY <1>1
  <2>7. QED
    BY <2>1, <2>2, <2>3, <2>4, <2>5, <2>6
<1>3. CASE P \in {Line, CRLF}
  BY <1>2, <1>3, Spellings, BlankDiffers DEF Line_
<1>4. CASE P = Blank
  <2>1. \/ Len(p) = 2 /\ p[1] = "lf" /\ p[2] = "lf"
        \/ Len(p) = 3 /\ p[1] = "lf" /\ p[2] = "cr" /\ p[3] = "lf"
        \/ Len(p) = 3 /\ p[1] = "cr" /\ p[2] = "lf" /\ p[3] = "lf"
        \/ Len(p) = 4 /\ p[1] = "cr" /\ p[2] = "lf" /\ p[3] = "cr" /\ p[4] = "lf"
    BY <1>4, Spellings, BlankDiffers
  <2>2. CASE Len(p) = 2
    BY <1>2, <1>4, <2>1, <2>2 DEF Blank_
  <2>3. CASE Len(p) = 3
    BY <1>2, <1>4, <2>1, <2>3 DEF Blank_
  <2>4. CASE Len(p) = 4
    BY <1>2, <1>4, <2>1, <2>4 DEF Blank_
  <2>5. QED
    BY <2>1, <2>2, <2>3, <2>4
<1>5. QED
  BY <1>3, <1>4, Spellings

\* Two spellings of a pattern in the same place are equally long.
LEMMA OneSpelling ==
    ASSUME NEW s, NEW P \in Pattern, NEW p \in P, NEW q \in P, NEW i \in Nat, At(s, p, i), At(s, q, i)
    PROVE  Len(p) = Len(q)
<1>1. Len(p) \in Nat /\ Len(q) \in Nat
  BY Spellings
<1>2. Line # Blank /\ CRLF # Blank
  BY BlankDiffers
<1>3. CASE P \in {Line, CRLF}
  <2>1. Line_(s, P, i, i + Len(p)) /\ Line_(s, P, i, i + Len(q))
    BY <1>2, <1>3, Shapes
  <2>2. QED
    BY <1>1, <2>1 DEF Line_
<1>4. CASE P = Blank
  <2>1. Blank_(s, i, i + Len(p)) /\ Blank_(s, i, i + Len(q))
    BY <1>2, <1>4, Shapes
  <2>2. QED
    BY <1>1, <2>1 DEF Blank_
<1>5. QED
  BY <1>3, <1>4, Spellings

\* A blank line inside another ends where that one ends, or later.
LEMMA BlankInside ==
    ASSUME NEW s, NEW i \in Nat, NEW j \in Nat, i < j, NEW e \in Nat, NEW f \in Nat,
           Blank_(s, i, e), Blank_(s, j, f)
    PROVE  e <= f
<1>1. e \in i + 2 .. i + 4 /\ f \in j + 2 .. j + 4
  BY DEF Blank_
<1>2. CASE j = i + 1
  <2>1. /\ e = i + 4 => s[i + 1] = "lf" /\ s[i + 2] = "cr"
        /\ f = j + 2 => s[j] = "lf" /\ s[j + 1] = "lf"
    BY DEF Blank_
  <2>2. j + 1 = i + 2
    BY <1>2
  <2>3. ~(e = i + 4 /\ f = j + 2)
    BY <1>2, <2>1, <2>2
  <2>4. QED
    BY <1>1, <1>2, <2>3
<1>3. CASE j >= i + 2
  BY <1>1, <1>3
<1>4. QED
  BY <1>2, <1>3

\* No match ends inside one that began before it.
LEMMA NoneInside ==
    ASSUME NEW s, NEW P \in Pattern, NEW p \in P, NEW q \in P,
           NEW i \in Nat, NEW j \in Nat, i < j, At(s, p, i), At(s, q, j)
    PROVE  i + Len(p) <= j + Len(q)
<1>1. Len(p) \in Nat /\ Len(q) \in Nat
  BY Spellings
<1>2. Line # Blank /\ CRLF # Blank
  BY BlankDiffers
<1>3. CASE P \in {Line, CRLF}
  <2>1. Line_(s, P, i, i + Len(p)) /\ Line_(s, P, j, j + Len(q))
    BY <1>2, <1>3, Shapes
  <2>2. QED
    BY <1>1, <2>1 DEF Line_
<1>4. CASE P = Blank
  <2>1. Blank_(s, i, i + Len(p)) /\ Blank_(s, j, j + Len(q))
    BY <1>2, <1>4, Shapes
  <2>2. QED
    BY <1>1, <2>1, BlankInside
<1>5. QED
  BY <1>3, <1>4, Spellings

\* Where the first match is.
LEMMA PlaceFacts ==
    ASSUME NEW P \in Pattern, NEW s \in Seq(Symbol)
    PROVE  /\ Place(s, P) \in 1 .. Len(s) + 1
           /\ \A i \in Nat, p \in P : 1 <= i /\ At(s, p, i) => Place(s, P) <= i
           /\ Place(s, P) <= Len(s) => \E p \in P : At(s, p, Place(s, P))
<1> DEFINE S == {i \in 1 .. Len(s) : SpellingAt(s, P, i) # {}}
<1>1. Len(s) \in Nat /\ S \subseteq Nat
  OBVIOUS
<1>2. \A i \in 1 .. Len(s) + 1, p \in P : p \in SpellingAt(s, P, i) <=> At(s, p, i)
  BY PrefixAt, Spellings DEF SpellingAt
<1>3. Place(s, P) = Min(S \cup {Len(s) + 1})
  BY DEF Place
<1>x. \A i \in 1 .. Len(s) : i \in S <=> SpellingAt(s, P, i) # {}
  OBVIOUS
<1>y. S \subseteq 1 .. Len(s)
  OBVIOUS
<1> HIDE DEF S
<1>z. S \cup {Len(s) + 1} \subseteq 1 .. Len(s) + 1
  <2>1. \A l \in Nat : S \subseteq 1 .. l => S \cup {l + 1} \subseteq 1 .. l + 1
    OBVIOUS
  <2>2. QED
    BY <1>1, <1>y, <2>1
<1>w. S \cup {Len(s) + 1} \subseteq Nat /\ S \cup {Len(s) + 1} # {}
  BY <1>z
<1>4. Place(s, P) \in S \cup {Len(s) + 1} /\ \A y \in S \cup {Len(s) + 1} : Place(s, P) <= y
  BY <1>3, <1>w, MinFacts
<1>5. ASSUME NEW i \in Nat, NEW p \in P, 1 <= i, At(s, p, i)
      PROVE  Place(s, P) <= i
  <2>1. i <= Len(s)
    <3>1. Len(p) \in 1 .. 4
      BY Spellings
    <3>2. i + Len(p) <= Len(s) + 1
      BY <1>5 DEF At
    <3>3. Len(s) \in Nat
      BY <1>1
    <3>4. \A l, n \in Nat, k \in 1 .. 4 : n + k <= l + 1 => n <= l
      OBVIOUS
    <3>5. QED
      BY <1>5, <3>1, <3>2, <3>3, <3>4
  <2>2. p \in SpellingAt(s, P, i)
    BY <1>1, <1>2, <1>5, <2>1
  <2>3. i \in S
    BY <1>1, <1>5, <1>x, <2>1, <2>2
  <2>4. QED
    BY <1>4, <2>3
<1>6. ASSUME Place(s, P) <= Len(s)
      PROVE  \E p \in P : At(s, p, Place(s, P))
  <2>1. Place(s, P) \in S /\ Place(s, P) \in 1 .. Len(s)
    <3>1. Place(s, P) # Len(s) + 1
      BY <1>1, <1>6
    <3>2. QED
      BY <1>4, <1>y, <3>1
  <2>2. PICK p : p \in SpellingAt(s, P, Place(s, P))
    BY <1>x, <2>1
  <2>3. p \in P
    BY <2>2 DEF SpellingAt
  <2>4. QED
    BY <1>1, <1>2, <2>1, <2>2, <2>3
<1>7. Place(s, P) \in 1 .. Len(s) + 1
  BY <1>4, <1>z
<1>8. QED
  BY <1>5, <1>6, <1>7

\* How long the match is.
LEMMA LengthFacts ==
    ASSUME NEW P \in Pattern, NEW s \in Seq(Symbol)
    PROVE  /\ LengthThere(s, P) \in Nat
           /\ Place(s, P) + LengthThere(s, P) <= Len(s) + 1
           /\ \A p \in P : At(s, p, Place(s, P)) => LengthThere(s, P) = Len(p)
           /\ Place(s, P) > Len(s) => LengthThere(s, P) = 0
<1> DEFINE i == Place(s, P)
           L == {Len(p) : p \in SpellingAt(s, P, i)}
<1>1. i \in 1 .. Len(s) + 1 /\ Len(s) \in Nat
  BY PlaceFacts
<1> HIDE DEF i
<1>2. \A p : p \in SpellingAt(s, P, i) <=> p \in P /\ At(s, p, i)
  BY <1>1, PrefixAt, Spellings DEF SpellingAt
<1>3. L \subseteq 0 .. 4
  <2> SUFFICES ASSUME NEW p \in SpellingAt(s, P, i)
               PROVE  Len(p) \in 0 .. 4
    OBVIOUS
  <2>1. p \in P
    BY <1>2
  <2>2. Len(p) \in 1 .. 4
    BY <2>1, Spellings
  <2>3. QED
    BY <2>2
<1>4. LengthThere(s, P) = Max({0} \cup L)
  BY DEF LengthThere, i
<1>5. LengthThere(s, P) \in {0} \cup L /\ \A y \in {0} \cup L : y <= LengthThere(s, P)
  <2> HIDE DEF L
  <2>1. {0} \cup L \subseteq 0 .. 4 /\ {0} \cup L # {}
    BY <1>3
  <2>2. QED
    BY <1>4, <2>1, MaxFacts
<1>6. ASSUME NEW p \in P, At(s, p, i)
      PROVE  LengthThere(s, P) = Len(p)
  <2>1. Len(p) \in L /\ Len(p) \in 1 .. 4
    BY <1>2, <1>6, Spellings
  <2>2. \A l \in L : l = Len(p)
    BY <1>1, <1>2, <1>6, OneSpelling
  <2>3. QED
    BY <1>5, <2>1, <2>2
<1>7. ASSUME NEW p \in P, At(s, p, i)
      PROVE  i + Len(p) <= Len(s) + 1 /\ Len(p) \in 1 .. 4 /\ i <= Len(s)
  BY <1>1, <1>7, Spellings DEF At
<1>8. CASE \E p \in P : At(s, p, i)
  BY <1>1, <1>6, <1>7, <1>8 DEF i
<1>9. CASE ~\E p \in P : At(s, p, i)
  <2>1. L = {}
    BY <1>2, <1>9
  <2>2. LengthThere(s, P) = 0
    BY <1>5, <2>1
  <2>3. QED
    BY <1>1, <1>9, <2>2 DEF i
<1>10. QED
  BY <1>8, <1>9

\* A match in a part of a stream is a match in the stream.
LEMMA PartMatches ==
    ASSUME NEW P \in Pattern, NEW p \in P, NEW s \in Seq(Symbol), NEW r \in Seq(Symbol), NEW off \in Nat,
           off + Len(s) <= Len(r), \A k \in 1 .. Len(s) : s[k] = r[off + k],
           NEW i \in Nat, 1 <= i
    PROVE  /\ At(s, p, i) => At(r, p, off + i)
           /\ At(r, p, off + i) /\ i + Len(p) <= Len(s) + 1 => At(s, p, i)
<1>1. Len(p) \in 1 .. 4 /\ Len(s) \in Nat /\ Len(r) \in Nat
  BY Spellings
<1>2. ASSUME i + Len(p) <= Len(s) + 1, NEW k \in 1 .. Len(p)
      PROVE  s[(i + k) - 1] = r[((off + i) + k) - 1]
  <2>1. (i + k) - 1 \in 1 .. Len(s) /\ off + ((i + k) - 1) = ((off + i) + k) - 1
    BY <1>1, <1>2
  <2>2. QED
    BY <2>1
<1>3. ASSUME At(s, p, i)
      PROVE  At(r, p, off + i)
  <2>1. i + Len(p) <= Len(s) + 1 /\ \A k \in 1 .. Len(p) : s[(i + k) - 1] = p[k]
    BY <1>3 DEF At
  <2>2. \A k \in 1 .. Len(p) : r[((off + i) + k) - 1] = p[k]
    BY <1>2, <2>1
  <2>3. (off + i) + Len(p) <= Len(r) + 1
    BY <1>1, <2>1
  <2>4. QED
    BY <2>2, <2>3 DEF At
<1>4. ASSUME At(r, p, off + i), i + Len(p) <= Len(s) + 1
      PROVE  At(s, p, i)
  <2>1. \A k \in 1 .. Len(p) : r[((off + i) + k) - 1] = p[k]
    BY <1>4 DEF At
  <2>2. \A k \in 1 .. Len(p) : s[(i + k) - 1] = p[k]
    BY <1>2, <1>4, <2>1
  <2>3. QED
    BY <1>4, <2>2 DEF At
<1>5. QED
  BY <1>3, <1>4

\* IOBSearch finds in the buffer s what is in the stream r, of which the buffer
\* is the part after off, if no match begins before: a match in the buffer is
\* the first one of the stream, although a longer one may have begun before its
\* end came in; without one, none begins in the part it counts.
LEMMA IOBSearchFacts ==
    ASSUME NEW P \in Pattern, NEW s \in Seq(Symbol), NEW r \in Seq(Symbol), NEW off \in Nat,
           off + Len(s) <= Len(r), \A k \in 1 .. Len(s) : s[k] = r[off + k],
           Place(r, P) > off, NEW m, m = IOBSearch(s, P)
    PROVE  /\ m.match \in BOOLEAN /\ m.count \in Nat /\ m.len \in Nat /\ m.count + m.len <= Len(s)
           /\ m.match => /\ Place(r, P) = (off + m.count) + 1 /\ Place(r, P) <= Len(r)
                         /\ LengthThere(r, P) = m.len
           /\ ~m.match => Place(r, P) > off + m.count
<1> DEFINE place == Place(s, P)
           begun(k) == \E p \in P : Len(p) > k /\ IsPrefix(SubSeq(s, Len(s) - k + 1, Len(s)), p)
           B == {0} \cup {k \in 1 .. Len(s) : begun(k)}
           maybe == Max(B)
<1>1. /\ place <= Len(s) => m.match /\ m.count = place - 1
      /\ ~(place <= Len(s)) => ~m.match /\ m.count = Len(s) - maybe
      /\ m.len = LengthThere(s, P) /\ m.match \in BOOLEAN
  <2>1. m = [match |-> place <= Len(s),
             count |-> IF place <= Len(s) THEN place - 1 ELSE Len(s) - maybe,
             len |-> LengthThere(s, P)]
    BY DEF IOBSearch
  <2> HIDE DEF place, maybe
  <2>2. /\ m.match = (place <= Len(s)) /\ m.len = LengthThere(s, P)
        /\ m.count = IF place <= Len(s) THEN place - 1 ELSE Len(s) - maybe
    BY ONLY <2>1, Zenon
  <2>3. ASSUME place <= Len(s)
        PROVE  m.match /\ m.count = place - 1
    BY <2>2, <2>3, Zenon
  <2>4. ASSUME ~(place <= Len(s))
        PROVE  ~m.match /\ m.count = Len(s) - maybe
    <3>1. ~m.match
      BY <2>2, <2>4
    <3>2. m.count = Len(s) - maybe
      BY <2>2, <2>4, Zenon
    <3>3. QED
      BY <3>1, <3>2
  <2>5. m.match \in BOOLEAN
    BY <2>2
  <2>6. QED
    BY <2>2, <2>3, <2>4, <2>5
<1>2. Len(s) \in Nat /\ Len(r) \in Nat /\ place \in 1 .. Len(s) + 1 /\ Place(r, P) \in 1 .. Len(r) + 1
  BY PlaceFacts
<1>3. B \subseteq 0 .. Len(s) /\ maybe \in B /\ \A k \in B : k <= maybe
  <2>1. B \subseteq 0 .. Len(s) /\ B # {}
    BY <1>2
  <2> HIDE DEF B
  <2>2. QED
    BY <1>2, <2>1, MaxFacts
<1>4. maybe \in 0 .. Len(s)
  BY <1>3
<1> HIDE DEF place, B, maybe
<1>5. ASSUME NEW q \in P, At(r, q, Place(r, P)), Place(r, P) < off + place
      PROVE  Place(r, P) + Len(q) > (off + Len(s)) + 1
  <2> DEFINE i == Place(r, P) - off
  <2>1. i \in Nat /\ 1 <= i /\ off + i = Place(r, P) /\ i < place /\ Len(q) \in Nat
    BY <1>2, <1>5, Spellings
  <2>x. At(r, q, off + i)
    BY <1>5, <2>1
  <2> HIDE DEF i
  <2>2. ~At(s, q, i)
    BY <2>1, <1>2, PlaceFacts DEF place
  <2>3. ~(i + Len(q) <= Len(s) + 1)
    BY <2>1, <2>2, <2>x, PartMatches
  <2>4. QED
    BY <1>2, <2>1, <2>3
<1>6. CASE place <= Len(s)
  <2>1. PICK p \in P : At(s, p, place)
    BY <1>6, PlaceFacts DEF place
  <2>2. At(r, p, off + place) /\ place \in Nat /\ off + place \in Nat /\ 1 <= off + place
    BY <1>2, <2>1, PartMatches
  <2>3. Place(r, P) <= off + place
    BY <2>2, PlaceFacts
  <2>4. Len(p) \in Nat /\ place + Len(p) <= Len(s) + 1
    BY <2>1, Spellings DEF At
  <2>5. Place(r, P) <= Len(r)
    BY <1>2, <1>6, <2>3
  <2>6. PICK q \in P : At(r, q, Place(r, P))
    BY <2>5, PlaceFacts
  <2>7. ASSUME Place(r, P) < off + place
        PROVE  FALSE
    <3>1. Place(r, P) + Len(q) > (off + Len(s)) + 1
      BY <1>5, <2>6, <2>7
    <3>2. Place(r, P) + Len(q) <= (off + place) + Len(p)
      <4>1. Place(r, P) \in Nat
        BY <1>2
      <4>2. QED
        BY <2>2, <2>6, <2>7, <4>1, NoneInside
    <3>3. Len(q) \in Nat
      BY Spellings
    <3>4. QED
      BY <1>2, <2>4, <3>1, <3>2, <3>3
  <2>8. Place(r, P) = off + place
    <3>1. ~(Place(r, P) < off + place)
      BY <2>7
    <3>2. QED
      <4>1. Place(r, P) \in Nat /\ off + place \in Nat
        BY <1>2, <2>2
      <4>2. QED
        BY <2>3, <3>1, <4>1
  <2>9. LengthThere(r, P) = Len(p) /\ LengthThere(s, P) = Len(p)
    BY <2>1, <2>2, <2>8, LengthFacts DEF place
  <2>10. m.match /\ m.count = place - 1 /\ m.len = Len(p)
    BY <1>1, <1>6, <2>9
  <2>11. m.count \in Nat /\ m.count + m.len <= Len(s) /\ Place(r, P) = (off + m.count) + 1
    BY <1>2, <2>4, <2>8, <2>10
  <2>12. QED
    BY <1>1, <2>4, <2>5, <2>9, <2>10, <2>11
<1>7. CASE place = Len(s) + 1
  <2>1. LengthThere(s, P) = 0
    BY <1>2, <1>7, LengthFacts DEF place
  <2>x. ~(place <= Len(s))
    BY <1>2, <1>7
  <2>2. ~m.match /\ m.count = Len(s) - maybe /\ m.len = 0
    BY <1>1, <2>x, <2>1
  <2>3. ASSUME Place(r, P) <= off + m.count
        PROVE  FALSE
    <3>1. Place(r, P) < off + place /\ Place(r, P) <= Len(r)
      BY <1>2, <1>4, <1>7, <2>2, <2>3
    <3>2. PICK q \in P : At(r, q, Place(r, P))
      BY <3>1, PlaceFacts
    <3>3. Place(r, P) + Len(q) > (off + Len(s)) + 1 /\ Len(q) \in Nat
      BY <1>5, <3>1, <3>2, Spellings
    <3> DEFINE i == Place(r, P) - off
               k == (Len(s) - i) + 1
    <3>x. Place(r, P) > off /\ Place(r, P) <= off + (Len(s) - maybe)
      BY <2>2, <2>3
    <3>4. i \in 1 .. Len(s) /\ k \in 1 .. Len(s) /\ Len(q) > k /\ (Len(s) - k) + 1 = i /\ off + i = Place(r, P)
      <4>1. Place(r, P) \in Nat /\ maybe \in Nat
        BY <1>2, <1>4
      <4>2. i \in 1 .. Len(s) /\ off + i = Place(r, P)
        BY <1>2, <3>x, <4>1
      <4>3. k \in 1 .. Len(s) /\ (Len(s) - k) + 1 = i
        BY <1>2, <4>2
      <4>4. Len(q) > k
        BY <1>2, <3>3, <4>1, <4>2
      <4>5. QED
        BY <4>2, <4>3, <4>4
    <3>y. i + maybe <= Len(s)
      BY <1>2, <1>4, <3>x
    <3> HIDE DEF i, k
    <3>5. IsPrefix(SubSeq(s, i, Len(s)), q)
      <4> DEFINE t == SubSeq(s, i, Len(s))
      <4>1. t \in Seq(Symbol) /\ Len(t) = k /\ \A l \in 1 .. k : t[l] = s[(i + l) - 1]
        <5>1. t \in Seq(Symbol) /\ Len(t) = (Len(s) - i) + 1
          BY <1>2, <3>4
        <5>2. \A l \in 1 .. (Len(s) - i) + 1 : t[l] = s[(i + l) - 1]
          BY <1>2, <3>4
        <5>3. QED
          BY <5>1, <5>2 DEF k
      <4>2. \A l \in 1 .. k : s[(i + l) - 1] = q[l]
        <5> SUFFICES ASSUME NEW l \in 1 .. k
                     PROVE  s[(i + l) - 1] = q[l]
          OBVIOUS
        <5>1. (i + l) - 1 \in 1 .. Len(s) /\ off + ((i + l) - 1) = (Place(r, P) + l) - 1 /\ l \in 1 .. Len(q)
          <6>1. (i + l) - 1 \in 1 .. Len(s) /\ off + ((i + l) - 1) = ((off + i) + l) - 1
            BY <1>2, <3>4 DEF k
          <6>2. l \in 1 .. Len(q)
            BY <3>3, <3>4
          <6>3. QED
            BY <3>4, <6>1, <6>2
        <5>2. s[(i + l) - 1] = r[(Place(r, P) + l) - 1]
          BY <5>1
        <5>3. r[(Place(r, P) + l) - 1] = q[l]
          BY <3>2, <5>1 DEF At
        <5>4. QED
          BY <5>2, <5>3
      <4> HIDE DEF t
      <4>3. q \in Seq(Symbol)
        BY Spellings
      <4>4. \A l \in 1 .. k : t[l] = q[l]
        BY <4>1, <4>2
      <4>5. SubSeq(t, 1, Len(t)) = SubSeq(q, 1, Len(t))
        <5> DEFINE a == SubSeq(t, 1, k)
                   b == SubSeq(q, 1, k)
        <5>1. a \in Seq(Symbol) /\ Len(a) = k /\ \A l \in 1 .. k : a[l] = t[l]
          BY <4>1, <3>4
        <5>2. b \in Seq(Symbol) /\ Len(b) = k /\ \A l \in 1 .. k : b[l] = q[l]
          BY <4>3, <3>3, <3>4
        <5> HIDE DEF a, b
        <5>3. a = b
          BY <4>4, <5>1, <5>2
        <5>4. QED
          BY <4>1, <5>3 DEF a, b
      <4>6. QED
        <5>1. Len(t) <= Len(q)
          BY <3>3, <3>4, <4>1
        <5>2. QED
          BY <4>5, <5>1 DEF IsPrefix, t
    <3>6. begun(k)
      <4>1. Len(s) - k + 1 = i
        BY <3>4
      <4>2. QED
        BY <3>4, <3>5, <4>1
    <3>7. k <= maybe
      <4>1. k \in B
        BY <3>4, <3>6 DEF B
      <4>2. QED
        BY <1>3, <4>1
    <3>8. QED
      BY <1>2, <1>4, <3>4, <3>7, <3>y DEF k
  <2>4. m.count \in Nat /\ m.count + m.len <= Len(s)
    BY <1>2, <1>4, <2>2
  <2>5. Place(r, P) > off + m.count
    BY <1>2, <2>3, <2>4
  <2>6. ~m.match /\ m.len \in Nat
    BY <2>2
  <2>7. QED
    BY <1>1, <2>4, <2>5, <2>6
<1>8. QED
  BY <1>2, <1>6, <1>7

-----------------------------------------------------------------------------
(* Bytes in order.                                                         *)

\* A run of bytes.
LEMMA BytesFacts ==
    ASSUME NEW a \in Nat, NEW n \in Nat
    PROVE  /\ Bytes(a, n) \in Seq(Nat) /\ Len(Bytes(a, n)) = n
           /\ \A i \in 1 .. n : Bytes(a, n)[i] = a + i
           /\ n = 0 => Bytes(a, n) = <<>>
  BY DEF Bytes

\* One run follows another.
LEMMA BytesJoin ==
    ASSUME NEW a \in Nat, NEW n \in Nat, NEW k \in Nat
    PROVE  Bytes(a, n) \o Bytes(a + n, k) = Bytes(a, n + k)
<1> DEFINE x == Bytes(a, n)
           y == Bytes(a + n, k)
           z == Bytes(a, n + k)
           w == x \o y
<1>1. x \in Seq(Nat) /\ Len(x) = n /\ \A i \in 1 .. n : x[i] = a + i
  BY BytesFacts
<1>2. y \in Seq(Nat) /\ Len(y) = k /\ \A i \in 1 .. k : y[i] = (a + n) + i
  <2>1. a + n \in Nat
    OBVIOUS
  <2>2. QED
    BY <2>1, BytesFacts
<1>3. z \in Seq(Nat) /\ Len(z) = n + k /\ \A i \in 1 .. n + k : z[i] = a + i
  BY BytesFacts
<1> HIDE DEF x, y, z
<1>4. w \in Seq(Nat) /\ Len(w) = n + k
  <2>1. x \in Seq(Nat) /\ y \in Seq(Nat)
    BY <1>1, <1>2
  <2>2. w \in Seq(Nat) /\ Len(w) = Len(x) + Len(y)
    BY <2>1
  <2>3. QED
    BY <1>1, <1>2, <2>2
<1>5. ASSUME NEW i \in 1 .. n + k
      PROVE  w[i] = z[i]
  <2>1. CASE i <= n
    BY <1>1, <1>2, <1>3, <2>1
  <2>2. CASE i > n
    <3>1. w[i] = y[i - n] /\ i - n \in 1 .. k
      BY <1>1, <1>2, <2>2
    <3>2. QED
      BY <1>2, <1>3, <3>1
  <2>3. i <= n \/ i > n
    OBVIOUS
  <2>4. QED
    BY <2>1, <2>2, <2>3
<1> HIDE DEF w
<1>6. w = z
  BY <1>3, <1>4, <1>5
<1>7. QED
  BY <1>6 DEF w, x, y, z

-----------------------------------------------------------------------------
(* Conn events.                                                            *)

\* What a function of the API asks for.
Asked(c) ==
    /\ c.type \in Type \ {"NONE"} /\ c.mode \in {"SYNC", "ASYNC", "NON_BLOCKING"}
    /\ c.flags \in SUBSET Flag /\ c.pattern \in Pattern /\ c.size \in Nat

\* The fields of a call.
LEMMA CallFields ==
    ASSUME NEW t, NEW m, NEW f, NEW P, NEW Z, NEW c \in Call(t, m, f, P, Z)
    PROVE  c.type = t /\ c.mode = m /\ c.flags = f /\ c.pattern \in P /\ c.size \in Z
  BY DEF Call

\* Sizes and patterns.
LEMMA SizeFacts == /\ Sizes \subseteq Nat /\ 0 \notin Sizes
                   /\ {{}, Line, CRLF, Blank} = Pattern
                   /\ Line # {} /\ CRLF # {} /\ Blank # {}
<1>1. Sizes \subseteq Nat /\ 0 \notin Sizes
  BY DataAssumption
<1>2. QED
  BY <1>1 DEF Pattern, Line, CRLF, Blank

\* A search for a pattern.
LEMMA SearchAsked ==
    ASSUME NEW m \in {"SYNC", "ASYNC", "NON_BLOCKING"}, NEW f \in SUBSET Flag, "COPY" \in f,
           NEW P \in Pattern, P # {}, NEW c \in Call("READ_UNTIL_PATTERN", m, f, {P}, Sizes)
    PROVE  Asked(c) /\ WellFormed(c) /\ c.type = "READ_UNTIL_PATTERN"
<1>1. c.type = "READ_UNTIL_PATTERN" /\ c.mode = m /\ c.flags = f /\ c.pattern = P /\ c.size \in Sizes
  BY CallFields
<1>2. QED
  BY <1>1, SizeFacts DEF Asked, WellFormed, Type, Conditional

\* A read of what there is or of a count.
LEMMA ReadAsked ==
    ASSUME NEW t \in {"READ", "READ_COUNT"}, NEW m \in {"SYNC", "ASYNC", "NON_BLOCKING"},
           NEW f \in SUBSET CD, f # {"DELETE"}, NEW Z, Z \subseteq Nat, "COPY" \in f => Z = Sizes,
           t = "READ" /\ f = {} => Z = {0},
           NEW c \in Call(t, m, f, {{}}, Z)
    PROVE  Asked(c) /\ WellFormed(c) /\ c.type = t
<1>1. c.type = t /\ c.mode = m /\ c.flags = f /\ c.pattern = {} /\ c.size \in Z
  BY CallFields
<1>2. f \in SUBSET Flag
  BY DEF CD, Flag
<1>3. c.size \in Nat /\ ("COPY" \in f => c.size # 0)
  <2>1. c.size \in Nat
    BY <1>1
  <2>2. "COPY" \in f => c.size \in Sizes
    BY <1>1
  <2>3. QED
    BY <2>1, <2>2, SizeFacts
<1>4. Asked(c)
  BY <1>1, <1>2, <1>3, SizeFacts DEF Asked, Type, Conditional
<1>5. WellFormed(c)
  <2>1. t = "READ" /\ f = {} => c.size = 0
    BY <1>1
  <2>2. QED
    BY <1>1, <1>3, <2>1 DEF WellFormed
<1>6. QED
  BY <1>1, <1>4, <1>5

\* An eat.
LEMMA EatAsked ==
    ASSUME NEW m \in {"SYNC", "ASYNC"}, NEW Z, Z \subseteq Nat,
           NEW c \in Call("READ_COUNT", m, {"DELETE"}, {{}}, Z)
    PROVE  Asked(c) /\ WellFormed(c) /\ c.type = "READ_COUNT"
<1>1. c.type = "READ_COUNT" /\ c.mode = m /\ c.flags = {"DELETE"} /\ c.pattern = {} /\ c.size \in Z
  BY CallFields
<1>2. QED
  BY <1>1, SizeFacts DEF Asked, WellFormed, Type, Conditional, Flag, CD

\* A test for a pattern.
LEMMA TestAsked ==
    ASSUME NEW c \in Call("READ_UNTIL_PATTERN", "ASYNC", {}, {Line, CRLF, Blank}, {0})
    PROVE  Asked(c) /\ WellFormed(c) /\ c.type = "READ_UNTIL_PATTERN"
<1>1. c.type = "READ_UNTIL_PATTERN" /\ c.mode = "ASYNC" /\ c.flags = {} /\ c.pattern \in {Line, CRLF, Blank} /\ c.size = 0
  BY CallFields
<1>2. QED
  BY <1>1, SizeFacts DEF Asked, WellFormed, Type, Conditional

\* A call without data of its own.
LEMMA OtherAsked ==
    ASSUME NEW t \in Type \ ({"NONE"} \cup Conditional), NEW m \in {"SYNC", "ASYNC"},
           NEW Z, Z \subseteq Nat, t \in {"READ_TO_CONN", "WRITE_FROM_CLIENT_BUFFER"} => 0 \notin Z,
           NEW c \in Call(t, m, {}, {{}}, Z)
    PROVE  Asked(c) /\ WellFormed(c) /\ c.type = t
<1>1. c.type = t /\ c.mode = m /\ c.flags = {} /\ c.pattern = {} /\ c.size \in Z
  BY CallFields
<1>2. QED
  BY <1>1, SizeFacts DEF Asked, WellFormed, Conditional

\* Reads, peeks, tests and eats.
LEMMA ReadsAsked ==
    ASSUME NEW c \in SyncReads \cup SyncEats \cup SyncPeeks \cup AsyncReads \cup AsyncEats \cup AsyncPeeks \cup AsyncTests
    PROVE  Asked(c) /\ WellFormed(c) /\ c.type \in Conditional
<1>1. /\ CD \cup {} = CD /\ CD \subseteq Flag /\ "COPY" \in CD /\ CD # {"DELETE"} /\ {"COPY"} # {"DELETE"}
      /\ {"COPY"} \subseteq Flag /\ {"COPY"} \in SUBSET CD /\ CD \in SUBSET CD /\ {} \in SUBSET CD
      /\ {} # {"DELETE"} /\ "COPY" \notin {} /\ {"COPY"} \cup {} = {"COPY"}
      /\ {"INCLUDE", "TERMINATE"} \subseteq Flag /\ {"TERMINATE"} \subseteq Flag /\ {} \subseteq Flag
      /\ {"PARTIAL_OK", "TERMINATE", "INCLUDE"} \subseteq Flag /\ {"PARTIAL_OK", "TERMINATE"} \subseteq Flag
  BY DEF CD, Flag
<1>2. \A x \in SUBSET Flag : /\ CD \cup x \in SUBSET Flag /\ "COPY" \in CD \cup x
                             /\ {"COPY"} \cup x \in SUBSET Flag /\ "COPY" \in {"COPY"} \cup x
  BY <1>1
<1>3. Line \in Pattern /\ CRLF \in Pattern /\ Blank \in Pattern /\ {0} \subseteq Nat
  BY DEF Pattern
<1> DEFINE Until(m, C, x, P) == Call("READ_UNTIL_PATTERN", m, C \cup x, {P}, Sizes)
<1>4. ASSUME NEW m \in {"SYNC", "ASYNC", "NON_BLOCKING"}, NEW C \in {CD, {"COPY"}}, NEW x \in SUBSET Flag,
             NEW P \in {Line, CRLF, Blank}, c \in Until(m, C, x, P)
      PROVE  Asked(c) /\ WellFormed(c) /\ c.type \in Conditional
  <2>1. C \cup x \in SUBSET Flag /\ "COPY" \in C \cup x
    BY <1>2, <1>4
  <2>2. P \in Pattern /\ P # {}
    BY <1>4, SizeFacts
  <2>3. QED
    BY <1>4, <2>1, <2>2, SearchAsked DEF Conditional
<1> HIDE DEF Until
<1>5. CASE c \in SyncReads
  <2> USE DEF SyncReads
  <2>1. CASE c \in Call("READ", "SYNC", CD, {{}}, Sizes) \cup Call("READ_COUNT", "SYNC", CD, {{}}, Sizes)
    BY <1>1, <2>1, ReadAsked, SizeFacts DEF Conditional
  <2>2. CASE c \in Until("SYNC", CD, {"INCLUDE", "TERMINATE"}, Line) \cup Until("SYNC", CD, {"TERMINATE"}, CRLF)
                   \cup Until("SYNC", CD, {"PARTIAL_OK", "TERMINATE", "INCLUDE"}, Line)
    BY <1>1, <1>4, <2>2
  <2>3. CASE c \in Until("SYNC", CD, {"PARTIAL_OK", "TERMINATE"}, Line) \cup Until("SYNC", CD, {"TERMINATE"}, Line)
                   \cup Until("SYNC", CD, {}, Line) \cup Until("SYNC", CD, {}, Blank)
    BY <1>1, <1>4, <2>3
  <2>4. QED
    BY <1>5, <2>1, <2>2, <2>3, Zenon DEF Until
<1>6. CASE c \in SyncEats \cup AsyncEats
  BY <1>3, <1>6, EatAsked, SizeFacts DEF SyncEats, AsyncEats, Conditional
<1>7. CASE c \in SyncPeeks
  <2> USE DEF SyncPeeks
  <2>1. CASE c \in Call("READ", "NON_BLOCKING", {"COPY"}, {{}}, Sizes) \cup Call("READ_COUNT", "NON_BLOCKING", {"COPY"}, {{}}, Sizes)
    BY <1>1, <2>1, ReadAsked, SizeFacts DEF Conditional
  <2>2. CASE c \in Until("NON_BLOCKING", {"COPY"}, {"INCLUDE", "TERMINATE"}, Line) \cup Until("NON_BLOCKING", {"COPY"}, {"TERMINATE"}, Line)
                   \cup Until("NON_BLOCKING", {"COPY"}, {}, Line) \cup Until("NON_BLOCKING", {"COPY"}, {}, Blank)
    BY <1>1, <1>4, <2>2
  <2>3. QED
    BY <1>7, <2>1, <2>2, Zenon DEF Until
<1>8. CASE c \in AsyncReads
  <2> DEFINE Gets(p) == Until("ASYNC", CD, {"PARTIAL_OK", "TERMINATE", "INCLUDE"}, p)
                        \cup Until("ASYNC", CD, {"PARTIAL_OK", "TERMINATE"}, p)
             AllGets == UNION {Gets(p) : p \in {Line, CRLF}}
  <2>1. AsyncReads = Call("READ", "ASYNC", CD, {{}}, Sizes) \cup Call("READ_COUNT", "ASYNC", CD, {{}}, Sizes)
                     \cup Until("ASYNC", CD, {"INCLUDE", "TERMINATE"}, Line) \cup AllGets
                     \cup Until("ASYNC", CD, {"TERMINATE"}, Line)
                     \cup Until("ASYNC", CD, {}, Line) \cup Until("ASYNC", CD, {}, Blank)
    BY Zenon DEF AsyncReads, Until
  <2>2. CASE c \in Call("READ", "ASYNC", CD, {{}}, Sizes) \cup Call("READ_COUNT", "ASYNC", CD, {{}}, Sizes)
    BY <1>1, <2>2, ReadAsked, SizeFacts DEF Conditional
  <2>3. CASE c \in Until("ASYNC", CD, {"INCLUDE", "TERMINATE"}, Line) \cup Until("ASYNC", CD, {"TERMINATE"}, Line)
                   \cup Until("ASYNC", CD, {}, Line) \cup Until("ASYNC", CD, {}, Blank)
    BY <1>1, <1>4, <2>3
  <2>4. CASE c \in AllGets
    <3>1. PICK p \in {Line, CRLF} : c \in Gets(p)
      BY <2>4
    <3>2. QED
      BY <1>1, <1>4, <3>1
  <2> HIDE DEF AllGets
  <2>5. QED
    BY <1>8, <2>1, <2>2, <2>3, <2>4
<1>9. CASE c \in AsyncPeeks
  <2> USE DEF AsyncPeeks
  <2>1. CASE c \in Call("READ", "ASYNC", {"COPY"}, {{}}, Sizes) \cup Call("READ_COUNT", "ASYNC", {"COPY"}, {{}}, Sizes)
    BY <1>1, <2>1, ReadAsked, SizeFacts DEF Conditional
  <2>2. CASE c \in Until("ASYNC", {"COPY"}, {"INCLUDE", "TERMINATE"}, Line) \cup Until("ASYNC", {"COPY"}, {"TERMINATE"}, Line)
                   \cup Until("ASYNC", {"COPY"}, {}, Line) \cup Until("ASYNC", {"COPY"}, {}, Blank)
    BY <1>1, <1>4, <2>2
  <2>3. QED
    BY <1>9, <2>1, <2>2, Zenon DEF Until
<1>10. CASE c \in AsyncTests
  <2> USE DEF AsyncTests
  <2>1. CASE c \in Call("READ", "ASYNC", {}, {{}}, {0}) \cup Call("READ_COUNT", "ASYNC", {}, {{}}, Sizes)
    BY <1>1, <1>3, <2>1, ReadAsked, SizeFacts DEF Conditional
  <2>2. CASE c \in Call("READ_UNTIL_PATTERN", "ASYNC", {}, {Line, CRLF, Blank}, {0})
    BY <2>2, TestAsked DEF Conditional
  <2>3. QED
    BY <1>10, <2>1, <2>2
<1>11. QED
  BY <1>5, <1>6, <1>7, <1>8, <1>9, <1>10

\* The calls of Begin.
LEMMA BeginAsked ==
    ASSUME NEW c \in Calls
    PROVE  Asked(c) /\ WellFormed(c) /\ c.type \notin Send
<1>1. {0} \subseteq Nat /\ Sizes \cup {0} \subseteq Nat
  BY SizeFacts
<1>2. CASE c \in SyncReads \cup SyncEats \cup SyncPeeks \cup AsyncReads \cup AsyncEats \cup AsyncPeeks \cup AsyncTests
  BY <1>2, ReadsAsked DEF Conditional, Send
<1>3. CASE c \in ReadsToCB \cup ReadsToConn
  <2>1. \E m \in {"SYNC", "ASYNC"} : c \in Call("READ_TO_CB", m, {}, {{}}, Sizes \cup {0}) \cup Call("READ_TO_CONN", m, {}, {{}}, Sizes)
    BY <1>3 DEF ReadsToCB, ReadsToConn
  <2>2. "READ_TO_CB" \in Type \ ({"NONE"} \cup Conditional) /\ "READ_TO_CONN" \in Type \ ({"NONE"} \cup Conditional)
    BY DEF Type, Conditional, Forward
  <2>3. Asked(c) /\ WellFormed(c) /\ c.type \in {"READ_TO_CB", "READ_TO_CONN"}
    BY <1>1, <2>1, <2>2, OtherAsked, SizeFacts
  <2>4. QED
    BY <2>3 DEF Send
<1>4. CASE c \in Connects
  <2>1. PICK t \in {"TLS", "SSL_DISCONNECT", "DISCONNECT"}, m \in {"SYNC", "ASYNC"} : c \in Call(t, m, {}, {{}}, {0})
    BY <1>4 DEF Connects
  <2>2. t \in Type \ ({"NONE"} \cup Conditional) /\ t \notin Send /\ t \notin {"READ_TO_CONN", "WRITE_FROM_CLIENT_BUFFER"}
    BY DEF Type, Conditional, Forward, Send
  <2>3. QED
    BY <1>1, <2>1, <2>2, OtherAsked
<1>5. QED
  BY <1>2, <1>3, <1>4 DEF Calls

\* The calls of BeginWrite.
LEMMA WriteAsked ==
    ASSUME NEW c \in Flushes \cup WritesFromCB \cup WritesFromBuffer
    PROVE  Asked(c) /\ WellFormed(c) /\ c.type \in Send
<1>1. /\ {0} \subseteq Nat /\ Sizes \cup {0} \subseteq Nat
      /\ {n \in Sizes : n >= IOBSize} \subseteq Nat /\ 0 \notin {n \in Sizes : n >= IOBSize}
  <2>1. \A S : S \subseteq Sizes => S \subseteq Nat /\ 0 \notin S
    BY SizeFacts
  <2>2. {n \in Sizes : n >= IOBSize} \subseteq Sizes
    OBVIOUS
  <2>3. Sizes \cup {0} \subseteq Nat
    BY SizeFacts
  <2>4. QED
    BY <2>1, <2>2, <2>3
<1>2. \A t \in Send : t \in Type \ ({"NONE"} \cup Conditional)
  BY DEF Type, Conditional, Send
<1>3. CASE c \in Flushes
  <2>1. PICK m \in {"SYNC", "ASYNC"} : c \in Call("FLUSH", m, {}, {{}}, {0})
    BY <1>3 DEF Flushes
  <2>2. QED
    BY <1>1, <1>2, <2>1, OtherAsked DEF Send
<1>4. CASE c \in WritesFromCB
  <2>1. PICK m \in {"SYNC", "ASYNC"} : c \in Call("WRITE_FROM_CB", m, {}, {{}}, Sizes \cup {0})
    BY <1>4 DEF WritesFromCB
  <2>2. QED
    BY <1>1, <1>2, <2>1, OtherAsked DEF Send
<1>5. CASE c \in WritesFromBuffer
  BY <1>1, <1>2, <1>5, OtherAsked DEF WritesFromBuffer, Send
<1>6. QED
  BY <1>3, <1>4, <1>5

\* What an event keeps while it is processed.
Same(d, c) ==
    /\ d.type = c.type /\ d.mode = c.mode /\ d.flags = c.flags /\ d.pattern = c.pattern /\ d.size = c.size
    /\ d.remaining = c.remaining /\ d.count = c.count /\ d.transferred = c.transferred /\ d.start = c.start
    /\ d.then = c.then /\ d.done = c.done /\ d.again = c.again

\* An event that is created.
LEMMA AssignFacts ==
    ASSUME NEW c, Asked(c), WellFormed(c), NEW at \in Nat, NEW d, d = Assign(c, at)
    PROVE  /\ d \in Event /\ WellFormed(d)
           /\ d.type = c.type /\ d.flags = c.flags /\ d.pattern = c.pattern /\ d.size = c.size
           /\ d.remaining = c.size /\ d.count = c.size /\ d.transferred = 0 /\ d.status = "NEW"
           /\ d.start = at /\ d.then = "done" /\ ~d.done /\ ~d.again
<1>1. /\ d.type = c.type /\ d.flags = c.flags /\ d.pattern = c.pattern /\ d.size = c.size
      /\ d.remaining = c.size /\ d.count = c.size /\ d.transferred = 0 /\ d.status = "NEW"
      /\ d.start = at /\ d.then = "done" /\ ~d.done /\ ~d.again
  BY DEF Assign
<1>2. d \in Event
  <2>1. /\ c.type \in Type /\ c.mode \in {"SYNC", "ASYNC", "NON_BLOCKING"} /\ c.flags \in SUBSET Flag
        /\ c.pattern \in Pattern /\ c.size \in Nat
    BY DEF Asked
  <2>2. "NEW" \in Status /\ "none" \in Error /\ 0 \in Nat /\ "done" \in {"done", "more"} /\ FALSE \in BOOLEAN
    BY DEF Status, Error
  <2>3. Assign(c, at) \in Event
    BY <2>1, <2>2, Zenon DEF Assign, Event
  <2>4. QED
    BY <2>3
<1>3. WellFormed(d)
  BY <1>1 DEF WellFormed
<1>4. QED
  BY <1>1, <1>2, <1>3

\* No event.
LEMMA NoEventFacts ==
    /\ NoEvent \in Event /\ WellFormed(NoEvent)
    /\ NoEvent.type = "NONE" /\ NoEvent.start = 0 /\ ~NoEvent.again /\ NoEvent.flags = {}
<1> DEFINE c == [type |-> "NONE", mode |-> "SYNC", flags |-> {}, pattern |-> {}, size |-> 0]
<1>1. /\ NoEvent.type = "NONE" /\ NoEvent.start = 0 /\ ~NoEvent.again /\ NoEvent.flags = {}
  BY DEF NoEvent, Assign
<1>2. NoEvent \in Event
  <2>1. /\ "NONE" \in Type /\ "SYNC" \in {"SYNC", "ASYNC", "NON_BLOCKING"} /\ {} \in SUBSET Flag /\ {} \in Pattern
    BY DEF Type, Pattern
  <2>2. "NEW" \in Status /\ "none" \in Error /\ 0 \in Nat /\ "done" \in {"done", "more"} /\ FALSE \in BOOLEAN
    BY DEF Status, Error
  <2>3. /\ c.type \in Type /\ c.mode \in {"SYNC", "ASYNC", "NON_BLOCKING"} /\ c.flags \in SUBSET Flag
        /\ c.pattern \in Pattern /\ c.size \in Nat
    BY <2>1, <2>2
  <2> HIDE DEF c
  <2>4. Assign(c, 0) \in Event
    BY <2>2, <2>3, Zenon DEF Assign, Event
  <2>5. QED
    BY <2>4 DEF NoEvent, c
<1>3. WellFormed(NoEvent)
  BY <1>1 DEF WellFormed
<1>4. QED
  BY <1>1, <1>2, <1>3

\* An event ends.
LEMMA EndsFacts ==
    ASSUME NEW c \in Event, WellFormed(c), NEW err \in Error, Ends(c, err)
    PROVE  /\ pc' = "ended" /\ ce' \in Event /\ WellFormed(ce') /\ Same(ce', c)
           /\ ce'.error = err /\ (ce'.status = "COMPLETE" <=> err = "none")
<1>1. Outcome(c, err) \in Status /\ (Outcome(c, err) = "COMPLETE" <=> err = "none")
  BY DEF Outcome, Status
<1>2. ce' = [c EXCEPT !.status = Outcome(c, err), !.error = err]
  BY DEF Ends
<1>3. ce' \in Event
  BY <1>1, <1>2 DEF Event
<1>4. Same(ce', c)
  BY <1>2 DEF Same, Event
<1>5. ce'.error = err /\ ce'.status = Outcome(c, err)
  BY <1>2 DEF Event
<1>6. WellFormed(ce')
  BY <1>4 DEF WellFormed, Same
<1>7. QED
  BY <1>1, <1>3, <1>4, <1>5, <1>6 DEF Ends

\* An event that would block waits or fails.
LEMMA BlocksFacts ==
    ASSUME NEW c \in Event, WellFormed(c), Blocks(c)
    PROVE  /\ ce' \in Event /\ WellFormed(ce') /\ Same(ce', c) /\ pc' \in {"blocked", "ended"}
           /\ pc' = "ended" => ce'.status # "COMPLETE" /\ ce'.error \notin {"none", "EMSGSIZE"}
<1>1. CASE \E e \in {"EWOULDBLOCK", "ECANCELED", "EIO"} : Ends(c, e)
  <2>1. PICK e \in {"EWOULDBLOCK", "ECANCELED", "EIO"} : Ends(c, e)
    BY <1>1
  <2>2. e \in Error /\ e \notin {"none", "EMSGSIZE"}
    BY DEF Error
  <2>3. QED
    BY <2>1, <2>2, EndsFacts
<1>2. CASE Goes([c EXCEPT !.status = "IN_PROGRESS"], "blocked")
  <2>1. ce' = [c EXCEPT !.status = "IN_PROGRESS"] /\ pc' = "blocked"
    BY <1>2 DEF Goes
  <2>2. ce' \in Event
    BY <2>1 DEF Event, Status
  <2>3. Same(ce', c)
    BY <2>1 DEF Same, Event
  <2>4. WellFormed(ce')
    BY <2>3 DEF WellFormed, Same
  <2>5. QED
    BY <2>1, <2>2, <2>3, <2>4
<1>3. QED
  BY <1>1, <1>2 DEF Blocks

-----------------------------------------------------------------------------
(* What ReadMeaning says, in parts.                                        *)

Data == Place(Rest, ce.pattern) - 1
Length == LengthThere(Rest, ce.pattern)
Include == IF "INCLUDE" \in ce.flags THEN Length ELSE 0
Needs == Data + Include + (IF "TERMINATE" \in ce.flags THEN 1 ELSE 0)
Complete == ce.status = "COMPLETE"
Taken == freed - ce.start

\* A conditional read has ended.
ConditionalDone == pc = "ended" /\ ce.type \in Conditional =>
    /\ "DELETE" \notin ce.flags => Taken = 0
    /\ "COPY" \in ce.flags => ce.transferred = Len(client) /\ Len(client) <= ce.size
    /\ CD \subseteq ce.flags => Taken = Len(client) + (IF Complete THEN Length - Include ELSE 0)
    /\ Complete /\ ce.flags = {"DELETE"} => Taken >= ce.size
    /\ Complete /\ "COPY" \in ce.flags =>
           CASE ce.type = "READ" -> Len(client) > 0
             [] ce.type = "READ_COUNT" -> Len(client) = ce.size
             [] OTHER -> Data < Len(Rest) /\ Len(client) = Data + Include /\ Needs <= ce.size
    /\ ce.error = "EMSGSIZE" => Needs > ce.size /\ Len(client) = Min({ce.size, Data})
    /\ Complete /\ ce.flags = {} =>
           ce.transferred \in {IOBSize, IF ce.pattern = {} THEN ce.size ELSE Data}

\* A read to a callback or another connection has ended.
ForwardDone == pc = "ended" /\ ce.type \in Forward =>
    /\ Taken = Len(client) /\ ce.transferred = Len(client)
    /\ ce.size # 0 => Len(client) <= ce.size /\ (Complete => Len(client) = ce.size)

\* The parts are the whole, before and after a step.
LEMMA Meaning ==
    /\ ReadMeaning <=> client = Bytes(ce.start, Len(client)) /\ ConditionalDone /\ ForwardDone
    /\ ReadMeaning' <=> (client' = Bytes(ce.start, Len(client))' /\ ConditionalDone' /\ ForwardDone')
<1>1. ReadMeaning <=> client = Bytes(ce.start, Len(client)) /\ ConditionalDone /\ ForwardDone
  BY Zenon DEF ReadMeaning, ConditionalDone, ForwardDone, Data, Length, Include, Needs, Complete, Taken, Rest
<1>2. ReadMeaning' <=> (client' = Bytes(ce.start, Len(client))' /\ ConditionalDone' /\ ForwardDone')
  BY Zenon DEF ReadMeaning, ConditionalDone, ForwardDone, Data, Length, Include, Needs, Complete, Taken, Rest
<1>3. QED
  BY <1>1, <1>2

\* The stream after the place where the event began, while it is processed.
LEMMA RestSame ==
    ASSUME UNCHANGED text, ce'.start = ce.start, ce'.pattern = ce.pattern
    PROVE  Rest' = Rest /\ Place(Rest, ce.pattern)' = Place(Rest, ce.pattern) /\ Data' = Data /\ Length' = Length
<1>1. Rest' = Rest
  BY DEF Rest
<1>2. QED
  BY <1>1, Zenon DEF Data, Length, Place, LengthThere, SpellingAt

-----------------------------------------------------------------------------
(* Steps that leave a side alone.                                          *)

\* The send side of an event that does not send.
LEMMA WriteFrame ==
    ASSUME WritePart, UNCHANGED sendVars, ce'.type \notin Send, ~ce'.again
    PROVE  WritePart'
  BY DEF WritePart, Writing, WriteMeaning, Send, sendVars, Bytes

\* The receive side of an event that does not receive.
LEMMA ReadNone ==
    ASSUME ce'.type \notin Conditional \cup Forward, client' = <<>>,
           ce'.start \in Nat, ce'.start <= freed', Typed', secured' => plain' <= freed'
    PROVE  ReadPart'
<1>1. Handed' /\ client' = Bytes(ce.start, Len(client))'
  <2>1. rcvd' \in Nat /\ freed' \in Nat /\ freed' <= rcvd'
    BY DEF Typed
  <2>2. Len(client') = 0 /\ ce'.start + 0 <= rcvd'
    BY <2>1
  <2>3. QED
    BY <2>2, BytesFacts DEF Handed
<1>2. Reading' /\ Forwarding' /\ ConditionalDone' /\ ForwardDone'
  BY DEF Reading, Forwarding, ConditionalDone, ForwardDone
<1>3. Protected'
  BY DEF Protected
<1>4. QED
  BY <1>1, <1>2, <1>3, Meaning DEF ReadPart

\* The receive side of an event that goes on, or fails.
LEMMA ReadFrame ==
    ASSUME Typed, ReadPart, pc \notin {"idle", "ended"}, pc' # "idle", Same(ce', ce),
           UNCHANGED <<text, freed, plain, client>>, rcvd' \in Nat, rcvd <= rcvd', secured' => secured,
           pc' = "ended" => ce'.status # "COMPLETE" /\ ce'.error # "EMSGSIZE"
    PROVE  ReadPart'
<1> USE DEF Same
<1>1. Handed'
  <2>1. ce.start + Len(client) <= rcvd /\ ce.start \in Nat /\ rcvd \in Nat /\ Len(client) \in Nat
    BY DEF ReadPart, Handed, Typed, Event
  <2>2. ce'.start + Len(client') <= rcvd'
    BY <2>1
  <2>3. QED
    BY <2>2 DEF ReadPart, Handed
<1>2. Reading'
  BY RestSame DEF ReadPart, Reading
<1>3. Forwarding'
  BY DEF ReadPart, Forwarding
<1>4. Protected'
  BY DEF ReadPart, Protected
<1>5. client' = Bytes(ce.start, Len(client))'
  BY <1>1 DEF Handed
<1>6. ce.start \in Nat /\ freed \in Nat /\ ce.size \in Nat /\ ce.remaining \in Nat /\ Len(client) \in Nat
  BY DEF Typed, Event, ReadPart, Handed
<1>7. ConditionalDone'
  <2> SUFFICES ASSUME pc' = "ended", ce'.type \in Conditional
               PROVE  ConditionalDone'
    BY DEF ConditionalDone
  <2> DEFINE l == Len(client)
  <2>1. /\ ce.remaining + l = ce.size /\ ce.transferred = l
        /\ "COPY" \in ce.flags => freed = ce.start + l
        /\ "DELETE" \notin ce.flags => freed = ce.start
        /\ l \in Nat /\ ce.remaining \in Nat /\ ce.size \in Nat /\ freed \in Nat /\ ce.start \in Nat
    BY <1>6 DEF ReadPart, Reading
  <2>2. Len(client') = l /\ freed' = freed
    OBVIOUS
  <2> HIDE DEF l
  <2>3. /\ "DELETE" \notin ce.flags => freed - ce.start = 0
        /\ l <= ce.size
        /\ "COPY" \in ce.flags => freed - ce.start = l + 0
    BY ONLY <2>1
  <2>4. ~Complete' /\ ce'.error # "EMSGSIZE" /\ Taken' = freed - ce.start
    BY DEF Complete, Taken
  <2>5. QED
    BY <2>1, <2>2, <2>3, <2>4 DEF ConditionalDone, CD
<1>8. ForwardDone'
  BY <1>6 DEF ReadPart, Forwarding, ForwardDone, Taken, Complete
<1>9. QED
  BY <1>1, <1>2, <1>3, <1>4, <1>5, <1>7, <1>8, Meaning DEF ReadPart

\* The send side of an event that goes on without a send, or fails.
LEMMA WriteSame ==
    ASSUME WritePart, UNCHANGED sendVars, Same(ce', ce), pc # "ended",
           pc' = "flush" => pc = "flush", pc' = "ended" => ce'.status # "COMPLETE"
    PROVE  WritePart'
  BY DEF WritePart, Writing, WriteMeaning, Send, sendVars, Bytes, Same

\* Types, while an event is processed.
LEMMA TypedStep ==
    ASSUME Typed, UNCHANGED text,
           rcvd' \in 0 .. Len(text), freed' \in 0 .. rcvd', rcvd' - freed' <= IOBSize, plain' \in 0 .. rcvd',
           secured' \in BOOLEAN, over' \in BOOLEAN,
           pc' \in {"ended", "process", "fill", "flush", "blocked"}, ce' \in Event, WellFormed(ce'),
           given' \in Nat, sent' \in 0 .. given',
           pc' = "fill" => ce'.type \in Conditional \cup Forward,
           pc' = "flush" => ce'.type \in Send
    PROVE  Typed'
  BY DEF Typed

\* Types, in a step that moves no data.
LEMMA TypedFrame ==
    ASSUME Typed, UNCHANGED <<text, rcvd, freed, plain, given, sent>>, secured' \in BOOLEAN, over' \in BOOLEAN,
           pc' \in {"ended", "process", "fill", "flush", "blocked"}, ce' \in Event, WellFormed(ce'),
           pc' = "fill" => ce'.type \in Conditional \cup Forward,
           pc' = "flush" => ce'.type \in Send
    PROVE  Typed'
<1>1. /\ rcvd' \in 0 .. Len(text) /\ freed' \in 0 .. rcvd' /\ rcvd' - freed' <= IOBSize /\ plain' \in 0 .. rcvd'
      /\ given' \in Nat /\ sent' \in 0 .. given'
  BY DEF Typed
<1>2. QED
  BY <1>1, TypedStep

\* Facts about the numbers.
LEMMA Numbers ==
    ASSUME Typed
    PROVE  /\ text \in Seq(Symbol) /\ Len(text) \in Nat /\ rcvd \in Nat /\ freed \in Nat /\ plain \in Nat
           /\ freed <= rcvd /\ rcvd <= Len(text) /\ plain <= rcvd /\ rcvd - freed <= IOBSize
           /\ IOBSize \in Nat /\ IOBSize # 0
           /\ given \in Nat /\ sent \in Nat /\ sent <= given
           /\ ce \in Event /\ WellFormed(ce)
           /\ ce.size \in Nat /\ ce.remaining \in Nat /\ ce.count \in Nat /\ ce.transferred \in Nat /\ ce.start \in Nat
<1>1. ce \in Event /\ WellFormed(ce) /\ text \in Seq(Symbol)
  BY DEF Typed
<1>2. ce.size \in Nat /\ ce.remaining \in Nat /\ ce.count \in Nat /\ ce.transferred \in Nat /\ ce.start \in Nat
  BY <1>1 DEF Event
<1>3. Len(text) \in Nat
  BY <1>1
<1>4. QED
  BY <1>1, <1>2, <1>3, DataAssumption DEF Typed

-----------------------------------------------------------------------------
(* Events begin and are over.                                              *)

\* A read, a handshake or a disconnect begins.
LEMMA BeginInv ==
    ASSUME DataInv, NEW c \in Calls, Begin(c)
    PROVE  DataInv'
<1> USE DEF Begin, recvVars, sendVars
<1>1. Typed /\ ReadPart /\ WritePart /\ pc = "idle" /\ ce = NoEvent /\ client = <<>> /\ given = 0 /\ sent = 0
  BY DEF DataInv, Typed
<1>2. ce' = Assign(c, freed) /\ pc' = "process" /\ freed \in Nat
  BY <1>1, Numbers DEF ConnEventAssign
<1>3. /\ ce' \in Event /\ WellFormed(ce')
      /\ ce'.type = c.type /\ ce'.flags = c.flags /\ ce'.pattern = c.pattern /\ ce'.size = c.size
      /\ ce'.remaining = c.size /\ ce'.count = c.size /\ ce'.transferred = 0 /\ ce'.start = freed /\ ~ce'.again
      /\ c.type \notin Send /\ c.size \in Nat /\ c.pattern \in Pattern
  <2>1. Asked(c) /\ WellFormed(c) /\ c.type \notin Send
    BY BeginAsked
  <2>2. c.size \in Nat /\ c.pattern \in Pattern
    BY <2>1 DEF Asked
  <2>3. QED
    BY <1>2, <2>1, <2>2, AssignFacts
<1>4. Typed'
  BY <1>1, <1>2, <1>3, TypedFrame DEF Typed
<1>5. WritePart'
  BY <1>1, <1>3, WriteFrame
<1>6. Handed' /\ client' = Bytes(ce.start, Len(client))'
  <2>1. Len(client') = 0 /\ freed + 0 <= rcvd
    BY <1>1, Numbers
  <2>2. QED
    BY <1>1, <1>2, <1>3, <2>1, BytesFacts DEF Handed
<1>7. Place(Rest, ce.pattern)' > (freed - ce.start)'
  <2>1. Rest' \in Seq(Symbol)
    BY <1>1, <1>2, <1>3, Numbers DEF Rest
  <2>2. Place(Rest', ce'.pattern) \in 1 .. Len(Rest') + 1
    BY <1>3, <2>1, PlaceFacts
  <2>3. (freed - ce.start)' = 0
    BY <1>2, <1>3
  <2>4. Place(Rest, ce.pattern)' = Place(Rest', ce'.pattern)
    BY Zenon DEF Place, SpellingAt
  <2>5. \A x, l : x \in 1 .. l => x > 0
    OBVIOUS
  <2>6. QED
    BY <2>2, <2>3, <2>4, <2>5
<1>8. Reading'
  BY <1>1, <1>2, <1>3, <1>7 DEF Reading
<1>9. Forwarding'
  BY <1>1, <1>2, <1>3 DEF Forwarding
<1>10. Protected'
  BY <1>1 DEF Protected, ReadPart
<1>11. ConditionalDone' /\ ForwardDone'
  BY <1>2 DEF ConditionalDone, ForwardDone
<1>12. QED
  BY <1>4, <1>5, <1>6, <1>8, <1>9, <1>10, <1>11, Meaning DEF DataInv, ReadPart

\* A write begins.
LEMMA BeginWriteInv ==
    ASSUME DataInv, NEW c \in Flushes \cup WritesFromCB \cup WritesFromBuffer, NEW n \in Nat, BeginWrite(c, n)
    PROVE  DataInv'
<1> USE DEF BeginWrite, recvVars
<1>1. Typed /\ ReadPart /\ WritePart /\ pc = "idle" /\ ce = NoEvent /\ client = <<>> /\ given = 0 /\ sent = 0
  BY DEF DataInv, Typed
<1>2. ce' = Assign(c, freed) /\ pc' = "process" /\ freed \in Nat
  BY <1>1, Numbers DEF ConnEventAssign
<1>3. /\ ce' \in Event /\ WellFormed(ce')
      /\ ce'.type = c.type /\ ce'.size = c.size /\ ce'.count = c.size /\ ce'.transferred = 0
      /\ ce'.start = freed /\ ~ce'.again /\ ~ce'.done
      /\ c.type \in Send /\ c.size \in Nat
  <2>1. Asked(c) /\ WellFormed(c) /\ c.type \in Send
    BY WriteAsked
  <2>2. c.size \in Nat
    BY <2>1 DEF Asked
  <2>3. QED
    BY <1>2, <2>1, <2>2, AssignFacts
<1>4. Typed'
  BY <1>1, <1>2, <1>3, TypedStep DEF Typed
<1>5. ReadPart'
  <2>1. ce'.type \notin Conditional \cup Forward
    BY <1>3 DEF Send, Conditional, Forward
  <2>2. QED
    BY <1>1, <1>2, <1>3, <1>4, <2>1, ReadNone DEF ReadPart, Protected
<1>6. Writing'
  <2>1. c.type = "WRITE_FROM_CB" => n < IOBSize
    OBVIOUS
  <2>2. QED
    BY <1>1, <1>2, <1>3, <2>1, Numbers DEF Writing
<1>7. WriteMeaning'
  BY <1>1, <1>2, <1>3 DEF WritePart, WriteMeaning, Bytes
<1>8. QED
  BY <1>4, <1>5, <1>6, <1>7 DEF DataInv, WritePart

\* The consumer has its result.
LEMMA ReturnInv ==
    ASSUME DataInv, Return
    PROVE  DataInv'
<1> USE DEF Return
<1>1. Typed /\ ReadPart /\ ce' = NoEvent /\ client' = <<>>
  BY DEF DataInv
<1>2. Typed'
  BY <1>1, NoEventFacts DEF Typed
<1>3. ReadPart'
  BY <1>1, <1>2, Numbers, NoEventFacts, ReadNone DEF ReadPart, Protected, Conditional, Forward
<1>4. WritePart'
  <2>1. wire' = Bytes(0, sent)'
    BY BytesFacts
  <2>2. ce'.type = "NONE" /\ ~ce'.again
    BY <1>1, NoEventFacts
  <2>3. QED
    BY <2>1, <2>2 DEF WritePart, Writing, WriteMeaning, Send
<1>5. QED
  BY <1>2, <1>3, <1>4 DEF DataInv

\* The connection serves another peer.
LEMMA ResetInv ==
    ASSUME DataInv, ConnReset
    PROVE  DataInv'
<1> USE DEF ConnReset
<1>1. Typed /\ WritePart /\ ce' = NoEvent /\ client' = <<>> /\ pc' = "idle" /\ given = 0 /\ sent = 0
  BY DEF DataInv, Typed
<1>2. text' \in Text /\ text' \in Seq(Symbol) /\ Len(text') \in Nat
  BY DataAssumption DEF Symbol
<1>3. Typed'
  <2>1. rcvd' = 0 /\ freed' = 0 /\ plain' = 0 /\ rcvd' - freed' <= IOBSize
    BY <1>1, Numbers
  <2>2. rcvd' \in 0 .. Len(text')
    BY <1>2, <2>1
  <2>3. UNCHANGED <<given, sent>>
    BY DEF sendVars
  <2>4. QED
    BY <1>1, <1>2, <2>1, <2>2, <2>3, NoEventFacts DEF Typed
<1>4. ReadPart'
  BY <1>1, <1>3, NoEventFacts, ReadNone DEF Conditional, Forward
<1>5. WritePart'
  BY <1>1, NoEventFacts, WriteFrame DEF Send
<1>6. QED
  BY <1>3, <1>4, <1>5 DEF DataInv

\* The socket is ready, or the wait fails.
LEMMA ResumeInv ==
    ASSUME DataInv, Resume \/ WaitFails
    PROVE  DataInv'
<1>1. Typed /\ ReadPart /\ WritePart /\ pc = "blocked"
  BY DEF DataInv, Resume, WaitFails
<1>2. CASE Resume
  <2> USE DEF Resume, recvVars, sendVars
  <2>1. Same(ce', ce) /\ ce' \in Event /\ WellFormed(ce') /\ pc' \in {"fill", "process"}
    BY <1>1, <1>2, Numbers DEF Same
  <2>2. Typed'
    BY <1>1, <1>2, <2>1, TypedFrame DEF Typed
  <2>3. ReadPart'
    BY <1>1, <1>2, <2>1, Numbers, ReadFrame
  <2>4. WritePart'
    BY <1>1, <1>2, <2>1, WriteSame
  <2>5. QED
    BY <2>2, <2>3, <2>4 DEF DataInv
<1>3. CASE WaitFails
  <2> USE DEF WaitFails
  <2>1. PICK e \in {"ETIMEDOUT", "ECANCELED"} : Ends(ce, e)
    BY <1>3
  <2>2. e \in Error /\ e \notin {"none", "EMSGSIZE"}
    BY DEF Error
  <2>3. /\ pc' = "ended" /\ ce' \in Event /\ WellFormed(ce') /\ Same(ce', ce)
        /\ ce'.status # "COMPLETE" /\ ce'.error # "EMSGSIZE"
    BY <1>1, <2>1, <2>2, Numbers, EndsFacts
  <2>4. secured' \in BOOLEAN /\ over' \in BOOLEAN /\ (secured' => secured)
    BY <1>3
  <2>5. Typed'
    BY <1>1, <1>3, <2>3, <2>4, TypedFrame DEF Typed, sendVars
  <2>6. ReadPart'
    BY <1>1, <1>3, <2>3, <2>4, Numbers, ReadFrame
  <2>7. WritePart'
    BY <1>1, <1>3, <2>3, WriteSame
  <2>8. QED
    BY <2>5, <2>6, <2>7 DEF DataInv
<1>4. QED
  BY <1>2, <1>3

-----------------------------------------------------------------------------
(* TLS and disconnect.                                                     *)

\* The sides of an event that neither receives for the consumer nor sends.
LEMMA ConnectFrame ==
    ASSUME DataInv, pc # "idle", pc # "ended", ce.type \in {"TLS", "SSL_DISCONNECT", "DISCONNECT"}, Same(ce', ce),
           ce' \in Event, WellFormed(ce'), pc' \in {"ended", "blocked"},
           UNCHANGED <<text, client, sendVars>>,
           rcvd' \in 0 .. Len(text), freed' \in 0 .. rcvd', rcvd' - freed' <= IOBSize, plain' \in 0 .. rcvd',
           freed <= freed', secured' \in BOOLEAN, over' \in BOOLEAN, secured' => plain' <= freed'
    PROVE  DataInv'
<1>1. Typed /\ ReadPart /\ WritePart
  BY DEF DataInv
<1>2. ce'.type \notin Conditional \cup Forward /\ ce'.type \notin Send
  BY DEF Same, Conditional, Forward, Send
<1>3. Typed'
  BY <1>1, <1>2, TypedStep, Numbers DEF Typed, sendVars
<1>4. ReadPart'
  <2>1. ce'.start \in Nat /\ ce'.start <= freed /\ freed \in Nat /\ freed' \in Nat
    <3>1. ce.start \in Nat /\ ce.start <= freed /\ freed \in Nat
      BY <1>1, Numbers DEF ReadPart, Handed
    <3>2. QED
      BY <3>1 DEF Same
  <2>2. client' = <<>>
    BY <1>1, <1>2 DEF ReadPart, Handed, Same
  <2>3. ce'.start <= freed'
    BY <2>1
  <2>4. QED
    BY <1>2, <1>3, <2>1, <2>2, <2>3, ReadNone
<1>5. WritePart'
  <2>1. ~ce'.again
    BY <1>1 DEF WritePart, WriteMeaning, Same
  <2>2. QED
    BY <1>1, <1>2, <2>1, WriteFrame
<1>6. QED
  BY <1>3, <1>4, <1>5 DEF DataInv

\* The start and the end of TLS, the disconnect.
LEMMA ConnectInv ==
    ASSUME DataInv, StartTLS \/ SSLDisconnect \/ drainReceiveBuffer \/ drainWire
    PROVE  DataInv'
<1>1. Typed /\ ReadPart /\ WritePart /\ pc = "process"
  BY DEF DataInv, StartTLS, SSLDisconnect, drainReceiveBuffer, drainWire
<1>2. /\ rcvd \in 0 .. Len(text) /\ freed \in 0 .. rcvd /\ rcvd - freed <= IOBSize /\ plain \in 0 .. rcvd
      /\ secured \in BOOLEAN /\ over \in BOOLEAN /\ (secured => plain <= freed)
  BY <1>1 DEF Typed, ReadPart, Protected
<1>3. ce \in Event /\ WellFormed(ce)
  BY <1>1, Numbers
<1>4. ASSUME NEW e \in Error, Ends(ce, e)
      PROVE  Same(ce', ce) /\ ce' \in Event /\ WellFormed(ce') /\ pc' \in {"ended", "blocked"}
  BY <1>3, <1>4, EndsFacts
<1>5. ASSUME Blocks(ce)
      PROVE  Same(ce', ce) /\ ce' \in Event /\ WellFormed(ce') /\ pc' \in {"ended", "blocked"}
  BY <1>3, <1>5, BlocksFacts
<1>6. {"none", "EIO", "ECONNALREADYSECURED", "EOVERFLOW", "ECONNRESET"} \subseteq Error
  BY DEF Error
<1>7. Len(text) \in Nat /\ rcvd \in Nat /\ freed \in Nat /\ plain \in Nat /\ IOBSize \in Nat
  BY <1>1, Numbers
<1>8. CASE StartTLS
  <2> USE DEF StartTLS, NothingBuffered, Used
  <2>1. Same(ce', ce) /\ ce' \in Event /\ WellFormed(ce') /\ pc' \in {"ended", "blocked"}
    BY <1>4, <1>5, <1>6, <1>8
  <2>2. /\ secured' \in BOOLEAN /\ over' \in BOOLEAN /\ rcvd' = rcvd /\ freed' = freed
        /\ plain' \in {plain, rcvd} /\ (secured' => plain' <= freed')
    <3>1. over' \in BOOLEAN /\ rcvd' = rcvd /\ freed' = freed
      BY <1>2, <1>8
    <3>2. \/ secured' = TRUE /\ plain' = rcvd /\ rcvd - freed = 0
          \/ UNCHANGED <<secured, plain>>
          \/ secured' = FALSE /\ plain' = plain
      BY <1>8
    <3>3. CASE secured' = TRUE /\ plain' = rcvd /\ rcvd - freed = 0
      <4>1. plain' <= freed'
        BY <1>7, <3>1, <3>3
      <4>2. QED
        BY <3>1, <3>3, <4>1
    <3>4. CASE UNCHANGED <<secured, plain>>
      BY <1>2, <3>1, <3>4
    <3>5. CASE secured' = FALSE /\ plain' = plain
      BY <3>1, <3>5
    <3>6. QED
      BY <3>2, <3>3, <3>4, <3>5
  <2>3. plain' \in 0 .. rcvd'
    BY <1>2, <1>7, <2>2
  <2>4. freed <= freed'
    BY <1>7, <2>2
  <2>5. QED
    BY <1>1, <1>2, <1>8, <2>1, <2>2, <2>3, <2>4, ConnectFrame
<1>9. CASE SSLDisconnect
  <2> USE DEF SSLDisconnect
  <2>1. Same(ce', ce) /\ ce' \in Event /\ WellFormed(ce') /\ pc' \in {"ended", "blocked"}
    BY <1>4, <1>5, <1>6, <1>9
  <2>2. /\ secured' \in BOOLEAN /\ over' \in BOOLEAN /\ rcvd' = rcvd /\ freed' = freed
        /\ plain' = plain /\ (secured' => plain' <= freed') /\ freed <= freed'
    BY <1>2, <1>7, <1>9
  <2>3. QED
    BY <1>1, <1>2, <1>9, <2>1, <2>2, ConnectFrame
<1>10. CASE drainReceiveBuffer
  <2> USE DEF drainReceiveBuffer
  <2>1. Same(ce', ce) /\ ce' \in Event /\ WellFormed(ce') /\ pc' \in {"ended", "blocked"}
    BY <1>5, <1>10
  <2>2. secured' \in BOOLEAN /\ over' \in BOOLEAN /\ rcvd' = rcvd /\ freed' = rcvd /\ plain' = plain
    BY <1>2, <1>10
  <2>3. freed' \in 0 .. rcvd' /\ rcvd' - freed' <= IOBSize /\ freed <= freed' /\ plain' <= freed'
    BY <1>2, <1>7, <2>2
  <2>4. QED
    BY <1>1, <1>2, <1>10, <2>1, <2>2, <2>3, ConnectFrame
<1>11. CASE drainWire
  <2> USE DEF drainWire
  <2>1. Same(ce', ce) /\ ce' \in Event /\ WellFormed(ce') /\ pc' \in {"ended", "blocked"}
    BY <1>4, <1>5, <1>6, <1>11
  <2>2. PICK n \in 0 .. Len(text) - rcvd : rcvd' = rcvd + n /\ freed' = freed + n
    BY <1>11
  <2>3. secured' \in BOOLEAN /\ over' \in BOOLEAN /\ plain' = plain /\ secured' = secured
    BY <1>2, <1>11
  <2>4. /\ rcvd' \in 0 .. Len(text) /\ freed' \in 0 .. rcvd' /\ rcvd' - freed' <= IOBSize /\ plain' \in 0 .. rcvd'
        /\ freed <= freed' /\ (secured' => plain' <= freed')
    BY <1>2, <1>7, <2>2, <2>3
  <2>5. QED
    BY <1>1, <1>11, <2>1, <2>3, <2>4, ConnectFrame
<1>12. QED
  BY <1>8, <1>9, <1>10, <1>11

-----------------------------------------------------------------------------
(* Writes.                                                                 *)

\* Types and the receive side, while an event sends.
LEMMA SendFrame ==
    ASSUME DataInv, pc # "idle", ce.type \in Send, UNCHANGED recvVars,
           ce' \in Event, WellFormed(ce'), ce'.type = ce.type, ce'.start = ce.start,
           pc' \in {"ended", "process", "flush", "blocked"}, given' \in Nat, sent' \in 0 .. given'
    PROVE  Typed' /\ ReadPart'
<1> USE DEF recvVars
<1>1. Typed /\ ReadPart
  BY DEF DataInv
<1>2. ce'.type \notin Conditional \cup Forward
  BY DEF Conditional, Forward, Send
<1>3. Typed'
  BY <1>1, TypedStep DEF Typed
<1>4. ReadPart'
  <2>1. ce.start \in Nat /\ ce.start <= freed /\ client = <<>> /\ (secured => plain <= freed)
    BY <1>1, <1>2, Numbers DEF ReadPart, Handed, Protected
  <2>2. QED
    BY <1>2, <1>3, <2>1, ReadNone
<1>5. QED
  BY <1>3, <1>4

\* Bytes are sent.
LEMMA SendFacts ==
    ASSUME DataInv, NEW n \in 0 .. Unsent, SocketSend(n), IOBMarkFree(n), UNCHANGED given
    PROVE  /\ wire' = Bytes(0, sent') /\ given' \in Nat /\ sent' \in 0 .. given' /\ sent' = sent + n
           /\ given - sent <= IOBSize => given' - sent' <= IOBSize
<1>1. given \in Nat /\ sent \in Nat /\ sent <= given /\ IOBSize \in Nat
  BY Numbers DEF DataInv
<1>2. n \in Nat /\ n <= given - sent /\ sent' = sent + n
  BY <1>1 DEF Unsent, IOBMarkFree
<1>3. wire' = Bytes(0, sent) \o Bytes(sent, n)
  BY DEF DataInv, WritePart, WriteMeaning, SocketSend
<1>4. 0 + sent = sent
  BY <1>1
<1>5. wire' = Bytes(0, sent + n)
  <2>1. Bytes(0, sent) \o Bytes(0 + sent, n) = Bytes(0, sent + n)
    BY <1>1, <1>2, BytesJoin
  <2>2. QED
    BY <1>3, <1>4, <2>1
<1>6. sent' \in 0 .. given' /\ (given - sent <= IOBSize => given' - sent' <= IOBSize)
  BY <1>1, <1>2
<1>7. QED
  BY <1>1, <1>2, <1>5, <1>6

\* What remains of the send side after a send.
LEMMA SendRest ==
    ASSUME DataInv, pc # "idle", pc # "ended", ce.type \in Send, UNCHANGED recvVars,
           NEW n \in 0 .. Unsent, SocketSend(n), IOBMarkFree(n), UNCHANGED given,
           ce' \in Event, WellFormed(ce'), Same(ce', ce), pc' \in {"ended", "process", "flush", "blocked"},
           pc' = "flush" => pc = "flush", pc' = "ended" => ce'.status # "COMPLETE"
    PROVE  DataInv'
<1>1. /\ wire' = Bytes(0, sent') /\ given' \in Nat /\ sent' \in 0 .. given'
      /\ given - sent <= IOBSize => given' - sent' <= IOBSize
  BY SendFacts
<1>2. Typed' /\ ReadPart'
  BY <1>1, SendFrame DEF Same
<1>3. Writing /\ WriteMeaning
  BY DEF DataInv, WritePart
<1>4. Writing'
  BY <1>1, <1>3 DEF Writing, Same
<1>5. WriteMeaning'
  <2>1. wire' = Bytes(0, sent)'
    BY <1>1 DEF Bytes
  <2>2. QED
    BY <1>3, <2>1 DEF WriteMeaning, Same
<1>6. QED
  BY <1>2, <1>4, <1>5 DEF DataInv, WritePart

\* A send that fails or would block.
LEMMA SendStops ==
    ASSUME DataInv, Blocks(ce) \/ Ends(ce, "ECONNRESET")
    PROVE  /\ ce' \in Event /\ WellFormed(ce') /\ Same(ce', ce) /\ pc' \in {"ended", "blocked"}
           /\ pc' = "ended" => ce'.status # "COMPLETE"
<1>1. ce \in Event /\ WellFormed(ce) /\ "ECONNRESET" \in Error
  BY Numbers DEF DataInv, Error
<1>2. QED
  BY <1>1, BlocksFacts, EndsFacts

\* A turn of the flush.
LEMMA FlushSendBufferInv ==
    ASSUME DataInv, flushSendBuffer
    PROVE  DataInv'
<1> USE DEF flushSendBuffer
<1>1. /\ Typed /\ ReadPart /\ WritePart /\ pc = "flush" /\ ce.type \in Send
      /\ ce \in Event /\ WellFormed(ce) /\ Same(ce, ce)
      /\ given \in Nat /\ sent \in Nat /\ sent <= given /\ sent \in 0 .. given
  BY Numbers DEF DataInv, Typed, Same
<1>2. CASE Unsent = 0 /\ ce.then = "done"
  <2>1. Ends(ce, "none") /\ UNCHANGED sendVars /\ sent = given
    BY <1>1, <1>2 DEF Unsent
  <2>2. "none" \in Error
    BY DEF Error
  <2>3. pc' = "ended" /\ ce' \in Event /\ WellFormed(ce') /\ Same(ce', ce)
    BY <1>1, <2>1, <2>2, EndsFacts
  <2>4. Typed' /\ ReadPart'
    BY <1>1, <2>1, <2>3, SendFrame DEF Same, sendVars
  <2>5. Writing'
    BY <1>1, <2>1, <2>3 DEF WritePart, Writing, Same, sendVars
  <2>6. ce.type = "WRITE_FROM_CB" /\ ce.size # 0 => ce.transferred = ce.size
    <3>1. ce.size \in Nat /\ ce.count \in Nat /\ ce.transferred \in Nat
      BY <1>1, Numbers
    <3>2. QED
      BY <1>1, <1>2, <3>1 DEF WritePart, Writing
  <2>7. WriteMeaning'
    <3>1. wire' = Bytes(0, sent)'
      BY <1>1, <2>1 DEF WritePart, WriteMeaning, Bytes, sendVars
    <3>2. ~ce'.again
      BY <1>1, <2>3 DEF WritePart, WriteMeaning, Same
    <3>3. ce'.type = "WRITE_FROM_CB" /\ ce'.size # 0 => ce'.transferred = ce'.size /\ ce'.transferred <= ce'.size
      <4>1. ce.size <= ce.size
        BY <1>1, Numbers
      <4>2. QED
        BY <2>3, <2>6, <4>1 DEF Same
    <3>4. sent' = given'
      BY <2>1 DEF sendVars
    <3>5. QED
      BY <3>1, <3>2, <3>3, <3>4 DEF WriteMeaning
  <2>8. QED
    BY <2>4, <2>5, <2>7 DEF DataInv, WritePart
<1>3. CASE Unsent = 0 /\ ce.then # "done"
  <2>1. ce' = ce /\ pc' = "process" /\ UNCHANGED sendVars
    BY <1>3 DEF Goes
  <2>2. Typed' /\ ReadPart'
    BY <1>1, <2>1, SendFrame DEF sendVars
  <2>3. WritePart'
    BY <1>1, <2>1, WriteSame
  <2>4. QED
    BY <2>2, <2>3 DEF DataInv
<1>4. CASE Unsent # 0
  <2>1. PICK n \in 0 .. Unsent :
           /\ SocketSend(n) /\ IOBMarkFree(n) /\ UNCHANGED given
           /\ IF n = Unsent THEN Goes(ce, "flush") ELSE Blocks(ce) \/ Ends(ce, "ECONNRESET")
    BY <1>4
  <2>2. /\ ce' \in Event /\ WellFormed(ce') /\ Same(ce', ce) /\ pc' \in {"flush", "ended", "blocked"}
        /\ pc' = "ended" => ce'.status # "COMPLETE"
    BY <1>1, <2>1, SendStops DEF Goes
  <2>3. QED
    BY <1>1, <2>1, <2>2, SendRest
<1>5. QED
  BY <1>2, <1>3, <1>4

\* A flush begins, or a turn of the write from the client's buffer.
LEMMA SendFromClientInv ==
    ASSUME DataInv, Flush \/ sendFromClientBuffer
    PROVE  DataInv'
<1>1. /\ Typed /\ ReadPart /\ WritePart /\ pc = "process"
      /\ ce.type \in {"FLUSH", "WRITE_FROM_CLIENT_BUFFER"} /\ ce.type \in Send
      /\ ce \in Event /\ WellFormed(ce) /\ Same(ce, ce) /\ UNCHANGED recvVars
      /\ given \in Nat /\ sent \in Nat /\ sent <= given /\ sent \in 0 .. given
  BY Numbers DEF DataInv, Typed, Same, Flush, sendFromClientBuffer, Send
<1>2. CASE Flush
  <2>1. ce' = ce /\ pc' = "flush" /\ UNCHANGED sendVars
    BY <1>2 DEF Flush, Goes
  <2>2. Typed' /\ ReadPart'
    BY <1>1, <2>1, SendFrame DEF sendVars
  <2>3. WritePart'
    BY <1>1, <2>1 DEF WritePart, Writing, WriteMeaning, Bytes, sendVars
  <2>4. QED
    BY <2>2, <2>3 DEF DataInv
<1>3. CASE sendFromClientBuffer /\ Unsent = 0
  <2>1. Ends(ce, "none") /\ UNCHANGED sendVars /\ sent = given
    BY <1>1, <1>3 DEF sendFromClientBuffer, Unsent
  <2>2. "none" \in Error
    BY DEF Error
  <2>3. pc' = "ended" /\ ce' \in Event /\ WellFormed(ce') /\ Same(ce', ce)
    BY <1>1, <2>1, <2>2, EndsFacts
  <2>4. Typed' /\ ReadPart'
    BY <1>1, <2>1, <2>3, SendFrame DEF Same, sendVars
  <2>5. WritePart'
    <3>1. wire' = Bytes(0, sent)' /\ sent' = given'
      BY <1>1, <2>1 DEF WritePart, WriteMeaning, Bytes, sendVars
    <3>2. ~ce'.again /\ ce'.type # "WRITE_FROM_CB"
      BY <1>1, <2>3 DEF WritePart, WriteMeaning, Same
    <3>3. QED
      BY <3>1, <3>2 DEF WritePart, Writing, WriteMeaning
  <2>6. QED
    BY <2>4, <2>5 DEF DataInv
<1>4. CASE sendFromClientBuffer /\ Unsent # 0
  <2>1. PICK n \in 0 .. Unsent :
           /\ SocketSend(n) /\ IOBMarkFree(n) /\ UNCHANGED given
           /\ IF n > 0 THEN Goes(ce, "process") ELSE Blocks(ce) \/ Ends(ce, "ECONNRESET")
    BY <1>4 DEF sendFromClientBuffer
  <2>2. /\ ce' \in Event /\ WellFormed(ce') /\ Same(ce', ce) /\ pc' \in {"process", "ended", "blocked"}
        /\ pc' = "ended" => ce'.status # "COMPLETE"
    BY <1>1, <2>1, SendStops DEF Goes
  <2>3. QED
    BY <1>1, <2>1, <2>2, SendRest
<1>5. QED
  BY <1>2, <1>3, <1>4

\* An event that is to flush.
LEMMA FlushThenFacts ==
    ASSUME NEW c \in Event, NEW next \in {"done", "more"}, FlushThen(c, next)
    PROVE  /\ pc' = "flush" /\ ce' \in Event /\ ce'.type = c.type /\ ce'.flags = c.flags /\ ce'.pattern = c.pattern
           /\ ce'.size = c.size /\ ce'.start = c.start /\ ce'.count = c.count /\ ce'.transferred = c.transferred
           /\ ce'.then = next /\ (ce'.again <=> c.again) /\ (ce'.done <=> c.done)
<1>1. pc' = "flush" /\ ce' = [c EXCEPT !.then = next]
  BY DEF FlushThen, Goes
<1>2. ce' \in Event
  BY <1>1 DEF Event
<1>3. QED
  BY <1>1, <1>2 DEF Event

\* The send side after a turn of writeFromCB.
LEMMA CallbackFrame ==
    ASSUME DataInv, pc = "process", ce.type = "WRITE_FROM_CB", UNCHANGED <<recvVars, sent, wire>>,
           given' \in Nat, given <= given', given' - sent <= IOBSize,
           ce' \in Event, ce'.type = ce.type, ce'.flags = ce.flags, ce'.pattern = ce.pattern, ce'.size = ce.size,
           ce'.start = ce.start, ~ce'.again, pc' \in {"ended", "process", "flush"},
           ce'.size # 0 => ce'.count = ce'.size /\ ce'.transferred <= ce'.size,
           ce'.done /\ pc' # "ended" => ce'.count # 0 /\ ce'.transferred >= ce'.count,
           pc' = "flush" /\ ce'.then = "done" => ce'.count = 0 \/ ce'.transferred >= ce'.count,
           pc' = "ended" => ce'.status # "COMPLETE"
    PROVE  DataInv'
<1>1. WellFormed(ce')
  <2>1. WellFormed(ce)
    BY Numbers DEF DataInv
  <2>2. QED
    BY <2>1 DEF WellFormed
<1>2. sent' \in 0 .. given' /\ given' - sent' <= IOBSize
  BY Numbers DEF DataInv
<1>3. Typed' /\ ReadPart'
  BY <1>1, <1>2, SendFrame DEF Send
<1>4. Writing'
  BY <1>2 DEF Writing
<1>5. WriteMeaning'
  <2>1. wire' = Bytes(0, sent)'
    BY DEF DataInv, WritePart, WriteMeaning, Bytes
  <2>2. ce'.size # 0 => ce'.transferred <= ce'.size
    OBVIOUS
  <2>3. QED
    BY <2>1, <2>2 DEF WriteMeaning
<1>6. QED
  BY <1>3, <1>4, <1>5 DEF DataInv, WritePart

\* The top of writeFromCB.
LEMMA WriteFromCBInv ==
    ASSUME DataInv, writeFromCB
    PROVE  DataInv'
<1> DEFINE space == IOBSize - Unsent
           request == IF ce.count = 0 THEN space ELSE Min({space, ce.count - ce.transferred})
<1>1. /\ pc = "process" /\ ce.type = "WRITE_FROM_CB" /\ UNCHANGED <<recvVars, sent, wire>>
      /\ ce \in Event /\ WellFormed(ce) /\ given \in Nat /\ sent \in Nat /\ sent <= given /\ IOBSize \in Nat
      /\ ce.size \in Nat /\ ce.count \in Nat /\ ce.transferred \in Nat
  BY Numbers DEF DataInv, writeFromCB
<1>2. /\ given - sent <= IOBSize
      /\ ce.size # 0 => ce.count = ce.size /\ ce.transferred <= ce.size
      /\ ce.done => ce.count # 0 /\ ce.transferred >= ce.count
      /\ ~ce.again
  BY <1>1 DEF DataInv, WritePart, Writing, WriteMeaning
<1>3. given <= given
  BY <1>1
<1>4. CASE \/ space = 0 /\ FlushThen(ce, "more") /\ UNCHANGED given
           \/ space > 0 /\ ce.count # 0 /\ ce.transferred >= ce.count /\ FlushThen(ce, "done") /\ UNCHANGED given
  <2>1. PICK next \in {"done", "more"} : /\ FlushThen(ce, next) /\ UNCHANGED given
                                         /\ next = "done" => ce.transferred >= ce.count
    BY <1>4
  <2>2. /\ pc' = "flush" /\ ce' \in Event /\ ce'.type = ce.type /\ ce'.flags = ce.flags /\ ce'.pattern = ce.pattern
        /\ ce'.size = ce.size /\ ce'.start = ce.start /\ ce'.count = ce.count /\ ce'.transferred = ce.transferred
        /\ ce'.then = next /\ (ce'.again <=> ce.again) /\ (ce'.done <=> ce.done)
    BY <1>1, <2>1, FlushThenFacts
  <2>3. ~ce'.again /\ (ce'.done => ce.count # 0 /\ ce.transferred >= ce.count)
    BY <1>2, <2>2
  <2>4. QED
    BY <1>1, <1>2, <1>3, <2>1, <2>2, <2>3, CallbackFrame
<1>5. ASSUME space # 0, ~(space > 0 /\ ce.count # 0 /\ ce.transferred >= ce.count),
             NEW n \in 0 .. request + 1, NEW r \in Response,
             IF n > request
             THEN Ends(ce, "ECONNIOCBLONG") /\ UNCHANGED given
             ELSE /\ given' = given + n
                  /\ AfterWriteCallback(
                         [ce EXCEPT !.transferred = @ + n, !.again = @ \/ ce.done,
                                    !.done = @ \/ (r = "DONE" /\ ce.transferred + n > 0)], r)
      PROVE  DataInv'
  <2>1. /\ space \in Nat /\ space = IOBSize - (given - sent) /\ space > 0
        /\ ce.count = 0 \/ ce.transferred < ce.count
    BY <1>1, <1>2, <1>5 DEF Unsent
  <2>2. ~ce.done
    <3>1. ce.count # 0 => ~(ce.transferred >= ce.count)
      BY <1>1, <2>1
    <3>2. QED
      BY <1>2, <3>1
  <2>3. /\ request \in Nat /\ request <= space
        /\ ce.count # 0 => request <= ce.count - ce.transferred
    <3>1. CASE ce.count = 0
      BY <2>1, <3>1
    <3>2. CASE ce.count # 0
      <4>1. ce.count - ce.transferred \in Nat
        BY <1>1, <2>1, <3>2
      <4> HIDE DEF space
      <4>2. Min({space, ce.count - ce.transferred}) = IF space <= ce.count - ce.transferred THEN space ELSE ce.count - ce.transferred
        BY <2>1, <4>1, MinPair
      <4>3. QED
        BY <2>1, <3>2, <4>1, <4>2
    <3>3. QED
      BY <3>1, <3>2
  <2> HIDE DEF space, request
  <2>4. CASE n > request
    <3>1. Ends(ce, "ECONNIOCBLONG") /\ UNCHANGED given /\ "ECONNIOCBLONG" \in Error
      BY <1>5, <2>4 DEF Error
    <3>2. pc' = "ended" /\ ce' \in Event /\ Same(ce', ce) /\ ce'.status # "COMPLETE"
      BY <1>1, <3>1, EndsFacts
    <3>3. ~ce'.again
      BY <1>2, <3>2 DEF Same
    <3>4. QED
      BY <1>1, <1>2, <1>3, <3>1, <3>2, <3>3, CallbackFrame DEF Same
  <2>5. CASE ~(n > request)
    <3> DEFINE a == ce.again \/ ce.done
               b == ce.done \/ (r = "DONE" /\ ce.transferred + n > 0)
               c == [ce EXCEPT !.transferred = ce.transferred + n, !.again = a, !.done = b]
    <3>1. given' = given + n /\ AfterWriteCallback(c, r)
      BY <1>5, <2>5
    <3>2. /\ n \in Nat /\ n <= request /\ ce.transferred + n \in Nat
          /\ ce.count # 0 => ce.transferred + n <= ce.count
          /\ given' \in Nat /\ given <= given' /\ given' - sent <= IOBSize
      BY <1>1, <1>5, <2>1, <2>3, <2>5, <3>1
    <3>3. ~a /\ (b <=> r = "DONE" /\ ce.transferred + n > 0) /\ a \in BOOLEAN /\ b \in BOOLEAN
      BY <1>2, <2>2, Zenon
    <3>4. /\ c \in Event /\ c.type = ce.type /\ c.flags = ce.flags /\ c.pattern = ce.pattern /\ c.size = ce.size
          /\ c.start = ce.start /\ c.count = ce.count /\ c.transferred = ce.transferred + n
          /\ (c.again <=> a) /\ (c.done <=> b)
      <4> HIDE DEF a, b
      <4>1. ce \in Event /\ ce.transferred + n \in Nat /\ a \in BOOLEAN /\ b \in BOOLEAN
        BY <1>1, <3>2, <3>3
      <4>2. c \in Event
        BY <4>1 DEF Event
      <4>3. /\ c.type = ce.type /\ c.flags = ce.flags /\ c.pattern = ce.pattern /\ c.size = ce.size
            /\ c.start = ce.start /\ c.count = ce.count /\ c.transferred = ce.transferred + n
        BY <4>1 DEF Event
      <4>4. (c.again <=> a) /\ (c.done <=> b)
        BY <4>1 DEF Event
      <4>5. QED
        BY <4>2, <4>3, <4>4
    <3>5. ~c.again /\ (c.done <=> r = "DONE" /\ ce.transferred + n > 0)
      BY <3>3, <3>4, Zenon
    <3>6. c.size # 0 => c.count = c.size /\ c.transferred <= c.size
      BY <1>2, <3>2, <3>4
    <3>7. WellFormed(c)
      BY <1>1, <3>4 DEF WellFormed
    <3> HIDE DEF a, b, c
    <3>8. CASE c.count # 0 /\ c.transferred >= c.count
      <4>1. FlushThen(c, "done")
        BY <3>1, <3>8 DEF AfterWriteCallback
      <4>2. /\ pc' = "flush" /\ ce' \in Event /\ ce'.type = c.type /\ ce'.flags = c.flags /\ ce'.pattern = c.pattern
            /\ ce'.size = c.size /\ ce'.start = c.start /\ ce'.count = c.count /\ ce'.transferred = c.transferred
            /\ ce'.then = "done" /\ (ce'.again <=> c.again)
        BY <3>4, <4>1, FlushThenFacts
      <4>3. ~ce'.again
        BY <3>5, <4>2
      <4>4. QED
        BY <1>1, <3>2, <3>4, <3>6, <3>8, <4>2, <4>3, CallbackFrame
    <3>9. ASSUME Goes(c, "process") \/ FlushThen(c, "more"), r # "DONE"
          PROVE  DataInv'
      <4>1. CASE Goes(c, "process")
        <5>1. ce' = c /\ pc' = "process"
          BY <4>1 DEF Goes
        <5>2. ~ce'.again /\ ~ce'.done
          BY <3>5, <3>9, <5>1
        <5>3. QED
          BY <1>1, <3>2, <3>4, <3>6, <5>1, <5>2, CallbackFrame
      <4>2. CASE FlushThen(c, "more")
        <5>1. /\ pc' = "flush" /\ ce' \in Event /\ ce'.type = c.type /\ ce'.flags = c.flags /\ ce'.pattern = c.pattern
              /\ ce'.size = c.size /\ ce'.start = c.start /\ ce'.count = c.count /\ ce'.transferred = c.transferred
              /\ ce'.then = "more" /\ (ce'.again <=> c.again) /\ (ce'.done <=> c.done)
          BY <3>4, <4>2, FlushThenFacts
        <5>2. ~ce'.again /\ ~ce'.done
          BY <3>5, <3>9, <5>1
        <5>3. QED
          BY <1>1, <3>2, <3>4, <3>6, <5>1, <5>2, CallbackFrame
      <4>3. QED
        BY <3>9, <4>1, <4>2
    <3>10. ASSUME NEW e \in Error, e # "none", Ends(c, e)
           PROVE  DataInv'
      <4>1. pc' = "ended" /\ ce' \in Event /\ Same(ce', c) /\ ce'.status # "COMPLETE"
        BY <3>4, <3>7, <3>10, EndsFacts
      <4>2. ~ce'.again
        BY <3>5, <4>1 DEF Same
      <4>3. /\ ce'.type = c.type /\ ce'.flags = c.flags /\ ce'.pattern = c.pattern /\ ce'.size = c.size
            /\ ce'.start = c.start /\ ce'.count = c.count /\ ce'.transferred = c.transferred
        BY <4>1 DEF Same
      <4>4. QED
        BY <1>1, <3>2, <3>4, <3>6, <4>1, <4>2, <4>3, CallbackFrame
    <3>11. ASSUME CallbackDone(c), c.count = 0, r = "DONE"
           PROVE  DataInv'
      <4> DEFINE d == [c EXCEPT !.count = c.transferred]
      <4>1. /\ d \in Event /\ d.type = c.type /\ d.flags = c.flags /\ d.pattern = c.pattern /\ d.size = c.size
            /\ d.start = c.start /\ d.count = c.transferred /\ d.transferred = c.transferred
            /\ (d.again <=> c.again) /\ (d.done <=> c.done)
        <5>1. c \in Event /\ c.transferred \in Nat
          BY <3>2, <3>4
        <5>2. d \in Event
          BY <5>1 DEF Event
        <5>3. QED
          BY <5>1, <5>2 DEF Event
      <4>2. FlushThen(d, "done")
        BY <3>11 DEF CallbackDone
      <4> HIDE DEF d
      <4>3. /\ pc' = "flush" /\ ce' \in Event /\ ce'.type = d.type /\ ce'.flags = d.flags /\ ce'.pattern = d.pattern
            /\ ce'.size = d.size /\ ce'.start = d.start /\ ce'.count = d.count /\ ce'.transferred = d.transferred
            /\ ce'.then = "done" /\ (ce'.again <=> d.again) /\ (ce'.done <=> d.done)
        BY <4>1, <4>2, FlushThenFacts
      <4>4. ~ce'.again /\ (ce'.done => ce.transferred + n > 0)
        BY <3>5, <4>1, <4>3
      <4>5. ce'.count = ce.transferred + n /\ ce'.transferred = ce.transferred + n /\ ce'.size = 0
        BY <3>4, <3>6, <3>11, <4>1, <4>3
      <4>6. ce'.transferred >= ce'.count /\ (ce'.done => ce'.count # 0)
        BY <3>2, <4>4, <4>5
      <4>7. QED
        BY <1>1, <3>2, <3>4, <4>1, <4>3, <4>4, <4>5, <4>6, CallbackFrame
    <3>12. {"ECONNIOCBSHORT", "ECONNIOMODE", "EIO"} \subseteq Error
      BY DEF Error
    <3>13. CASE ~(c.count # 0 /\ c.transferred >= c.count)
      <4>1. CASE r = "CONTINUE"
        BY <3>1, <3>9, <3>13, <4>1 DEF AfterWriteCallback
      <4>2. CASE r = "NEED_MORE_BUFFER"
        BY <3>1, <3>9, <3>13, <4>2 DEF AfterWriteCallback
      <4>3. CASE r = "DONE"
        BY <3>1, <3>10, <3>11, <3>12, <3>13, <4>3 DEF AfterWriteCallback
      <4>4. CASE r \in {"NEED_MORE_DATA", "ERROR"}
        BY <3>1, <3>10, <3>12, <3>13, <4>4 DEF AfterWriteCallback
      <4>5. QED
        BY <4>1, <4>2, <4>3, <4>4 DEF Response
    <3>14. QED
      BY <3>8, <3>13
  <2>6. QED
    BY <2>4, <2>5
<1>6. QED
  BY <1>4, <1>5 DEF writeFromCB

-----------------------------------------------------------------------------
(* Reads.                                                                  *)

\* Data is received, or the receive fails.
LEMMA FillInv ==
    ASSUME DataInv, fillRecvBuffer
    PROVE  DataInv'
<1> USE DEF fillRecvBuffer
<1>1. /\ Typed /\ ReadPart /\ WritePart /\ pc = "fill" /\ ce.type \in Conditional \cup Forward
      /\ ce \in Event /\ WellFormed(ce) /\ ce.type \notin Send /\ Same(ce, ce)
  BY Numbers DEF DataInv, Typed, Conditional, Forward, Send, Same
<1>2. /\ Len(text) \in Nat /\ rcvd \in Nat /\ freed \in Nat /\ plain \in Nat /\ IOBSize \in Nat
      /\ freed <= rcvd /\ rcvd <= Len(text) /\ plain <= rcvd /\ rcvd - freed <= IOBSize
      /\ secured \in BOOLEAN /\ over \in BOOLEAN /\ given \in Nat /\ sent \in 0 .. given
  BY <1>1, Numbers DEF Typed
<1>3. UNCHANGED <<text, freed, secured, plain, over, client, given, sent>> /\ UNCHANGED sendVars
  BY DEF sendVars
<1>4. /\ rcvd' \in 0 .. Len(text) /\ freed' \in 0 .. rcvd' /\ rcvd' - freed' <= IOBSize /\ plain' \in 0 .. rcvd'
      /\ rcvd' \in Nat /\ rcvd <= rcvd'
  <2>1. CASE UNCHANGED rcvd
    BY <1>2, <1>3, <2>1
  <2>2. CASE \E n \in 1 .. Min({Room, Len(text) - rcvd}) : rcvd' = rcvd + n
    <3>1. PICK n \in 1 .. Min({Room, Len(text) - rcvd}) : rcvd' = rcvd + n
      BY <2>2
    <3>2. Room \in Nat /\ Len(text) - rcvd \in Nat /\ Room = IOBSize - (rcvd - freed)
      BY <1>2 DEF Room, Used
    <3>3. Min({Room, Len(text) - rcvd}) = IF Room <= Len(text) - rcvd THEN Room ELSE Len(text) - rcvd
      BY <3>2, MinPair
    <3>4. n \in Nat /\ n <= Room /\ n <= Len(text) - rcvd
      BY <3>1, <3>2, <3>3
    <3>5. /\ Len(text) \in Nat /\ rcvd \in Nat /\ freed \in Nat /\ plain \in Nat /\ IOBSize \in Nat
          /\ freed <= rcvd /\ rcvd <= Len(text) /\ plain <= rcvd /\ freed' = freed /\ plain' = plain
      BY <1>2, <1>3
    <3>6. QED
      BY ONLY <3>1, <3>2, <3>4, <3>5
  <2>3. QED
    BY <2>1, <2>2
<1>5. ASSUME ce' \in Event, WellFormed(ce'), Same(ce', ce), pc' \in {"process", "blocked", "ended"},
             pc' = "ended" => ce'.status # "COMPLETE" /\ ce'.error # "EMSGSIZE"
      PROVE  DataInv'
  <2>1. Typed'
    BY <1>1, <1>2, <1>3, <1>4, <1>5, TypedStep
  <2>2. ReadPart'
    BY <1>1, <1>3, <1>4, <1>5, ReadFrame
  <2>3. WritePart'
    BY <1>1, <1>3, <1>5, WriteSame
  <2>4. QED
    BY <2>1, <2>2, <2>3 DEF DataInv
<1>6. CASE Goes(ce, "process")
  BY <1>1, <1>5, <1>6 DEF Goes
<1>7. CASE Blocks(ce)
  BY <1>1, <1>5, <1>7, BlocksFacts
<1>8. CASE \E e \in {"ENOBUFS", "ECONNCLOSEDBYPEER", "ECONNRESET"} : Ends(ce, e)
  <2>1. PICK e \in {"ENOBUFS", "ECONNCLOSEDBYPEER", "ECONNRESET"} : Ends(ce, e)
    BY <1>8
  <2>2. e \in Error /\ e \notin {"none", "EMSGSIZE"}
    BY DEF Error
  <2>3. QED
    BY <1>1, <1>5, <2>1, <2>2, EndsFacts
<1>9. CASE Room = 0 /\ UNCHANGED rcvd /\ ce.type \in Conditional /\ ce.flags \cap CD = {} /\ Ends([ce EXCEPT !.transferred = Used], "none")
  <2> DEFINE c == [ce EXCEPT !.transferred = Used]
  <2>1. Used \in Nat /\ Used = IOBSize
    BY <1>2, <1>9 DEF Room, Used
  <2>2. c \in Event
    BY <1>1, <2>1 DEF Event
  <2>3. /\ c.type = ce.type /\ c.mode = ce.mode /\ c.flags = ce.flags /\ c.pattern = ce.pattern /\ c.size = ce.size
        /\ c.start = ce.start /\ c.transferred = IOBSize /\ (c.again <=> ce.again)
    BY <1>1, <2>1 DEF Event
  <2>4. WellFormed(c)
    BY <1>1, <2>3 DEF WellFormed
  <2>5. Ends(c, "none") /\ "none" \in Error
    BY <1>9 DEF Error
  <2> HIDE DEF c
  <2>6. /\ pc' = "ended" /\ ce' \in Event /\ WellFormed(ce') /\ Same(ce', c)
        /\ ce'.error = "none" /\ ce'.status = "COMPLETE"
    BY <2>2, <2>4, <2>5, EndsFacts
  <2>7. /\ ce'.type = ce.type /\ ce'.flags = ce.flags /\ ce'.start = ce.start /\ ce'.transferred = IOBSize
        /\ (ce'.again <=> ce.again)
    BY <2>3, <2>6 DEF Same
  <2>8. Typed'
    BY <1>1, <1>2, <1>3, <1>4, <2>6, TypedStep
  <2>9. WritePart'
    <3>1. ~ce'.again /\ ce'.type \notin Send
      BY <1>1, <2>7 DEF WritePart, WriteMeaning
    <3>2. QED
      BY <1>1, <1>3, <3>1, WriteFrame
  <2>10. Handed' /\ Protected' /\ Reading' /\ Forwarding' /\ ForwardDone' /\ client' = Bytes(ce.start, Len(client))'
    <3>1. Handed' /\ Protected' /\ client' = Bytes(ce.start, Len(client))'
      BY <1>1, <1>3, <1>9, <2>7 DEF ReadPart, Handed, Protected
    <3>2. Reading' /\ Forwarding' /\ ForwardDone'
      BY <1>9, <2>6, <2>7 DEF Reading, Forwarding, ForwardDone, Conditional, Forward
    <3>3. QED
      BY <3>1, <3>2
  <2>11. ConditionalDone'
    <3>1. "DELETE" \notin ce'.flags /\ "COPY" \notin ce'.flags
      BY <1>9, <2>7 DEF CD
    <3>2. freed' = ce'.start /\ ce'.start \in Nat
      BY <1>1, <1>3, <1>9, <2>7, <3>1, Numbers DEF ReadPart, Reading
    <3>3. Taken' = 0
      BY <3>2 DEF Taken
    <3>4. ~(CD \subseteq ce'.flags)
      BY <3>1 DEF CD
    <3>5. QED
      BY <2>6, <2>7, <3>1, <3>3, <3>4 DEF ConditionalDone
  <2>12. QED
    BY <2>8, <2>9, <2>10, <2>11, Meaning DEF DataInv, ReadPart
<1>10. QED
  BY <1>6, <1>7, <1>8, <1>9

\* More is handed to the consumer.
LEMMA Copied ==
    ASSUME Typed, ReadPart, NEW n \in Nat, n = 0 \/ freed = ce.start + Len(client),
           client' = client \o Bytes(freed, n), ce'.start = ce.start, UNCHANGED <<secured, plain>>,
           freed' \in Nat, freed <= freed'
    PROVE  /\ client' \in Seq(Nat) /\ Len(client') = Len(client) + n /\ Len(client) \in Nat
           /\ client' = Bytes(ce.start, Len(client))'
           /\ Protected'
<1> DEFINE l == Len(client)
           b == Bytes(freed, n)
<1>1. /\ client \in Seq(Nat) /\ client = Bytes(ce.start, l) /\ ce.start <= freed
      /\ secured => plain <= freed /\ \A i \in DOMAIN client : client[i] > plain
  BY DEF ReadPart, Handed, Protected
<1>2. l \in Nat /\ ce.start \in Nat /\ freed \in Nat /\ plain \in Nat
  <2>1. l \in Nat
    BY <1>1
  <2>2. QED
    BY <2>1, Numbers
<1>3. b \in Seq(Nat) /\ Len(b) = n /\ (\A i \in 1 .. n : b[i] = freed + i) /\ (n = 0 => b = <<>>)
  BY <1>2, BytesFacts
<1>4. client' = client \o b
  OBVIOUS
<1> HIDE DEF b
<1>5. client' \in Seq(Nat) /\ Len(client') = l + n
  <2>1. \A s, t \in Seq(Nat) : s \o t \in Seq(Nat) /\ Len(s \o t) = Len(s) + Len(t)
    OBVIOUS
  <2>2. client \in Seq(Nat) /\ b \in Seq(Nat) /\ Len(b) = n
    BY <1>1, <1>3
  <2>3. client' \in Seq(Nat) /\ Len(client') = Len(client) + Len(b)
    BY <1>4, <2>1, <2>2, Zenon
  <2>4. QED
    BY <2>2, <2>3
<1>6. client' = Bytes(ce.start, l + n)
  <2>1. CASE n = 0
    <3>1. client' = client
      BY <1>1, <1>3, <1>4, <2>1
    <3>2. l + n = l
      BY <1>2, <2>1
    <3>3. QED
      BY <1>1, <3>1, <3>2
  <2>2. CASE freed = ce.start + l
    <3>1. Bytes(ce.start, l) \o Bytes(ce.start + l, n) = Bytes(ce.start, l + n)
      BY <1>2, BytesJoin
    <3>2. QED
      BY <1>1, <1>4, <2>2, <3>1 DEF b
  <2>3. QED
    BY <2>1, <2>2
<1>7. client' = Bytes(ce.start, Len(client))'
  BY <1>5, <1>6, Zenon DEF Bytes
<1>8. ASSUME secured', NEW i \in DOMAIN client'
      PROVE  client'[i] > plain
  <2>1. i \in 1 .. Len(client')
    BY <1>5, <1>8
  <2>2. i \in 1 .. l + n
    BY <1>5, <2>1
  <2>3. CASE i \in 1 .. l
    <3>1. i \in DOMAIN client /\ client'[i] = client[i]
      BY <1>1, <1>3, <1>4, <2>3
    <3>2. QED
      BY <1>1, <1>8, <3>1
  <2>4. CASE i \notin 1 .. l
    <3>1. i \in Nat /\ i > l /\ i - l \in 1 .. n
      BY <1>2, <2>2, <2>4
    <3>2. client'[i] = b[i - l]
      BY <1>1, <1>3, <1>4, <2>2, <2>4
    <3>3. client'[i] = freed + (i - l)
      BY <1>3, <3>1, <3>2
    <3>4. plain <= freed
      BY <1>1, <1>8
    <3>5. QED
      BY <1>2, <3>1, <3>3, <3>4
  <2>5. QED
    BY <2>3, <2>4
<1>9. Protected'
  <2>1. secured' => plain <= freed'
    BY <1>1, <1>2
  <2>2. QED
    BY <1>8, <2>1 DEF Protected
<1>10. QED
  BY <1>2, <1>5, <1>7, <1>9

\* A step that hands nothing over.
LEMMA HandNone ==
    ASSUME DataInv, UNCHANGED <<client, freed>>
    PROVE  Hand(0)
<1>1. client \in Seq(Nat) /\ freed \in Nat
  BY Numbers DEF DataInv, ReadPart, Handed
<1>2. Bytes(freed, 0) = <<>>
  BY <1>1, BytesFacts
<1>3. QED
  BY <1>1, <1>2 DEF Hand

\* A step of a read to a callback or another connection.
LEMMA ForwardStep ==
    ASSUME DataInv, pc = "process", ce.type \in Forward, UNCHANGED <<text, rcvd, secured, plain, over, sendVars>>,
           NEW n \in Nat, freed + n <= rcvd, Hand(n),
           ce' \in Event, WellFormed(ce'), ce'.type = ce.type, ce'.size = ce.size, ce'.start = ce.start,
           ce'.count = ce.count, ce'.transferred = ce.transferred + n, ce'.again <=> ce.again,
           ce.size # 0 => ce.transferred + n <= ce.size,
           pc' \in {"ended", "process", "fill"},
           pc' = "ended" /\ ce'.status = "COMPLETE" /\ ce.size # 0 => ce.transferred + n = ce.size
    PROVE  DataInv'
<1>1. /\ Typed /\ ReadPart /\ WritePart
      /\ freed = ce.start + Len(client) /\ ce.transferred = Len(client) /\ ce.count = ce.size
  BY DEF DataInv, ReadPart, Forwarding
<1>2. /\ rcvd \in Nat /\ freed \in Nat /\ plain \in Nat /\ rcvd - freed <= IOBSize /\ IOBSize \in Nat /\ ce.start \in Nat
      /\ plain \in 0 .. rcvd /\ rcvd \in 0 .. Len(text) /\ secured \in BOOLEAN /\ over \in BOOLEAN
      /\ given \in Nat /\ sent \in 0 .. given
  BY <1>1, Numbers DEF Typed
<1>3. client' = client \o Bytes(freed, n) /\ freed' = freed + n /\ freed' \in Nat /\ freed <= freed'
  BY <1>2 DEF Hand
<1>4. /\ client' \in Seq(Nat) /\ Len(client') = Len(client) + n /\ Len(client) \in Nat
      /\ client' = Bytes(ce.start, Len(client))'
      /\ Protected'
  BY <1>1, <1>3, Copied
<1>5. Typed'
  <2>1. freed' \in 0 .. rcvd' /\ rcvd' - freed' <= IOBSize
    BY <1>2, <1>3
  <2>2. QED
    BY <1>1, <1>2, <2>1, TypedStep DEF sendVars
<1>6. ce'.type \in Forward /\ ce'.type \notin Conditional /\ ce'.type \notin Send
  BY DEF Forward, Conditional, Send
<1> DEFINE l == Len(client)
           k == Len(client')
<1>7. l \in Nat /\ k = l + n /\ freed = ce.start + l /\ ce.transferred = l
  BY <1>1, <1>4
<1>8. /\ freed' = ce'.start + k /\ ce'.transferred = k /\ ce'.start <= freed' /\ freed' - ce'.start = k
      /\ ce'.start + k <= rcvd'
  <2> HIDE DEF l, k
  <2>1. freed' = (ce.start + l) + n /\ ce'.start = ce.start /\ ce'.transferred = l + n
    BY <1>3, <1>7
  <2>2. l \in Nat /\ ce.start \in Nat /\ k = l + n
    BY <1>2, <1>7
  <2>3. \A x, y, z, w \in Nat : z = x + y => (w + x) + y = w + z /\ w <= w + z /\ (w + z) - w = z
    OBVIOUS
  <2>4. k \in Nat
    BY <2>2
  <2>5. freed' = ce.start + k
    BY <2>1, <2>2, <2>3, <2>4
  <2>6. ce.start + k <= rcvd'
    BY <1>3, <2>5
  <2>7. QED
    BY <2>1, <2>2, <2>3, <2>4, <2>5, <2>6
<1>9. Handed' /\ Reading'
  BY <1>4, <1>6, <1>8 DEF Handed, Reading
<1>10. Forwarding'
  BY <1>1, <1>8 DEF Forwarding
<1>11. ConditionalDone'
  BY <1>6 DEF ConditionalDone
<1>12. ForwardDone'
  <2>1. Taken' = Len(client')
    BY <1>8 DEF Taken
  <2>2. ce'.size # 0 => /\ Len(client') <= ce'.size
                        /\ pc' = "ended" /\ Complete' => Len(client') = ce'.size
    BY <1>8 DEF Complete
  <2>3. QED
    BY <1>8, <2>1, <2>2 DEF ForwardDone
<1>13. WritePart'
  <2>1. ~ce'.again
    BY <1>1 DEF WritePart, WriteMeaning
  <2>2. QED
    BY <1>1, <1>6, <2>1, WriteFrame
<1>14. QED
  BY <1>4, <1>5, <1>9, <1>10, <1>11, <1>12, <1>13, Meaning DEF DataInv, ReadPart

\* The event after it has handed over n bytes.
LEMMA HandedEvent ==
    ASSUME NEW c \in Event, WellFormed(c), NEW n \in Nat, NEW d, d = [c EXCEPT !.transferred = c.transferred + n]
    PROVE  /\ d \in Event /\ WellFormed(d) /\ d.type = c.type /\ d.size = c.size
           /\ d.start = c.start /\ d.count = c.count /\ d.transferred = c.transferred + n /\ (d.again <=> c.again)
<1>1. c.transferred + n \in Nat
  BY DEF Event
<1>2. d \in Event
  BY <1>1 DEF Event
<1>3. /\ d.type = c.type /\ d.flags = c.flags /\ d.pattern = c.pattern /\ d.size = c.size
      /\ d.start = c.start /\ d.count = c.count /\ d.transferred = c.transferred + n /\ (d.again <=> c.again)
  BY <1>1 DEF Event
<1>4. WellFormed(d)
  BY <1>3 DEF WellFormed
<1>5. QED
  BY <1>2, <1>3, <1>4

\* A read to a callback.
LEMMA ReadToCallbackInv ==
    ASSUME DataInv, readToCallbackProcess
    PROVE  DataInv'
<1> USE DEF readToCallbackProcess
<1> DEFINE offered == IF ce.count = 0 THEN Used ELSE Min({Used, ce.count - ce.transferred})
<1>1. /\ pc = "process" /\ ce.type \in Forward /\ ce \in Event /\ WellFormed(ce)
      /\ UNCHANGED <<text, rcvd, secured, plain, over, sendVars>>
      /\ rcvd \in Nat /\ freed \in Nat /\ freed <= rcvd
      /\ ce.size \in Nat /\ ce.count \in Nat /\ ce.transferred \in Nat /\ ce.count = ce.size
      /\ ce.size # 0 => ce.transferred <= ce.size
  BY Numbers DEF DataInv, ReadPart, Forwarding, Forward
<1>2. ASSUME UNCHANGED <<client, freed>>, ce' \in Event, WellFormed(ce'), Same(ce', ce), pc' \in {"ended", "fill"},
             pc' = "ended" => ce'.status # "COMPLETE"
      PROVE  DataInv'
  <2>1. Hand(0)
    BY <1>2, HandNone
  <2>2. freed + 0 <= rcvd /\ ce.transferred + 0 = ce.transferred /\ 0 \in Nat
    BY <1>1
  <2>3. QED
    BY <1>1, <1>2, <2>1, <2>2, ForwardStep DEF Same
<1>3. CASE Used = 0
  BY <1>1, <1>2, <1>3 DEF Goes, Same
<1>4. CASE Used # 0
  <2>1. Used \in Nat /\ Used = rcvd - freed
    BY <1>1 DEF Used
  <2>2. PICK n \in 0 .. offered + 1, r \in Response :
           IF n > offered
           THEN Ends(ce, "ECONNIOCBLONG") /\ UNCHANGED <<client, freed>>
           ELSE /\ Hand(n)
                /\ AfterCallback([ce EXCEPT !.transferred = @ + n], n, offered, r)
    BY <1>4
  <2>3. /\ offered \in Nat /\ offered <= Used
        /\ ce.count # 0 => offered <= ce.count - ce.transferred
    <3>1. CASE ce.count = 0
      BY <2>1, <3>1
    <3>2. CASE ce.count # 0
      <4>1. ce.count - ce.transferred \in Nat
        BY <1>1, <3>2
      <4>2. Min({Used, ce.count - ce.transferred}) = IF Used <= ce.count - ce.transferred THEN Used ELSE ce.count - ce.transferred
        BY <2>1, <4>1, MinPair
      <4>3. QED
        BY <2>1, <3>2, <4>1, <4>2
    <3>3. QED
      BY <3>1, <3>2
  <2> HIDE DEF offered
  <2>4. CASE n > offered
    <3>1. Ends(ce, "ECONNIOCBLONG") /\ UNCHANGED <<client, freed>> /\ "ECONNIOCBLONG" \in Error
      BY <2>2, <2>4 DEF Error
    <3>2. pc' = "ended" /\ ce' \in Event /\ WellFormed(ce') /\ Same(ce', ce) /\ ce'.status # "COMPLETE"
      BY <1>1, <3>1, EndsFacts
    <3>3. QED
      BY <1>2, <3>1, <3>2
  <2>5. CASE ~(n > offered)
    <3> DEFINE c == [ce EXCEPT !.transferred = ce.transferred + n]
    <3>1. Hand(n) /\ AfterCallback(c, n, offered, r)
      BY <2>2, <2>5
    <3>2. /\ n \in Nat /\ freed + n <= rcvd
          /\ ce.count # 0 => ce.transferred + n <= ce.count
      BY <1>1, <2>1, <2>2, <2>3, <2>5
    <3>3. /\ c \in Event /\ WellFormed(c) /\ c.type = ce.type /\ c.size = ce.size
          /\ c.start = ce.start /\ c.count = ce.count /\ c.transferred = ce.transferred + n /\ (c.again <=> ce.again)
      <4>1. c = [ce EXCEPT !.transferred = ce.transferred + n]
        OBVIOUS
      <4> HIDE DEF c
      <4>2. QED
        BY <1>1, <3>2, <4>1, HandedEvent
    <3> HIDE DEF c
    <3>4. ASSUME ce' \in Event, WellFormed(ce'), Same(ce', c), pc' \in {"ended", "process", "fill"},
                 pc' = "ended" /\ ce'.status = "COMPLETE" /\ ce.size # 0 => ce.transferred + n = ce.size
          PROVE  DataInv'
      BY <1>1, <3>1, <3>2, <3>3, <3>4, ForwardStep DEF Same
    <3>5. CASE Goes(c, "process") \/ Goes(c, "fill")
      BY <3>3, <3>4, <3>5 DEF Goes, Same
    <3>6. CASE \E e \in {"ECONNIOCBSHORT", "ENOBUFS", "ECONNIOMODE", "EIO"} : Ends(c, e)
      <4>1. PICK e \in {"ECONNIOCBSHORT", "ENOBUFS", "ECONNIOMODE", "EIO"} : Ends(c, e)
        BY <3>6
      <4>2. e \in Error /\ e # "none"
        BY DEF Error
      <4>3. QED
        BY <3>3, <3>4, <4>1, <4>2, EndsFacts
    <3>7. CASE Ends(c, "none") /\ (c.count # 0 => c.transferred >= c.count)
      <4>1. "none" \in Error
        BY DEF Error
      <4>2. ce.size # 0 => ce.transferred + n = ce.size
        BY <1>1, <3>2, <3>3, <3>7
      <4>3. QED
        BY <3>3, <3>4, <3>7, <4>1, <4>2, EndsFacts
    <3>8. QED
      <4>1. CASE c.count # 0 /\ c.transferred >= c.count
        BY <3>1, <3>7, <4>1 DEF AfterCallback
      <4>2. CASE ~(c.count # 0 /\ c.transferred >= c.count)
        <5>1. CASE r = "CONTINUE"
          BY <3>1, <3>5, <4>2, <5>1 DEF AfterCallback
        <5>2. CASE r = "DONE"
          BY <3>1, <3>6, <3>7, <4>2, <5>2 DEF AfterCallback
        <5>3. CASE r = "NEED_MORE_DATA"
          BY <3>1, <3>5, <3>6, <4>2, <5>3 DEF AfterCallback
        <5>4. CASE r \in {"NEED_MORE_BUFFER", "ERROR"}
          BY <3>1, <3>6, <4>2, <5>4 DEF AfterCallback
        <5>5. QED
          BY <5>1, <5>2, <5>3, <5>4 DEF Response
      <4>3. QED
        BY <4>1, <4>2
  <2>6. QED
    BY <2>4, <2>5
<1>5. QED
  BY <1>3, <1>4

\* A read to another connection.
LEMMA ReadToConnInv ==
    ASSUME DataInv, readToConnProcess
    PROVE  DataInv'
<1> USE DEF readToConnProcess
<1> DEFINE needed == ce.count - ce.transferred
           n == Min({Used, needed})
<1>1. /\ pc = "process" /\ ce.type \in Forward /\ ce \in Event /\ WellFormed(ce)
      /\ UNCHANGED <<text, rcvd, secured, plain, over, sendVars>>
      /\ rcvd \in Nat /\ freed \in Nat /\ freed <= rcvd
      /\ ce.size \in Nat /\ ce.count \in Nat /\ ce.transferred \in Nat /\ ce.count = ce.size
      /\ ce.size # 0 => ce.transferred <= ce.size
  BY Numbers DEF DataInv, ReadPart, Forwarding, Forward
<1>2. ce.size # 0
  BY <1>1 DEF WellFormed
<1>3. needed \in Nat /\ Used \in Nat /\ Used = rcvd - freed
  BY <1>1, <1>2 DEF Used
<1>4. n \in Nat /\ n <= Used /\ n <= needed
  <2> HIDE DEF needed
  <2>1. n = IF Used <= needed THEN Used ELSE needed
    BY <1>3, MinPair
  <2>2. QED
    BY <1>3, <2>1
<1>5. /\ \/ needed = 0 /\ Ends(ce, "none") /\ UNCHANGED <<client, freed>>
         \/ Goes(ce, "fill") /\ UNCHANGED <<client, freed>>
         \/ Hand(n) /\ Goes([ce EXCEPT !.transferred = ce.transferred + n], "process")
         \/ \E k \in 0 .. n : Hand(k) /\ Ends([ce EXCEPT !.transferred = ce.transferred + k], "EIO")
  OBVIOUS
<1>6. freed + 0 <= rcvd /\ ce.transferred + 0 = ce.transferred /\ 0 \in Nat /\ (needed = 0 => ce.transferred = ce.size)
  BY <1>1
<1>7. CASE needed = 0 /\ Ends(ce, "none") /\ UNCHANGED <<client, freed>>
  <2>1. "none" \in Error
    BY DEF Error
  <2>2. pc' = "ended" /\ ce' \in Event /\ WellFormed(ce') /\ Same(ce', ce)
    BY <1>1, <1>7, <2>1, EndsFacts
  <2>3. Hand(0)
    BY <1>7, HandNone
  <2>4. QED
    BY <1>1, <1>6, <1>7, <2>2, <2>3, ForwardStep DEF Same
<1>8. CASE Goes(ce, "fill") /\ UNCHANGED <<client, freed>>
  <2>1. Hand(0)
    BY <1>8, HandNone
  <2>2. ce' = ce /\ pc' = "fill"
    BY <1>8 DEF Goes
  <2>3. QED
    BY <1>1, <1>6, <2>1, <2>2, ForwardStep
<1>9. ASSUME NEW k \in Nat, k <= n, Hand(k)
      PROVE  /\ Goes([ce EXCEPT !.transferred = ce.transferred + k], "process") => DataInv'
             /\ Ends([ce EXCEPT !.transferred = ce.transferred + k], "EIO") => DataInv'
  <2> DEFINE c == [ce EXCEPT !.transferred = ce.transferred + k]
  <2>1. freed + k <= rcvd /\ ce.transferred + k <= ce.size
    <3> HIDE DEF n
    <3>1. QED
      BY <1>1, <1>3, <1>4, <1>9
  <2>2. /\ c \in Event /\ WellFormed(c) /\ c.type = ce.type /\ c.size = ce.size
        /\ c.start = ce.start /\ c.count = ce.count /\ c.transferred = ce.transferred + k /\ (c.again <=> ce.again)
    <3>1. c = [ce EXCEPT !.transferred = ce.transferred + k]
      OBVIOUS
    <3> HIDE DEF c
    <3>2. QED
      BY <1>1, <3>1, HandedEvent
  <2> HIDE DEF c
  <2>3. ASSUME Goes(c, "process")
        PROVE  DataInv'
    <3>1. ce' = c /\ pc' = "process"
      BY <2>3 DEF Goes
    <3>2. QED
      BY <1>1, <1>9, <2>1, <2>2, <3>1, ForwardStep
  <2>4. ASSUME Ends(c, "EIO")
        PROVE  DataInv'
    <3>1. "EIO" \in Error
      BY DEF Error
    <3>2. pc' = "ended" /\ ce' \in Event /\ WellFormed(ce') /\ Same(ce', c) /\ ce'.status # "COMPLETE"
      BY <2>2, <2>4, <3>1, EndsFacts
    <3>3. QED
      BY <1>1, <1>9, <2>1, <2>2, <3>2, ForwardStep DEF Same
  <2>5. QED
    BY <2>3, <2>4 DEF c
<1>10. CASE Hand(n) /\ Goes([ce EXCEPT !.transferred = ce.transferred + n], "process")
  <2> HIDE DEF n
  <2>1. n <= n
    BY <1>4
  <2>2. QED
    BY <1>4, <1>9, <1>10, <2>1
<1>11. CASE \E k \in 0 .. n : Hand(k) /\ Ends([ce EXCEPT !.transferred = ce.transferred + k], "EIO")
  <2> HIDE DEF n
  <2>1. PICK k \in 0 .. n : Hand(k) /\ Ends([ce EXCEPT !.transferred = ce.transferred + k], "EIO")
    BY <1>11
  <2>2. k \in Nat /\ k <= n
    BY <1>4
  <2>3. QED
    BY <1>9, <2>1, <2>2
<1>12. QED
  BY <1>5, <1>7, <1>8, <1>10, <1>11

-----------------------------------------------------------------------------
(* Conditional reads.                                                      *)

\* A part of a stream.
LEMMA PartFacts ==
    ASSUME NEW s \in Seq(Symbol), NEW a \in Nat, NEW b \in Nat, a <= b, b <= Len(s)
    PROVE  /\ SubSeq(s, a + 1, b) \in Seq(Symbol) /\ Len(SubSeq(s, a + 1, b)) = b - a
           /\ \A k \in 1 .. b - a : SubSeq(s, a + 1, b)[k] = s[a + k]
<1>1. a + 1 \in Nat /\ Len(s) \in Nat
  OBVIOUS
<1>2. /\ SubSeq(s, a + 1, b) \in Seq(Symbol) /\ Len(SubSeq(s, a + 1, b)) = b - a
  BY <1>1
<1>3. ASSUME NEW k \in 1 .. b - a
      PROVE  SubSeq(s, a + 1, b)[k] = s[a + k]
  <2>1. ((a + 1) + k) - 1 = a + k
    BY <1>3
  <2>2. SubSeq(s, a + 1, b)[k] = s[((a + 1) + k) - 1]
    BY <1>1, <1>3
  <2>3. QED
    BY <2>1, <2>2
<1>4. QED
  BY <1>2, <1>3

\* What the search of the receive buffer says about the stream.
LEMMA ConditionFacts ==
    ASSUME DataInv, pc = "process", ce.type \in Conditional, NEW m, m = EventConditionSatisfied
    PROVE  /\ m.match \in BOOLEAN /\ m.count \in Nat /\ m.len \in Nat /\ m.count + m.len <= rcvd - freed
           /\ Data \in Nat /\ Length \in Nat /\ Data <= Len(Rest) /\ Place(Rest, ce.pattern) = Data + 1
           /\ ~m.match => Data >= Taken + m.count
           /\ ce.type = "READ_UNTIL_PATTERN" /\ m.match =>
                  Data = Taken + m.count /\ Length = m.len /\ Data < Len(Rest)
           /\ ce.type # "READ_UNTIL_PATTERN" =>
                  /\ m.len = 0 /\ Length = 0 /\ m.count <= ce.remaining
                  /\ m.match /\ ce.type = "READ" /\ ce.remaining # 0 => m.count > 0
                  /\ m.match /\ ce.type = "READ_COUNT" => m.count = ce.remaining
<1> DEFINE L == Len(text)
           off == freed - ce.start
<1>1. /\ text \in Seq(Symbol) /\ L \in Nat /\ rcvd \in Nat /\ freed \in Nat /\ ce.start \in Nat /\ ce.remaining \in Nat
      /\ ce.start <= freed /\ freed <= rcvd /\ rcvd <= L /\ ce.pattern \in Pattern /\ WellFormed(ce)
      /\ Place(Rest, ce.pattern) > off
  BY Numbers DEF DataInv, ReadPart, Handed, Reading, Event
<1>2. off \in Nat /\ rcvd - freed \in Nat
  BY <1>1
<1>3. Rest \in Seq(Symbol) /\ Len(Rest) = L - ce.start /\ \A k \in 1 .. L - ce.start : Rest[k] = text[ce.start + k]
  <2>1. ce.start <= L /\ L <= Len(text)
    BY <1>1
  <2>2. Rest = SubSeq(text, ce.start + 1, L)
    BY DEF Rest
  <2> HIDE DEF L
  <2>3. QED
    BY <1>1, <2>1, <2>2, PartFacts
<1>4. Buffered \in Seq(Symbol) /\ Len(Buffered) = rcvd - freed /\ \A k \in 1 .. rcvd - freed : Buffered[k] = text[freed + k]
  BY <1>1 DEF Buffered
<1> HIDE DEF L
<1>5. Place(Rest, ce.pattern) \in 1 .. Len(Rest) + 1 /\ Len(Rest) \in Nat /\ Length \in Nat
      /\ (Place(Rest, ce.pattern) > Len(Rest) => Length = 0)
  <2>1. Place(Rest, ce.pattern) \in 1 .. Len(Rest) + 1
    BY <1>1, <1>3, PlaceFacts
  <2>2. Length \in Nat /\ (Place(Rest, ce.pattern) > Len(Rest) => Length = 0)
    BY <1>1, <1>3, LengthFacts DEF Length
  <2>3. Len(Rest) \in Nat
    BY <1>3
  <2>4. QED
    BY <2>1, <2>2, <2>3
<1> DEFINE place == Place(Rest, ce.pattern)
           rl == Len(Rest)
<1>6. place \in 1 .. rl + 1 /\ rl \in Nat /\ place > off /\ Data = place - 1 /\ rl = L - ce.start
  BY <1>1, <1>3, <1>5 DEF Data
<1> HIDE DEF place, rl
<1>7. Data \in Nat /\ Data <= Len(Rest) /\ place = Data + 1
  BY <1>6 DEF rl
<1>8. CASE ce.type = "READ_UNTIL_PATTERN"
  <2>1. m = IOBSearch(Buffered, ce.pattern)
    BY <1>8 DEF EventConditionSatisfied
  <2>2. off + Len(Buffered) <= Len(Rest)
    BY <1>1, <1>3, <1>4
  <2>3. \A k \in 1 .. Len(Buffered) : Buffered[k] = Rest[off + k]
    <3> SUFFICES ASSUME NEW k \in 1 .. Len(Buffered)
                 PROVE  Buffered[k] = Rest[off + k]
      OBVIOUS
    <3>1. k \in 1 .. rcvd - freed
      BY <1>4
    <3>2. off + k \in 1 .. L - ce.start /\ ce.start + (off + k) = freed + k
      BY <1>1, <3>1
    <3>3. QED
      BY <1>3, <1>4, <3>1, <3>2
  <2>4. /\ m.match \in BOOLEAN /\ m.count \in Nat /\ m.len \in Nat /\ m.count + m.len <= Len(Buffered)
        /\ m.match => /\ Place(Rest, ce.pattern) = (off + m.count) + 1 /\ Place(Rest, ce.pattern) <= Len(Rest)
                      /\ LengthThere(Rest, ce.pattern) = m.len
        /\ ~m.match => Place(Rest, ce.pattern) > off + m.count
    <3> HIDE DEF off
    <3>1. QED
      BY <1>1, <1>2, <1>3, <1>4, <2>1, <2>2, <2>3, IOBSearchFacts
  <2>5. m.count + m.len <= rcvd - freed
    BY <1>4, <2>4
  <2>6. ASSUME m.match
        PROVE  Data = Taken + m.count /\ Length = m.len /\ Data < Len(Rest)
    <3>1. place = (off + m.count) + 1 /\ place <= rl /\ Length = m.len
      BY <2>4, <2>6 DEF place, rl, Length
    <3>2. Data = off + m.count /\ Data < rl
      BY <1>2, <1>6, <1>7, <2>4, <3>1
    <3>3. QED
      BY <3>1, <3>2 DEF Taken, rl
  <2>7. ASSUME ~m.match
        PROVE  Data >= Taken + m.count
    <3>1. place > off + m.count
      BY <2>4, <2>7 DEF place
    <3>2. Data >= off + m.count
      BY <1>2, <1>7, <2>4, <3>1
    <3>3. QED
      BY <3>2 DEF Taken
  <2>8. QED
    BY <1>5, <1>7, <1>8, <2>4, <2>5, <2>6, <2>7 DEF place
<1>9. CASE ce.type # "READ_UNTIL_PATTERN"
  <2>1. ce.type \in {"READ", "READ_COUNT"} /\ ce.pattern = {}
    BY <1>1, <1>9 DEF Conditional, WellFormed
  <2>2. m = [match |-> IF ce.type = "READ" THEN Used > 0 ELSE Used >= ce.remaining,
             count |-> Min({Used, ce.remaining}), len |-> 0]
    BY <1>9 DEF EventConditionSatisfied
  <2>3. Used \in Nat /\ Used = rcvd - freed
    BY <1>1 DEF Used
  <2>4. m.count = (IF Used <= ce.remaining THEN Used ELSE ce.remaining) /\ m.len = 0
    BY <1>1, <2>2, <2>3, MinPair
  <2>5. m.match \in BOOLEAN /\ (m.match <=> IF ce.type = "READ" THEN Used > 0 ELSE Used >= ce.remaining)
    <3>1. m.match = IF ce.type = "READ" THEN Used > 0 ELSE Used >= ce.remaining
      BY ONLY <2>2, Zenon
    <3>2. CASE ce.type = "READ"
      <4>1. m.match = (Used > 0)
        BY <3>1, <3>2
      <4>2. (Used > 0) \in BOOLEAN
        BY <1>1, <2>3
      <4>3. m.match \in BOOLEAN /\ (m.match <=> Used > 0)
        BY ONLY <4>1, <4>2, Zenon
      <4>4. QED
        BY <3>2, <4>3
    <3>3. CASE ce.type # "READ"
      <4>1. m.match = (Used >= ce.remaining)
        BY <3>1, <3>3
      <4>2. (Used >= ce.remaining) \in BOOLEAN
        BY <1>1, <2>3
      <4>3. m.match \in BOOLEAN /\ (m.match <=> Used >= ce.remaining)
        BY ONLY <4>1, <4>2, Zenon
      <4>4. QED
        BY <3>3, <4>3
    <3>4. QED
      BY <3>2, <3>3
  <2>6. place = rl + 1 /\ Length = 0
    <3>1. place > rl
      <4> SUFFICES ASSUME place <= rl
                   PROVE  FALSE
        BY <1>6
      <4>1. \E p \in ce.pattern : At(Rest, p, Place(Rest, ce.pattern))
        BY <1>1, <1>3, PlaceFacts DEF place, rl
      <4>2. QED
        BY <2>1, <4>1
    <3>2. Length = 0
      BY <1>5, <3>1 DEF place, rl
    <3>3. QED
      BY <1>6, <3>1, <3>2
  <2>7. Data = rl /\ rl = L - ce.start
    BY <1>6, <1>7, <2>6
  <2>8. m.count \in Nat /\ m.count <= Used /\ m.count <= ce.remaining
    BY <1>1, <2>3, <2>4
  <2>9. Data >= off + m.count
    BY <1>1, <2>3, <2>7, <2>8
  <2>10. m.count + m.len <= rcvd - freed
    BY <2>3, <2>4, <2>8
  <2>11. /\ m.match /\ ce.type = "READ" /\ ce.remaining # 0 => m.count > 0
         /\ m.match /\ ce.type = "READ_COUNT" => m.count = ce.remaining
    <3>1. m.match /\ ce.type = "READ" => Used > 0
      BY <2>5
    <3>2. m.match /\ ce.type = "READ_COUNT" => Used >= ce.remaining
      BY <2>5
    <3>3. Used > 0 /\ ce.remaining # 0 => m.count > 0
      BY <1>1, <2>3, <2>4
    <3>4. Used >= ce.remaining => m.count = ce.remaining
      BY <1>1, <2>3, <2>4
    <3>5. QED
      BY <3>1, <3>2, <3>3, <3>4
  <2>12. QED
    BY <1>5, <1>7, <1>9, <2>4, <2>5, <2>6, <2>8, <2>9, <2>10, <2>11 DEF Taken, place
<1>10. QED
  BY <1>8, <1>9

\* A conditional read, while it is processed.
LEMMA ConditionalNumbers ==
    ASSUME DataInv, pc = "process", ce.type \in Conditional
    PROVE  /\ Typed /\ ReadPart /\ WritePart
           /\ ce \in Event /\ WellFormed(ce) /\ ce.size \in Nat /\ ce.remaining \in Nat /\ Len(client) \in Nat
           /\ rcvd \in Nat /\ freed \in Nat /\ ce.start \in Nat /\ freed <= rcvd /\ ce.start <= freed
           /\ Taken \in Nat /\ freed = ce.start + Taken
           /\ ce.remaining + Len(client) = ce.size /\ ce.transferred = Len(client)
           /\ "COPY" \in ce.flags => Taken = Len(client)
           /\ "DELETE" \notin ce.flags => Taken = 0
           /\ "COPY" \notin ce.flags => client = <<>>
<1>1. /\ Typed /\ ReadPart /\ WritePart /\ client \in Seq(Nat) /\ ce.start <= freed
      /\ ce.remaining + Len(client) = ce.size /\ ce.transferred = Len(client)
      /\ "COPY" \in ce.flags => freed = ce.start + Len(client)
      /\ "DELETE" \notin ce.flags => freed = ce.start
      /\ "COPY" \notin ce.flags => client = <<>>
  BY DEF DataInv, ReadPart, Handed, Reading
<1>2. Len(client) \in Nat
  BY <1>1
<1>3. /\ ce \in Event /\ WellFormed(ce) /\ ce.size \in Nat /\ ce.remaining \in Nat
      /\ rcvd \in Nat /\ freed \in Nat /\ ce.start \in Nat /\ freed <= rcvd
  BY <1>1, Numbers
<1> DEFINE l == Len(client)
<1>4. /\ l \in Nat /\ ("COPY" \in ce.flags => freed = ce.start + l)
  BY <1>1, <1>2
<1> HIDE DEF l
<1>5. /\ Taken \in Nat /\ freed = ce.start + Taken
      /\ "COPY" \in ce.flags => Taken = l
      /\ "DELETE" \notin ce.flags => Taken = 0
  BY <1>1, <1>3, <1>4 DEF Taken
<1>6. QED
  BY <1>1, <1>2, <1>3, <1>5 DEF l

\* The length of what was handed over.
LEMMA CopiedLength ==
    ASSUME DataInv, pc = "process", ce.type \in Conditional, NEW n \in Nat, client' = client \o Bytes(freed, n)
    PROVE  Len(client') = Len(client) + n
<1>1. client \in Seq(Nat) /\ freed \in Nat
  BY ConditionalNumbers DEF ReadPart, Handed
<1>2. Bytes(freed, n) \in Seq(Nat) /\ Len(Bytes(freed, n)) = n
  BY <1>1, BytesFacts
<1>3. \A s, t \in Seq(Nat) : Len(s \o t) = Len(s) + Len(t)
  OBVIOUS
<1>4. QED
  BY <1>1, <1>2, <1>3, Zenon

\* A step of a conditional read: n bytes are copied, k bytes are freed.
LEMMA ConditionalStep ==
    ASSUME DataInv, pc = "process", ce.type \in Conditional, UNCHANGED <<text, rcvd, secured, plain, over, sendVars>>,
           NEW n \in Nat, n # 0 => "COPY" \in ce.flags, freed + n <= rcvd, client' = client \o Bytes(freed, n),
           NEW k \in Nat, freed + k <= rcvd, freed' = freed + k,
           ce' \in Event, WellFormed(ce'), ce'.type = ce.type, ce'.start = ce.start, ce'.again <=> ce.again,
           pc' \in {"ended", "fill"},
           Reading', ConditionalDone'
    PROVE  DataInv'
<1>1. /\ Typed /\ ReadPart /\ WritePart /\ rcvd \in Nat /\ freed \in Nat /\ ce.start \in Nat /\ ce.start <= freed
      /\ "COPY" \in ce.flags => Taken = Len(client)
      /\ freed = ce.start + Taken
  BY ConditionalNumbers
<1>2. freed' \in Nat /\ freed <= freed' /\ ce'.start <= freed'
  BY <1>1
<1>3. n = 0 \/ freed = ce.start + Len(client)
  BY <1>1
<1>4. client' \in Seq(Nat) /\ client' = Bytes(ce.start, Len(client))' /\ Protected'
  BY <1>1, <1>2, <1>3, Copied
<1>5. ce'.type \in Conditional /\ ce'.type \notin Forward /\ ce'.type \notin Send
  BY DEF Forward, Conditional, Send
<1>6. Typed'
  <2>1. /\ plain \in 0 .. rcvd /\ rcvd \in 0 .. Len(text) /\ secured \in BOOLEAN /\ over \in BOOLEAN
        /\ given \in Nat /\ sent \in 0 .. given /\ rcvd - freed <= IOBSize /\ IOBSize \in Nat
    BY <1>1, Numbers DEF Typed
  <2>2. freed' \in 0 .. rcvd' /\ rcvd' - freed' <= IOBSize
    <3>1. rcvd \in Nat /\ freed \in Nat /\ rcvd - freed <= IOBSize /\ IOBSize \in Nat /\ rcvd' = rcvd
      BY <1>1, <2>1
    <3>2. QED
      BY <3>1
  <2>3. QED
    BY <1>1, <1>5, <2>1, <2>2, TypedStep DEF sendVars
<1>7. Handed' /\ Forwarding' /\ ForwardDone'
  <2>1. ce'.start + Len(client') <= rcvd'
    <3> DEFINE l == Len(client)
               kl == Len(client')
    <3>1. l \in Nat /\ kl = l + n /\ (n = 0 \/ freed = ce.start + l) /\ ce.start + l <= rcvd
      BY <1>1, <1>3, ConditionalNumbers, CopiedLength DEF ReadPart, Handed
    <3>2. n \in Nat /\ freed + n <= rcvd /\ rcvd' = rcvd /\ ce'.start = ce.start
      OBVIOUS
    <3> HIDE DEF l, kl
    <3>3. ce'.start + kl <= rcvd'
      BY ONLY <1>1, <3>1, <3>2
    <3>4. QED
      BY <3>3 DEF kl
  <2>2. QED
    BY <1>2, <1>4, <1>5, <2>1 DEF Handed, Forwarding, ForwardDone
<1>8. WritePart'
  <2>1. ~ce'.again
    BY <1>1 DEF WritePart, WriteMeaning
  <2>2. QED
    BY <1>1, <1>5, <2>1, WriteFrame
<1>9. QED
  BY <1>4, <1>6, <1>7, <1>8, Meaning DEF DataInv, ReadPart

\* The event after n bytes of it were copied.
LEMMA CopiedEvent ==
    ASSUME NEW c \in Event, WellFormed(c), NEW n \in Nat, n <= c.remaining, NEW d, d = CopyBufferedDataToClient(c, n)
    PROVE  /\ d \in Event /\ WellFormed(d) /\ d.type = c.type /\ d.flags = c.flags /\ d.pattern = c.pattern
           /\ d.size = c.size /\ d.start = c.start /\ (d.again <=> c.again)
           /\ d.remaining = c.remaining - n /\ d.transferred = c.transferred + n
<1>1. c.remaining \in Nat /\ c.transferred \in Nat
  BY DEF Event
<1>2. c.remaining - n \in Nat /\ c.transferred + n \in Nat
  BY <1>1
<1>3. d = [c EXCEPT !.remaining = c.remaining - n, !.transferred = c.transferred + n]
  BY DEF CopyBufferedDataToClient
<1>4. d \in Event
  BY <1>2, <1>3 DEF Event
<1>5. /\ d.type = c.type /\ d.flags = c.flags /\ d.pattern = c.pattern
      /\ d.size = c.size /\ d.start = c.start /\ (d.again <=> c.again)
      /\ d.remaining = c.remaining - n /\ d.transferred = c.transferred + n
  BY <1>2, <1>3 DEF Event
<1>6. WellFormed(d)
  BY <1>5 DEF WellFormed
<1>7. QED
  BY <1>4, <1>5, <1>6

\* What is left to find does not change.
LEMMA SameSearch ==
    ASSUME UNCHANGED text, ce'.start = ce.start, ce'.pattern = ce.pattern, ce'.flags = ce.flags
    PROVE  /\ Data' = Data /\ Length' = Length /\ Len(Rest)' = Len(Rest) /\ Include' = Include /\ Needs' = Needs
           /\ Place(Rest, ce.pattern)' = Place(Rest, ce.pattern)
<1>1. /\ Rest' = Rest /\ Data' = Data /\ Length' = Length
      /\ Place(Rest, ce.pattern)' = Place(Rest, ce.pattern)
  BY RestSame
<1>2. Include' = Include
  BY <1>1 DEF Include
<1>3. QED
  BY <1>1, <1>2 DEF Needs

\* The condition is satisfied and what it asks for fits.
LEMMA FinalFits ==
    ASSUME DataInv, pc = "process", ce.type \in Conditional, UNCHANGED <<text, rcvd, secured, plain, over, sendVars>>,
           NEW m, m = EventConditionSatisfied, m.match, "COPY" \in ce.flags,
           NEW extra, extra = IF "INCLUDE" \in ce.flags THEN m.len ELSE 0,
           NEW term, term = IF "TERMINATE" \in ce.flags THEN 1 ELSE 0,
           m.count + extra + term <= ce.remaining,
           client' = client \o Bytes(freed, m.count + extra),
           freed' = IF "DELETE" \in ce.flags THEN freed + m.count + m.len ELSE freed,
           Ends(CopyBufferedDataToClient(ce, m.count + extra), "none")
    PROVE  DataInv'
<1> DEFINE l == Len(client)
           k == Len(client')
           n == m.count + extra
           f == IF "DELETE" \in ce.flags THEN m.count + m.len ELSE 0
           c == CopyBufferedDataToClient(ce, n)
<1>1. /\ Typed /\ ReadPart /\ WritePart
      /\ ce \in Event /\ WellFormed(ce) /\ ce.size \in Nat /\ ce.remaining \in Nat /\ l \in Nat
      /\ rcvd \in Nat /\ freed \in Nat /\ ce.start \in Nat /\ freed <= rcvd
      /\ Taken \in Nat /\ freed = ce.start + Taken
      /\ ce.remaining + l = ce.size /\ ce.transferred = l /\ Taken = l
      /\ "DELETE" \notin ce.flags => Taken = 0
  BY ConditionalNumbers
<1>2. /\ m.count \in Nat /\ m.len \in Nat /\ m.count + m.len <= rcvd - freed
      /\ Data \in Nat /\ Length \in Nat /\ Data <= Len(Rest)
      /\ ce.type = "READ_UNTIL_PATTERN" => Data = Taken + m.count /\ Length = m.len /\ Data < Len(Rest)
      /\ ce.type # "READ_UNTIL_PATTERN" =>
             /\ m.len = 0 /\ Length = 0
             /\ ce.type = "READ" /\ ce.remaining # 0 => m.count > 0
             /\ ce.type = "READ_COUNT" => m.count = ce.remaining
  BY ConditionFacts
<1>3. /\ extra \in Nat /\ extra <= m.len /\ term \in Nat /\ m.count \in Nat /\ m.len \in Nat
      /\ Data \in Nat /\ m.count + m.len <= rcvd - freed
  BY <1>2
<1>x. /\ ce.size \in Nat /\ ce.remaining \in Nat /\ l \in Nat /\ rcvd \in Nat /\ freed \in Nat /\ ce.start \in Nat
      /\ freed <= rcvd /\ Taken \in Nat /\ freed = ce.start + Taken /\ ce.remaining + l = ce.size /\ Taken = l
  BY <1>1
<1> HIDE DEF l, k
<1>4. n \in Nat /\ n <= ce.remaining /\ n + term <= ce.remaining
  <2>1. m.count + extra + term <= ce.remaining /\ n = m.count + extra
    OBVIOUS
  <2> HIDE DEF n
  <2>2. QED
    BY ONLY <1>3, <1>x, <2>1
<1>5. k = l + n
  BY <1>4, CopiedLength DEF l, k
<1>6. f \in Nat /\ freed + f <= rcvd /\ freed' = freed + f
  <2>1. CASE "DELETE" \in ce.flags
    <3>1. f = m.count + m.len /\ freed' = freed + m.count + m.len
      BY <2>1
    <3> HIDE DEF f
    <3>2. QED
      BY ONLY <1>3, <1>x, <3>1
  <2>2. CASE "DELETE" \notin ce.flags
    <3>1. f = 0 /\ freed' = freed
      BY <2>2
    <3> HIDE DEF f
    <3>2. QED
      BY ONLY <1>x, <3>1
  <2>3. QED
    BY <2>1, <2>2
<1> HIDE DEF n, f
<1>7. /\ c \in Event /\ WellFormed(c) /\ c.type = ce.type /\ c.flags = ce.flags /\ c.pattern = ce.pattern
      /\ c.size = ce.size /\ c.start = ce.start /\ (c.again <=> ce.again) /\ c.transferred = ce.transferred + n
  BY <1>1, <1>4, CopiedEvent
<1>8. Ends(c, "none") /\ "none" \in Error
  BY DEF Error, n
<1> HIDE DEF c
<1>9. /\ pc' = "ended" /\ ce' \in Event /\ WellFormed(ce') /\ Same(ce', c)
      /\ ce'.error = "none" /\ ce'.status = "COMPLETE"
  BY <1>7, <1>8, EndsFacts
<1>10. /\ ce'.type = ce.type /\ ce'.flags = ce.flags /\ ce'.pattern = ce.pattern /\ ce'.size = ce.size
       /\ ce'.start = ce.start /\ (ce'.again <=> ce.again) /\ ce'.transferred = l + n
  BY <1>1, <1>7, <1>9 DEF Same, l
<1>11. /\ Data' = Data /\ Length' = Length /\ Len(Rest)' = Len(Rest) /\ Include' = Include /\ Needs' = Needs
  BY <1>10, SameSearch
<1>12. Include = extra /\ Needs = Data + extra + term
  <2>1. Length = m.len
    BY <1>2
  <2>2. Include = extra
    BY <2>1 DEF Include
  <2>3. QED
    BY <2>2 DEF Needs
<1>13. Taken' = Taken + f
  <2>1. Taken' = freed' - ce'.start /\ ce'.start = ce.start
    BY <1>10 DEF Taken
  <2>2. QED
    BY ONLY <1>x, <1>6, <2>1
<1>14. k = l + n /\ k <= ce.size /\ ce'.transferred = k
  BY <1>x, <1>4, <1>5, <1>10
<1>15. "DELETE" \notin ce.flags => Taken' = 0
  BY <1>1, <1>13 DEF f
<1>16. "DELETE" \in ce.flags => Taken' = k + (Length - Include)
  <2>1. Length = m.len
    BY <1>2
  <2>2. "DELETE" \in ce.flags => f = m.count + m.len
    BY DEF f
  <2>3. n = m.count + extra
    BY DEF n
  <2>4. QED
    BY ONLY <1>x, <1>3, <1>5, <1>12, <1>13, <2>1, <2>2, <2>3
<1>17. /\ ce.type = "READ" => k > 0
       /\ ce.type = "READ_COUNT" => k = ce.size
       /\ ce.type = "READ_UNTIL_PATTERN" => Data < Len(Rest) /\ k = Data + Include /\ Needs <= ce.size
  <2>0. n = m.count + extra
    BY DEF n
  <2>1. ASSUME ce.type = "READ"
        PROVE  k > 0
    <3>1. ce.size # 0
      BY <1>1 DEF WellFormed
    <3>2. ce.remaining # 0 => m.count > 0
      BY <1>2, <2>1
    <3>3. QED
      BY ONLY <1>x, <1>3, <1>5, <2>0, <3>1, <3>2
  <2>2. ASSUME ce.type = "READ_COUNT"
        PROVE  k = ce.size
    <3>1. m.count = ce.remaining /\ m.len = 0
      BY <1>2, <2>2
    <3>2. QED
      BY <1>1, <1>3, <1>5, <2>0, <3>1
  <2>3. ASSUME ce.type = "READ_UNTIL_PATTERN"
        PROVE  Data < Len(Rest) /\ k = Data + Include /\ Needs <= ce.size
    <3>1. Data = Taken + m.count /\ Data < Len(Rest)
      BY <1>2, <2>3
    <3>2. k = Data + Include
      <4>1. \A x, y, z \in Nat : x + (y + z) = (x + y) + z
        OBVIOUS
      <4>2. l \in Nat /\ m.count \in Nat /\ extra \in Nat
        BY <1>x, <1>3
      <4>3. k = l + (m.count + extra)
        BY ONLY <1>5, <2>0, Zenon
      <4>4. k = (l + m.count) + extra
        BY ONLY <4>1, <4>2, <4>3, Zenon
      <4>5. Data = l + m.count /\ Include = extra
        BY <1>x, <1>12, <3>1, Zenon
      <4>6. QED
        BY ONLY <4>4, <4>5, Zenon
    <3>3. Needs <= ce.size
      <4>1. Data = Taken + m.count /\ Needs = Data + extra + term
        BY <1>12, <3>1
      <4>2. Needs = (l + n) + term
        BY ONLY <1>x, <1>3, <2>0, <4>1
      <4>3. QED
        BY ONLY <1>x, <1>3, <1>4, <4>2
    <3>4. QED
      BY <3>1, <3>2, <3>3
  <2>4. QED
    BY <2>1, <2>2, <2>3
<1>18. ConditionalDone'
  <2>1. "DELETE" \notin ce'.flags => Taken' = 0
    BY <1>10, <1>15
  <2>2. ce'.transferred = Len(client') /\ Len(client') <= ce'.size
    BY <1>10, <1>14 DEF k
  <2>3. CD \subseteq ce'.flags => Taken' = Len(client') + (IF Complete' THEN Length' - Include' ELSE 0)
    BY <1>9, <1>10, <1>11, <1>16 DEF CD, Complete, k
  <2>4. ce'.flags # {"DELETE"} /\ ce'.flags # {} /\ ce'.error # "EMSGSIZE"
    BY <1>9, <1>10
  <2>5. CASE ce.type = "READ"
    <3>1. ce'.type = "READ" /\ Len(client') > 0
      BY <1>10, <1>17, <2>5 DEF k
    <3>2. QED
      BY <2>1, <2>2, <2>3, <2>4, <3>1 DEF ConditionalDone
  <2>6. CASE ce.type = "READ_COUNT"
    <3>1. ce'.type = "READ_COUNT" /\ Len(client') = ce'.size
      BY <1>10, <1>17, <2>6 DEF k
    <3>2. QED
      BY <2>1, <2>2, <2>3, <2>4, <3>1 DEF ConditionalDone
  <2>7. CASE ce.type = "READ_UNTIL_PATTERN"
    <3>1. /\ ce'.type = "READ_UNTIL_PATTERN"
          /\ Data' < Len(Rest)' /\ Len(client') = Data' + Include' /\ Needs' <= ce'.size
      BY <1>10, <1>11, <1>17, <2>7 DEF k
    <3>2. QED
      BY <2>1, <2>2, <2>3, <2>4, <3>1 DEF ConditionalDone
  <2>8. QED
    BY <2>5, <2>6, <2>7 DEF Conditional
<1>19. Reading'
  BY <1>9 DEF Reading
<1>20. client' = client \o Bytes(freed, n) /\ freed + n <= rcvd
  <2>1. client' = client \o Bytes(freed, n)
    BY DEF n
  <2>2. n = m.count + extra
    BY DEF n
  <2>3. freed + n <= rcvd
    BY ONLY <1>3, <1>x, <2>2
  <2>4. QED
    BY <2>1, <2>3
<1>21. QED
  BY <1>1, <1>4, <1>6, <1>9, <1>10, <1>18, <1>19, <1>20, ConditionalStep

\* What is copied does not fit, and the event ends: n bytes fill the client's
\* buffer or are all that comes before the pattern.
LEMMA TooLong ==
    ASSUME DataInv, pc = "process", ce.type \in Conditional, UNCHANGED <<text, rcvd, secured, plain, over, sendVars>>,
           "COPY" \in ce.flags, NEW n \in Nat, n <= ce.remaining, n <= rcvd - freed,
           client' = client \o Bytes(freed, n),
           freed' = IF "DELETE" \in ce.flags THEN freed + n ELSE freed,
           Needs > ce.size, Len(client) + n = Min({ce.size, Data}),
           Ends(CopyBufferedDataToClient(ce, n), "EMSGSIZE")
    PROVE  DataInv'
<1> DEFINE l == Len(client)
           k == Len(client')
           f == IF "DELETE" \in ce.flags THEN n ELSE 0
           c == CopyBufferedDataToClient(ce, n)
<1>1. /\ ce \in Event /\ WellFormed(ce)
      /\ ce.transferred = l
      /\ "DELETE" \notin ce.flags => Taken = 0
  BY ConditionalNumbers
<1>2. /\ ce.size \in Nat /\ ce.remaining \in Nat /\ l \in Nat /\ rcvd \in Nat /\ freed \in Nat /\ ce.start \in Nat
      /\ freed <= rcvd /\ Taken \in Nat /\ freed = ce.start + Taken /\ ce.remaining + l = ce.size /\ Taken = l
  BY ConditionalNumbers
<1>3. k = l + n
  BY CopiedLength
<1> HIDE DEF l, k
<1>4. n \in Nat /\ n <= ce.remaining /\ n <= rcvd - freed
  OBVIOUS
<1>5. f \in Nat /\ freed + f <= rcvd /\ freed' = freed + f
  <2>1. CASE "DELETE" \in ce.flags
    <3>1. f = n /\ freed' = freed + n
      BY <2>1
    <3> HIDE DEF f
    <3>2. QED
      BY ONLY <1>2, <1>4, <3>1
  <2>2. CASE "DELETE" \notin ce.flags
    <3>1. f = 0 /\ freed' = freed
      BY <2>2
    <3> HIDE DEF f
    <3>2. QED
      BY ONLY <1>2, <3>1
  <2>3. QED
    BY <2>1, <2>2
<1>6. /\ c \in Event /\ WellFormed(c) /\ c.type = ce.type /\ c.flags = ce.flags /\ c.pattern = ce.pattern
      /\ c.size = ce.size /\ c.start = ce.start /\ (c.again <=> ce.again) /\ c.transferred = ce.transferred + n
  BY <1>1, CopiedEvent
<1>7. Ends(c, "EMSGSIZE") /\ "EMSGSIZE" \in Error
  BY DEF Error
<1> HIDE DEF c
<1>8. /\ pc' = "ended" /\ ce' \in Event /\ WellFormed(ce') /\ Same(ce', c) /\ ce'.status # "COMPLETE"
  BY <1>6, <1>7, EndsFacts
<1>9. /\ ce'.type = ce.type /\ ce'.flags = ce.flags /\ ce'.pattern = ce.pattern /\ ce'.size = ce.size
      /\ ce'.start = ce.start /\ (ce'.again <=> ce.again) /\ ce'.transferred = l + n
  BY <1>1, <1>6, <1>8 DEF Same
<1>10. /\ Data' = Data /\ Needs' = Needs
  BY <1>9, SameSearch
<1>11. Taken' = Taken + f
  <2>1. Taken' = freed' - ce'.start /\ ce'.start = ce.start
    BY <1>9 DEF Taken
  <2> HIDE DEF f
  <2>2. QED
    BY ONLY <1>2, <1>5, <2>1
<1>12. k <= ce.size
  BY ONLY <1>2, <1>3, <1>4
<1>13. /\ "DELETE" \notin ce.flags => Taken' = 0
       /\ "DELETE" \in ce.flags => Taken' = k
  <2>1. "DELETE" \in ce.flags => Taken' = Taken + n
    BY <1>11
  <2>2. "DELETE" \notin ce.flags => Taken' = 0
    BY <1>1, <1>11
  <2>3. QED
    BY <1>2, <1>3, <2>1, <2>2
<1>14. ConditionalDone'
  <2>1. "DELETE" \notin ce'.flags => Taken' = 0
    BY <1>9, <1>13
  <2>2. ce'.transferred = Len(client') /\ Len(client') <= ce'.size
    BY <1>3, <1>9, <1>12 DEF k
  <2>3. CD \subseteq ce'.flags => Taken' = Len(client') + 0
    <3>1. k + 0 = k
      BY ONLY <1>2, <1>3, <1>4
    <3>2. QED
      BY <1>9, <1>13, <3>1 DEF CD, k
  <2>4. ~Complete'
    BY <1>8 DEF Complete
  <2>5. Needs' > ce'.size /\ Len(client') = Min({ce'.size, Data'})
    BY <1>3, <1>9, <1>10 DEF k, l
  <2>6. Min({ce.size, Data})' = Min({ce'.size, Data'})
    BY DEF Min
  <2>7. QED
    BY <2>1, <2>2, <2>3, <2>4, <2>5, <2>6 DEF ConditionalDone
<1>15. Reading' /\ freed + n <= rcvd
  BY <1>2, <1>4, <1>8 DEF Reading
<1>16. QED
  BY <1>5, <1>8, <1>9, <1>14, <1>15, ConditionalStep

\* The condition is satisfied.
LEMMA FinalInv ==
    ASSUME DataInv, pc = "process", ce.type \in Conditional, UNCHANGED <<text, rcvd, secured, plain, over, sendVars>>,
           NEW m, m = EventConditionSatisfied, m.match, moveFinalConditionalDataToClient(m)
    PROVE  DataInv'
<1> DEFINE extra == IF "INCLUDE" \in ce.flags THEN m.len ELSE 0
           term == IF "TERMINATE" \in ce.flags THEN 1 ELSE 0
<1>1. /\ ce \in Event /\ WellFormed(ce) /\ ce.transferred = Len(client)
      /\ "COPY" \in ce.flags => Taken = Len(client)
      /\ "DELETE" \notin ce.flags => Taken = 0
      /\ "COPY" \notin ce.flags => client = <<>>
  BY ConditionalNumbers
<1>2. /\ ce.size \in Nat /\ ce.remaining \in Nat /\ rcvd \in Nat /\ freed \in Nat /\ ce.start \in Nat
      /\ freed <= rcvd /\ Taken \in Nat /\ freed = ce.start + Taken
      /\ Len(client) \in Nat /\ ce.remaining + Len(client) = ce.size
  BY ConditionalNumbers
<1>3. /\ m.count \in Nat /\ m.len \in Nat /\ m.count + m.len <= rcvd - freed /\ Data \in Nat /\ Length \in Nat
      /\ ce.type = "READ_UNTIL_PATTERN" => Data = Taken + m.count /\ Length = m.len
      /\ ce.type # "READ_UNTIL_PATTERN" =>
             /\ m.len = 0 /\ Length = 0 /\ m.count <= ce.remaining
             /\ ce.type = "READ_COUNT" => m.count = ce.remaining
  BY ConditionFacts
<1>4. extra \in Nat /\ extra <= m.len /\ term \in Nat
  BY <1>3
<1>5. CASE "COPY" \in ce.flags /\ m.count + extra + term <= ce.remaining
  <2>1. /\ client' = client \o Bytes(freed, m.count + extra)
        /\ freed' = IF "DELETE" \in ce.flags THEN freed + m.count + m.len ELSE freed
        /\ Ends(CopyBufferedDataToClient(ce, m.count + extra), "none")
    BY <1>5 DEF moveFinalConditionalDataToClient
  <2>2. extra = (IF "INCLUDE" \in ce.flags THEN m.len ELSE 0) /\ term = (IF "TERMINATE" \in ce.flags THEN 1 ELSE 0)
    OBVIOUS
  <2> HIDE DEF extra, term
  <2>3. QED
    BY <1>5, <2>1, <2>2, FinalFits
<1>6. CASE "COPY" \in ce.flags /\ ~(m.count + extra + term <= ce.remaining)
  <2> DEFINE n == Min({m.count, ce.remaining})
             l == Len(client)
  <2>1. /\ client' = client \o Bytes(freed, n)
        /\ freed' = IF "DELETE" \in ce.flags THEN freed + n + 0 ELSE freed
        /\ Ends(CopyBufferedDataToClient(ce, n), "EMSGSIZE")
    BY <1>6 DEF moveFinalConditionalDataToClient
  <2>2. n = IF m.count <= ce.remaining THEN m.count ELSE ce.remaining
    BY <1>2, <1>3, MinPair
  <2>3. /\ ce.size \in Nat /\ ce.remaining \in Nat /\ rcvd \in Nat /\ freed \in Nat /\ freed <= rcvd /\ Taken \in Nat
        /\ l \in Nat /\ ce.remaining + l = ce.size /\ Taken = l
    BY <1>1, <1>2, <1>6
  <2>4. ce.type = "READ_UNTIL_PATTERN"
    <3> SUFFICES ASSUME ce.type # "READ_UNTIL_PATTERN"
                 PROVE  FALSE
      OBVIOUS
    <3>1. ce.flags \subseteq CD
      BY <1>1 DEF WellFormed, Conditional
    <3>2. extra = 0 /\ term = 0
      BY <3>1 DEF CD
    <3>3. m.count <= ce.remaining
      BY <1>3
    <3>4. QED
      BY <1>2, <1>3, <1>6, <3>2, <3>3
  <2>5. Data = Taken + m.count /\ Length = m.len
    BY <1>3, <2>4
  <2>6. Needs = Data + extra + term
    BY <2>5 DEF Needs, Include
  <2>7. /\ extra \in Nat /\ term \in Nat /\ m.count \in Nat /\ m.len \in Nat /\ Data \in Nat
        /\ m.count + m.len <= rcvd - freed /\ ~(m.count + extra + term <= ce.remaining)
    BY <1>3, <1>4, <1>6
  <2> HIDE DEF n, l, extra, term
  <2>8. n \in Nat /\ n <= ce.remaining /\ n <= rcvd - freed
    BY ONLY <2>2, <2>3, <2>7
  <2>9. Needs > ce.size
    <3>1. Needs = (l + m.count) + (extra + term)
      BY ONLY <2>3, <2>5, <2>6, <2>7
    <3>2. QED
      BY ONLY <2>3, <2>7, <3>1
  <2>10. l + n = Min({ce.size, Data})
    <3>1. Min({ce.size, Data}) = IF ce.size <= Data THEN ce.size ELSE Data
      BY <2>3, <2>7, MinPair
    <3>2. Data = l + m.count
      BY <2>3, <2>5
    <3>3. QED
      BY ONLY <2>2, <2>3, <2>7, <3>1, <3>2
  <2>11. freed + n + 0 = freed + n
    BY <2>3, <2>8
  <2>12. freed' = IF "DELETE" \in ce.flags THEN freed + n ELSE freed
    BY <2>1, <2>11
  <2>13. QED
    BY <1>6, <2>1, <2>8, <2>9, <2>10, <2>12, TooLong DEF l
<1>7. CASE "COPY" \notin ce.flags /\ "DELETE" \in ce.flags
  <2>1. ce.type # "READ_UNTIL_PATTERN"
    BY <1>1, <1>7 DEF WellFormed
  <2>2. ce.type \in {"READ", "READ_COUNT"} /\ ce.flags \subseteq CD
    BY <1>1, <2>1 DEF WellFormed, Conditional
  <2>3. ce.flags = {"DELETE"}
    BY <1>7, <2>2 DEF CD
  <2>4. ce.type = "READ_COUNT"
    BY <1>1, <2>3 DEF WellFormed
  <2>5. m.count = ce.remaining /\ m.len = 0
    BY <1>3, <2>1, <2>4
  <2>6. client' = client \o Bytes(freed, 0) /\ freed' = freed + m.count + m.len /\ Ends(ce, "none")
    BY <1>7 DEF moveFinalConditionalDataToClient
  <2>7. client = <<>> /\ Len(client) = 0 /\ ce.remaining = ce.size
    <3>1. Len(client) = 0
      BY <1>1, <1>7
    <3>2. QED
      BY <1>1, <1>2, <1>7, <3>1
  <2>8. freed' = freed + ce.size /\ freed + ce.size <= rcvd
    <3>1. m.count = ce.size /\ m.len = 0
      BY <2>5, <2>7
    <3>2. /\ \A x, y \in Nat : x + y + 0 = x + y
          /\ \A x, y, z \in Nat : y + 0 <= z - x => x + y <= z
      OBVIOUS
    <3>3. freed' = freed + ce.size + 0
      BY <2>6, <3>1, Zenon
    <3>4. ce.size + 0 <= rcvd - freed
      BY <1>3, <3>1, Zenon
    <3>5. QED
      BY <1>2, <3>2, <3>3, <3>4, Zenon
  <2>9. "none" \in Error
    BY DEF Error
  <2>10. /\ pc' = "ended" /\ ce' \in Event /\ WellFormed(ce') /\ Same(ce', ce)
         /\ ce'.error = "none" /\ ce'.status = "COMPLETE"
    BY <1>1, <2>6, <2>9, EndsFacts
  <2>11. Taken' >= ce.size
    <3>1. Taken' = freed' - ce'.start /\ ce'.start = ce.start
      BY <2>10 DEF Taken, Same
    <3>2. \A x, y, z \in Nat : ((x + y) + z) - x >= z
      OBVIOUS
    <3>3. /\ ce.start \in Nat /\ Taken \in Nat /\ ce.size \in Nat
          /\ Taken' = ((ce.start + Taken) + ce.size) - ce.start
      BY <1>2, <2>8, <3>1, Zenon
    <3>4. QED
      BY ONLY <3>2, <3>3
  <2>12. ConditionalDone'
    <3>1. ce'.flags = {"DELETE"} /\ ~(CD \subseteq ce'.flags) /\ ce'.size = ce.size
      BY <2>3, <2>10 DEF Same, CD
    <3>2. QED
      BY <2>10, <2>11, <3>1 DEF ConditionalDone
  <2>13. Reading'
    BY <2>10 DEF Reading
  <2>14. QED
    <3>1. freed + 0 <= rcvd
      BY <1>2
    <3>2. QED
      BY <1>2, <2>6, <2>8, <2>10, <2>12, <2>13, <3>1, ConditionalStep DEF Same
<1>8. CASE "COPY" \notin ce.flags /\ "DELETE" \notin ce.flags
  <2> DEFINE c == [ce EXCEPT !.transferred = m.count]
  <2>1. ce.flags = {}
    <3>1. ce.type \in {"READ", "READ_COUNT"} => ce.flags = {}
      BY <1>1, <1>8 DEF WellFormed, CD
    <3>2. ce.type = "READ_UNTIL_PATTERN" => ce.flags = {}
      BY <1>1, <1>8 DEF WellFormed
    <3>3. QED
      BY <3>1, <3>2 DEF Conditional
  <2>2. client' = client \o Bytes(freed, 0) /\ freed' = freed /\ Ends(c, "none")
    BY <1>8 DEF moveFinalConditionalDataToClient
  <2>3. c \in Event
    BY <1>1, <1>3 DEF Event
  <2>4. /\ c.type = ce.type /\ c.flags = ce.flags /\ c.pattern = ce.pattern /\ c.size = ce.size
        /\ c.start = ce.start /\ (c.again <=> ce.again) /\ c.transferred = m.count
    BY <1>1, <1>3 DEF Event
  <2>5. WellFormed(c)
    BY <1>1, <2>4 DEF WellFormed
  <2>6. "none" \in Error
    BY DEF Error
  <2> HIDE DEF c
  <2>7. /\ pc' = "ended" /\ ce' \in Event /\ WellFormed(ce') /\ Same(ce', c)
        /\ ce'.error = "none" /\ ce'.status = "COMPLETE"
    BY <2>2, <2>3, <2>5, <2>6, EndsFacts
  <2>8. /\ ce'.type = ce.type /\ ce'.flags = {} /\ ce'.pattern = ce.pattern /\ ce'.size = ce.size
        /\ ce'.start = ce.start /\ (ce'.again <=> ce.again) /\ ce'.transferred = m.count
    BY <2>1, <2>4, <2>7 DEF Same
  <2>9. Taken' = 0 /\ Taken = 0
    BY <1>1, <1>8, <2>2, <2>8 DEF Taken
  <2>10. Data' = Data
    BY <2>1, <2>8, SameSearch
  <2>11. m.count = IF ce.pattern = {} THEN ce.size ELSE Data
    <3>1. CASE ce.type = "READ_UNTIL_PATTERN"
      <4>1. ce.pattern # {}
        BY <1>1, <3>1 DEF WellFormed
      <4>2. Data = m.count
        BY <1>3, <2>9, <3>1
      <4>3. QED
        BY <4>1, <4>2
    <3>2. CASE ce.type # "READ_UNTIL_PATTERN"
      <4>1. ce.pattern = {} /\ ce.type \in {"READ", "READ_COUNT"}
        BY <1>1, <3>2 DEF WellFormed, Conditional
      <4>2. ce.remaining = ce.size
        <5>1. Len(client) = 0
          BY <1>1, <1>8
        <5>2. QED
          BY <1>2, <5>1
      <4>3. ce.type = "READ" => ce.size = 0
        BY <1>1, <2>1 DEF WellFormed
      <4>4. m.count <= ce.remaining /\ (ce.type = "READ_COUNT" => m.count = ce.remaining)
        BY <1>3, <3>2
      <4>5. m.count = ce.size
        <5>1. m.count \in Nat /\ ce.size \in Nat
          BY <1>2, <1>3
        <5>2. QED
          BY ONLY <4>1, <4>2, <4>3, <4>4, <5>1
      <4>6. QED
        BY <4>1, <4>5
    <3>3. QED
      BY <3>1, <3>2
  <2>12. ConditionalDone'
    <3>1. ~(CD \subseteq ce'.flags)
      BY <2>8 DEF CD
    <3>2. QED
      BY <2>7, <2>8, <2>9, <2>10, <2>11, <3>1 DEF ConditionalDone
  <2>13. Reading'
    BY <2>7 DEF Reading
  <2>14. freed' = freed + 0 /\ freed + 0 <= rcvd
    BY <1>2, <2>2
  <2>15. QED
    BY <2>2, <2>7, <2>8, <2>12, <2>13, <2>14, ConditionalStep
<1>9. QED
  BY <1>5, <1>6, <1>7, <1>8

\* The condition is not satisfied, and the event goes on.
LEMMA PartialGoes ==
    ASSUME DataInv, pc = "process", ce.type \in Conditional, UNCHANGED <<text, rcvd, secured, plain, over, sendVars>>,
           NEW n \in Nat, n <= rcvd - freed, "DELETE" \notin ce.flags => n = 0, "COPY" \in ce.flags => n <= ce.remaining,
           Data >= Taken + n,
           client' = IF "COPY" \in ce.flags THEN client \o Bytes(freed, n) ELSE client,
           freed' = freed + n,
           Goes(IF "COPY" \in ce.flags THEN CopyBufferedDataToClient(ce, n) ELSE ce, "fill")
    PROVE  DataInv'
<1> DEFINE l == Len(client)
           k == Len(client')
           j == IF "COPY" \in ce.flags THEN n ELSE 0
           c == CopyBufferedDataToClient(ce, j)
<1>1. /\ ce \in Event /\ WellFormed(ce) /\ ce.transferred = l /\ client \in Seq(Nat)
      /\ "COPY" \in ce.flags => Taken = l
      /\ "DELETE" \notin ce.flags => Taken = 0
      /\ "COPY" \notin ce.flags => client = <<>>
  BY ConditionalNumbers DEF ReadPart, Handed
<1>2. /\ ce.size \in Nat /\ ce.remaining \in Nat /\ l \in Nat /\ rcvd \in Nat /\ freed \in Nat /\ ce.start \in Nat
      /\ freed <= rcvd /\ Taken \in Nat /\ freed = ce.start + Taken /\ ce.remaining + l = ce.size
  BY ConditionalNumbers
<1>3. Data \in Nat /\ Place(Rest, ce.pattern) = Data + 1
  <2>1. EventConditionSatisfied = EventConditionSatisfied
    OBVIOUS
  <2>2. QED
    BY <2>1, ConditionFacts
<1>4. j \in Nat /\ j <= n /\ j <= ce.remaining /\ n \in Nat /\ n <= rcvd - freed /\ (j # 0 => "COPY" \in ce.flags)
  <2>1. 0 \in Nat /\ \A x \in Nat : 0 <= x /\ x <= x
    OBVIOUS
  <2>2. CASE "COPY" \in ce.flags
    <3>1. j = n /\ n <= ce.remaining
      BY <2>2, Zenon
    <3>2. QED
      BY <2>1, <2>2, <3>1, Zenon
  <2>3. CASE "COPY" \notin ce.flags
    <3>1. j = 0
      BY <2>3, Zenon
    <3>2. QED
      BY <1>2, <2>1, <3>1, Zenon
  <2>4. QED
    BY <2>2, <2>3
<1>5. client' = client \o Bytes(freed, j)
  <2>1. CASE "COPY" \in ce.flags
    BY <2>1
  <2>2. CASE "COPY" \notin ce.flags
    <3>1. Bytes(freed, 0) = <<>> /\ client' = client /\ j = 0
      BY <1>2, <2>2, BytesFacts
    <3>2. QED
      BY <1>1, <3>1
  <2>3. QED
    BY <2>1, <2>2
<1> HIDE DEF j
<1>6. k = l + j
  BY <1>4, <1>5, CopiedLength
<1>7. /\ c \in Event /\ WellFormed(c) /\ c.type = ce.type /\ c.flags = ce.flags /\ c.pattern = ce.pattern
      /\ c.size = ce.size /\ c.start = ce.start /\ (c.again <=> ce.again)
      /\ c.remaining = ce.remaining - j /\ c.transferred = ce.transferred + j
  BY <1>1, <1>4, CopiedEvent
<1> HIDE DEF l, k, c
<1>8. /\ pc' = "fill" /\ ce' \in Event /\ WellFormed(ce') /\ ce'.type = ce.type /\ ce'.flags = ce.flags
      /\ ce'.pattern = ce.pattern /\ ce'.size = ce.size /\ ce'.start = ce.start /\ (ce'.again <=> ce.again)
      /\ ce'.remaining = ce.remaining - j /\ ce'.transferred = ce.transferred + j
  <2>1. CASE "COPY" \in ce.flags
    <3>1. ce' = c /\ pc' = "fill"
      BY <2>1 DEF Goes, c, j
    <3>2. QED
      BY <1>7, <3>1
  <2>2. CASE "COPY" \notin ce.flags
    <3>1. ce' = ce /\ pc' = "fill" /\ j = 0
      BY <2>2 DEF Goes, j
    <3>2. ce.remaining = ce.remaining - j /\ ce.transferred = ce.transferred + j
      BY <1>1, <1>2, <3>1
    <3>3. QED
      BY <1>1, <3>1, <3>2
  <2>3. QED
    BY <2>1, <2>2
<1>9. Place(Rest, ce.pattern)' = Place(Rest, ce.pattern)
  BY <1>8, SameSearch
<1>10. freed + n <= rcvd /\ freed + j <= rcvd /\ freed' - ce'.start = Taken + n /\ Place(Rest, ce.pattern) > Taken + n
  <2>1. freed' = freed + n /\ Data >= Taken + n /\ ce'.start = ce.start
    BY <1>8
  <2>2. QED
    BY ONLY <1>2, <1>3, <1>4, <2>1
<1>11. Place(Rest, ce.pattern)' > freed' - ce'.start
  BY <1>9, <1>10
<1>12. ce'.remaining + k = ce'.size /\ ce'.transferred = k
  <2>1. ce'.remaining = ce.remaining - j /\ ce'.transferred = l + j /\ ce'.size = ce.size
    BY <1>1, <1>8 DEF l
  <2>2. QED
    BY ONLY <1>2, <1>4, <1>6, <2>1
<1>13. "COPY" \in ce'.flags => freed' = ce'.start + k
  <2>1. ASSUME "COPY" \in ce.flags
        PROVE  freed' = ce'.start + k
    <3>1. j = n /\ Taken = l /\ freed' = freed + n /\ ce'.start = ce.start
      BY <1>1, <1>8, <2>1 DEF j, l
    <3>2. QED
      BY ONLY <1>2, <1>4, <1>6, <3>1
  <2>2. QED
    BY <1>8, <2>1
<1>14. "DELETE" \notin ce'.flags => freed' = ce'.start
  <2>1. ASSUME "DELETE" \notin ce.flags
        PROVE  freed' = ce'.start
    <3>1. n = 0 /\ Taken = 0 /\ freed' = freed + n /\ ce'.start = ce.start
      BY <1>1, <1>8, <2>1
    <3>2. QED
      BY ONLY <1>2, <3>1
  <2>2. QED
    BY <1>8, <2>1
<1>15. "COPY" \notin ce'.flags => client' = <<>>
  BY <1>1, <1>8
<1>16. Reading'
  BY <1>11, <1>12, <1>13, <1>14, <1>15 DEF Reading, k
<1>17. ConditionalDone'
  BY <1>8 DEF ConditionalDone
<1>18. QED
  BY <1>4, <1>5, <1>8, <1>10, <1>16, <1>17, ConditionalStep

\* The condition is not satisfied.
LEMMA PartialInv ==
    ASSUME DataInv, pc = "process", ce.type \in Conditional, UNCHANGED <<text, rcvd, secured, plain, over, sendVars>>,
           NEW m, m = EventConditionSatisfied, ~m.match, movePartialConditionalDataToClient(m)
    PROVE  DataInv'
<1>1. /\ ce \in Event /\ WellFormed(ce) /\ ("COPY" \in ce.flags => Taken = Len(client))
      /\ ce.size \in Nat /\ ce.remaining \in Nat /\ rcvd \in Nat /\ freed \in Nat /\ freed <= rcvd /\ Taken \in Nat
      /\ Len(client) \in Nat /\ ce.remaining + Len(client) = ce.size
  BY ConditionalNumbers
<1>2. /\ m.count \in Nat /\ m.len \in Nat /\ m.count + m.len <= rcvd - freed /\ Data \in Nat /\ Length \in Nat
      /\ Data >= Taken + m.count
  BY ConditionFacts
<1>3. m.count <= rcvd - freed
  BY <1>1, <1>2
<1>4. CASE "DELETE" \in ce.flags /\ "COPY" \in ce.flags /\ ce.remaining < m.count
  <2> DEFINE l == Len(client)
  <2>1. /\ client' = client \o Bytes(freed, ce.remaining) /\ freed' = freed + ce.remaining
        /\ Ends(CopyBufferedDataToClient(ce, ce.remaining), "EMSGSIZE")
    BY <1>4 DEF movePartialConditionalDataToClient
  <2>2. /\ ce.size \in Nat /\ ce.remaining \in Nat /\ rcvd \in Nat /\ freed \in Nat /\ freed <= rcvd /\ Taken \in Nat
        /\ l \in Nat /\ ce.remaining + l = ce.size /\ Taken = l /\ ce.remaining < m.count
        /\ m.count \in Nat /\ Data \in Nat /\ Data >= Taken + m.count /\ m.count <= rcvd - freed
    BY <1>1, <1>2, <1>3, <1>4
  <2>3. Needs \in Nat /\ Needs >= Data
    <3>1. Include \in Nat
      BY <1>2 DEF Include
    <3>2. QED
      BY <1>2, <3>1 DEF Needs
  <2> HIDE DEF l
  <2>4. ce.remaining <= ce.remaining /\ ce.remaining <= rcvd - freed /\ Data > ce.size /\ l + ce.remaining = ce.size
    BY ONLY <2>2
  <2>5. Needs > ce.size
    BY ONLY <2>2, <2>3, <2>4
  <2>6. l + ce.remaining = Min({ce.size, Data})
    <3>1. Min({ce.size, Data}) = IF ce.size <= Data THEN ce.size ELSE Data
      BY <2>2, MinPair
    <3>2. QED
      BY ONLY <2>2, <2>4, <3>1
  <2>7. QED
    BY <1>1, <1>4, <2>1, <2>4, <2>5, <2>6, TooLong DEF l
<1>5. CASE "DELETE" \in ce.flags /\ ~("COPY" \in ce.flags /\ ce.remaining < m.count)
  <2>1. /\ client' = IF "COPY" \in ce.flags THEN client \o Bytes(freed, m.count) ELSE client
        /\ freed' = freed + m.count
        /\ Goes(IF "COPY" \in ce.flags THEN CopyBufferedDataToClient(ce, m.count) ELSE ce, "fill")
    BY <1>5 DEF movePartialConditionalDataToClient
  <2>2. "COPY" \in ce.flags => m.count <= ce.remaining
    BY <1>1, <1>2, <1>5
  <2>3. QED
    BY <1>2, <1>3, <1>5, <2>1, <2>2, PartialGoes
<1>6. CASE "DELETE" \notin ce.flags
  <2>1. /\ client' = IF "COPY" \in ce.flags THEN client \o Bytes(freed, 0) ELSE client
        /\ freed' = freed + 0
        /\ Goes(IF "COPY" \in ce.flags THEN CopyBufferedDataToClient(ce, 0) ELSE ce, "fill")
    BY <1>6 DEF movePartialConditionalDataToClient
  <2>2. 0 <= rcvd - freed /\ 0 <= ce.remaining /\ Data >= Taken + 0
    BY <1>1, <1>2
  <2>3. QED
    BY <2>1, <2>2, PartialGoes
<1>7. QED
  BY <1>4, <1>5, <1>6

\* A conditional read is processed.
LEMMA SatisfyInv ==
    ASSUME DataInv, SatisfyEvent
    PROVE  DataInv'
<1> DEFINE m == EventConditionSatisfied
<1>1. /\ pc = "process" /\ ce.type \in Conditional /\ UNCHANGED <<text, rcvd, secured, plain, over, sendVars>>
      /\ IF m.match THEN moveFinalConditionalDataToClient(m) ELSE movePartialConditionalDataToClient(m)
  BY DEF SatisfyEvent
<1>2. m = EventConditionSatisfied
  OBVIOUS
<1> HIDE DEF m
<1>3. CASE m.match
  BY <1>1, <1>2, <1>3, FinalInv
<1>4. CASE ~m.match
  BY <1>1, <1>2, <1>4, PartialInv
<1>5. QED
  BY <1>3, <1>4

-----------------------------------------------------------------------------
(* The theorems.                                                           *)

\* The invariant holds at first.
LEMMA DataInit ==
    ASSUME Init
    PROVE  DataInv
<1> USE DEF Init
<1>1. text \in Text /\ text \in Seq(Symbol) /\ Len(text) \in Nat /\ IOBSize \in Nat
  BY DataAssumption DEF Symbol
<1>2. NoEvent \in Event /\ WellFormed(NoEvent) /\ NoEvent.type = "NONE" /\ NoEvent.start = 0 /\ ~NoEvent.again
  BY NoEventFacts
<1>3. Typed
  <2>1. 0 - 0 <= IOBSize /\ 0 \in 0 .. Len(text) /\ 0 \in 0 .. 0
    BY <1>1
  <2>2. QED
    BY <1>1, <1>2, <2>1 DEF Typed
<1>4. Handed /\ client = Bytes(ce.start, Len(client))
  <2>1. Len(client) = 0 /\ 0 + 0 <= 0
    OBVIOUS
  <2>2. QED
    BY <1>2, <2>1, BytesFacts DEF Handed
<1>5. Reading /\ Forwarding /\ Protected /\ ConditionalDone /\ ForwardDone
  BY DEF Reading, Forwarding, Protected, ConditionalDone, ForwardDone
<1>6. Writing /\ WriteMeaning
  <2>1. wire = Bytes(0, sent)
    BY BytesFacts
  <2>2. ce.type = "NONE" /\ ~ce.again
    BY <1>2
  <2>3. QED
    BY <2>1, <2>2 DEF Writing, WriteMeaning, Send
<1>7. QED
  BY <1>3, <1>4, <1>5, <1>6, Meaning DEF DataInv, ReadPart, WritePart

\* A step in which nothing changes.
LEMMA DataStutter ==
    ASSUME DataInv, UNCHANGED vars
    PROVE  DataInv'
<1> USE DEF vars, recvVars, sendVars
<1>1. Typed'
  BY DEF DataInv, Typed
<1>2. Writing' /\ WriteMeaning'
  BY DEF DataInv, WritePart, Writing, WriteMeaning, Send, Bytes
<1>3. Handed' /\ client' = Bytes(ce.start, Len(client))' /\ Forwarding' /\ Protected'
  BY DEF DataInv, ReadPart, Handed, Forwarding, Protected, Bytes
<1>4. Rest' = Rest /\ Place(Rest, ce.pattern)' = Place(Rest, ce.pattern) /\ Data' = Data /\ Length' = Length
  BY RestSame
<1>5. Reading'
  BY <1>4 DEF DataInv, ReadPart, Reading
<1>6. ConditionalDone' /\ ForwardDone'
  <2>1. ConditionalDone /\ ForwardDone
    BY Meaning DEF DataInv, ReadPart
  <2>2. ForwardDone'
    BY <2>1 DEF ForwardDone, Taken, Complete
  <2>3. Include' = Include /\ Needs' = Needs /\ Min({ce.size, Data})' = Min({ce.size, Data})
    BY <1>4, Zenon DEF Include, Needs, Min
  <2>4. ConditionalDone'
    BY <1>4, <2>1, <2>3 DEF ConditionalDone, Taken, Complete
  <2>5. QED
    BY <2>2, <2>4
<1>7. QED
  BY <1>1, <1>2, <1>3, <1>5, <1>6, Meaning DEF DataInv, ReadPart, WritePart

\* Every step keeps the invariant.
LEMMA DataStep ==
    ASSUME DataInv, [Next]_vars
    PROVE  DataInv'
<1>1. CASE \E c \in Calls : Begin(c)
  BY <1>1, BeginInv
<1>2. CASE \E c \in Flushes \cup WritesFromCB \cup WritesFromBuffer, n \in 0 .. Max(Sizes \cup {IOBSize}) : BeginWrite(c, n)
  <2>1. PICK c \in Flushes \cup WritesFromCB \cup WritesFromBuffer, n \in 0 .. Max(Sizes \cup {IOBSize}) : BeginWrite(c, n)
    BY <1>2
  <2>2. n \in Nat
    OBVIOUS
  <2>3. QED
    BY <2>1, <2>2, BeginWriteInv
<1>3. CASE EventStep
  BY <1>3, ResumeInv, SatisfyInv, FillInv, ReadToCallbackInv, ReadToConnInv, FlushSendBufferInv, SendFromClientInv,
     WriteFromCBInv, ConnectInv DEF EventStep
<1>4. CASE Return \/ ConnReset
  BY <1>4, ReturnInv, ResetInv
<1>5. CASE UNCHANGED vars
  BY <1>5, DataStutter
<1>6. QED
  BY <1>1, <1>2, <1>3, <1>4, <1>5 DEF Next

\* The data of a connection is safe: the inductive invariant of EventData holds
\* in every state of processing conn events, whatever the peer sends, however
\* its bytes arrive and sends are cut short, and for buffers of any size.
THEOREM DataSafe == Spec => []DataInv
<1>1. Init => DataInv
  BY DataInit
<1>2. DataInv /\ [Next]_vars => DataInv'
  BY DataStep
<1>3. QED
  BY <1>1, <1>2, PTL DEF Spec

\* Every variable of the data of a connection keeps its type: the receive
\* buffer never holds more than CONN_IOB_SIZE bytes, and no count of a conn
\* event goes below zero.
THEOREM DataTypeCorrect == Spec => []TypeOK
<1>1. DataInv => TypeOK
  <2> SUFFICES ASSUME DataInv
               PROVE  TypeOK
    OBVIOUS
  <2>1. Typed /\ Handed /\ Writing
    BY DEF DataInv, ReadPart, WritePart
  <2>2. {ce.remaining, ce.count, ce.transferred} \subseteq Nat /\ ce.status \in Status
    BY <2>1 DEF Typed, Event
  <2>3. ToSet(client) \subseteq 1 .. Len(text)
    <3> SUFFICES ASSUME NEW i \in DOMAIN client
                 PROVE  client[i] \in 1 .. Len(text)
      BY DEF ToSet
    <3> DEFINE l == Len(client)
    <3>1. client \in Seq(Nat) /\ client = Bytes(ce.start, l) /\ ce.start + l <= rcvd
      BY <2>1 DEF Handed
    <3>2. /\ l \in Nat /\ ce.start \in Nat /\ rcvd \in Nat /\ Len(text) \in Nat /\ rcvd <= Len(text)
          /\ ce.start + l <= rcvd
      BY <2>1, <3>1, Numbers
    <3>3. i \in 1 .. l
      BY <3>1
    <3> HIDE DEF l
    <3>4. client[i] = ce.start + i
      BY <3>1, <3>2, <3>3, BytesFacts
    <3>5. QED
      BY ONLY <3>2, <3>3, <3>4
  <2>4. QED
    BY <2>1, <2>2, <2>3 DEF TypeOK, Typed, Writing, Status, Used, Unsent
<1>2. QED
  BY <1>1, DataSafe, PTL

\* A read means the same however the stream arrives, blocks or breaks off, for
\* every stream, every pattern the API searches for and every size.
THEOREM ReadsAreFaithful == Spec => []ReadMeaning
<1>1. DataInv => ReadMeaning
  BY DEF DataInv, ReadPart
<1>2. QED
  BY <1>1, DataSafe, PTL

\* Nothing received in the clear is handed over after TLS has started.
THEOREM TLSIsClean == Spec => []NoClearAfterTLS
<1>1. DataInv => NoClearAfterTLS
  BY DEF DataInv, ReadPart, Protected, NoClearAfterTLS, ToSet
<1>2. QED
  BY <1>1, DataSafe, PTL

\* A write puts its bytes on the wire in order and once, however its sends are
\* cut short, and success means all of them.
THEOREM WritesAreFaithful == Spec => []WriteMeaning
<1>1. DataInv => WriteMeaning
  BY DEF DataInv, WritePart
<1>2. QED
  BY <1>1, DataSafe, PTL
=============================================================================
