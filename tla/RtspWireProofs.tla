--------------------------- MODULE RtspWireProofs ---------------------------
(***************************************************************************)
(* Theorems about RtspWire for any requests, cuts and limits.              *)
(***************************************************************************)
EXTENDS RtspWire, SequenceTheorems, WellFoundedInduction, TLAPS

\* The stream that the connection has still to look at.
Coming == buffer \o wire

IsCSeq(e) == e.is = "CSeq" /\ e.part = 1

\* The CSeqs of a stream s ascend, up to m and from above n on.
Ascends(s, n, m) ==
  /\ \A i \in 1 .. Len(s) : IsCSeq(s[i]) => s[i].num > n /\ s[i].num <= m
  /\ \A i, j \in 1 .. Len(s) : i < j /\ IsCSeq(s[i]) /\ IsCSeq(s[j]) => s[i].num < s[j].num

LastAnswer == IF answers = <<>> THEN 0 ELSE answers[Len(answers)]

\* What has been given a CSeq: the answers, then the request in the parser, then
\* what is coming.
InOrder ==
  /\ answers \in Seq(Nat) /\ AnswersIncrease
  /\ cseq = 0 \/ cseq > LastAnswer
  /\ cseq <= sent
  /\ Ascends(Coming, LastAnswer, sent) /\ Ascends(Coming, cseq, sent)

\* The types, and that a parser between two requests has no CSeq.
InTypes ==
  /\ sent \in 0 .. MaxRequests /\ frames \in 0 .. MaxFrames
  /\ wire \in Seq(Pieces) /\ buffer \in Seq(Pieces)
  /\ state \in {"line", "headers"} /\ cseq \in 0 .. MaxRequests
  /\ method \in DOMAIN Key \cup {"RTCP", "NONE"}
  /\ state = "line" => cseq = 0
  /\ got \in Nat /\ (~ready => got = 0)
  /\ ~closed /\ got > 0 => Len(buffer) <= MaxMessage

Flags ==
  /\ ready \in BOOLEAN /\ writing \in BOOLEAN /\ closed \in BOOLEAN /\ mutex \in BOOLEAN /\ clean \in BOOLEAN
  /\ leaving \in {"no", "locked", "posted"} /\ mutex = (leaving = "locked")
  /\ media \in 0 .. MaxMedia

\* Halves of messages, as they leave: in pairs, and each message after the last.
Paired(s) ==
  /\ Len(s) % 2 = 0
  /\ \A i \in 1 .. Len(s) - 1 : IF i % 2 = 1 THEN s[i] = s[i + 1] ELSE s[i] < s[i + 1]

\* What has left and what is queued are whole messages given to Send, all before
\* the one that is being given.
OutInv ==
  /\ msgs \in Nat /\ pending \in {0, msgs, -msgs}
  /\ out \in Seq(1 .. msgs) /\ queue \in Seq(1 .. msgs)
  /\ Packets(queue) <= MaxQueue
  /\ Paired(out \o queue)
  /\ pending > 0 => \A i \in 1 .. Len(out \o queue) : (out \o queue)[i] < pending
  /\ NoStall

\* rtp_conn_ is there when one of the requests asked for a DESCRIBE.
ConnRight ==
  /\ rtpConn \in BOOLEAN /\ asked \in Seq(DOMAIN Key)
  /\ clean /\ ~closed => (rtpConn <=> \E j \in DOMAIN asked : asked[j] = "DESCRIBE")

InInv   == InTypes /\ InOrder /\ ConnRight /\ WholeIsAnswered
WireInv == InInv /\ Flags /\ OutInv

-----------------------------------------------------------------------------
(* Operators.                                                              *)

\* A set of natural numbers has a least element, and Min is it.
LEMMA LeastOf ==
  ASSUME NEW T \in SUBSET Nat, T # {}
  PROVE  Min(T) \in T /\ \A x \in T : Min(T) <= x
<1> DEFINE R == {ss \in Nat \X Nat : ss[1] < ss[2]}
<1>1. IsWellFoundedOn(R, Nat)
  BY NatLessThanWellFounded DEF OpToRel
<1>2. PICK y \in T : \A x \in T : ~(<<x, y>> \in R)
  <2> HIDE DEF R
  <2> QED BY <1>1, WFMin
<1>3. \A x \in T : y <= x
  <2> TAKE x \in T
  <2>1. <<x, y>> \in Nat \X Nat /\ ~(x < y)
    BY <1>2
  <2> QED BY <2>1
<1> QED BY <1>3 DEF Min

\* One that is bounded has a greatest, and Max is it.
LEMMA GreatestOf ==
  ASSUME NEW n \in Nat, NEW T \in SUBSET (0 .. n), T # {}
  PROVE  Max(T) \in T /\ \A x \in T : x <= Max(T)
<1> DEFINE U == {n - x : x \in T}
<1>1. U \in SUBSET Nat /\ U # {}
  <2>1. \A x \in T : n - x \in Nat
    OBVIOUS
  <2> QED BY <2>1
<1>2. Min(U) \in U /\ \A x \in U : Min(U) <= x
  BY <1>1, LeastOf
<1>3. PICK y \in T : Min(U) = n - y
  BY <1>2
<1>4. \A x \in T : x <= y
  <2> TAKE x \in T
  <2>1. Min(U) <= n - x
    BY <1>2
  <2> QED BY <1>3, <2>1
<1> QED BY <1>4 DEF Max

\* The first and the last CRLF of a buffer are in it.
LEMMA CrlfFacts ==
  ASSUME NEW s \in Seq(Pieces), HasCrlf(s)
  PROVE  FindFirstCrlf(s) \in 1 .. Len(s) /\ FindLastCrlf(s) \in 1 .. Len(s)
<1>1. CrlfAt(s) # {} /\ CrlfAt(s) \subseteq 1 .. Len(s) /\ Len(s) \in Nat
  BY DEF HasCrlf, CrlfAt
<1>2. CrlfAt(s) \in SUBSET Nat /\ CrlfAt(s) \in SUBSET (0 .. Len(s))
  BY <1>1
<1>3. Min(CrlfAt(s)) \in CrlfAt(s)
  BY <1>1, <1>2, LeastOf
<1>4. Max(CrlfAt(s)) \in CrlfAt(s)
  BY <1>1, <1>2, GreatestOf
<1> QED BY <1>1, <1>3, <1>4 DEF FindFirstCrlf, FindLastCrlf

\* What is left of a sequence from a place on.
LEMMA FromFacts ==
  ASSUME NEW S, NEW s \in Seq(S), NEW k \in 0 .. Len(s)
  PROVE  /\ From(s, k + 1) \in Seq(S) /\ Len(From(s, k + 1)) = Len(s) - k
         /\ \A i \in 1 .. Len(s) - k : From(s, k + 1)[i] = s[i + k]
<1>1. Len(s) \in Nat /\ k \in Nat /\ k <= Len(s) /\ \A i \in k + 1 .. Len(s) : s[i] \in S
  BY LenProperties, ElementOfSeq
<1> DEFINE m == k + 1
<1>2. m \in Int /\ Len(s) \in Int /\ \A i \in m .. Len(s) : s[i] \in S
  BY <1>1
<1>3. /\ SubSeq(s, m, Len(s)) \in Seq(S)
      /\ Len(SubSeq(s, m, Len(s))) = IF m <= Len(s) THEN Len(s) - m + 1 ELSE 0
      /\ \A i \in 1 .. Len(s) - m + 1 : SubSeq(s, m, Len(s))[i] = s[m + i - 1]
  <2> HIDE DEF m
  <2> QED BY <1>2, SubSeqProperties
<1>4. \A i \in 1 .. Len(s) - k : m + i - 1 = i + k
  BY <1>1
<1> QED BY <1>1, <1>3, <1>4 DEF From

\* Leaving out k places and then m is leaving out k + m.
LEMMA FromFrom ==
  ASSUME NEW S, NEW s \in Seq(S), NEW k \in 0 .. Len(s), NEW m \in 0 .. Len(From(s, k + 1))
  PROVE  k + m \in 0 .. Len(s) /\ From(From(s, k + 1), m + 1) = From(s, k + m + 1)
<1>1. PICK u : u = From(s, k + 1)
  OBVIOUS
<1>2. u \in Seq(S) /\ Len(u) = Len(s) - k /\ \A i \in 1 .. Len(s) - k : u[i] = s[i + k]
  BY <1>1, FromFacts
<1>3. Len(s) \in Nat /\ k \in Nat /\ m \in Nat /\ m \in 0 .. Len(u) /\ k + m \in 0 .. Len(s)
  BY <1>1, <1>2, LenProperties
<1>4. PICK a : a = From(u, m + 1)
  OBVIOUS
<1>5. a \in Seq(S) /\ Len(a) = Len(u) - m /\ \A i \in 1 .. Len(u) - m : a[i] = u[i + m]
  BY <1>2, <1>3, <1>4, FromFacts
<1>6. PICK j : j = k + m
  OBVIOUS
<1>7. PICK b : b = From(s, j + 1)
  OBVIOUS
<1>8. b \in Seq(S) /\ Len(b) = Len(s) - j /\ \A i \in 1 .. Len(s) - j : b[i] = s[i + j]
  BY <1>3, <1>6, <1>7, FromFacts
<1>9. Len(a) = Len(b) /\ Len(a) = Len(u) - m /\ Len(a) = Len(s) - j
  BY <1>2, <1>3, <1>5, <1>6, <1>8
<1>10. ASSUME NEW i \in 1 .. Len(a) PROVE a[i] = b[i]
  <2>1. i + m \in 1 .. Len(s) - k /\ (i + m) + k = i + j
    BY <1>2, <1>3, <1>6, <1>9
  <2>2. a[i] = u[i + m] /\ b[i] = s[i + j]
    BY <1>5, <1>8, <1>9
  <2> QED BY <1>2, <2>1, <2>2
<1>11. a = b
  BY <1>5, <1>8, <1>9, <1>10, SeqEqual
<1> QED BY <1>1, <1>3, <1>4, <1>6, <1>7, <1>11

\* The first places of a sequence.
LEMMA PrefixFacts ==
  ASSUME NEW S, NEW s \in Seq(S), NEW k \in 0 .. Len(s)
  PROVE  /\ SubSeq(s, 1, k) \in Seq(S) /\ Len(SubSeq(s, 1, k)) = k
         /\ \A i \in 1 .. k : SubSeq(s, 1, k)[i] = s[i]
<1>1. Len(s) \in Nat /\ k \in Int /\ k <= Len(s) /\ \A i \in 1 .. k : s[i] \in S
  BY LenProperties, ElementOfSeq
<1>2. /\ SubSeq(s, 1, k) \in Seq(S)
      /\ Len(SubSeq(s, 1, k)) = IF 1 <= k THEN k - 1 + 1 ELSE 0
      /\ \A i \in 1 .. k - 1 + 1 : SubSeq(s, 1, k)[i] = s[1 + i - 1]
  BY <1>1, SubSeqProperties
<1> QED BY <1>1, <1>2

\* t is what is in s after the first k places, as far as it goes.
Within(t, s, k) ==
  /\ k \in Nat /\ k + Len(t) <= Len(s)
  /\ \A i \in 1 .. Len(t) : t[i] = s[i + k]

\* Part of a stream that ascends ascends, from above all that came before it.
LEMMA WithinAscends ==
  ASSUME NEW s \in Seq(Pieces), NEW t \in Seq(Pieces), NEW k \in Nat, Within(t, s, k),
         NEW n \in Nat, NEW m \in Nat, Ascends(s, n, m)
  PROVE  /\ Ascends(t, n, m)
         /\ \A i \in 1 .. k : IsCSeq(s[i]) => Ascends(t, s[i].num, m)
<1>1. \A i \in 1 .. Len(t) : i + k \in 1 .. Len(s) /\ t[i] = s[i + k]
  BY DEF Within
<1>2. \A i, j \in 1 .. Len(t) : i < j <=> i + k < j + k
  BY <1>1
<1>3. Ascends(t, n, m)
  BY <1>1, <1>2 DEF Ascends
<1>4. ASSUME NEW i \in 1 .. k, IsCSeq(s[i]) PROVE Ascends(t, s[i].num, m)
  <2>1. \A j \in 1 .. Len(t) : i < j + k /\ i \in 1 .. Len(s)
    BY <1>1
  <2>2. \A j \in 1 .. Len(t) : IsCSeq(t[j]) => t[j].num > s[i].num /\ t[j].num <= m
    BY <1>1, <1>4, <2>1 DEF Ascends
  <2> QED BY <1>3, <2>2 DEF Ascends
<1> QED BY <1>3, <1>4

-----------------------------------------------------------------------------
(* The parser.                                                             *)

KnownMethods == DOMAIN Key \cup {"RTCP", "NONE"}
Parsers == [buf : Seq(Pieces), state : {"line", "headers", "all"}, method : KnownMethods,
            cseq : 0 .. MaxRequests, ok : BOOLEAN]

\* A parser q that has read the first k pieces of p's buffer, and from these its
\* CSeq, if p had none.
Read(p, q, k) ==
  /\ q.buf = From(p.buf, k + 1)
  /\ \/ q.cseq = p.cseq
     \/ p.cseq = 0 /\ \E i \in 1 .. k : IsCSeq(p.buf[i]) /\ q.cseq = p.buf[i].num

\* A request line changes no CSeq.
LEMMA LineFacts ==
  ASSUME NEW p \in Parsers, HasCrlf(p.buf), p.ok = TRUE
  PROVE  /\ ParseRequestLine(p) \in Parsers
         /\ Read(p, ParseRequestLine(p), FindFirstCrlf(p.buf))
         /\ ParseRequestLine(p).cseq = p.cseq
         /\ ParseRequestLine(p).state \in {p.state, "headers"}
<1> DEFINE i    == FindFirstCrlf(p.buf)
           line == SubSeq(p.buf, 1, i)
           rest == [p EXCEPT !.buf = From(p.buf, i + 1)]
           few  == Names(line) \subseteq {"CSeq", "Accept", "Transport", "Session"}
           q    == ParseRequestLine(p)
<1>1. p.buf \in Seq(Pieces) /\ Len(p.buf) \in Nat
  BY DEF Parsers
<1>2. i \in 1 .. Len(p.buf)
  BY <1>1, CrlfFacts
<1>3. From(p.buf, i + 1) \in Seq(Pieces)
  BY <1>1, <1>2, FromFacts
<1>4. \/ Head(line).is \in DOMAIN Key /\ q = [rest EXCEPT !.method = Head(line).is, !.state = "headers"]
      \/ q = [rest EXCEPT !.ok = few, !.method = IF few THEN @ ELSE "NONE"]
  BY DEF ParseRequestLine
<1> HIDE DEF i, line, few, q
<1>5. few \in BOOLEAN
  BY DEF few
<1>6. q \in Parsers /\ q.buf = From(p.buf, i + 1) /\ q.cseq = p.cseq /\ q.state \in {p.state, "headers"}
  <2>1. CASE Head(line).is \in DOMAIN Key /\ q = [rest EXCEPT !.method = Head(line).is, !.state = "headers"]
    BY <1>3, <2>1 DEF Parsers, KnownMethods
  <2>2. CASE q = [rest EXCEPT !.ok = few, !.method = IF few THEN @ ELSE "NONE"]
    BY <1>3, <1>5, <2>2 DEF Parsers, KnownMethods
  <2> QED BY <1>4, <2>1, <2>2
<1> QED BY <1>6 DEF Read, i, q

\* The CSeq of the first header line with one, unless there has been one.
LEMMA CSeqFacts ==
  ASSUME NEW p \in Parsers, NEW k \in 1 .. Len(p.buf)
  PROVE  LET c == CSeqOf(p, SubSeq(p.buf, 1, k))
         IN /\ c \in 0 .. MaxRequests
            /\ \/ c = p.cseq
               \/ p.cseq = 0 /\ \E i \in 1 .. k : IsCSeq(p.buf[i]) /\ c = p.buf[i].num
<1> DEFINE msg == SubSeq(p.buf, 1, k)
           at  == {i \in DOMAIN msg : msg[i].is = "CSeq" /\ msg[i].part = 1}
           c   == CSeqOf(p, msg)
<1>1. p.buf \in Seq(Pieces) /\ p.cseq \in 0 .. MaxRequests /\ Len(p.buf) \in Nat
  BY DEF Parsers
<1>2. msg \in Seq(Pieces) /\ Len(msg) = k /\ \A i \in 1 .. k : msg[i] = p.buf[i]
  BY <1>1, PrefixFacts
<1>3. c = IF p.cseq = 0 /\ at # {} THEN msg[Min(at)].num ELSE p.cseq
  BY DEF CSeqOf
<1> HIDE DEF msg, c
<1>4. CASE p.cseq = 0 /\ at # {}
  <2>1. at \in SUBSET Nat /\ at \subseteq 1 .. k
    BY <1>2
  <2>2. Min(at) \in at
    BY <1>4, <2>1, LeastOf
  <2>3. Min(at) \in 1 .. k /\ IsCSeq(msg[Min(at)])
    BY <2>1, <2>2 DEF IsCSeq
  <2>4. msg[Min(at)] \in Pieces
    BY <1>2, <2>3, ElementOfSeq
  <2>5. msg[Min(at)].num \in 0 .. MaxRequests
    BY <2>4 DEF Pieces
  <2>6. c = msg[Min(at)].num
    BY <1>3, <1>4
  <2> DEFINE j == Min(at)
  <2> HIDE DEF j, at
  <2>7. j \in 1 .. k /\ IsCSeq(p.buf[j]) /\ c = p.buf[j].num
    BY <1>2, <2>3, <2>6 DEF j
  <2> QED BY <1>4, <2>5, <2>6, <2>7 DEF c, msg
<1>5. CASE ~(p.cseq = 0 /\ at # {})
  BY <1>1, <1>3, <1>5 DEF c, msg
<1> QED BY <1>4, <1>5

\* The headers are read up to the last CRLF, and without a CSeq are an error.
LEMMA HeadersFacts ==
  ASSUME NEW p \in Parsers, HasCrlf(p.buf), p.state = "headers", p.ok = TRUE
  PROVE  /\ ParseHeadersLine(p) \in Parsers
         /\ Read(p, ParseHeadersLine(p), FindLastCrlf(p.buf))
         /\ ParseHeadersLine(p).ok => ParseHeadersLine(p).cseq # 0
         /\ ParseHeadersLine(p).state \in {"headers", "all"}
<1> DEFINE i    == FindLastCrlf(p.buf)
           msg  == SubSeq(p.buf, 1, i)
           c    == CSeqOf(p, msg)
           rest == [p EXCEPT !.buf = From(p.buf, i + 1), !.cseq = c]
           q    == ParseHeadersLine(p)
<1>1. p.buf \in Seq(Pieces) /\ Len(p.buf) \in Nat
  BY DEF Parsers
<1>2. i \in 1 .. Len(p.buf)
  BY <1>1, CrlfFacts
<1>3. From(p.buf, i + 1) \in Seq(Pieces)
  BY <1>1, <1>2, FromFacts
<1>4. /\ c \in 0 .. MaxRequests
      /\ \/ c = p.cseq
         \/ p.cseq = 0 /\ \E j \in 1 .. i : IsCSeq(p.buf[j]) /\ c = p.buf[j].num
  BY <1>2, CSeqFacts
<1>5. \/ rest.cseq = 0 /\ q = [rest EXCEPT !.ok = FALSE]
      \/ rest.cseq # 0 /\ \E st \in {"headers", "all"} : q = [rest EXCEPT !.state = st]
  BY DEF ParseHeadersLine
<1> HIDE DEF i, c, q
<1>6. /\ q \in Parsers /\ q.buf = From(p.buf, i + 1) /\ q.cseq = c /\ q.state \in {"headers", "all"}
      /\ q.ok => q.cseq # 0
  <2>1. CASE rest.cseq = 0 /\ q = [rest EXCEPT !.ok = FALSE]
    BY <1>3, <1>4, <2>1 DEF Parsers
  <2>2. ASSUME NEW st \in {"headers", "all"}, rest.cseq # 0, q = [rest EXCEPT !.state = st]
        PROVE  /\ q \in Parsers /\ q.buf = From(p.buf, i + 1) /\ q.cseq = c /\ q.state \in {"headers", "all"}
               /\ q.ok => q.cseq # 0
    BY <1>3, <1>4, <2>2 DEF Parsers
  <2> QED BY <1>5, <2>1, <2>2
<1> QED BY <1>4, <1>6 DEF Read, i, q

\* One call of ParseRequest reads some first pieces of the buffer.  A complete
\* request has a CSeq, and a parser that looks for a request line has none.
LEMMA ParseFacts ==
  ASSUME NEW p \in Parsers, p.ok = TRUE, p.state \in {"line", "headers"}, p.state = "line" => p.cseq = 0
  PROVE  /\ ParseRequest(p) \in Parsers
         /\ \E k \in 0 .. Len(p.buf) : Read(p, ParseRequest(p), k)
         /\ ParseRequest(p).ok /\ ParseRequest(p).state = "all" => ParseRequest(p).cseq # 0
         /\ ParseRequest(p).state = "line" => ParseRequest(p).cseq = 0
<1> DEFINE q == ParseRequest(p)
           l == IF p.state = "line" /\ HasCrlf(p.buf) THEN ParseRequestLine(p) ELSE p
<1>1. p.buf \in Seq(Pieces) /\ Len(p.buf) \in Nat
  BY DEF Parsers
<1>2. From(p.buf, 0 + 1) = p.buf
  BY <1>1, SubSeqFull DEF From
<1>3. CASE IsRtcp(p.buf)
  <2>1. q = [p EXCEPT !.method = "RTCP"]
    BY <1>3 DEF ParseRequest
  <2> HIDE DEF q
  <2>2. q \in Parsers /\ q.buf = p.buf /\ q.cseq = p.cseq /\ q.state = p.state
    BY <2>1 DEF Parsers, KnownMethods
  <2>3. Read(p, q, 0)
    BY <1>2, <2>2 DEF Read
  <2> QED BY <1>1, <2>2, <2>3 DEF q
<1>4. ASSUME ~IsRtcp(p.buf)
      PROVE  /\ l \in Parsers /\ l.cseq = p.cseq /\ l.state \in {p.state, "headers"}
             /\ \E k \in 0 .. Len(p.buf) : l.buf = From(p.buf, k + 1)
  <2>1. CASE p.state = "line" /\ HasCrlf(p.buf)
    <3>1. l = ParseRequestLine(p)
      BY <2>1
    <3>2. FindFirstCrlf(p.buf) \in 0 .. Len(p.buf)
      BY <1>1, <2>1, CrlfFacts
    <3> HIDE DEF l
    <3> QED BY <2>1, <3>1, <3>2, LineFacts DEF Read
  <2>2. CASE ~(p.state = "line" /\ HasCrlf(p.buf))
    <3>1. l = p
      BY <2>2
    <3> QED BY <1>1, <1>2, <3>1
  <2> QED BY <2>1, <2>2
<1>5. CASE ~IsRtcp(p.buf) /\ l.ok /\ l.state = "headers" /\ HasCrlf(l.buf)
  <2>1. q = ParseHeadersLine(l)
    BY <1>5 DEF ParseRequest
  <2>2. l \in Parsers /\ l.cseq = p.cseq
    BY <1>4, <1>5
  <2>3. PICK k \in 0 .. Len(p.buf) : l.buf = From(p.buf, k + 1)
    BY <1>4, <1>5
  <2> HIDE DEF q, l
  <2>4. l.ok = TRUE /\ l.buf \in Seq(Pieces)
    BY <1>5, <2>2 DEF Parsers
  <2> DEFINE m == FindLastCrlf(l.buf)
  <2>5. /\ q \in Parsers /\ Read(l, q, m) /\ (q.ok => q.cseq # 0) /\ q.state \in {"headers", "all"}
    BY <1>5, <2>1, <2>2, <2>4, HeadersFacts
  <2>6. /\ Len(l.buf) = Len(p.buf) - k /\ \A i \in 1 .. Len(p.buf) - k : l.buf[i] = p.buf[i + k]
    <3>1. /\ Len(From(p.buf, k + 1)) = Len(p.buf) - k
          /\ \A i \in 1 .. Len(p.buf) - k : From(p.buf, k + 1)[i] = p.buf[i + k]
      BY ZenonT(40), <1>1, FromFacts
    <3> QED BY <2>3, <3>1
  <2>7. m \in 1 .. Len(l.buf)
    BY <1>5, <2>4, CrlfFacts
  <2> HIDE DEF m
  <2>8. k + m \in 0 .. Len(p.buf) /\ \A i \in 1 .. m : i + k \in 1 .. k + m /\ l.buf[i] = p.buf[i + k]
    <3>1. k \in Nat /\ m \in Nat /\ k + m <= Len(p.buf) /\ Len(p.buf) \in Nat
      BY <1>1, <2>6, <2>7
    <3>2. ASSUME NEW i \in 1 .. m PROVE i + k \in 1 .. k + m /\ i \in 1 .. Len(p.buf) - k
      BY <3>1
    <3> QED BY <2>6, <3>1, <3>2
  <2>9. From(l.buf, m + 1) = From(p.buf, k + m + 1)
    <3>1. PICK u : u = l.buf
      OBVIOUS
    <3>2. PICK b : b = p.buf
      OBVIOUS
    <3>3. b \in Seq(Pieces) /\ k \in 0 .. Len(b) /\ u = From(b, k + 1) /\ m \in 0 .. Len(u)
      BY <1>1, <2>3, <2>7, <3>1, <3>2
    <3>4. From(u, m + 1) = From(b, k + m + 1)
      BY <3>3, FromFrom
    <3> QED BY <3>1, <3>2, <3>4
  <2>10. Read(p, q, k + m)
    BY <2>2, <2>5, <2>8, <2>9 DEF Read
  <2> QED BY <2>5, <2>8, <2>10 DEF q
<1>6. CASE ~IsRtcp(p.buf) /\ ~(l.ok /\ l.state = "headers" /\ HasCrlf(l.buf))
  <2>1. q = l
    BY <1>6 DEF ParseRequest
  <2>2. l \in Parsers /\ l.cseq = p.cseq /\ l.state \in {p.state, "headers"}
    BY <1>4, <1>6
  <2>3. PICK k \in 0 .. Len(p.buf) : l.buf = From(p.buf, k + 1)
    BY <1>4, <1>6
  <2> HIDE DEF q, l
  <2>4. Read(p, q, k)
    BY <2>1, <2>2, <2>3 DEF Read
  <2> QED BY <2>1, <2>2, <2>4 DEF q
<1> QED BY <1>3, <1>5, <1>6

-----------------------------------------------------------------------------
(* Requests that come whole.                                               *)

\* No method, and no header that comes with one, is taken for an RTCP packet.
LEMMA KeyFacts ==
  \A m \in DOMAIN Key :
    m \notin {"$", "$long", "RTCP", "NONE"} /\ Key[m] \notin {"$", "$long", "CSeq", ""}
<1>1. DOMAIN Key = {"OPTIONS", "DESCRIBE", "SETUP", "PLAY", "TEARDOWN", "GET_PARAMETER"}
  BY DEF Key
<1>2. /\ Key["OPTIONS"] = "User-Agent" /\ Key["DESCRIBE"] = "Accept" /\ Key["SETUP"] = "Transport"
      /\ Key["PLAY"] = "Session" /\ Key["TEARDOWN"] = "Session" /\ Key["GET_PARAMETER"] = "Session"
  BY DEF Key
<1> QED BY <1>1, <1>2

\* The seven pieces of the request n: three lines and the CRLF after them.
IsWhole(c, n) ==
  /\ c \in Seq(Pieces) /\ Len(c) = 7
  /\ \A i \in 1 .. 7 : /\ c[i].num = n /\ c[i].is \notin {"$", "$long"}
                       /\ c[i].part = IF i \in {1, 3, 5} THEN 1 ELSE 2
  /\ c[1].is \in Methods
  /\ {c[3].is, c[5].is} = {"CSeq", Key[c[1].is]}

\* A request of Complete(n) is such pieces.
LEMMA CompleteFacts ==
  ASSUME NEW n \in 0 .. MaxRequests, NEW c \in Complete(n)
  PROVE  IsWhole(c, n)
<1>1. PICK m \in Methods : \E names \in Headers(m) : c = Bytes(names, n)
  BY DEF Complete
<1>2. PICK h1, h2 : {h1, h2} = {"CSeq", Key[m]} /\ c = Bytes(<<m, h1, h2>>, n)
  <2>1. c = Bytes(<<m, "CSeq", Key[m]>>, n) \/ c = Bytes(<<m, Key[m], "CSeq">>, n)
    BY <1>1 DEF Headers
  <2> QED BY <2>1
<1> DEFINE names == <<m, h1, h2>>
           e(i) == [is |-> IF i > 6 THEN "" ELSE names[(i + 1) \div 2],
                    part |-> IF i > 6 \/ i % 2 = 0 THEN 2 ELSE 1, num |-> n]
<1>3. Len(names) = 3 /\ names[1] = m /\ names[2] = h1 /\ names[3] = h2
  OBVIOUS
<1>4. c = [i \in 1 .. 7 |-> e(i)]
  <2> HIDE DEF names
  <2>1. 2 * Len(names) = 6 /\ 2 * Len(names) + 1 = 7
    BY <1>3
  <2>2. c = [i \in 1 .. 2 * Len(names) + 1 |->
               [is |-> IF i > 2 * Len(names) THEN "" ELSE names[(i + 1) \div 2],
                part |-> IF i > 2 * Len(names) \/ i % 2 = 0 THEN 2 ELSE 1, num |-> n]]
    BY <1>2, Zenon DEF Bytes, names
  <2> QED BY <2>1, <2>2
<1> HIDE DEF names
<1>9. ASSUME NEW i \in 1 .. 7
      PROVE  c[i].num = n /\ c[i].part = IF i \in {1, 3, 5} THEN 1 ELSE 2
  <2>1. c[i] = e(i)
    BY <1>4
  <2>2. i \in {1, 2, 3, 4, 5, 6, 7}
    OBVIOUS
  <2>3. i > 6 \/ i % 2 = 0 <=> i \notin {1, 3, 5}
    BY <2>2
  <2>4. e(i).num = n /\ e(i).part = IF i \in {1, 3, 5} THEN 1 ELSE 2
    BY <2>2, <2>3
  <2> HIDE DEF e
  <2> QED BY <2>1, <2>4
<1> DEFINE P(x, k) == [is |-> x, part |-> k, num |-> n]
<1>5. /\ c[1] = P(m, 1) /\ c[2] = P(m, 2) /\ c[3] = P(h1, 1) /\ c[4] = P(h1, 2)
      /\ c[5] = P(h2, 1) /\ c[6] = P(h2, 2) /\ c[7] = P("", 2)
  <2>1. c[1] = e(1) /\ c[2] = e(2) /\ c[3] = e(3) /\ c[4] = e(4) /\ c[5] = e(5) /\ c[6] = e(6) /\ c[7] = e(7)
    <3> HIDE DEF e
    <3> QED BY <1>4
  <2>2. e(1) = P(m, 1) /\ e(2) = P(m, 2)
    BY <1>3
  <2>3. e(3) = P(h1, 1) /\ e(4) = P(h1, 2)
    BY <1>3
  <2>4. e(5) = P(h2, 1) /\ e(6) = P(h2, 2)
    BY <1>3
  <2>5. e(7) = P("", 2)
    BY <1>3
  <2> HIDE DEF e, P
  <2> QED BY <2>1, <2>2, <2>3, <2>4, <2>5
<1>6. m \in DOMAIN Key /\ m \notin {"$", "$long"} /\ h1 \notin {"$", "$long"} /\ h2 \notin {"$", "$long"}
  BY <1>2, WireAssumption, KeyFacts
<1>7. \A x, k : P(x, k).is = x
  OBVIOUS
<1>8. c \in Seq(Pieces) /\ Len(c) = 7
  <2> DEFINE N == DOMAIN Key \cup {Key[k] : k \in DOMAIN Key} \cup {"CSeq", "", "$", "$long"}
  <2>1. m \in N /\ h1 \in N /\ h2 \in N /\ "" \in N
    BY <1>2, <1>6
  <2>2. ASSUME NEW x \in N, NEW k \in {1, 2} PROVE P(x, k) \in Pieces
    <3>1. Pieces = [is : N, part : 1 .. 2, num : 0 .. MaxRequests]
      BY DEF Pieces
    <3> HIDE DEF N
    <3>2. k \in 1 .. 2
      OBVIOUS
    <3> QED BY <3>1, <3>2
  <2> HIDE DEF N, P, e
  <2>3. \A i \in 1 .. 7 : i \in {1, 2, 3, 4, 5, 6, 7}
    OBVIOUS
  <2>4. \A i \in {1, 2, 3, 4, 5, 6, 7} : c[i] \in Pieces
    BY <1>5, <2>1, <2>2
  <2>5. c = [i \in 1 .. 7 |-> c[i]]
    BY <1>4
  <2>6. c \in [1 .. 7 -> Pieces]
    BY <2>3, <2>4, <2>5
  <2>7. c \in Seq(Pieces)
    BY <2>6, SeqDef
  <2> QED BY <2>6, <2>7, LenProperties
<1> HIDE DEF P
<1>10. /\ c[1].is = m /\ c[2].is = m /\ c[3].is = h1 /\ c[4].is = h1 /\ c[5].is = h2 /\ c[6].is = h2
       /\ c[7].is = ""
  BY <1>5, <1>7
<1>13. \A i \in 1 .. 7 : c[i].is \notin {"$", "$long"}
  <2>1. \A i \in 1 .. 7 : i \in {1, 2, 3, 4, 5, 6, 7}
    OBVIOUS
  <2>2. \A i \in {1, 2, 3, 4, 5, 6, 7} : c[i].is \in {m, h1, h2, ""}
    BY <1>10
  <2>3. \A x \in {m, h1, h2, ""} : x \notin {"$", "$long"}
    BY <1>6
  <2> TAKE i \in 1 .. 7
  <2>4. c[i].is \in {m, h1, h2, ""}
    BY <2>1, <2>2
  <2> QED BY <2>3, <2>4
<1>11. c[1].is = m /\ c[3].is = h1 /\ c[5].is = h2
  BY <1>5, <1>7
<1>12. c[1].is \in Methods /\ {c[3].is, c[5].is} = {"CSeq", Key[c[1].is]}
  BY <1>2, <1>11
<1> QED BY <1>8, <1>9, <1>12, <1>13 DEF IsWhole

\* ParseRequest takes a complete request whole, with its own CSeq.
LEMMA ParseWhole ==
  ASSUME NEW n \in 1 .. MaxRequests, NEW p \in Parsers, p.buf \in Complete(n),
         p.state = "line", p.cseq = 0, p.ok = TRUE
  PROVE  /\ ~IsRtcp(p.buf)
         /\ ParseRequest(p).ok = TRUE /\ ParseRequest(p).state = "all"
         /\ ParseRequest(p).cseq = n /\ ParseRequest(p).buf = <<>>
         /\ ParseRequest(p).method # "RTCP"
         /\ ParseRequest(p).method = Head(p.buf).is /\ Head(p.buf).is \in DOMAIN Key
<1>0. PICK c \in Complete(n) : c = p.buf
  OBVIOUS
<1> DEFINE l == ParseRequestLine(p)
           q == ParseRequest(p)
<1>1. IsWhole(c, n)
  <2>1. n \in 0 .. MaxRequests
    BY WireAssumption
  <2> HIDE DEF l, q
  <2> QED BY <2>1, CompleteFacts
<1>2. ~IsRtcp(c)
  BY <1>1 DEF IsRtcp, IsWhole
<1>3. \A i \in 1 .. 7 : IsCrlf(c[i]) <=> i \notin {1, 3, 5}
  BY <1>1 DEF IsCrlf, IsWhole
<1>4. HasCrlf(c) /\ 2 \in CrlfAt(c) /\ 1 \notin CrlfAt(c) /\ CrlfAt(c) \in SUBSET Nat
  BY <1>1, <1>3 DEF HasCrlf, CrlfAt, IsWhole
<1>5. FindFirstCrlf(c) = 2
  <2>1. Min(CrlfAt(c)) \in CrlfAt(c) /\ Min(CrlfAt(c)) <= 2
    BY <1>4, LeastOf
  <2>2. Min(CrlfAt(c)) \in 1 .. 7
    BY <1>1, <2>1 DEF CrlfAt, IsWhole
  <2>3. Min(CrlfAt(c)) # 1
    BY <1>4, <2>1
  <2> QED BY <2>1, <2>2, <2>3 DEF FindFirstCrlf
<1>6. Len(SubSeq(c, 1, 2)) = 2 /\ Head(SubSeq(c, 1, 2)) = c[1]
  <2>1. Len(SubSeq(c, 1, 2)) = 2 /\ SubSeq(c, 1, 2)[1] = c[1]
    BY <1>1, PrefixFacts DEF IsWhole
  <2> QED BY <2>1
<1>7. l = [[p EXCEPT !.buf = From(c, 3)] EXCEPT !.method = c[1].is, !.state = "headers"]
  <2>0. c[1].is \in DOMAIN Key
    BY <1>1, WireAssumption DEF IsWhole
  <2>1. /\ FindFirstCrlf(p.buf) = 2 /\ 2 + 1 = 3 /\ Len(SubSeq(p.buf, 1, 2)) = 2
        /\ Head(SubSeq(p.buf, 1, 2)) = c[1] /\ c[1].is \in DOMAIN Key
    BY <1>0, <1>5, <1>6, <2>0
  <2> QED BY <1>0, <2>1, Zenon DEF ParseRequestLine
<1>8a. PICK b : b = From(c, 3)
  OBVIOUS
<1>8. b \in Seq(Pieces) /\ Len(b) = 5 /\ \A i \in 1 .. 5 : b[i] = c[i + 2]
  <2>1. PICK k \in 0 .. Len(c) : k = 2
    BY <1>1 DEF IsWhole
  <2>2. c \in Seq(Pieces)
    BY <1>1 DEF IsWhole
  <2>3. /\ From(c, k + 1) \in Seq(Pieces) /\ Len(From(c, k + 1)) = Len(c) - k
        /\ \A i \in 1 .. Len(c) - k : From(c, k + 1)[i] = c[i + k]
    BY <2>2, FromFacts
  <2>4. Len(c) = 7 /\ From(c, k + 1) = b
    BY <1>1, <1>8a, <2>1 DEF IsWhole
  <2> QED BY <2>1, <2>3, <2>4
<1>9. l.buf = b /\ l.state = "headers" /\ l.cseq = 0 /\ l.ok = TRUE /\ l.method = c[1].is /\ l \in Parsers
  <2>1. c[1].is \in KnownMethods
    BY <1>1, WireAssumption DEF KnownMethods, IsWhole
  <2>2. b \in Seq(Pieces)
    BY <1>8
  <2> HIDE DEF l
  <2>3. l = [[p EXCEPT !.buf = b] EXCEPT !.method = c[1].is, !.state = "headers"]
    BY <1>7, <1>8a
  <2> QED BY <2>1, <2>2, <2>3 DEF Parsers
<1> HIDE DEF l
<1>10. IsCrlf(b[5]) /\ HasCrlf(b) /\ 5 \in CrlfAt(b) /\ CrlfAt(b) \in SUBSET (0 .. 5)
  <2>1. IsCrlf(b[5])
    BY <1>3, <1>8
  <2> QED BY <1>8, <2>1 DEF HasCrlf, CrlfAt
<1>11. FindLastCrlf(b) = 5
  <2>1. Max(CrlfAt(b)) \in CrlfAt(b) /\ 5 <= Max(CrlfAt(b))
    BY <1>10, GreatestOf
  <2> QED BY <1>10, <2>1 DEF FindLastCrlf
<1>12. SubSeq(b, 1, 5) = b /\ From(b, 6) = <<>>
  <2>1. SubSeq(b, 1, Len(b)) = b
    BY <1>8, SubSeqFull
  <2>2. SubSeq(b, 6, 5) = <<>>
    BY SubSeqEmpty
  <2> QED BY <1>8, <2>1, <2>2 DEF From
<1>13. CSeqOf(l, b) = n
  <2> DEFINE at == {i \in DOMAIN b : b[i].is = "CSeq" /\ b[i].part = 1}
  <2>1. at \in SUBSET Nat /\ at \subseteq 1 .. 5
    BY <1>8
  <2>2. b[1].is = c[3].is /\ b[3].is = c[5].is /\ b[1].part = 1 /\ b[3].part = 1
    BY <1>1, <1>8 DEF IsWhole
  <2>3. 1 \in at \/ 3 \in at
    <3>1. DOMAIN b = 1 .. 5
      BY <1>8
    <3>2. b[1].is = "CSeq" \/ b[3].is = "CSeq"
      <4>1. {c[3].is, c[5].is} = {"CSeq", Key[c[1].is]}
        BY <1>1, Zenon DEF IsWhole
      <4> QED BY <2>2, <4>1, Zenon
    <3> QED BY <2>2, <3>1, <3>2
  <2>4. Min(at) \in at
    BY <2>1, <2>3, LeastOf
  <2>5. b[Min(at)].num = n
    BY <1>1, <1>8, <2>1, <2>4 DEF IsWhole
  <2>6. CSeqOf(l, b) = IF l.cseq = 0 /\ at # {} THEN b[Min(at)].num ELSE l.cseq
    BY DEF CSeqOf
  <2> HIDE DEF at
  <2> QED BY <1>9, <2>3, <2>5, <2>6
<1>14. Key[l.method] \in Names(b) /\ l.method \in DOMAIN Key
  <2>1. b[1].is = c[3].is /\ b[3].is = c[5].is /\ b[1].part = 1 /\ b[3].part = 1
    BY <1>1, <1>8 DEF IsWhole
  <2>2. {c[3].is, c[5].is} \subseteq Names(b)
    BY <1>8, <2>1 DEF Names
  <2>3. l.method = c[1].is /\ c[1].is \in Methods /\ Key[c[1].is] \in {c[3].is, c[5].is}
    BY Zenon, <1>1, <1>9 DEF IsWhole
  <2>4. l.method \in DOMAIN Key
    BY Zenon, <2>3, WireAssumption
  <2> QED BY Zenon, <2>2, <2>3, <2>4
<1>15. q = ParseHeadersLine(l)
  BY <1>0, <1>2, <1>4, <1>9, <1>10 DEF ParseRequest, l
<1>16. q = [[l EXCEPT !.buf = From(b, 6), !.cseq = n] EXCEPT !.state = "all"]
  <2> DEFINE rest == [l EXCEPT !.buf = From(b, 6), !.cseq = n]
  <2>1. rest.cseq = n
    BY <1>9 DEF Parsers
  <2>2. ParseHeadersLine(l) = IF rest.cseq = 0 THEN [rest EXCEPT !.ok = FALSE]
                              ELSE [rest EXCEPT !.state =
                                      IF l.method \in AtOnce \/ (l.method \in DOMAIN Key /\ Key[l.method] \in Names(b))
                                      THEN "all" ELSE "headers"]
    <3>1. /\ FindLastCrlf(l.buf) = 5 /\ SubSeq(l.buf, 1, 5) = b /\ From(l.buf, 5 + 1) = From(b, 6)
          /\ CSeqOf(l, b) = n
      BY <1>9, <1>11, <1>12, <1>13
    <3> QED BY <3>1, Zenon DEF ParseHeadersLine
  <2> HIDE DEF rest
  <2>3. q = [rest EXCEPT !.state = "all"]
    BY <1>14, <1>15, <2>1, <2>2
  <2> QED BY <2>3 DEF rest
<1> HIDE DEF q
<1>17. q.ok = TRUE /\ q.state = "all" /\ q.cseq = n /\ q.buf = <<>> /\ q.method = c[1].is
  BY <1>9, <1>12, <1>16 DEF Parsers
<1>18. c[1].is # "RTCP"
  BY <1>1, KeyFacts, WireAssumption DEF IsWhole
<1>19. Head(c).is = c[1].is /\ c[1].is \in DOMAIN Key
  BY <1>1, WireAssumption DEF IsWhole
<1> QED BY <1>0, <1>2, <1>17, <1>18, <1>19 DEF q

-----------------------------------------------------------------------------
(* The stream of the input.                                                *)

\* Every piece of a request or of a packet of the client is one of Pieces.
LEMMA PieceFacts ==
  MaxRequests \in Nat /\ \A e \in Pieces : e.num \in 0 .. MaxRequests /\ e.num \in Nat
<1>1. MaxRequests \in Nat
  BY WireAssumption
<1>2. \A e \in Pieces : e.num \in 0 .. MaxRequests
  BY DEF Pieces
<1> QED BY <1>1, <1>2

\* Appending to a stream what has the CSeqs that come next, at most one.
LEMMA AppendAscends ==
  ASSUME NEW s \in Seq(Pieces), NEW r \in Seq(Pieces), NEW n \in Nat, NEW m \in Nat, NEW m2 \in Nat,
         n <= m, m <= m2, Ascends(s, n, m),
         \A i \in 1 .. Len(r) : IsCSeq(r[i]) => r[i].num > m /\ r[i].num <= m2,
         \A i, j \in 1 .. Len(r) : IsCSeq(r[i]) /\ IsCSeq(r[j]) => i = j
  PROVE  Ascends(s \o r, n, m2)
<1>1. /\ s \o r \in Seq(Pieces) /\ Len(s \o r) = Len(s) + Len(r) /\ Len(s) \in Nat /\ Len(r) \in Nat
      /\ \A i \in 1 .. Len(s) + Len(r) : (s \o r)[i] = IF i <= Len(s) THEN s[i] ELSE r[i - Len(s)]
  BY ConcatProperties, LenProperties
<1> DEFINE t == s \o r
<1>2. \A i \in 1 .. Len(s) : s[i].num \in Nat
  <2> TAKE i \in 1 .. Len(s)
  <2>1. s[i] \in Pieces
    BY ElementOfSeq
  <2> QED BY <2>1, PieceFacts
<1>3. \A i \in 1 .. Len(r) : r[i].num \in Nat
  <2> TAKE i \in 1 .. Len(r)
  <2>1. r[i] \in Pieces
    BY ElementOfSeq
  <2> QED BY <2>1, PieceFacts
<1>4. \A i \in 1 .. Len(t) : \/ i \in 1 .. Len(s) /\ t[i] = s[i]
                             \/ i > Len(s) /\ i - Len(s) \in 1 .. Len(r) /\ t[i] = r[i - Len(s)]
  BY <1>1
<1> HIDE DEF t
<1>5. \A i \in 1 .. Len(t) : IsCSeq(t[i]) => t[i].num > n /\ t[i].num <= m2
  <2> TAKE i \in 1 .. Len(t)
  <2>1. CASE i \in 1 .. Len(s) /\ t[i] = s[i]
    BY <1>2, <2>1 DEF Ascends
  <2>2. CASE i - Len(s) \in 1 .. Len(r) /\ t[i] = r[i - Len(s)]
    BY <1>3, <2>2
  <2> QED BY <1>4, <2>1, <2>2
<1>6. ASSUME NEW i \in 1 .. Len(t), NEW j \in 1 .. Len(t), i < j, IsCSeq(t[i]), IsCSeq(t[j])
      PROVE  t[i].num < t[j].num
  <2>1. CASE i \in 1 .. Len(s) /\ t[i] = s[i] /\ j \in 1 .. Len(s) /\ t[j] = s[j]
    BY <1>6, <2>1 DEF Ascends
  <2>2. CASE i \in 1 .. Len(s) /\ t[i] = s[i] /\ j > Len(s) /\ j - Len(s) \in 1 .. Len(r) /\ t[j] = r[j - Len(s)]
    <3>1. s[i].num <= m /\ r[j - Len(s)].num > m
      BY <1>6, <2>2 DEF Ascends
    <3> QED BY SMTT(30), <1>2, <1>3, <2>2, <3>1
  <2>3. ~(i > Len(s) /\ j \in 1 .. Len(s))
    BY <1>1, <1>6
  <2>4. ASSUME i > Len(s), i - Len(s) \in 1 .. Len(r), t[i] = r[i - Len(s)],
               j - Len(s) \in 1 .. Len(r), t[j] = r[j - Len(s)]
        PROVE  FALSE
    <3>1. i - Len(s) = j - Len(s)
      BY <1>6, <2>4
    <3> QED BY <1>1, <1>6, <3>1
  <2> QED BY <1>4, <2>1, <2>2, <2>3, <2>4
<1> QED BY <1>5, <1>6 DEF Ascends, t

\* What a read leaves in the buffer and on the wire is what was there after the
\* pieces it has taken; those come first in the stream.
LEMMA SuffixWithin ==
  ASSUME NEW u \in Seq(Pieces), NEW w \in Seq(Pieces), NEW n \in 0 .. Len(w),
         NEW b, b = u \o SubSeq(w, 1, n), NEW k \in 0 .. Len(b)
  PROVE  /\ b \in Seq(Pieces) /\ Len(b) = Len(u) + n /\ Len(b) <= Len(u \o w)
         /\ From(b, k + 1) \in Seq(Pieces) /\ From(w, n + 1) \in Seq(Pieces)
         /\ Within(From(b, k + 1) \o From(w, n + 1), u \o w, k)
         /\ Within(From(b, k + 1), u \o w, k)
         /\ \A i \in 1 .. Len(b) : b[i] = (u \o w)[i]
<1>1. Len(u) \in Nat /\ Len(w) \in Nat /\ n \in Nat /\ n <= Len(w)
  BY LenProperties
<1>2. PICK h : h = SubSeq(w, 1, n)
  OBVIOUS
<1>3. h \in Seq(Pieces) /\ Len(h) = n /\ \A i \in 1 .. n : h[i] = w[i]
  BY <1>2, PrefixFacts
<1>4. b = u \o h
  BY <1>2
<1>5. /\ b \in Seq(Pieces) /\ Len(b) = Len(u) + n
      /\ \A i \in 1 .. Len(u) + n : b[i] = IF i <= Len(u) THEN u[i] ELSE h[i - Len(u)]
  BY <1>3, <1>4, ConcatProperties
<1>6. PICK s : s = u \o w
  OBVIOUS
<1>7. /\ s \in Seq(Pieces) /\ Len(s) = Len(u) + Len(w)
      /\ \A i \in 1 .. Len(u) + Len(w) : s[i] = IF i <= Len(u) THEN u[i] ELSE w[i - Len(u)]
  BY <1>6, ConcatProperties
<1>8. \A i \in 1 .. Len(b) : b[i] = s[i]
  <2> TAKE i \in 1 .. Len(b)
  <2>1. i \in 1 .. Len(u) + n /\ i \in 1 .. Len(u) + Len(w)
    BY <1>1, <1>5
  <2>2. i > Len(u) => i - Len(u) \in 1 .. n
    BY <1>1, <2>1
  <2> QED BY <1>3, <1>5, <1>7, <2>1, <2>2
<1>9. PICK c : c = From(b, k + 1)
  OBVIOUS
<1>10. c \in Seq(Pieces) /\ Len(c) = Len(b) - k /\ \A i \in 1 .. Len(b) - k : c[i] = b[i + k]
  BY <1>5, <1>9, FromFacts
<1>11. PICK v : v = From(w, n + 1)
  OBVIOUS
<1>12. v \in Seq(Pieces) /\ Len(v) = Len(w) - n /\ \A i \in 1 .. Len(w) - n : v[i] = w[i + n]
  BY <1>11, FromFacts
<1>13. PICK t : t = c \o v
  OBVIOUS
<1>14. /\ t \in Seq(Pieces) /\ Len(t) = Len(c) + Len(v)
       /\ \A i \in 1 .. Len(c) + Len(v) : t[i] = IF i <= Len(c) THEN c[i] ELSE v[i - Len(c)]
  BY <1>10, <1>12, <1>13, ConcatProperties
<1>15. k \in Nat /\ k <= Len(b) /\ Len(t) = Len(u) + Len(w) - k
  BY <1>1, <1>5, <1>10, <1>12, <1>14
<1>16. ASSUME NEW i \in 1 .. Len(t) PROVE t[i] = s[i + k]
  <2>1. CASE i <= Len(c)
    <3>0. i \in 1 .. Len(c) + Len(v) /\ i \in 1 .. Len(b) - k /\ Len(b) \in Nat
      BY SMTT(30), <1>1, <1>5, <1>10, <1>12, <1>14, <1>15, <2>1
    <3>1. t[i] = c[i]
      BY <1>14, <2>1, <3>0
    <3>2. c[i] = b[i + k]
      BY <1>10, <3>0
    <3>3. i + k \in 1 .. Len(b)
      BY <1>15, <3>0
    <3> QED BY <1>8, <3>1, <3>2, <3>3
  <2>2. CASE ~(i <= Len(c))
    <3> DEFINE j == i - Len(c)
    <3>0. j \in 1 .. Len(w) - n /\ i \in 1 .. Len(c) + Len(v)
      BY SMTT(30), <1>1, <1>5, <1>10, <1>12, <1>14, <1>15, <2>2
    <3>1. t[i] = v[j] /\ v[j] = w[j + n]
      BY <1>12, <1>14, <2>2, <3>0
    <3>2. i + k \in 1 .. Len(u) + Len(w) /\ i + k > Len(u) /\ (i + k) - Len(u) = j + n
      BY SMTT(30), <1>1, <1>5, <1>10, <1>12, <1>14, <1>15, <2>2
    <3> HIDE DEF j
    <3> QED BY <1>7, <3>1, <3>2
  <2> QED BY <2>1, <2>2
<1>17. Within(t, s, k)
  BY <1>1, <1>7, <1>15, <1>16 DEF Within
<1>18. Within(c, s, k)
  <2>1. k + Len(c) <= Len(s)
    BY <1>1, <1>5, <1>7, <1>10, <1>15
  <2>2. \A i \in 1 .. Len(c) : i + k \in 1 .. Len(b) /\ c[i] = b[i + k]
    <3> TAKE i \in 1 .. Len(c)
    <3>1. i \in 1 .. Len(b) - k /\ i + k \in 1 .. Len(b)
      BY <1>1, <1>5, <1>10, <1>15
    <3> QED BY <1>10, <3>1
  <2> QED BY <1>8, <1>15, <2>1, <2>2 DEF Within
<1>19. b \in Seq(Pieces) /\ Len(b) = Len(u) + n /\ Len(b) <= Len(u \o w)
  BY <1>1, <1>5, <1>6, <1>7
<1>20. From(b, k + 1) \in Seq(Pieces) /\ From(w, n + 1) \in Seq(Pieces)
  BY <1>9, <1>10, <1>11, <1>12
<1>21. /\ Within(From(b, k + 1) \o From(w, n + 1), u \o w, k)
       /\ Within(From(b, k + 1), u \o w, k)
       /\ \A i \in 1 .. Len(b) : b[i] = (u \o w)[i]
  BY <1>6, <1>8, <1>9, <1>11, <1>13, <1>17, <1>18, Zenon
<1> QED BY <1>19, <1>20, <1>21

\* The name that a line's pieces come from.
LEMMA Halving ==
  ASSUME NEW l \in Nat, NEW i \in 1 .. 2 * l
  PROVE  (i + 1) \div 2 \in 1 .. l /\ (i % 2 = 1 => 2 * ((i + 1) \div 2) = i + 1)
OBVIOUS

\* A request has its own CSeq, once.
LEMMA RequestFacts ==
  ASSUME NEW n \in 0 .. MaxRequests, NEW r \in Requests(n)
  PROVE  /\ r \in Seq(Pieces)
         /\ \A i \in 1 .. Len(r) : r[i].num = n
         /\ \A i, j \in 1 .. Len(r) : IsCSeq(r[i]) /\ IsCSeq(r[j]) => i = j
<1> DEFINE N == DOMAIN Key \cup {Key[m] : m \in DOMAIN Key} \cup {"CSeq", "", "$", "$long"}
           Once(names) == /\ names \in Seq(N)
                          /\ \A a, b \in 1 .. Len(names) : names[a] = "CSeq" /\ names[b] = "CSeq" => a = b
<1>1. \E names : Once(names) /\ r = Bytes(names, n)
  <2>1. ASSUME NEW m \in Methods
        PROVE  m \in N /\ Key[m] \in N /\ "CSeq" \in N /\ m # "CSeq" /\ Key[m] # "CSeq"
    <3>1. m \in DOMAIN Key /\ "CSeq" \notin DOMAIN Key
      BY WireAssumption DEF Key
    <3> QED BY <3>1, KeyFacts
  <2> HIDE DEF N
  <2>2. ASSUME NEW m \in Methods, NEW names \in Headers(m) PROVE Once(names)
    <3>1. PICK h1, h2 : /\ names = <<m, h1, h2>> /\ h1 \in N /\ h2 \in N
                        /\ ~(h1 = "CSeq" /\ h2 = "CSeq")
      BY <2>1, <2>2 DEF Headers
    <3>2. names \in Seq(N) /\ Len(names) = 3 /\ names[1] = m /\ names[2] = h1 /\ names[3] = h2
      BY <2>1, <3>1
    <3> QED BY <2>1, <3>1, <3>2
  <2>3. ASSUME NEW m \in Methods PROVE Once(<<m, "CSeq">>)
    BY <2>1
  <2> HIDE DEF Once
  <2>4. CASE r \in Complete(n)
    BY <2>2, <2>4 DEF Complete
  <2>5. CASE r \in {Bytes(<<m, "CSeq">>, n) : m \in Methods}
    BY <2>3, <2>5
  <2> QED BY <2>4, <2>5 DEF Requests
<1>2. PICK names : Once(names) /\ r = Bytes(names, n)
  BY <1>1
<1>3. names \in Seq(N) /\ Len(names) \in Nat
  <2> HIDE DEF N
  <2> QED BY <1>2, LenProperties
<1> HIDE DEF N, Once
<1> DEFINE L == 2 * Len(names)
           e(i) == [is |-> IF i > L THEN "" ELSE names[(i + 1) \div 2],
                    part |-> IF i > L \/ i % 2 = 0 THEN 2 ELSE 1, num |-> n]
<1>4. r = [i \in 1 .. L + 1 |-> e(i)]
  BY <1>2, Zenon DEF Bytes
<1>5. L \in Nat /\ \A i \in 1 .. L : (i + 1) \div 2 \in 1 .. Len(names)
  <2>1. ASSUME NEW i \in 1 .. L PROVE (i + 1) \div 2 \in 1 .. Len(names)
    BY <1>3, Halving
  <2>2. L \in Nat
    BY <1>3
  <2> HIDE DEF L
  <2> QED BY <2>1, <2>2
<1>6. ASSUME NEW i \in 1 .. L + 1
      PROVE  /\ r[i] \in Pieces /\ r[i].num = n
             /\ IsCSeq(r[i]) => i <= L /\ i % 2 = 1 /\ names[(i + 1) \div 2] = "CSeq"
  <2>1. r[i] = e(i)
    BY <1>4
  <2>2. (IF i > L THEN "" ELSE names[(i + 1) \div 2]) \in N
    <3>1. CASE i > L
      BY <3>1 DEF N
    <3>2. CASE ~(i > L)
      <4>1. (i + 1) \div 2 \in 1 .. Len(names)
        BY <1>5, <3>2
      <4>2. names[(i + 1) \div 2] \in N
        BY <1>3, <4>1, ElementOfSeq
      <4> QED BY <3>2, <4>2
    <3> QED BY <3>1, <3>2
  <2>3. Pieces = [is : N, part : 1 .. 2, num : 0 .. MaxRequests]
    BY DEF Pieces, N
  <2>4. e(i) \in Pieces
    <3>1. PICK x \in N : x = IF i > L THEN "" ELSE names[(i + 1) \div 2]
      BY <2>2
    <3>2. PICK y \in 1 .. 2 : y = IF i > L \/ i % 2 = 0 THEN 2 ELSE 1
      <4>1. 1 \in 1 .. 2 /\ 2 \in 1 .. 2
        OBVIOUS
      <4> HIDE DEF L
      <4> QED BY <4>1, Zenon
    <3>3. e(i) = [is |-> x, part |-> y, num |-> n]
      <4> HIDE DEF L
      <4> QED BY <3>1, <3>2
    <3> HIDE DEF L, e
    <3> QED BY <2>3, <3>3
  <2>5. e(i).num = n
    OBVIOUS
  <2>6. IsCSeq(e(i)) => i <= L /\ i % 2 = 1 /\ names[(i + 1) \div 2] = "CSeq"
    <3>1. e(i).part = 1 => i <= L /\ i % 2 = 1
      BY <1>5
    <3>2. i <= L => e(i).is = names[(i + 1) \div 2]
      <4>1. i <= L => ~(i > L)
        BY <1>5
      <4> HIDE DEF L
      <4> QED BY <4>1
    <3> HIDE DEF e
    <3> QED BY <3>1, <3>2 DEF IsCSeq
  <2> HIDE DEF e
  <2> QED BY <2>1, <2>4, <2>5, <2>6
<1> HIDE DEF e
<1>7. r \in [1 .. L + 1 -> Pieces]
  <2>1. r = [i \in 1 .. L + 1 |-> r[i]]
    BY <1>4
  <2> QED BY <1>6, <2>1
<1>8. r \in Seq(Pieces) /\ Len(r) = L + 1
  <2>1. L + 1 \in Nat
    BY <1>5
  <2>2. r \in Seq(Pieces)
    BY <1>7, <2>1, SeqDef
  <2>3. Len(r) \in Nat /\ DOMAIN r = 1 .. Len(r) /\ DOMAIN r = 1 .. L + 1
    BY <1>7, <2>2, LenProperties
  <2> HIDE DEF L
  <2> QED BY <2>1, <2>2, <2>3
<1>9. ASSUME NEW i \in 1 .. Len(r), NEW j \in 1 .. Len(r), IsCSeq(r[i]), IsCSeq(r[j])
      PROVE  i = j
  <2>1. i \in 1 .. L + 1 /\ j \in 1 .. L + 1
    BY <1>8
  <2>2. /\ i <= L /\ i % 2 = 1 /\ names[(i + 1) \div 2] = "CSeq"
        /\ j <= L /\ j % 2 = 1 /\ names[(j + 1) \div 2] = "CSeq"
    BY <1>6, <1>9, <2>1
  <2>3. (i + 1) \div 2 \in 1 .. Len(names) /\ (j + 1) \div 2 \in 1 .. Len(names)
    BY <1>5, <2>1, <2>2
  <2>4. (i + 1) \div 2 = (j + 1) \div 2
    BY <1>2, <2>2, <2>3 DEF Once
  <2>5. 2 * ((i + 1) \div 2) = i + 1 /\ 2 * ((j + 1) \div 2) = j + 1
    <3>1. i \in 1 .. 2 * Len(names) /\ j \in 1 .. 2 * Len(names)
      BY <1>5, <2>1, <2>2
    <3> QED BY <1>3, <2>2, <3>1, Halving
  <2>6. i + 1 = j + 1 /\ i \in Int /\ j \in Int
    BY <1>5, <2>1, <2>4, <2>5
  <2> QED BY <2>6
<1> QED BY <1>6, <1>8, <1>9

\* A packet has no CSeq.
LEMMA PacketFacts ==
  ASSUME NEW long \in BOOLEAN
  PROVE  Packet(long) \in Seq(Pieces) /\ \A i \in 1 .. Len(Packet(long)) : ~IsCSeq(Packet(long)[i])
<1>1. PICK x \in {"$", "$long"} : Packet(long) = Line(x, 0)
  BY DEF Packet
<1>2. 0 \in 0 .. MaxRequests
  BY WireAssumption
<1> DEFINE N == DOMAIN Key \cup {Key[m] : m \in DOMAIN Key} \cup {"CSeq", "", "$", "$long"}
<1>3. ASSUME NEW k \in 1 .. 2 PROVE [is |-> x, part |-> k, num |-> 0] \in Pieces
  <2>1. Pieces = [is : N, part : 1 .. 2, num : 0 .. MaxRequests]
    BY DEF Pieces
  <2>2. x \in N
    OBVIOUS
  <2> HIDE DEF N
  <2> QED BY <1>2, <2>1, <2>2
<1>4. Line(x, 0) \in Seq(Pieces)
  BY <1>3 DEF Line
<1>5. \A i \in 1 .. Len(Line(x, 0)) : Line(x, 0)[i].is = x
  BY DEF Line
<1>6. x # "CSeq"
  OBVIOUS
<1> QED BY <1>1, <1>4, <1>5, <1>6 DEF IsCSeq

\* The CSeq that the parser has after the first k pieces of a stream s is of one of
\* them, or it is the one it had; what comes after, t, still ascends from it.
LEMMA ReadAscends ==
  ASSUME NEW s \in Seq(Pieces), NEW t \in Seq(Pieces), NEW k \in Nat, NEW j \in Nat, k <= j,
         Within(t, s, j), NEW a \in Nat, NEW c \in Nat, NEW m \in Nat,
         c = 0 \/ c > a, a <= m, c <= m, Ascends(s, a, m), Ascends(s, c, m), NEW d,
         \/ d = c
         \/ c = 0 /\ \E i \in 1 .. k : IsCSeq(s[i]) /\ d = s[i].num
  PROVE  /\ d \in Nat /\ (d = 0 \/ d > a) /\ d <= m
         /\ Ascends(t, a, m) /\ Ascends(t, d, m) /\ Ascends(t, 0, m)
<1>1. Ascends(t, a, m) /\ Ascends(t, c, m)
  BY WithinAscends
<1>2. d \in Nat /\ (d = 0 \/ d > a) /\ d <= m /\ Ascends(t, d, m)
  <2>1. CASE d = c
    BY <1>1, <2>1
  <2>2. ASSUME NEW i \in 1 .. k, IsCSeq(s[i]), d = s[i].num
        PROVE  d \in Nat /\ (d = 0 \/ d > a) /\ d <= m /\ Ascends(t, d, m)
    <3>1. i \in 1 .. j /\ i \in 1 .. Len(s)
      BY LenProperties DEF Within
    <3>2. s[i] \in Pieces
      BY <3>1, ElementOfSeq
    <3>3. d \in Nat /\ d > a /\ d <= m
      BY <2>2, <3>1, <3>2, PieceFacts DEF Ascends
    <3>4. Ascends(t, s[i].num, m)
      BY <2>2, <3>1, WithinAscends
    <3> QED BY <2>2, <3>3, <3>4
  <2> QED BY <2>1, <2>2
<1>3. Ascends(t, 0, m)
  <2>1. \A i \in 1 .. Len(t) : t[i].num \in Nat
    BY ElementOfSeq, PieceFacts
  <2> QED BY <1>1, <2>1 DEF Ascends
<1> QED BY <1>1, <1>2, <1>3

\* HandleRtcp and Limit leave the end of the buffer, within the limit.
LEMMA BufferFacts ==
  ASSUME NEW b \in Seq(Pieces), NEW k \in 0 .. Len(b), NEW rtcp \in BOOLEAN,
         NEW u, u = From(b, k + 1)
  PROVE  LET r == Limit(IF rtcp THEN HandleRtcp(u) ELSE u)
         IN Len(r) <= MaxMessage /\ \E j \in k .. Len(b) : r = From(b, j + 1)
<1> DEFINE h == IF rtcp THEN HandleRtcp(u) ELSE u
           r == Limit(h)
<1>1. u \in Seq(Pieces) /\ Len(u) = Len(b) - k /\ Len(b) \in Nat /\ MaxMessage \in Nat
  BY FromFacts, WireAssumption, LenProperties
<1>2. \E j \in k .. Len(b) : h = From(b, j + 1)
  <2>1. CASE h = u
    BY <1>1, <2>1
  <2>2. CASE h = From(u, 3) /\ Len(u) > 1
    <3>1. PICK m \in 0 .. Len(u) : m = 2
      BY <1>1, <2>2
    <3>2. k + m \in 0 .. Len(b) /\ From(u, m + 1) = From(b, k + m + 1)
      BY FromFrom
    <3>3. h = From(u, m + 1) /\ k + m \in k .. Len(b)
      BY <1>1, <2>2, <3>1, <3>2
    <3> QED BY <3>2, <3>3
  <2>3. h = u \/ (h = From(u, 3) /\ Len(u) > 1)
    BY DEF HandleRtcp
  <2> QED BY <2>1, <2>2, <2>3
<1> HIDE DEF h
<1>3. CASE Len(h) > MaxMessage
  <2>1. r = <<>>
    BY <1>3 DEF Limit
  <2>2. From(b, Len(b) + 1) = <<>>
    BY <1>1, SubSeqEmpty DEF From
  <2>3. Len(b) \in k .. Len(b) /\ Len(<<>>) = 0
    BY <1>1
  <2> QED BY <1>1, <2>1, <2>2, <2>3 DEF h
<1>4. CASE ~(Len(h) > MaxMessage)
  <2>1. r = h
    BY <1>4 DEF Limit
  <2>2. PICK j \in k .. Len(b) : h = From(b, j + 1)
    BY <1>2
  <2>3. j \in 0 .. Len(b)
    BY <1>1
  <2>4. From(b, j + 1) \in Seq(Pieces)
    BY <2>3, FromFacts
  <2>5. Len(h) <= MaxMessage
    BY <1>1, <1>4, <2>2, <2>4, LenProperties
  <2> QED BY <2>1, <2>2, <2>5 DEF h
<1> QED BY <1>3, <1>4

-----------------------------------------------------------------------------
(* The steps, for the input.                                               *)

inVars == <<ready, sent, frames, wire, buffer, state, method, cseq, closed, rtpConn, answers, asked, clean, got>>

\* The input's invariant holds at first, before anything is sent ...
LEMMA InInit == Init => InInv
<1> SUFFICES ASSUME Init PROVE InInv
  OBVIOUS
<1>0. MaxRequests \in Nat /\ MaxFrames \in Nat
  BY WireAssumption
<1>1. InTypes
  BY <1>0 DEF Init, InTypes
<1>2. Coming = <<>> /\ answers = <<>> /\ cseq = 0 /\ sent = 0
  BY DEF Init, Coming
<1>3. InOrder
  BY <1>2 DEF InOrder, AnswersIncrease, LastAnswer, Ascends
<1>4. WholeIsAnswered
  <2>1. {answers[i] : i \in DOMAIN answers} = {} /\ Answered(<<>>) = {}
    BY <1>2 DEF Answered
  <2> QED BY <2>1 DEF Init, WholeIsAnswered
<1>5. ConnRight
  <2>1. rtpConn = FALSE /\ asked = <<>> /\ DOMAIN <<>> = {} /\ <<>> \in Seq(DOMAIN Key)
    BY DEF Init
  <2> QED BY <2>1 DEF ConnRight
<1> QED BY <1>1, <1>3, <1>4, <1>5 DEF InInv

\* ... steps that leave the input's variables alone keep it ...
LEMMA InUnchanged ==
  ASSUME InInv, UNCHANGED inVars PROVE InInv'
<1> USE DEF inVars
<1>1. InTypes'
  BY DEF InInv, InTypes
<1>2. InOrder'
  <2>1. LastAnswer' = LastAnswer /\ Coming' = Coming
    BY DEF LastAnswer, Coming
  <2>2. AnswersIncrease' <=> AnswersIncrease
    BY DEF AnswersIncrease
  <2>3. /\ Ascends(Coming, LastAnswer, sent)' <=> Ascends(Coming, LastAnswer, sent)
        /\ Ascends(Coming, cseq, sent)' <=> Ascends(Coming, cseq, sent)
    BY <2>1 DEF Ascends, IsCSeq
  <2> QED BY <2>1, <2>2, <2>3 DEF InInv, InOrder
<1>3. WholeIsAnswered' /\ ConnRight'
  BY DEF InInv, WholeIsAnswered, ConnRight
<1> QED BY <1>1, <1>2, <1>3 DEF InInv

\* The bounds that the CSeqs of the stream ascend between.
LEMMA LastFacts ==
  ASSUME InOrder, InTypes
  PROVE  LastAnswer \in Nat /\ cseq \in Nat /\ sent \in Nat /\ LastAnswer <= sent /\ Coming \in Seq(Pieces)
<1>1. cseq \in Nat /\ sent \in Nat
  BY PieceFacts DEF InTypes
<1>2. Coming \in Seq(Pieces)
  BY ConcatProperties DEF Coming, InTypes
<1>3. CASE answers = <<>>
  BY <1>1, <1>2, <1>3 DEF LastAnswer
<1>4. CASE answers # <<>>
  <2>1. Len(answers) \in 1 .. Len(answers)
    BY <1>4, EmptySeq, LenProperties DEF InOrder
  <2>2. answers[Len(answers)] \in 1 .. sent
    BY <2>1 DEF InOrder, AnswersIncrease
  <2> QED BY <1>1, <1>2, <1>4, <2>2 DEF LastAnswer
<1> QED BY <1>3, <1>4

\* A step that takes something from the stream or leaves it, and no more.
LEMMA StreamStep ==
  ASSUME InInv, wire' \in Seq(Pieces), buffer' \in Seq(Pieces), NEW k \in Nat, Within(Coming', Coming, k),
         UNCHANGED <<sent, cseq, answers>>
  PROVE  InOrder'
<1>1. Coming' \in Seq(Pieces)
  BY ConcatProperties DEF Coming
<1>2. Ascends(Coming', LastAnswer, sent) /\ Ascends(Coming', cseq, sent)
  BY <1>1, LastFacts, WithinAscends DEF InInv, InOrder
<1> QED BY <1>2 DEF InInv, InOrder, AnswersIncrease, LastAnswer

\* ... so does closing the connection ...
LEMMA CloseIn ==
  ASSUME InInv, Close, UNCHANGED <<ready, sent, frames, buffer, parser, served, clean, got>>
  PROVE  InInv'
<1>1. buffer \in Seq(Pieces) /\ wire \in Seq(Pieces) /\ wire' = <<>> /\ <<>> \in Seq(Pieces)
  BY EmptySeq DEF Close, InInv, InTypes
<1>2. Coming' = buffer
  BY <1>1, ConcatEmptySeq DEF Coming
<1>3. /\ Len(Coming) = Len(buffer) + Len(wire) /\ Len(buffer) \in Nat /\ Len(wire) \in Nat
      /\ \A i \in 1 .. Len(buffer) + Len(wire) :
            Coming[i] = IF i <= Len(buffer) THEN buffer[i] ELSE wire[i - Len(buffer)]
  BY <1>1, ConcatProperties, LenProperties DEF Coming
<1>4. Within(buffer, Coming, 0)
  BY <1>3 DEF Within
<1>5. InOrder'
  BY <1>1, <1>2, <1>4, StreamStep DEF parser, served
<1>6. ConnRight'
  BY DEF InInv, ConnRight, Close, served
<1> QED BY <1>1, <1>5, <1>6 DEF InInv, InTypes, WholeIsAnswered, Close, parser

\* ... a request goes to the end of the stream with the next CSeq ...
LEMMA SendRequestIn ==
  ASSUME InInv, SendRequest PROVE InInv'
<1>1. sent + 1 \in 0 .. MaxRequests /\ sent \in Nat /\ sent' = sent + 1
  BY PieceFacts DEF InInv, InTypes, SendRequest
<1>2. PICK r \in Requests(sent + 1) : wire' = wire \o r
  BY DEF SendRequest
<1>3. /\ r \in Seq(Pieces) /\ \A i \in 1 .. Len(r) : r[i].num = sent + 1
      /\ \A i, j \in 1 .. Len(r) : IsCSeq(r[i]) /\ IsCSeq(r[j]) => i = j
  <2>1. PICK n : n = sent + 1
    OBVIOUS
  <2> QED BY <1>1, <2>1, RequestFacts
<1>4. buffer \in Seq(Pieces) /\ wire \in Seq(Pieces) /\ Coming' = Coming \o r
  <2>1. buffer \in Seq(Pieces) /\ wire \in Seq(Pieces) /\ buffer' = buffer
    BY DEF InInv, InTypes, SendRequest
  <2>2. buffer \o (wire \o r) = (buffer \o wire) \o r
    BY <1>3, <2>1, ConcatAssociative
  <2> QED BY <1>2, <2>1, <2>2 DEF Coming
<1>5. wire' \in Seq(Pieces)
  BY <1>2, <1>3, <1>4, ConcatProperties
<1>6. /\ \A n \in Nat : n <= sent /\ Ascends(Coming, n, sent) => Ascends(Coming \o r, n, sent + 1)
  <2> SUFFICES ASSUME NEW n \in Nat, n <= sent, Ascends(Coming, n, sent)
               PROVE  Ascends(Coming \o r, n, sent + 1)
    OBVIOUS
  <2>1. PICK m : m = sent + 1
    OBVIOUS
  <2>2. m \in Nat /\ sent <= m /\ Coming \in Seq(Pieces)
    BY <1>1, <2>1, LastFacts DEF InInv
  <2>3. \A i \in 1 .. Len(r) : IsCSeq(r[i]) => r[i].num > sent /\ r[i].num <= m
    BY <1>1, <1>3, <2>1
  <2>4. Ascends(Coming \o r, n, m)
    BY <1>1, <1>3, <2>2, <2>3, AppendAscends
  <2> QED BY <2>1, <2>4
<1>7. InOrder'
  <2>1. Ascends(Coming \o r, LastAnswer, sent + 1) /\ Ascends(Coming \o r, cseq, sent + 1)
    BY <1>6, LastFacts DEF InInv, InOrder
  <2>2. LastAnswer' = LastAnswer /\ cseq' = cseq /\ answers' = answers
    BY DEF SendRequest, parser, served, LastAnswer
  <2>3. AnswersIncrease'
    BY <1>1, <2>2 DEF InInv, InOrder, AnswersIncrease
  <2> QED BY <1>1, <1>4, <2>1, <2>2, <2>3, LastFacts DEF InInv, InOrder
<1>8. ConnRight'
  BY DEF InInv, ConnRight, SendRequest, served
<1>9. WholeIsAnswered'
  BY DEF InInv, WholeIsAnswered, SendRequest, parser, served
<1> QED BY <1>1, <1>5, <1>7, <1>8, <1>9 DEF InInv, InTypes, SendRequest, parser

\* ... a packet to its end without one ...
LEMMA SendRtcpIn ==
  ASSUME InInv, SendRtcp PROVE InInv'
<1>1. PICK r : wire' = wire \o r /\ r \in Seq(Pieces) /\ \A i \in 1 .. Len(r) : ~IsCSeq(r[i])
  BY PacketFacts DEF SendRtcp
<1>2. buffer \in Seq(Pieces) /\ wire \in Seq(Pieces) /\ Coming' = Coming \o r
  <2>1. buffer \in Seq(Pieces) /\ wire \in Seq(Pieces) /\ buffer' = buffer
    BY DEF InInv, InTypes, SendRtcp
  <2>2. buffer \o (wire \o r) = (buffer \o wire) \o r
    BY SMTT(30), <1>1, <2>1, ConcatAssociative
  <2> QED BY <1>1, <2>1, <2>2 DEF Coming
<1>3. wire' \in Seq(Pieces)
  BY <1>1, <1>2, ConcatProperties
<1>4. LastAnswer \in Nat /\ cseq \in Nat /\ sent \in Nat /\ LastAnswer <= sent /\ cseq <= sent /\ Coming \in Seq(Pieces)
  BY LastFacts DEF InInv, InOrder
<1>5. Ascends(Coming \o r, LastAnswer, sent) /\ Ascends(Coming \o r, cseq, sent)
  <2>1. /\ \A i \in 1 .. Len(r) : IsCSeq(r[i]) => r[i].num > sent /\ r[i].num <= sent
        /\ \A i, j \in 1 .. Len(r) : IsCSeq(r[i]) /\ IsCSeq(r[j]) => i = j
    BY <1>1
  <2>2. sent <= sent /\ Ascends(Coming, LastAnswer, sent) /\ Ascends(Coming, cseq, sent)
    BY <1>4 DEF InInv, InOrder
  <2>3. Ascends(Coming \o r, LastAnswer, sent)
    BY <1>1, <1>4, <2>1, <2>2, AppendAscends
  <2>4. Ascends(Coming \o r, cseq, sent)
    BY <1>1, <1>4, <2>1, <2>2, AppendAscends
  <2> QED BY <2>3, <2>4
<1>6. InOrder'
  BY <1>2, <1>5 DEF InInv, InOrder, AnswersIncrease, LastAnswer, SendRtcp, parser, served
<1>7. frames' \in 0 .. MaxFrames
  <2>1. MaxFrames \in Nat
    BY WireAssumption
  <2> QED BY <2>1 DEF InInv, InTypes, SendRtcp
<1>8. UNCHANGED <<ready, sent, buffer, state, method, cseq, closed, rtpConn, answers, asked, clean, got>>
  BY DEF SendRtcp, parser, served
<1>9. WholeIsAnswered' /\ ConnRight'
  BY <1>8 DEF InInv, WholeIsAnswered, ConnRight
<1> QED BY <1>3, <1>6, <1>7, <1>8, <1>9 DEF InInv, InTypes

\* ... a read before the callback is set only buffers ...
LEMMA HandleReadEarlyIn ==
  ASSUME InInv, HandleReadEarly PROVE InInv'
<1>1. buffer \in Seq(Pieces) /\ wire \in Seq(Pieces)
  BY DEF InInv, InTypes
<1>2. PICK n \in 1 .. Len(wire) : buffer' = buffer \o SubSeq(wire, 1, n) /\ wire' = From(wire, n + 1)
  BY DEF HandleReadEarly
<1>3. n \in 0 .. Len(wire)
  OBVIOUS
<1>4. PICK b : b = buffer'
  OBVIOUS
<1>5. b \in Seq(Pieces) /\ 0 \in 0 .. Len(b) /\ From(b, 0 + 1) = b
  <2>1. SubSeq(wire, 1, n) \in Seq(Pieces)
    BY <1>1, <1>3, PrefixFacts
  <2>2. b \in Seq(Pieces)
    BY <1>1, <1>2, <1>4, <2>1, ConcatProperties
  <2> QED BY <2>2, SubSeqFull, LenProperties DEF From
<1>6. PICK k \in 0 .. Len(b) : k = 0
  BY <1>5
<1>7. b = buffer \o SubSeq(wire, 1, n)
  BY <1>2, <1>4
<1>8. From(wire, n + 1) \in Seq(Pieces) /\ Within(From(b, k + 1) \o From(wire, n + 1), buffer \o wire, k)
  BY <1>1, <1>3, <1>7, SuffixWithin
<1>9. InOrder'
  BY <1>2, <1>4, <1>5, <1>6, <1>8, StreamStep DEF Coming, HandleReadEarly, parser, served
<1>10. ConnRight'
  BY DEF InInv, ConnRight, HandleReadEarly, served
<1> QED BY <1>2, <1>4, <1>5, <1>8, <1>9, <1>10 DEF InInv, InTypes, WholeIsAnswered, HandleReadEarly, parser

\* What a whole request or a whole RTCP packet in an empty buffer makes of the
\* parser that waits for a request line.
LEMMA CleanFacts ==
  ASSUME NEW n \in Nat, NEW p \in Parsers, p.buf \in Complete(n + 1) \cup {Packet(FALSE)},
         p.state = "line", p.cseq = 0, p.ok = TRUE
  PROVE  LET q == ParseRequest(p)
             g == IF IsRtcp(p.buf) THEN n ELSE n + 1
         IN /\ q.ok = TRUE
            /\ IF q.state = "all"
               THEN /\ g = n + 1 /\ q.cseq = n + 1 /\ ~IsRtcp(p.buf)
                    /\ q.method = Head(p.buf).is /\ q.method \in DOMAIN Key
               ELSE g = n /\ q.state = "line" /\ IsRtcp(p.buf) /\ q.method = "RTCP"
            /\ Limit(IF q.method = "RTCP" THEN HandleRtcp(q.buf) ELSE q.buf) = <<>>
<1> DEFINE q == ParseRequest(p)
<1>0. Limit(<<>>) = <<>>
  BY DEF Limit
<1>1. CASE p.buf \in Complete(n + 1)
  <2>1. PICK c \in Complete(n + 1) : c = p.buf
    BY <1>1
  <2>2. PICK names \in UNION {Headers(m) : m \in Methods} : c = Bytes(names, n + 1)
    BY DEF Complete
  <2>3. \E h1, h2, h3 : names = <<h1, h2, h3>>
    BY <2>2 DEF Headers
  <2>4. PICK h1, h2, h3 : names = <<h1, h2, h3>>
    BY <2>3
  <2>5. c \in Seq(Pieces)
    BY <2>1 DEF Parsers
  <2>6. DOMAIN c = 1 .. 7 /\ c[1].num = n + 1
    <3>1. 2 * Len(names) + 1 = 7 /\ 1 \in 1 .. 7
      BY <2>4
    <3> DEFINE e(i) == [is |-> IF i > 2 * Len(names) THEN "" ELSE names[(i + 1) \div 2],
                        part |-> IF i > 2 * Len(names) \/ i % 2 = 0 THEN 2 ELSE 1, num |-> n + 1]
    <3>2. c = [i \in 1 .. 2 * Len(names) + 1 |-> e(i)]
      BY <2>2, Zenon DEF Bytes
    <3>3. e(1).num = n + 1
      OBVIOUS
    <3> HIDE DEF e
    <3> QED BY <3>1, <3>2, <3>3
  <2>7. Len(c) \in Nat /\ 1 \in 1 .. Len(c)
    <3>1. Len(c) \in Nat /\ DOMAIN c = 1 .. Len(c)
      BY <2>5, LenProperties
    <3>2. 1 \in DOMAIN c
      BY <2>6
    <3> QED BY <3>1, <3>2
  <2>8. c[1] \in Pieces
    BY <2>5, <2>7, ElementOfSeq
  <2>9. n + 1 \in 1 .. MaxRequests
    BY <2>6, <2>8, PieceFacts
  <2>10. PICK m \in 1 .. MaxRequests : m = n + 1
    BY <2>9
  <2>11. /\ ~IsRtcp(p.buf) /\ q.ok = TRUE /\ q.state = "all" /\ q.cseq = m /\ q.buf = <<>>
         /\ q.method # "RTCP" /\ q.method = Head(p.buf).is /\ q.method \in DOMAIN Key
    BY <1>1, <2>10, ParseWhole
  <2> HIDE DEF q
  <2> QED BY <1>0, <2>10, <2>11 DEF q
<1>2. CASE p.buf = Packet(FALSE)
  <2>1. /\ p.buf = << [is |-> "$", part |-> 1, num |-> 0], [is |-> "$", part |-> 2, num |-> 0] >>
    BY <1>2 DEF Packet, Line
  <2>2. IsRtcp(p.buf) /\ Len(p.buf) = 2 /\ Head(p.buf).is = "$"
    BY <2>1 DEF IsRtcp
  <2>3. q = [p EXCEPT !.method = "RTCP"]
    BY <2>2 DEF ParseRequest
  <2> HIDE DEF q
  <2>4. q.method = "RTCP" /\ q.buf = p.buf /\ q.state = "line" /\ q.ok = TRUE
    BY <2>3 DEF Parsers
  <2>5. From(p.buf, 3) = <<>>
    <3>1. PICK b : b = p.buf
      OBVIOUS
    <3>2. SubSeq(b, 3, 2) = <<>>
      BY SubSeqEmpty
    <3> QED BY <2>2, <3>1, <3>2 DEF From
  <2>6. HandleRtcp(q.buf) = <<>>
    <3>1. Len(p.buf) > 1
      BY <2>2
    <3> QED BY <2>2, <2>4, <2>5, <3>1, Zenon DEF HandleRtcp
  <2>7. "line" # "all"
    OBVIOUS
  <2> QED BY <1>0, <2>2, <2>4, <2>6, <2>7 DEF q
<1> QED BY <1>1, <1>2

\* What a further request adds to those that are answered ...
LEMMA AnsweredAppend ==
  ASSUME NEW ms \in Seq(DOMAIN Key), NEW m \in DOMAIN Key
  PROVE  /\ Answered(Append(ms, m)) =
              Answered(ms) \cup (IF \/ m \in {"OPTIONS", "DESCRIBE", "SETUP"}
                                   \/ \E j \in DOMAIN ms : ms[j] = "DESCRIBE"
                                THEN {Len(ms) + 1} ELSE {})
         /\ (\E j \in DOMAIN Append(ms, m) : Append(ms, m)[j] = "DESCRIBE")
              <=> (m = "DESCRIBE" \/ \E j \in DOMAIN ms : ms[j] = "DESCRIBE")
<1>1. PICK t : t = Append(ms, m)
  OBVIOUS
<1>2. PICK n : n = Len(ms)
  OBVIOUS
<1>3. /\ n \in Nat /\ DOMAIN ms = 1 .. n /\ DOMAIN t = 1 .. n + 1 /\ t[n + 1] = m
      /\ \A i \in 1 .. n : t[i] = ms[i]
  BY <1>1, <1>2, AppendProperties, LenProperties
<1>4. ASSUME NEW i \in 1 .. n PROVE i \in Answered(t) <=> i \in Answered(ms)
  <2>1. \A j \in 1 .. i - 1 : t[j] = ms[j]
    BY <1>3
  <2> QED BY <1>3, <2>1 DEF Answered
<1>5. n + 1 \in Answered(t) <=> \/ m \in {"OPTIONS", "DESCRIBE", "SETUP"}
                               \/ \E j \in DOMAIN ms : ms[j] = "DESCRIBE"
  <2>1. n + 1 \in Answered(t) <=> (m \in {"PLAY", "TEARDOWN", "GET_PARAMETER"} =>
                                    \E j \in 1 .. n : t[j] = "DESCRIBE")
    BY <1>3 DEF Answered
  <2>2. m \in {"PLAY", "TEARDOWN", "GET_PARAMETER"} <=> m \notin {"OPTIONS", "DESCRIBE", "SETUP"}
    BY DEF Key
  <2> QED BY <1>3, <2>1, <2>2
<1>6. Answered(t) \subseteq 1 .. n + 1 /\ Answered(ms) \subseteq 1 .. n
  BY <1>3 DEF Answered
<1>7. PICK d \in BOOLEAN : d <=> \/ m \in {"OPTIONS", "DESCRIBE", "SETUP"}
                                \/ \E j \in DOMAIN ms : ms[j] = "DESCRIBE"
  OBVIOUS
<1>8. Answered(t) = Answered(ms) \cup (IF d THEN {n + 1} ELSE {})
  <2>1. PICK A, B : A = Answered(t) /\ B = Answered(ms)
    OBVIOUS
  <2>2. A \subseteq 1 .. n + 1 /\ B \subseteq 1 .. n /\ (n + 1 \in A <=> d) /\ \A i \in 1 .. n : i \in A <=> i \in B
    BY <1>4, <1>5, <1>6, <1>7, <2>1
  <2>3. \A x : x \in A <=> x \in B \/ (d /\ x = n + 1)
    <3> TAKE x
    <3>0. n \in Nat
      BY <1>3
    <3>1. CASE x \in 1 .. n
      <4>1. x # n + 1 /\ (x \in A <=> x \in B)
        BY ONLY <2>2, <3>0, <3>1
      <4> QED BY ONLY <4>1
    <3>2. CASE x = n + 1
      <4>1. x \notin B /\ (x \in A <=> d)
        BY ONLY <2>2, <3>0, <3>2
      <4> QED BY ONLY <3>2, <4>1
    <3>3. CASE x \notin 1 .. n + 1
      <4>1. n + 1 \in 1 .. n + 1 /\ 1 .. n \subseteq 1 .. n + 1
        BY ONLY <3>0
      <4>2. x \notin A /\ x \notin B /\ x # n + 1
        BY ONLY <2>2, <3>3, <4>1, Zenon
      <4> QED BY ONLY <4>2
    <3>4. x \in 1 .. n \/ x = n + 1 \/ x \notin 1 .. n + 1
      BY ONLY <3>0
    <3> QED BY ONLY <3>1, <3>2, <3>3, <3>4
  <2>4. A = B \cup (IF d THEN {n + 1} ELSE {})
    BY <2>3
  <2> QED BY <2>1, <2>4
<1>9. (\E j \in DOMAIN t : t[j] = "DESCRIBE") <=> (m = "DESCRIBE" \/ \E j \in DOMAIN ms : ms[j] = "DESCRIBE")
  BY <1>3
<1> QED BY <1>1, <1>2, <1>7, <1>8, <1>9

\* ... and OnRead answers in order what the parser finds.
LEMMA HandleReadIn ==
  ASSUME InInv, HandleRead PROVE InInv'
<1>1. /\ buffer \in Seq(Pieces) /\ wire \in Seq(Pieces) /\ sent \in 0 .. MaxRequests /\ frames \in 0 .. MaxFrames
      /\ cseq \in 0 .. MaxRequests /\ state \in {"line", "headers"} /\ method \in KnownMethods
      /\ got \in Nat /\ ready /\ ~closed /\ (state = "line" => cseq = 0)
  BY DEF InInv, InTypes, HandleRead, KnownMethods
<1>2. PICK n \in 1 .. Len(wire) :
       LET chunk == SubSeq(wire, 1, n)
           p == ParseRequest([buf |-> buffer \o chunk, state |-> state, method |-> method,
                              cseq |-> cseq, ok |-> TRUE])
       IN /\ clean' = (clean /\ buffer = <<>> /\ chunk \in Complete(got + 1) \cup {Packet(FALSE)})
          /\ got' = IF IsRtcp(chunk) THEN got ELSE got + 1
          /\ asked' = IF clean' /\ ~IsRtcp(chunk) THEN Append(asked, Head(chunk).is) ELSE asked
          /\ IF ~p.ok
             THEN /\ Close
                  /\ buffer' = p.buf
                  /\ UNCHANGED <<parser, rtpConn, answers, msgs, pending>>
             ELSE LET q == IF GotAll(p) THEN Reset(p) ELSE p
                  IN /\ buffer' = Limit(IF p.method = "RTCP" THEN HandleRtcp(p.buf) ELSE p.buf)
                     /\ state' = q.state /\ method' = q.method /\ cseq' = q.cseq
                     /\ rtpConn' = (rtpConn \/ (GotAll(p) /\ p.method = "DESCRIBE"))
                     /\ IF GotAll(p) /\ Answers(p.method)
                        THEN /\ answers' = Append(answers, p.cseq)
                             /\ msgs' = msgs + 1 /\ pending' = msgs + 1
                        ELSE UNCHANGED <<answers, msgs, pending>>
                     /\ wire' = From(wire, n + 1)
                     /\ UNCHANGED closed
  BY Zenon DEF HandleRead
<1>3. PICK chunk : chunk = SubSeq(wire, 1, n)
  OBVIOUS
<1>4. PICK b : b = buffer \o chunk
  OBVIOUS
<1>5. PICK p : p = [buf |-> b, state |-> state, method |-> method, cseq |-> cseq, ok |-> TRUE]
  OBVIOUS
<1>6. PICK q : q = ParseRequest(p)
  OBVIOUS
<1>7. /\ clean' = (clean /\ buffer = <<>> /\ chunk \in Complete(got + 1) \cup {Packet(FALSE)})
      /\ got' = IF IsRtcp(chunk) THEN got ELSE got + 1
      /\ asked' = IF clean' /\ ~IsRtcp(chunk) THEN Append(asked, Head(chunk).is) ELSE asked
      /\ \/ /\ ~q.ok /\ closed' = TRUE /\ wire' = <<>> /\ buffer' = q.buf
            /\ UNCHANGED <<state, method, cseq, rtpConn, answers>>
         \/ /\ q.ok /\ closed' = closed /\ wire' = From(wire, n + 1)
            /\ buffer' = Limit(IF q.method = "RTCP" THEN HandleRtcp(q.buf) ELSE q.buf)
            /\ state' = (IF q.state = "all" THEN Reset(q) ELSE q).state
            /\ method' = (IF q.state = "all" THEN Reset(q) ELSE q).method
            /\ cseq' = (IF q.state = "all" THEN Reset(q) ELSE q).cseq
            /\ rtpConn' = (rtpConn \/ (q.state = "all" /\ q.method = "DESCRIBE"))
            /\ IF q.state = "all" /\ Answers(q.method) THEN answers' = Append(answers, q.cseq)
               ELSE answers' = answers
  BY <1>2, <1>3, <1>4, <1>5, <1>6 DEF GotAll, Close, parser
<1>8. n \in 0 .. Len(wire) /\ chunk \in Seq(Pieces) /\ b \in Seq(Pieces)
  <2>1. n \in 0 .. Len(wire)
    OBVIOUS
  <2>2. chunk \in Seq(Pieces)
    BY <1>1, <1>3, <2>1, PrefixFacts
  <2> QED BY <1>1, <1>4, <2>1, <2>2, ConcatProperties
<1>9. p \in Parsers /\ p.ok = TRUE /\ p.state = state /\ p.cseq = cseq /\ p.buf = b
  BY <1>1, <1>5, <1>8 DEF Parsers
<1>10. PICK k \in 0 .. Len(b) : Read(p, q, k)
  BY <1>1, <1>6, <1>9, ParseFacts
<1>11. /\ q \in Parsers /\ (q.ok /\ q.state = "all" => q.cseq # 0)
       /\ q.state = "line" => q.cseq = 0
  BY <1>1, <1>6, <1>9, ParseFacts
<1>12. q.buf = From(b, k + 1)
  BY <1>9, <1>10 DEF Read
<1>13. \A j \in 0 .. Len(b) :
          /\ From(b, j + 1) \in Seq(Pieces) /\ From(wire, n + 1) \in Seq(Pieces)
          /\ Within(From(b, j + 1) \o From(wire, n + 1), Coming, j) /\ Within(From(b, j + 1), Coming, j)
          /\ \A i \in 1 .. Len(b) : b[i] = Coming[i]
  <2> TAKE j \in 0 .. Len(b)
  <2>1. b = buffer \o SubSeq(wire, 1, n)
    BY <1>3, <1>4
  <2>2. /\ From(b, j + 1) \in Seq(Pieces) /\ From(wire, n + 1) \in Seq(Pieces)
        /\ Within(From(b, j + 1) \o From(wire, n + 1), buffer \o wire, j)
    BY ZenonT(40), <1>1, <1>8, <2>1, SuffixWithin
  <2>3. Within(From(b, j + 1), buffer \o wire, j)
    BY <1>1, <1>8, <2>1, SuffixWithin
  <2>4. PICK s : s = buffer \o wire
    OBVIOUS
  <2>5. \A i \in 1 .. Len(b) : b[i] = s[i]
    BY <1>1, <1>8, <2>1, <2>4, SuffixWithin
  <2> QED BY <2>2, <2>3, <2>4, <2>5 DEF Coming
<1>14. Len(b) \in Nat /\ k \in Nat
  BY <1>8, LenProperties
\* What the parser has read of the stream, and what that means for the CSeqs.
<1>15. \/ q.cseq = cseq
       \/ cseq = 0 /\ \E i \in 1 .. k : IsCSeq(Coming[i]) /\ q.cseq = Coming[i].num
  <2>1. \A i \in 1 .. k : i \in 1 .. Len(b) /\ b[i] = Coming[i]
    BY <1>13, <1>14
  <2> QED BY <1>9, <1>10, <2>1 DEF Read
<1>16. ASSUME NEW t \in Seq(Pieces), NEW j \in Nat, k <= j, Within(t, Coming, j)
       PROVE  /\ q.cseq \in Nat /\ (q.cseq = 0 \/ q.cseq > LastAnswer) /\ q.cseq <= sent
              /\ Ascends(t, LastAnswer, sent) /\ Ascends(t, q.cseq, sent) /\ Ascends(t, 0, sent)
  <2>1. /\ LastAnswer \in Nat /\ cseq \in Nat /\ sent \in Nat /\ LastAnswer <= sent /\ Coming \in Seq(Pieces)
        /\ (cseq = 0 \/ cseq > LastAnswer) /\ cseq <= sent
        /\ Ascends(Coming, LastAnswer, sent) /\ Ascends(Coming, cseq, sent)
    BY LastFacts DEF InInv, InOrder
  <2>2. PICK d : d = q.cseq
    OBVIOUS
  <2>3. \/ d = cseq
        \/ cseq = 0 /\ \E i \in 1 .. k : IsCSeq(Coming[i]) /\ d = Coming[i].num
    BY <1>15, <2>2
  <2>4. /\ d \in Nat /\ (d = 0 \/ d > LastAnswer) /\ d <= sent
        /\ Ascends(t, LastAnswer, sent) /\ Ascends(t, d, sent) /\ Ascends(t, 0, sent)
    BY <1>14, <1>16, <2>1, <2>3, ReadAscends
  <2> QED BY <2>2, <2>4
<1>17. UNCHANGED <<ready, sent, frames>>
  BY DEF HandleRead
<1>18. got' \in Nat
  BY <1>1, <1>7
<1>21. asked' \in Seq(DOMAIN Key)
  <2>1. asked \in Seq(DOMAIN Key)
    BY DEF InInv, ConnRight
  <2>2. CASE clean' /\ ~IsRtcp(chunk)
    <3>1. chunk \in Complete(got + 1) \/ chunk = Packet(FALSE)
      BY <1>7, <2>2
    <3>2. IsRtcp(Packet(FALSE))
      BY DEF Packet, Line, IsRtcp
    <3>3. chunk \in Complete(got + 1) /\ clean /\ buffer = <<>>
      BY <1>7, <2>2, <3>1, <3>2
    <3>4. b = chunk /\ state = "line" /\ cseq = 0
      BY <1>1, <1>4, <1>8, <3>3, ConcatEmptySeq DEF InInv, WholeIsAnswered
    <3>5. Head(p.buf).is \in DOMAIN Key
      BY <1>1, <1>9, <2>2, <3>3, <3>4, CleanFacts
    <3> QED BY <1>7, <1>9, <2>1, <2>2, <3>4, <3>5, AppendProperties
  <2> QED BY <1>7, <2>1, <2>2
\* An error closes the connection.
<1>19. CASE /\ ~q.ok /\ closed' = TRUE /\ wire' = <<>> /\ buffer' = q.buf
            /\ UNCHANGED <<state, method, cseq, rtpConn, answers>>
  <2>1. wire' \in Seq(Pieces) /\ buffer' \in Seq(Pieces) /\ Coming' = From(b, k + 1)
    <3>1. From(b, k + 1) \in Seq(Pieces)
      BY <1>13
    <3> QED BY <1>12, <1>19, <3>1, EmptySeq, ConcatEmptySeq DEF Coming
  <2>2. Within(Coming', Coming, k)
    BY <1>13, <2>1
  <2>3. InOrder'
    BY <1>14, <1>17, <1>19, <2>1, <2>2, StreamStep
  <2>4. InTypes'
    BY <1>1, <1>17, <1>18, <1>19, <2>1 DEF InTypes, KnownMethods
  <2>5. ConnRight'
    BY <1>19, <1>21 DEF ConnRight, InInv
  <2> QED BY <1>19, <2>3, <2>4, <2>5 DEF InInv, WholeIsAnswered
\* Otherwise the rest of the stream stays.
<1>20. CASE /\ q.ok /\ closed' = closed /\ wire' = From(wire, n + 1)
            /\ buffer' = Limit(IF q.method = "RTCP" THEN HandleRtcp(q.buf) ELSE q.buf)
            /\ state' = (IF q.state = "all" THEN Reset(q) ELSE q).state
            /\ method' = (IF q.state = "all" THEN Reset(q) ELSE q).method
            /\ cseq' = (IF q.state = "all" THEN Reset(q) ELSE q).cseq
            /\ rtpConn' = (rtpConn \/ (q.state = "all" /\ q.method = "DESCRIBE"))
            /\ IF q.state = "all" /\ Answers(q.method) THEN answers' = Append(answers, q.cseq)
               ELSE answers' = answers
  <2>1. Len(buffer') <= MaxMessage /\ \E j \in k .. Len(b) : buffer' = From(b, j + 1)
    <3>1. PICK rtcp \in BOOLEAN : rtcp = (q.method = "RTCP")
      OBVIOUS
    <3>2. PICK u : u = q.buf
      OBVIOUS
    <3>3. buffer' = Limit(IF rtcp THEN HandleRtcp(u) ELSE u)
      BY <1>20, <3>1, <3>2
    <3>4. u = From(b, k + 1)
      BY <1>12, <3>2
    <3> QED BY <1>8, <3>3, <3>4, BufferFacts
  <2>2. PICK j \in k .. Len(b) : buffer' = From(b, j + 1)
    BY <2>1
  <2>3. j \in 0 .. Len(b) /\ j \in Nat /\ k <= j
    BY <1>14
  <2>4. buffer' \in Seq(Pieces) /\ wire' \in Seq(Pieces) /\ Within(Coming', Coming, j)
    BY <1>13, <1>20, <2>2, <2>3 DEF Coming
  <2>5. Coming' \in Seq(Pieces)
    BY <2>4, ConcatProperties DEF Coming
  <2>6. /\ q.cseq \in Nat /\ (q.cseq = 0 \/ q.cseq > LastAnswer) /\ q.cseq <= sent
        /\ Ascends(Coming', LastAnswer, sent) /\ Ascends(Coming', q.cseq, sent) /\ Ascends(Coming', 0, sent)
    BY <1>16, <2>3, <2>4, <2>5
  <2>7. \/ /\ q.state = "all" /\ state' = "line" /\ method' = q.method /\ cseq' = 0
           /\ IF Answers(q.method) THEN answers' = Append(answers, q.cseq) ELSE answers' = answers
        \/ q.state # "all" /\ state' = q.state /\ method' = q.method /\ cseq' = q.cseq /\ answers' = answers
    BY <1>11, <1>20 DEF Reset, Parsers
  <2>8. InTypes'
    <3>0. q.method \in KnownMethods /\ q.state \in {"line", "headers", "all"} /\ q.cseq \in 0 .. MaxRequests
      BY <1>11 DEF Parsers
    <3>1. method' \in KnownMethods /\ state' \in {"line", "headers"} /\ cseq' \in 0 .. MaxRequests
      BY <1>1, <2>7, <3>0, PieceFacts
    <3>2. state' = "line" => cseq' = 0
      BY <1>11, <2>7
    <3> QED BY <1>1, <1>17, <1>18, <2>1, <2>4, <3>1, <3>2 DEF InTypes, KnownMethods
  <2>9. InOrder'
    <3>1. CASE q.state # "all" /\ cseq' = q.cseq /\ answers' = answers
      BY <1>17, <2>6, <3>1 DEF InInv, InOrder, AnswersIncrease, LastAnswer
    <3>2. CASE q.state = "all" /\ cseq' = 0 /\ answers' = Append(answers, q.cseq)
      <4>1. q.cseq > LastAnswer /\ q.cseq # 0 /\ answers \in Seq(Nat) /\ LastAnswer \in Nat /\ sent \in Nat
        BY <1>11, <1>20, <2>6, <3>2, LastFacts DEF InInv, InOrder
      <4>2. /\ answers' \in Seq(Nat) /\ Len(answers') = Len(answers) + 1 /\ Len(answers) \in Nat
            /\ \A i \in 1 .. Len(answers) : answers'[i] = answers[i]
            /\ answers'[Len(answers) + 1] = q.cseq
        BY <2>6, <3>2, <4>1, AppendProperties, LenProperties
      <4>3. LastAnswer' = q.cseq
        BY <4>2, EmptySeq DEF LastAnswer
      <4>4. AnswersIncrease'
        <5>1. ASSUME NEW i \in 1 .. Len(answers) + 1 PROVE answers'[i] \in 1 .. sent
          <6>1. CASE i \in 1 .. Len(answers)
            <7>1. DOMAIN answers = 1 .. Len(answers)
              BY <4>1, LenProperties
            <7> QED BY <4>2, <6>1, <7>1 DEF InInv, InOrder, AnswersIncrease
          <6>2. CASE i = Len(answers) + 1
            BY <2>6, <4>1, <4>2, <6>2
          <6> QED BY <4>2, <6>1, <6>2
        <5>2. ASSUME NEW i \in 1 .. Len(answers) PROVE answers'[i] < answers'[i + 1]
          <6>1. CASE i \in 1 .. Len(answers) - 1
            <7>1. i + 1 \in 1 .. Len(answers)
              BY <4>2, <6>1
            <7> QED BY <4>2, <6>1, <7>1 DEF InInv, InOrder, AnswersIncrease
          <6>2. CASE i = Len(answers)
            <7>1. LastAnswer = answers[i]
              BY <4>1, <4>2, <6>2, EmptySeq DEF LastAnswer
            <7> QED BY <4>1, <4>2, <6>2, <7>1
          <6> QED BY <4>2, <6>1, <6>2
        <5>3. DOMAIN answers' = 1 .. Len(answers) + 1 /\ Len(answers') - 1 = Len(answers)
          BY <4>2, LenProperties
        <5> QED BY <1>17, <5>1, <5>2, <5>3 DEF AnswersIncrease
      <4>5. cseq' <= sent'
        BY <1>17, <3>2, <4>1
      <4> QED BY <1>17, <2>6, <3>2, <4>2, <4>3, <4>4, <4>5 DEF InOrder
    <3>3. CASE q.state = "all" /\ cseq' = 0 /\ answers' = answers
      <4>1. LastAnswer \in Nat /\ sent \in Nat
        BY LastFacts DEF InInv
      <4> QED BY <1>17, <2>6, <3>3, <4>1 DEF InInv, InOrder, AnswersIncrease, LastAnswer
    <3> QED BY <2>7, <3>1, <3>2, <3>3
  <2>10. ASSUME clean', ~closed'
         PROVE  /\ Len(asked') = got' /\ buffer' = <<>> /\ state' = "line"
                /\ {answers'[i] : i \in DOMAIN answers'} = Answered(asked')
                /\ rtpConn' <=> \E r \in DOMAIN asked' : asked'[r] = "DESCRIBE"
    <3>1. clean /\ buffer = <<>> /\ chunk \in Complete(got + 1) \cup {Packet(FALSE)}
      BY <1>7, <2>10
    <3>2. /\ Len(asked) = got /\ {answers[i] : i \in DOMAIN answers} = Answered(asked)
          /\ state = "line" /\ cseq = 0 /\ asked \in Seq(DOMAIN Key)
          /\ rtpConn <=> \E r \in DOMAIN asked : asked[r] = "DESCRIBE"
      BY <1>1, <3>1 DEF InInv, WholeIsAnswered, ConnRight
    <3>3. b = chunk
      BY <1>4, <1>8, <3>1, ConcatEmptySeq
    <3>4. /\ IF q.state = "all"
             THEN /\ got' = got + 1 /\ q.cseq = got + 1 /\ asked' = Append(asked, q.method)
                  /\ q.method \in DOMAIN Key
             ELSE got' = got /\ q.state = "line" /\ asked' = asked
          /\ buffer' = <<>>
      <4>1. p.buf \in Complete(got + 1) \cup {Packet(FALSE)} /\ p.state = "line" /\ p.cseq = 0 /\ p.buf = chunk
        BY <1>9, <3>1, <3>2, <3>3
      <4>2. PICK g : g = IF IsRtcp(p.buf) THEN got ELSE got + 1
        OBVIOUS
      <4>3. /\ IF q.state = "all"
               THEN /\ g = got + 1 /\ q.cseq = got + 1 /\ ~IsRtcp(p.buf)
                    /\ q.method = Head(p.buf).is /\ q.method \in DOMAIN Key
               ELSE g = got /\ q.state = "line" /\ IsRtcp(p.buf) /\ q.method = "RTCP"
            /\ Limit(IF q.method = "RTCP" THEN HandleRtcp(q.buf) ELSE q.buf) = <<>>
        BY <1>1, <1>6, <1>9, <4>1, <4>2, CleanFacts
      <4>4. g = got'
        BY <1>7, <4>1, <4>2
      <4>5. asked' = IF ~IsRtcp(p.buf) THEN Append(asked, Head(p.buf).is) ELSE asked
        BY <1>7, <2>10, <4>1
      <4> QED BY <1>20, <4>3, <4>4, <4>5
    <3>5. CASE q.state # "all"
      <4>1. answers' = answers /\ asked' = asked /\ got' = got /\ state' = "line"
        BY <2>7, <3>4, <3>5
      <4>2. rtpConn' <=> rtpConn
        BY <1>20, <3>5, Zenon
      <4> QED BY <3>2, <3>4, <4>1, <4>2
    <3>6. CASE q.state = "all"
      <4>1. /\ got' = got + 1 /\ asked' = Append(asked, q.method) /\ q.method \in DOMAIN Key
            /\ Len(asked') = got + 1 /\ state' = "line"
        BY <2>7, <3>2, <3>4, <3>6, AppendProperties
      <4>2. (rtpConn' <=> \E r \in DOMAIN asked' : asked'[r] = "DESCRIBE")
        <5>1. rtpConn' <=> (rtpConn \/ q.method = "DESCRIBE")
          BY <1>20, <3>6
        <5>2. (\E r \in DOMAIN asked' : asked'[r] = "DESCRIBE")
                <=> (q.method = "DESCRIBE" \/ \E r \in DOMAIN asked : asked[r] = "DESCRIBE")
          BY <3>2, <4>1, AnsweredAppend
        <5> QED BY <3>2, <5>1, <5>2
      <4>3. Answered(asked') = Answered(asked) \cup (IF Answers(q.method) THEN {got + 1} ELSE {})
        <5>1. Answered(asked') = Answered(asked) \cup (IF \/ q.method \in {"OPTIONS", "DESCRIBE", "SETUP"}
                                                          \/ \E r \in DOMAIN asked : asked[r] = "DESCRIBE"
                                                       THEN {Len(asked) + 1} ELSE {})
          BY <3>2, <4>1, AnsweredAppend
        <5>2. Answers(q.method) <=> \/ q.method \in {"OPTIONS", "DESCRIBE", "SETUP"}
                                    \/ \E r \in DOMAIN asked : asked[r] = "DESCRIBE"
          BY <3>2 DEF Answers
        <5> QED BY <3>2, <5>1, <5>2
      <4>4. {answers'[i] : i \in DOMAIN answers'}
              = {answers[i] : i \in DOMAIN answers} \cup (IF Answers(q.method) THEN {got + 1} ELSE {})
        <5>1. CASE Answers(q.method)
          <6>1. answers' = Append(answers, got + 1) /\ answers \in Seq(Nat) /\ got + 1 \in Nat
            BY <1>1, <2>7, <3>4, <3>6, <5>1 DEF InInv, InOrder
          <6>2. PICK e : e = got + 1
            OBVIOUS
          <6>3. {answers'[i] : i \in DOMAIN answers'} = {answers[i] : i \in DOMAIN answers} \cup {e}
            <7>1. answers' = Append(answers, e) /\ answers \in Seq(Nat) /\ e \in Nat
              BY <6>1, <6>2
            <7>2. /\ answers' \in Seq(Nat) /\ Len(answers') = Len(answers) + 1 /\ Len(answers) \in Nat
                  /\ \A i \in 1 .. Len(answers) : answers'[i] = answers[i]
                  /\ answers'[Len(answers) + 1] = e
              BY <7>1, AppendProperties, LenProperties
            <7>3. DOMAIN answers' = 1 .. Len(answers) + 1 /\ DOMAIN answers = 1 .. Len(answers)
              BY <7>1, <7>2, LenProperties
            <7>4. PICK u, t, l : u = answers /\ t = answers' /\ l = Len(answers)
              OBVIOUS
            <7>5. /\ l \in Nat /\ DOMAIN u = 1 .. l /\ DOMAIN t = 1 .. l + 1 /\ t[l + 1] = e
                  /\ \A i \in 1 .. l : t[i] = u[i]
              BY <7>2, <7>3, <7>4
            <7>6. {t[i] : i \in DOMAIN t} = {u[i] : i \in DOMAIN u} \cup {e}
              BY <7>5
            <7> QED BY <7>4, <7>6
          <6> QED BY <5>1, <6>2, <6>3
        <5>2. CASE ~Answers(q.method)
          BY <2>7, <3>6, <5>2
        <5> QED BY <5>1, <5>2
      <4> QED BY <3>2, <3>4, <4>1, <4>2, <4>3, <4>4
    <3> QED BY <3>5, <3>6
  <2>11. WholeIsAnswered'
    BY <2>10 DEF WholeIsAnswered
  <2>12. ConnRight'
    <3>1. rtpConn' \in BOOLEAN
      BY <1>20
    <3> QED BY <1>21, <2>10, <3>1 DEF ConnRight
  <2> QED BY <2>8, <2>9, <2>11, <2>12 DEF InInv
<1> QED BY <1>7, <1>19, <1>20

\* A step of the connection, seen from the input.
LEMMA InNext ==
  ASSUME InInv, [Next]_vars PROVE InInv'
<1>1. CASE SendRequest
  BY <1>1, SendRequestIn
<1>2. CASE SendRtcp
  BY <1>2, SendRtcpIn
<1>3. CASE HandleReadEarly
  BY <1>3, HandleReadEarlyIn
<1>4. CASE HandleRead
  BY <1>4, HandleReadIn
<1>5. CASE HandleReadEnd
  BY <1>5, CloseIn DEF HandleReadEnd
<1>6. CASE SendMedia
  BY <1>6, InUnchanged DEF SendMedia, inVars, parser, served
<1>7. CASE AppendMessage
  BY <1>7, InUnchanged DEF AppendMessage, inVars, parser, served
<1>8. CASE HandleWrite
  <2>1. UNCHANGED <<ready, sent, frames, buffer, state, method, cseq, rtpConn, answers, asked, clean, got>>
    BY <1>8 DEF HandleWrite, parser, served
  <2>2. UNCHANGED <<closed, wire>> \/ Close
    BY <1>8 DEF HandleWrite
  <2>3. CASE UNCHANGED <<closed, wire>>
    BY <2>1, <2>3, InUnchanged DEF inVars
  <2>4. CASE Close
    BY <2>1, <2>4, CloseIn DEF parser, served
  <2> QED BY <2>2, <2>3, <2>4
<1>9. CASE RunClose
  BY <1>9, CloseIn DEF RunClose
<1>10. CASE SetReadCallback
  <2>1. /\ ready' = TRUE
        /\ UNCHANGED <<sent, frames, wire, buffer, state, method, cseq, closed, rtpConn, answers, asked, clean, got>>
    BY <1>10 DEF SetReadCallback, parser, served
  <2>2. InTypes'
    BY <2>1 DEF InInv, InTypes
  <2>3. InOrder'
    <3>1. LastAnswer' = LastAnswer /\ Coming' = Coming
      BY <2>1 DEF LastAnswer, Coming
    <3>2. AnswersIncrease' <=> AnswersIncrease
      BY <2>1 DEF AnswersIncrease
    <3>3. /\ Ascends(Coming, LastAnswer, sent)' <=> Ascends(Coming, LastAnswer, sent)
          /\ Ascends(Coming, cseq, sent)' <=> Ascends(Coming, cseq, sent)
      BY <2>1, <3>1 DEF Ascends, IsCSeq
    <3> QED BY <2>1, <3>1, <3>2, <3>3 DEF InInv, InOrder
  <2>4. WholeIsAnswered' /\ ConnRight'
    BY <2>1 DEF InInv, WholeIsAnswered, ConnRight
  <2> QED BY <2>2, <2>3, <2>4 DEF InInv
<1>11. CASE DisconnectLock
  BY <1>11, InUnchanged DEF DisconnectLock, inVars, parser, served
<1>12. CASE DisconnectPost
  BY <1>12, InUnchanged DEF DisconnectPost, inVars, parser, served
<1>13. CASE UNCHANGED vars
  BY <1>13, InUnchanged DEF vars, inVars, parser, served
<1> QED BY <1>1, <1>2, <1>3, <1>4, <1>5, <1>6, <1>7, <1>8, <1>9, <1>10, <1>11, <1>12, <1>13
        DEF Next, Client, Loop

-----------------------------------------------------------------------------
(* The steps, for the flags and for the output.                            *)

\* The flags have their types at first ...
LEMMA FlagsInit == Init => Flags
<1>1. 0 \in 0 .. MaxMedia
  BY WireAssumption
<1> QED BY <1>1 DEF Init, Flags

\* ... and after every step.
LEMMA FlagsNext ==
  ASSUME Flags, [Next]_vars PROVE Flags'
<1>0. MaxMedia \in Nat
  BY WireAssumption
<1>1. CASE Client
  BY <1>1 DEF Flags, Client, SendRequest, SendRtcp, output
<1>2. CASE HandleReadEarly
  BY <1>2 DEF Flags, HandleReadEarly, output
<1>3. CASE HandleRead
  <2>1. UNCHANGED <<ready, writing, mutex, leaving, media>>
    BY <1>3 DEF HandleRead
  <2>2. clean' \in BOOLEAN /\ closed' \in BOOLEAN
    BY <1>3 DEF HandleRead, Close, Flags
  <2> QED BY <2>1, <2>2 DEF Flags
<1>4. CASE HandleReadEnd \/ RunClose
  BY <1>4 DEF Flags, HandleReadEnd, RunClose, Close, output
<1>5. CASE SendMedia
  BY <1>0, <1>5 DEF Flags, SendMedia
<1>6. CASE AppendMessage
  BY <1>6 DEF Flags, AppendMessage
<1>7. CASE HandleWrite
  <2>1. UNCHANGED <<ready, clean, mutex, leaving, media>>
    BY <1>7 DEF HandleWrite
  <2>2. closed' \in BOOLEAN /\ writing' \in BOOLEAN
    BY <1>7 DEF HandleWrite, Close, Flags, WantsWrite
  <2> QED BY <2>1, <2>2 DEF Flags
<1>8. CASE SetReadCallback \/ DisconnectLock \/ DisconnectPost
  BY <1>8 DEF Flags, SetReadCallback, DisconnectLock, DisconnectPost, output
<1>9. CASE UNCHANGED vars
  BY <1>9 DEF Flags, vars
<1> QED BY <1>1, <1>2, <1>3, <1>4, <1>5, <1>6, <1>7, <1>8, <1>9 DEF Next, Loop

\* The output's invariant holds at first, when there is none ...
LEMMA OutInit == Init => OutInv
<1> SUFFICES ASSUME Init PROVE OutInv
  OBVIOUS
<1>1. out \o queue = <<>>
  BY DEF Init
<1>2. MaxQueue \in Nat /\ Packets(<<>>) = 0
  BY WireAssumption DEF Packets
<1> QED BY <1>1, <1>2 DEF Init, OutInv, NoStall, Paired

\* A step that leaves the queue and what has left the socket, and may let the
\* socket be closed or start to send another message.
LEMMA OutKept ==
  ASSUME OutInv, Flags, UNCHANGED <<queue, out, writing>>, closed => closed', leaving # "no" => leaving' # "no",
         \/ UNCHANGED <<pending, msgs>>
         \/ pending = 0 /\ msgs' = msgs + 1 /\ pending' = msgs + 1
  PROVE  OutInv'
<1>1. CASE UNCHANGED <<pending, msgs>>
  BY <1>1 DEF OutInv, NoStall, Paired, Packets
<1>2. CASE pending = 0 /\ msgs' = msgs + 1 /\ pending' = msgs + 1
  <2>1. msgs \in Nat /\ out \in Seq(1 .. msgs) /\ queue \in Seq(1 .. msgs)
    BY DEF OutInv
  <2>2. out \in Seq(1 .. msgs + 1) /\ queue \in Seq(1 .. msgs + 1)
    <3>1. 1 .. msgs \subseteq 1 .. msgs + 1
      BY <2>1
    <3> QED BY <2>1, <3>1, SeqMonotonic
  <2>3. \A i \in 1 .. Len(out \o queue) : (out \o queue)[i] \in 1 .. msgs
    BY <2>1, ConcatProperties, ElementOfSeq
  <2>4. \A i \in 1 .. Len(out \o queue) : (out \o queue)[i] < pending'
    BY <1>2, <2>1, <2>3
  <2>5. NoStall'
    BY <1>2, <2>1 DEF NoStall
  <2>6. Paired(out' \o queue') /\ Packets(queue') <= MaxQueue
    BY DEF OutInv
  <2>7. msgs' \in Nat /\ pending' \in {0, msgs', -msgs'} /\ out' \in Seq(1 .. msgs') /\ queue' \in Seq(1 .. msgs')
    BY <1>2, <2>1, <2>2
  <2> QED BY <2>4, <2>5, <2>6, <2>7 DEF OutInv, Packets, Paired
<1> QED BY <1>1, <1>2

\* Another message at the end.
LEMMA PairedAppend ==
  ASSUME NEW t \in Seq(Nat), Paired(t), NEW x \in Nat, \A i \in 1 .. Len(t) : t[i] < x
  PROVE  Paired(t \o <<x, x>>)
<1>1. PICK r : r = <<x, x>>
  OBVIOUS
<1>2. r \in Seq(Nat) /\ Len(r) = 2 /\ r[1] = x /\ r[2] = x
  BY <1>1
<1>3. PICK u : u = t \o r
  OBVIOUS
<1>4. /\ u \in Seq(Nat) /\ Len(u) = Len(t) + 2 /\ Len(t) \in Nat
      /\ \A i \in 1 .. Len(t) + 2 : u[i] = IF i <= Len(t) THEN t[i] ELSE r[i - Len(t)]
  <2>1. /\ t \o r \in Seq(Nat) /\ Len(t \o r) = Len(t) + Len(r)
        /\ \A i \in 1 .. Len(t) + Len(r) : (t \o r)[i] = IF i <= Len(t) THEN t[i] ELSE r[i - Len(t)]
    BY <1>2, ConcatProperties
  <2>2. Len(t) \in Nat
    BY LenProperties
  <2>3. Len(r) = 2
    BY <1>2
  <2> QED BY <1>3, <2>1, <2>2, <2>3
<1>5. Len(t) % 2 = 0
  BY DEF Paired
<1>6. Len(u) % 2 = 0
  BY <1>4, <1>5
<1>7. u[Len(t) + 1] = x /\ u[Len(t) + 2] = x
  <2>1. /\ Len(t) + 1 \in 1 .. Len(t) + 2 /\ ~(Len(t) + 1 <= Len(t)) /\ (Len(t) + 1) - Len(t) = 1
        /\ Len(t) + 2 \in 1 .. Len(t) + 2 /\ ~(Len(t) + 2 <= Len(t)) /\ (Len(t) + 2) - Len(t) = 2
    BY <1>4
  <2> QED BY <1>2, <1>4, <2>1
<1>8. ASSUME NEW i \in 1 .. Len(u) - 1
      PROVE  IF i % 2 = 1 THEN u[i] = u[i + 1] ELSE u[i] < u[i + 1]
  <2>1. CASE i + 1 <= Len(t)
    <3>1. i \in 1 .. Len(t) - 1 /\ i <= Len(t) /\ i \in 1 .. Len(t) + 2 /\ i + 1 \in 1 .. Len(t) + 2
      BY SMTT(30), <1>4, <2>1
    <3>2. u[i] = t[i] /\ u[i + 1] = t[i + 1]
      BY <1>4, <2>1, <3>1
    <3> QED BY <3>1, <3>2 DEF Paired
  <2>2. CASE i = Len(t)
    <3>1. i % 2 = 0 /\ i \in 1 .. Len(t) /\ u[i] = t[i] /\ u[i + 1] = x
      BY <1>4, <1>5, <1>7, <2>2
    <3> QED BY <3>1
  <2>3. CASE i = Len(t) + 1
    <3>1. i % 2 = 1 /\ i + 1 = Len(t) + 2
      <4>1. \A l \in Nat : l % 2 = 0 => (l + 1) % 2 = 1
        OBVIOUS
      <4>2. Len(t) \in Nat
        BY <1>4
      <4> QED BY <1>5, <2>3, <4>1, <4>2
    <3> QED BY <1>7, <2>3, <3>1
  <2> QED BY <1>4, <2>1, <2>2, <2>3
<1> QED BY <1>1, <1>3, <1>6, <1>8 DEF Paired

\* ... Append queues a message as two halves, after all that were given before ...
LEMMA AppendMessageOut ==
  ASSUME OutInv, Flags, AppendMessage PROVE OutInv'
<1>1. /\ msgs \in Nat /\ pending = msgs /\ pending > 0 /\ pending' = -pending /\ msgs' = msgs
      /\ out \in Seq(1 .. msgs) /\ queue \in Seq(1 .. msgs) /\ out' = out /\ Paired(out \o queue)
      /\ Packets(queue) <= MaxQueue
  BY DEF OutInv, AppendMessage, output
<1>2. pending' \in {0, msgs', -msgs'} /\ ~(pending' > 0) /\ pending' # 0
  BY <1>1
<1>3. CASE queue' = queue
  BY <1>1, <1>2, <1>3 DEF OutInv, NoStall
<1>4. CASE Packets(queue) < MaxQueue /\ queue' = queue \o <<pending, pending>>
  <2>1. PICK r : r = <<pending, pending>>
    OBVIOUS
  <2>2. r \in Seq(1 .. msgs) /\ Len(r) = 2
    <3>1. pending \in 1 .. msgs
      BY <1>1
    <3> QED BY <2>1, <3>1
  <2>3. queue' \in Seq(1 .. msgs) /\ Len(queue') = Len(queue) + 2 /\ Len(queue) \in Nat
    BY <1>1, <1>4, <2>1, <2>2, ConcatProperties, LenProperties
  <2>4. Packets(queue') <= MaxQueue
    <3>1. MaxQueue \in Nat
      BY WireAssumption
    <3> QED BY <1>4, <2>3, <3>1 DEF Packets
  <2>5. PICK t : t = out \o queue
    OBVIOUS
  <2>6. t \in Seq(1 .. msgs) /\ t \in Seq(Nat)
    <3>1. t \in Seq(1 .. msgs)
      BY <1>1, <2>5, ConcatProperties
    <3>2. 1 .. msgs \subseteq Nat
      OBVIOUS
    <3> QED BY <3>1, <3>2, SeqMonotonic
  <2>7. out \o queue' = t \o r
    <3>1. PICK S : S = 1 .. msgs
      OBVIOUS
    <3>2. out \in Seq(S) /\ queue \in Seq(S) /\ r \in Seq(S)
      BY <1>1, <2>2, <3>1
    <3>3. out \o (queue \o r) = (out \o queue) \o r
      BY SMTT(30), <3>2, ConcatAssociative
    <3> QED BY <1>4, <2>1, <2>5, <3>3
  <2>8. \A i \in 1 .. Len(t) : t[i] < pending
    BY <1>1, <2>5 DEF OutInv
  <2>9. Paired(t \o r)
    <3>1. pending \in Nat /\ Paired(t)
      BY <1>1, <2>5
    <3> QED BY <2>1, <2>6, <2>8, <3>1, PairedAppend
  <2> QED BY <1>1, <1>2, <2>3, <2>4, <2>7, <2>9 DEF OutInv, NoStall
<1> QED
  <2>1. Packets(queue) \in Int /\ MaxQueue \in Nat
    BY <1>1, WireAssumption, LenProperties DEF Packets
  <2> QED BY <1>3, <1>4, <2>1 DEF AppendMessage

\* ... HandleWrite moves halves from the head of the queue to what has left ...
LEMMA HandleWriteOut ==
  ASSUME OutInv, Flags, HandleWrite PROVE OutInv'
<1>1. /\ msgs \in Nat /\ msgs' = msgs /\ pending' = 0 /\ UNCHANGED <<mutex, leaving>>
      /\ out \in Seq(1 .. msgs) /\ queue \in Seq(1 .. msgs) /\ Paired(out \o queue) /\ Packets(queue) <= MaxQueue
  BY DEF OutInv, HandleWrite
<1>2. CASE (closed \/ mutex) /\ UNCHANGED <<queue, writing, out, closed>>
  BY <1>1, <1>2 DEF OutInv, NoStall, Flags
<1>3. CASE Close /\ UNCHANGED <<queue, writing, out>>
  BY <1>1, <1>3 DEF OutInv, NoStall, Close
<1>4. ASSUME NEW k \in 0 .. Len(queue), out' = out \o SubSeq(queue, 1, k), queue' = From(queue, k + 1),
             writing' = (queue' # <<>>)
      PROVE  OutInv'
  <2>1. PICK h : h = SubSeq(queue, 1, k)
    OBVIOUS
  <2>2. h \in Seq(1 .. msgs) /\ Len(queue) \in Nat
    BY <1>1, <2>1, PrefixFacts, LenProperties
  <2>3. queue' \in Seq(1 .. msgs) /\ Len(queue') = Len(queue) - k
    BY <1>1, <1>4, FromFacts
  <2>4. h \o queue' = queue
    <3>1. SubSeq(queue, 1, k) \o SubSeq(queue, k + 1, Len(queue)) = SubSeq(queue, 1, Len(queue))
      <4>1. 1 \in 1 .. Len(queue) + 1 /\ k \in 1 - 1 .. Len(queue) /\ Len(queue) \in k .. Len(queue)
        BY <2>2
      <4> QED BY <1>1, <4>1, ConcatAdjacentSubSeq
    <3> QED BY <1>1, <1>4, <2>1, <3>1, SubSeqFull DEF From
  <2>5. out' \o queue' = out \o queue
    <3>1. PICK S, v : S = 1 .. msgs /\ v = queue'
      OBVIOUS
    <3>2. out \in Seq(S) /\ h \in Seq(S) /\ v \in Seq(S)
      BY <1>1, <2>2, <2>3, <3>1
    <3>3. out \o (h \o v) = (out \o h) \o v
      BY SMTT(30), <3>2, ConcatAssociative
    <3>4. out' = out \o h
      BY <1>4, <2>1
    <3> QED BY <2>4, <3>1, <3>3, <3>4
  <2>6. out' \in Seq(1 .. msgs)
    BY <1>1, <1>4, <2>1, <2>2, ConcatProperties
  <2>7. Packets(queue') <= MaxQueue
    <3>1. MaxQueue \in Nat /\ k \in Nat
      BY WireAssumption
    <3> QED BY <1>1, <2>2, <2>3, <3>1 DEF Packets
  <2>8. NoStall'
    BY <1>4 DEF NoStall
  <2>9. Paired(out' \o queue')
    BY <1>1, <2>5
  <2>10. msgs' \in Nat /\ pending' \in {0, msgs', -msgs'} /\ ~(pending' > 0)
    BY <1>1
  <2> QED BY <1>1, <2>3, <2>6, <2>7, <2>8, <2>9, <2>10 DEF OutInv, Paired, Packets
<1> QED BY <1>2, <1>3, <1>4 DEF HandleWrite, Remaining, WantsWrite

\* ... and so every step keeps it.
LEMMA OutNext ==
  ASSUME OutInv, Flags, [Next]_vars PROVE OutInv'
<1>1. CASE Client
  BY <1>1, OutKept DEF Client, SendRequest, SendRtcp, output
<1>2. CASE HandleReadEarly
  BY <1>2, OutKept DEF HandleReadEarly, output
<1>3. CASE HandleRead
  <2>1. UNCHANGED <<queue, out, writing, leaving>> /\ pending = 0 /\ ~closed
    BY <1>3 DEF HandleRead
  <2>2. UNCHANGED <<pending, msgs>> \/ (msgs' = msgs + 1 /\ pending' = msgs + 1)
    BY <1>3 DEF HandleRead
  <2> QED BY <2>1, <2>2, OutKept
<1>4. CASE HandleReadEnd \/ RunClose
  BY <1>4, OutKept DEF HandleReadEnd, RunClose, Close, output
<1>5. CASE SendMedia
  BY <1>5, OutKept DEF SendMedia
<1>6. CASE AppendMessage
  BY <1>6, AppendMessageOut
<1>7. CASE HandleWrite
  BY <1>7, HandleWriteOut
<1>8. CASE SetReadCallback
  BY <1>8, OutKept DEF SetReadCallback, output
<1>9. CASE DisconnectLock \/ DisconnectPost
  BY <1>9, OutKept DEF DisconnectLock, DisconnectPost, output
<1>10. CASE UNCHANGED vars
  BY <1>10, OutKept DEF vars
<1> QED BY <1>1, <1>2, <1>3, <1>4, <1>5, <1>6, <1>7, <1>8, <1>9, <1>10 DEF Next, Loop

-----------------------------------------------------------------------------
(* The theorems.                                                           *)

\* The inductive invariant holds in every reachable state of a connection.
THEOREM WireInvariant == Spec => []WireInv
<1>1. Init => WireInv
  BY InInit, FlagsInit, OutInit DEF WireInv
<1>2. WireInv /\ [Next]_vars => WireInv'
  BY InNext, FlagsNext, OutNext DEF WireInv
<1> QED BY <1>1, <1>2, PTL DEF Spec

\* Every variable of the connection keeps its type, the read buffer stays within
\* MAX_RTSP_MESSAGE_SIZE and the write queue within its length, whatever the
\* client sends and however it is cut (RtspConnection.cpp:96-144).
THEOREM WireTypeOK == Spec => []TypeOK
<1>1. WireInv => TypeOK
  <2> SUFFICES ASSUME WireInv PROVE TypeOK
    OBVIOUS
  <2>1. /\ sent \in 0 .. MaxRequests /\ frames \in 0 .. MaxFrames
        /\ wire \in Seq(Pieces) /\ buffer \in Seq(Pieces) /\ (~closed /\ got > 0 => Len(buffer) <= MaxMessage)
        /\ state \in {"line", "headers"} /\ cseq \in 0 .. MaxRequests
        /\ method \in DOMAIN Key \cup {"RTCP", "NONE"}
    BY DEF WireInv, InInv, InTypes
  <2>2. /\ {ready, rtpConn, writing, closed, mutex, clean} \subseteq BOOLEAN
        /\ leaving \in {"no", "locked", "posted"} /\ mutex = (leaving = "locked")
        /\ media \in 0 .. MaxMedia
    BY DEF WireInv, InInv, ConnRight, Flags
  <2>3. queue \in Seq(1 .. msgs) /\ Packets(queue) <= MaxQueue
    BY DEF WireInv, OutInv
  <2> QED BY <2>1, <2>2, <2>3 DEF TypeOK
<1> QED BY <1>1, WireInvariant, PTL

\* However the bytes of the requests are cut, joined and mixed with RTCP packets,
\* every answer has the CSeq of a request that was sent, in the order of the
\* requests and once; requests that come whole are handled at once and answered
\* with their own CSeq, but for a PLAY, TEARDOWN or GET_PARAMETER before any
\* DESCRIBE, which gets no answer (RtspMessage.cpp:16-49, RtspConnection.cpp:96-144,
\* 353-400).
THEOREM WireAnswersRight == Spec => []AnswersRight
<1>1. WireInv => AnswersRight
  BY DEF WireInv, InInv, InOrder, AnswersRight
<1> QED BY <1>1, WireInvariant, PTL

\* Messages leave the socket whole, in the order of Send, though it takes them in
\* parts and a full queue drops some; none is forgotten in the queue of a
\* connection that stays (TcpConnection.cpp:100-133, BufferWriter.cpp:47-121).
THEOREM WireOutputRight == Spec => []OutputRight
<1>1. WireInv => OutputRight
  <2> SUFFICES ASSUME WireInv PROVE OutputRight
    OBVIOUS
  <2>1. OutInv
    BY DEF WireInv
  <2>2. out \in Seq(1 .. msgs) /\ queue \in Seq(1 .. msgs)
    BY <2>1 DEF OutInv
  <2>3. /\ Len(out \o queue) = Len(out) + Len(queue) /\ Len(out) \in Nat /\ Len(queue) \in Nat
        /\ \A i \in 1 .. Len(out) + Len(queue) :
              (out \o queue)[i] = IF i <= Len(out) THEN out[i] ELSE queue[i - Len(out)]
    BY <2>2, ConcatProperties, LenProperties
  <2>4. PICK t : t = out \o queue
    OBVIOUS
  <2>5. \A i \in 1 .. Len(t) - 1 : IF i % 2 = 1 THEN t[i] = t[i + 1] ELSE t[i] < t[i + 1]
    BY <2>1, <2>4 DEF OutInv, Paired
  <2>6. ASSUME NEW i \in 1 .. Len(out) - 1
        PROVE  IF i % 2 = 1 THEN out[i] = out[i + 1] ELSE out[i] < out[i + 1]
    <3>1. i \in 1 .. Len(t) - 1 /\ i <= Len(out) /\ i + 1 <= Len(out)
          /\ i \in 1 .. Len(out) + Len(queue) /\ i + 1 \in 1 .. Len(out) + Len(queue)
      BY <2>3, <2>4
    <3>2. t[i] = out[i] /\ t[i + 1] = out[i + 1]
      BY <2>3, <2>4, <3>1
    <3> QED BY <2>5, <3>1, <3>2
  <2>7. OutputWhole
    BY <2>6 DEF OutputWhole
  <2> QED BY <2>1, <2>7 DEF OutputRight, OutInv
<1> QED BY <1>1, WireInvariant, PTL
=============================================================================
