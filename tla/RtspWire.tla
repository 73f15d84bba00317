------------------------------ MODULE RtspWire ------------------------------
(***************************************************************************)
(* The bytes of one RTSP connection: what the client sends arrives cut     *)
(* anywhere, is collected in a BufferReader and parsed by RtspRequest; the *)
(* answers and the interleaved media go through a BufferWriter and leave   *)
(* the socket in parts, while StreamServer::Stop may be disconnecting.     *)
(*                                                                         *)
(* A line is two pieces, its text and its CRLF; an interleaved RTCP packet *)
(* is its head ($, channel, length) and its body.  Of a header line only   *)
(* its name matters.  A message on its way out is two halves.  No user and *)
(* password are set: nothing in the program calls SetAuthConfig.           *)
(***************************************************************************)
EXTENDS Integers, Sequences, FiniteSets, SequencesExt

CONSTANTS Methods,      \* methods the client uses, of DOMAIN Key
          MaxRequests,  \* requests the client sends (bound)
          MaxFrames,    \* interleaved RTCP packets it sends (bound)
          MaxMessage,   \* MAX_RTSP_MESSAGE_SIZE, in pieces
          MaxQueue,     \* max_queue_length_ of the BufferWriter
          MaxMedia      \* RTP packets sent over this connection (bound)

\* A header that comes with the method.
Key == [OPTIONS |-> "User-Agent", DESCRIBE |-> "Accept", SETUP |-> "Transport",
        PLAY |-> "Session", TEARDOWN |-> "Session", GET_PARAMETER |-> "Session"]

\* The methods whose requests end with any header; the others need their own.
AtOnce == {"OPTIONS", "TEARDOWN", "GET_PARAMETER"}

ASSUME WireAssumption ==
  /\ Methods \subseteq DOMAIN Key
  /\ {MaxRequests, MaxFrames, MaxMessage, MaxQueue, MaxMedia} \subseteq Nat

VARIABLES ready,     \* read_cb_ is set: the RtspConnection is constructed
          sent,      \* requests sent by the client
          frames,    \* RTCP packets sent by the client
          wire,      \* pieces sent and not yet received
          buffer,    \* read_buffer_
          state,     \* state_ of the RtspRequest
          method,    \* method_
          cseq,      \* header_line_param_["cseq"], 0 for none
          rtpConn,   \* rtp_conn_ has been made
          pending,   \* the message being sent, 0 for none
          queue,     \* write_buffer_: the message of each half still to be sent
          writing,   \* channel_->IsWriting()
          closed,    \* is_closed_
          mutex,     \* mutex_ is held by Disconnect
          leaving,   \* where StreamServer::Stop is: "no", "locked", "posted"
          media,     \* RTP packets sent
          answers,   \* CSeqs of the answers, in order (history)
          asked,     \* methods of the whole requests while clean (history)
          msgs,      \* messages given to Send (history)
          out,       \* the message of each half that left the socket (history)
          clean, got \* every read was one whole request; how many (history)

parser == <<state, method, cseq>>
served == <<rtpConn, answers, asked>>   \* what became of the requests
output == <<pending, queue, writing, out>>
vars == <<ready, sent, frames, wire, buffer, state, method, cseq, rtpConn, pending, queue, writing, closed,
          mutex, leaving, media, answers, asked, msgs, out, clean, got>>

Init ==
  /\ ready = FALSE /\ sent = 0 /\ frames = 0 /\ wire = <<>> /\ buffer = <<>>
  /\ state = "line" /\ method = "NONE" /\ cseq = 0 /\ rtpConn = FALSE
  /\ pending = 0 /\ queue = <<>> /\ writing = FALSE /\ closed = FALSE
  /\ mutex = FALSE /\ leaving = "no" /\ media = 0
  /\ answers = <<>> /\ asked = <<>> /\ msgs = 0 /\ out = <<>> /\ clean = TRUE /\ got = 0

-----------------------------------------------------------------------------
(* The client.                                                             *)

Line(name, n) == << [is |-> name, part |-> 1, num |-> n], [is |-> name, part |-> 2, num |-> n] >>

\* The lines of a request: its CSeq before or after the other headers.
Headers(m) == { <<m, "CSeq", Key[m]>>, <<m, Key[m], "CSeq">> }

Bytes(names, n) ==
  [i \in 1 .. 2 * Len(names) + 1 |->
     [is |-> IF i > 2 * Len(names) THEN "" ELSE names[(i + 1) \div 2],
      part |-> IF i > 2 * Len(names) \/ i % 2 = 0 THEN 2 ELSE 1, num |-> n]]

\* Requests with every header their method needs, and those without.
Complete(n) == {Bytes(names, n) : names \in UNION {Headers(m) : m \in Methods}}
Requests(n) == Complete(n) \cup {Bytes(<<m, "CSeq">>, n) : m \in Methods}

\* An interleaved RTCP packet; a long one has a length byte of 128 or more.
Packet(long) == Line(IF long THEN "$long" ELSE "$", 0)

SendRequest ==
  /\ ~closed /\ sent < MaxRequests
  /\ sent' = sent + 1
  /\ \E r \in Requests(sent + 1) : wire' = wire \o r
  /\ UNCHANGED <<ready, frames, buffer, parser, output, closed, mutex, leaving, media, served, msgs, clean, got>>

\* RTCP about the stream, hence not before the first request.
SendRtcp ==
  /\ ~closed /\ sent > 0 /\ frames < MaxFrames
  /\ frames' = frames + 1
  /\ \E long \in BOOLEAN : wire' = wire \o Packet(long)
  /\ UNCHANGED <<ready, sent, buffer, parser, output, closed, mutex, leaving, media, served, msgs, clean, got>>

-----------------------------------------------------------------------------
(* ParseRequest, as a function from a parser p to the parser after one     *)
(* call: buf, state, method, cseq, and ok, FALSE when it returns false.    *)

Names(s)   == {s[i].is : i \in {j \in DOMAIN s : s[j].part = 1}}
IsRtcp(s)  == s # <<>> /\ Head(s).part = 1 /\ Head(s).is \in {"$", "$long"}
IsCrlf(e)  == e.part = 2 /\ e.is \notin {"$", "$long"}
HasCrlf(s) == \E i \in DOMAIN s : IsCrlf(s[i])
CrlfAt(s)  == {i \in DOMAIN s : IsCrlf(s[i])}
From(s, i) == SubSeq(s, i, Len(s))

FindFirstCrlf(s) == Min(CrlfAt(s))

\* Mutant: the headers are taken up to the first CRLF.
FindLastCrlfIsFirst(s) == FindFirstCrlf(s)

FindLastCrlf(s) == Max(CrlfAt(s))

\* ParseRequestLine: fewer than three words are skipped, an unknown method is
\* an error.  "User-Agent: a b" and the rest of a broken packet count as such.
ParseRequestLine(p) ==
  LET i    == FindFirstCrlf(p.buf)
      line == SubSeq(p.buf, 1, i)
      rest == [p EXCEPT !.buf = From(p.buf, i + 1)]
  IN IF Len(line) = 2 /\ Head(line).is \in DOMAIN Key
     THEN [rest EXCEPT !.method = Head(line).is, !.state = "headers"]
     ELSE LET few == Names(line) \subseteq {"CSeq", "Accept", "Transport", "Session"}
          IN [rest EXCEPT !.ok = few, !.method = IF few THEN @ ELSE "NONE"]

\* ParseCSeq: emplace keeps the CSeq that is already there.
CSeqOf(p, msg) ==
  LET at == {i \in DOMAIN msg : msg[i].is = "CSeq" /\ msg[i].part = 1}
  IN IF p.cseq = 0 /\ at # {} THEN msg[Min(at)].num ELSE p.cseq

\* ParseHeadersLine: all complete lines at once, whosever they are.
ParseHeadersLine(p) ==
  LET i    == FindLastCrlf(p.buf)
      msg  == SubSeq(p.buf, 1, i)
      rest == [p EXCEPT !.buf = From(p.buf, i + 1), !.cseq = CSeqOf(p, msg)]
  IN IF rest.cseq = 0 THEN [rest EXCEPT !.ok = FALSE]
     ELSE [rest EXCEPT !.state =
             IF p.method \in AtOnce \/ (p.method \in DOMAIN Key /\ Key[p.method] \in Names(msg))
             THEN "all" ELSE "headers"]

\* A lookup of the parse of the headers when the request line is complete.
ParseRequest(p) ==
  IF IsRtcp(p.buf) THEN [p EXCEPT !.method = "RTCP"]
  ELSE LET q == IF p.state = "line" /\ HasCrlf(p.buf) THEN ParseRequestLine(p) ELSE p
       IN IF q.ok /\ q.state = "headers" /\ HasCrlf(q.buf) THEN ParseHeadersLine(q) ELSE q

\* HandleRtcp takes a complete packet; the bytes of the length, a multiple of
\* four, are signed, so that a long one is never found complete.
HandleRtcp(buf) ==
  IF IsRtcp(buf) /\ Len(buf) > 1 /\ Head(buf).is = "$" THEN From(buf, 3) ELSE buf

-----------------------------------------------------------------------------
(* Receiving.                                                              *)

\* Mutant: Reset keeps the headers of the request.
ResetKeeps(p) == [p EXCEPT !.state = "line"]

Reset(p) == [p EXCEPT !.state = "line", !.cseq = 0]

\* Mutant: a buffer that has grown is kept.
LimitNone(buf) == buf

\* OnRead: a buffer that has grown too large is thrown away.
Limit(buf) == IF Len(buf) > MaxMessage THEN <<>> ELSE buf

\* The socket is closed, and what is on its way to it is lost.
Close == closed' = TRUE /\ wire' = <<>>

GotAll(p) == p.state = "all"

\* The constructor of RtspConnection, on the acceptor's loop: the channel was
\* already in epoll when TcpConnection's constructor had ended.
SetReadCallback ==
  /\ ~ready /\ ready' = TRUE
  /\ UNCHANGED <<sent, frames, wire, buffer, parser, output, closed, mutex, leaving, media, served, msgs,
                 clean, got>>

\* HandleRead without a read_cb_: the bytes stay in the buffer.
HandleReadEarly ==
  /\ ~closed /\ ~mutex /\ ~ready /\ wire # <<>>
  /\ \E n \in 1 .. Len(wire) :
       buffer' = buffer \o SubSeq(wire, 1, n) /\ wire' = From(wire, n + 1)
  /\ clean' = FALSE
  /\ UNCHANGED <<ready, sent, frames, parser, output, closed, mutex, leaving, media, served, msgs, got>>

\* Mutant: HandleCmdPlay and the others do not look for rtp_conn_.
AnswersAlways(m) == TRUE

\* The commands that answer: PLAY, TEARDOWN and GET_PARAMETER return without an
\* answer when no DESCRIBE has made rtp_conn_; a SETUP is answered with an error.
Answers(m) == rtpConn \/ m \in {"OPTIONS", "DESCRIBE", "SETUP"}

\* HandleRead: recv, then OnRead and HandleRtspRequest with one call of
\* ParseRequest.  What is left in the buffer waits for the next recv.
HandleRead ==
  /\ ready /\ ~closed /\ ~mutex /\ pending = 0 /\ wire # <<>>
  /\ \E n \in 1 .. Len(wire) :
       LET chunk == SubSeq(wire, 1, n)
           p == ParseRequest([buf |-> buffer \o chunk, state |-> state, method |-> method,
                              cseq |-> cseq, ok |-> TRUE])
       IN /\ clean' = (clean /\ buffer = <<>> /\ chunk \in Complete(got + 1) \cup {Packet(FALSE)})
          /\ got' = IF IsRtcp(chunk) THEN got ELSE got + 1
          /\ asked' = IF clean' /\ ~IsRtcp(chunk) THEN Append(asked, Head(chunk).is) ELSE asked
          /\ IF ~p.ok
             THEN /\ Close
                  /\ buffer' = p.buf
                  /\ UNCHANGED <<parser, rtpConn, answers, msgs, pending>>
             ELSE LET q == IF GotAll(p) THEN Reset(p) ELSE p
                  IN /\ buffer' = Limit(IF p.method = "RTCP" THEN HandleRtcp(p.buf) ELSE p.buf)
                     /\ state' = q.state /\ method' = q.method /\ cseq' = q.cseq
                     /\ rtpConn' = (rtpConn \/ (GotAll(p) /\ p.method = "DESCRIBE"))
                     /\ IF GotAll(p) /\ Answers(p.method)
                        THEN /\ answers' = Append(answers, p.cseq)
                             /\ msgs' = msgs + 1 /\ pending' = msgs + 1
                        ELSE UNCHANGED <<answers, msgs, pending>>
                     /\ wire' = From(wire, n + 1)
                     /\ UNCHANGED closed
  /\ UNCHANGED <<ready, sent, frames, queue, writing, out, mutex, leaving, media>>

\* recv returns 0 or an error: the client has gone.
HandleReadEnd ==
  /\ ~closed /\ ~mutex /\ pending = 0
  /\ Close
  /\ UNCHANGED <<ready, sent, frames, buffer, parser, output, mutex, leaving, media, served, msgs, clean, got>>

-----------------------------------------------------------------------------
(* Sending.                                                                *)

\* An RTP packet of a stream that is interleaved, sent by the loop: any time
\* from the DESCRIBE on, for the SETUP and the PLAY before it are left out.
SendMedia ==
  /\ ready /\ ~closed /\ pending = 0 /\ media < MaxMedia
  /\ rtpConn
  /\ media' = media + 1
  /\ msgs' = msgs + 1 /\ pending' = msgs + 1
  /\ UNCHANGED <<ready, sent, frames, wire, buffer, parser, queue, writing, out, closed, mutex, leaving,
                 served, clean, got>>

\* The packets of a queue; of the first one half may have been sent.
Packets(q) == (Len(q) + 1) \div 2

\* Send: Append under mutex_, which drops the message when the queue is full.
\* The message is in the queue when pending is negative.
AppendMessage ==
  /\ pending > 0 /\ ~mutex
  /\ queue' = IF Packets(queue) >= MaxQueue THEN queue ELSE queue \o <<pending, pending>>
  /\ pending' = -pending
  /\ UNCHANGED <<ready, sent, frames, wire, buffer, parser, writing, out, closed, mutex, leaving, media,
                 served, msgs, clean, got>>

\* Mutant: the write index of a packet sent in part is not advanced.
RemainingUnadvanced(q, k) ==
  LET rest == From(q, k + 1) IN IF Len(rest) % 2 = 1 THEN <<Head(rest)>> \o rest ELSE rest

\* The queue after k halves have been sent.
Remaining(q, k) == From(q, k + 1)

\* Mutant: EPOLLOUT is asked for only when nothing could be sent.
WantsWriteIfBlocked(k, rest) == k = 0 /\ rest # <<>>

WantsWrite(k, rest) == rest # <<>>

\* HandleWrite, from Send or on EPOLLOUT: try_lock; the socket takes k halves;
\* EPOLLOUT is asked for as long as something is left.  A send that fails closes.
HandleWrite ==
  /\ \/ pending < 0
     \/ pending = 0 /\ writing /\ ~closed
  /\ pending' = 0
  /\ \/ (closed \/ mutex) /\ UNCHANGED <<queue, writing, out, closed, wire>>
     \/ /\ ~closed /\ ~mutex
        /\ \E k \in 0 .. Len(queue) :
             /\ out' = out \o SubSeq(queue, 1, k)
             /\ queue' = Remaining(queue, k)
             /\ writing' = WantsWrite(k, Remaining(queue, k))
        /\ UNCHANGED <<closed, wire>>
     \/ ~closed /\ ~mutex /\ queue # <<>> /\ Close /\ UNCHANGED <<queue, writing, out>>
  /\ UNCHANGED <<ready, sent, frames, buffer, parser, mutex, leaving, media, served, msgs, clean, got>>

\* Disconnect, on the thread that stops the server: mutex_, then the post.
DisconnectLock ==
  /\ ready /\ leaving = "no" /\ ~mutex
  /\ leaving' = "locked" /\ mutex' = TRUE
  /\ UNCHANGED <<ready, sent, frames, wire, buffer, parser, output, closed, media, served, msgs, clean, got>>

DisconnectPost ==
  /\ leaving = "locked"
  /\ leaving' = "posted" /\ mutex' = FALSE
  /\ UNCHANGED <<ready, sent, frames, wire, buffer, parser, output, closed, media, served, msgs, clean, got>>

\* The posted Close runs on the loop.
RunClose ==
  /\ leaving = "posted" /\ ~closed /\ pending = 0
  /\ Close
  /\ UNCHANGED <<ready, sent, frames, buffer, parser, output, mutex, leaving, media, served, msgs, clean, got>>

Client == SendRequest \/ SendRtcp
Loop   == HandleReadEarly \/ HandleRead \/ HandleReadEnd \/ SendMedia \/ AppendMessage \/ HandleWrite \/ RunClose
Next   == Client \/ Loop \/ SetReadCallback \/ DisconnectLock \/ DisconnectPost

Spec == Init /\ [][Next]_vars

-----------------------------------------------------------------------------

Pieces == [is : DOMAIN Key \cup {Key[m] : m \in DOMAIN Key} \cup {"CSeq", "", "$", "$long"},
           part : 1 .. 2, num : 0 .. MaxRequests]

\* Every variable has its type; the parser is between two requests or in the
\* headers of one, and the buffer and the queue keep their limits.
TypeOK ==
  /\ sent \in 0 .. MaxRequests /\ frames \in 0 .. MaxFrames
  /\ wire \in Seq(Pieces) /\ buffer \in Seq(Pieces) /\ (~closed /\ got > 0 => Len(buffer) <= MaxMessage)
  /\ state \in {"line", "headers"} /\ cseq \in 0 .. MaxRequests
  /\ method \in DOMAIN Key \cup {"RTCP", "NONE"}
  /\ queue \in Seq(1 .. msgs) /\ Packets(queue) <= MaxQueue
  /\ {ready, rtpConn, writing, closed, mutex, clean} \subseteq BOOLEAN
  /\ leaving \in {"no", "locked", "posted"} /\ mutex = (leaving = "locked")
  /\ media \in 0 .. MaxMedia

\* However the bytes of the requests are cut, joined, and mixed with RTCP
\* packets: no CSeq is answered twice, none before it was sent, and the
\* answers come in the order of the requests (RtspMessage.cpp:16-49, Reset).
AnswersIncrease ==
  /\ \A i \in DOMAIN answers : answers[i] \in 1 .. sent
  /\ \A i \in 1 .. Len(answers) - 1 : answers[i] < answers[i + 1]

\* The requests of ms that get an answer: PLAY, TEARDOWN and GET_PARAMETER get
\* one only after a DESCRIBE.
Answered(ms) ==
  {i \in DOMAIN ms : ms[i] \in {"PLAY", "TEARDOWN", "GET_PARAMETER"} =>
                       \E j \in 1 .. i - 1 : ms[j] = "DESCRIBE"}

\* As long as every recv brings exactly one whole request with its headers, each
\* is handled at once and answered with its own CSeq, but for a PLAY, TEARDOWN
\* or GET_PARAMETER before any DESCRIBE, which gets no answer at all; either
\* leaves the parser and the buffer as it found them (RtspConnection.cpp:96-144,
\* 353-400).
WholeIsAnswered ==
  clean /\ ~closed =>
    /\ Len(asked) = got /\ buffer = <<>> /\ state = "line"
    /\ {answers[i] : i \in DOMAIN answers} = Answered(asked)

\* Requests are answered in order, once, and those that come whole at once, if at all.
AnswersRight == AnswersIncrease /\ WholeIsAnswered

\* What leaves the socket is whole messages in the order of Send, though the
\* socket takes them in parts and a full queue drops some (BufferWriter.cpp).
OutputWhole ==
  \A i \in 1 .. Len(out) - 1 :
    IF i % 2 = 1 THEN out[i] = out[i + 1] ELSE out[i] < out[i + 1]

\* HandleWrite gives up when Disconnect has mutex_: a message is left without
\* EPOLLOUT asked for only on a connection that is about to be closed.
NoStall == queue # <<>> /\ pending = 0 => writing \/ closed \/ leaving # "no"

\* Messages leave whole, in order, and none is forgotten in the queue
\* (TcpConnection.cpp:100-133, BufferWriter.cpp:47-121).
OutputRight == OutputWhole /\ NoStall
=============================================================================
