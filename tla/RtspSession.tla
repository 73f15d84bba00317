----------------------------- MODULE RtspSession -----------------------------
(***************************************************************************)
(* RTSP connections, the RtpConnection each of them owns, and the media    *)
(* sessions that send them packets.                                        *)
(*                                                                         *)
(* One scheduler thread runs the handlers of every connection and the      *)
(* queue of trigger events; each media session has a thread that pushes    *)
(* packets into it (PushFrame), takes the clients under map_mutex_ and     *)
(* posts one trigger event per client.  A handler is one step, except that *)
(* DESCRIBE and the closing of a connection look the session up in the     *)
(* server first and call it afterwards, without the server's lock.         *)
(*                                                                         *)
(* A RtspConnection lives while it is in the server's connections_ or a    *)
(* media thread holds it; its RtpConnection lives as long, or while a media*)
(* thread has it among the clients it took.  Trigger events and the RTCP   *)
(* timer hold a bare `this` of the RtpConnection.                          *)
(***************************************************************************)
EXTENDS Integers, Sequences, FiniteSets, TLC

CONSTANTS Conns,             \* the connections that clients may open
          Fds,               \* the socket numbers, used again after a close
          Sessions,          \* the media sessions added to the server
          Channels,          \* the channels of a session
          Modes,             \* the transport modes that clients ask for
          AuthRequired,      \* the server has a user name and a password
          MaxTriggerEvents,  \* the places in the scheduler's trigger events
          SeqMod,            \* 2^16 in the code
          MaxWork            \* packets pushed, sessions removed, connections torn down
                             \* or changed to another stream, in all (model bound)

ASSUME RtspAssumption ==
  /\ IsFiniteSet(Conns) /\ IsFiniteSet(Sessions) /\ IsFiniteSet(Channels)
  /\ "none" \notin Conns /\ "none" \notin Sessions /\ Fds # {}
  /\ AuthRequired \in BOOLEAN /\ Modes \subseteq {"tcp", "udp"}
  /\ {MaxTriggerEvents, SeqMod} \subseteq Nat \ {0} /\ MaxWork \in Nat

Kinds == {"key", "delta"}   \* key: VIDEO_FRAME_I, AUDIO_FRAME or 0

VARIABLES
  sessions,   \* media_sessions_ of the server
  clients,    \* per session, clients_: socket -> the connection registered, or "none"
  count,      \* per session, connected less disconnected notifications
  pushing,    \* per session, its media thread: where it is, with what
  pushed,     \* the packets pushed so far, into all sessions
  life,       \* per connection: "new", "open", "closed" (is_closed_), "removed"
  fd,         \* its socket
  nonce,      \* _nonce is not empty
  hasAuth,    \* has_auth_
  rtp,        \* rtp_conn_ exists
  sessionId,  \* session_id_, or "none"
  mode,       \* transport_mode_
  isSetup, isPlay,   \* per connection and channel
  keyed,      \* has_key_frame_
  tornDown,   \* RtpConnection::is_closed_
  seq,        \* per connection and channel, packet_seq
  timerId,    \* rtcp_timer_id_ is not 0
  timers,     \* the RTCP timers of each connection in the timer queue
  queue,      \* the trigger events: [op, conn, pkt, open]; open: the connection was
  late,       \* the removals that found the queue full and wait for a timer
  phase,      \* TaskScheduler::Start is at: "triggers", "timers" or "events"
  step,       \* what the scheduler thread is in the middle of
  joined,     \* per session, whom it has called its connected callbacks for
  wire        \* the packets numbered for each client: [chn, seq, session, n, queued];
              \* not queued: its full write queue refused it (history)

server == <<sessions, clients, count, joined>>
media  == <<pushing, pushed>>
rtsp   == <<life, fd, nonce, hasAuth, rtp, sessionId>>
rtpc   == <<mode, isSetup, isPlay, keyed, tornDown, seq, timerId, timers>>
loop   == <<queue, late, phase, step>>
vars   == <<server, media, rtsp, rtpc, loop, wire>>

Idle  == [op |-> "idle"]

Init ==
  /\ sessions = Sessions
  /\ clients = [s \in Sessions |-> [f \in Fds |-> "none"]]
  /\ count = [s \in Sessions |-> 0] /\ joined = [s \in Sessions |-> {}]
  /\ pushing = [s \in Sessions |-> Idle] /\ pushed = 0
  /\ life = [c \in Conns |-> "new"]
  /\ fd \in [Conns -> {CHOOSE f \in Fds : TRUE}]
  /\ nonce = [c \in Conns |-> FALSE] /\ hasAuth = [c \in Conns |-> ~AuthRequired]
  /\ rtp = [c \in Conns |-> FALSE] /\ sessionId = [c \in Conns |-> "none"]
  /\ mode = [c \in Conns |-> "none"]
  /\ isSetup = [c \in Conns |-> {}] /\ isPlay = [c \in Conns |-> {}]
  /\ keyed = [c \in Conns |-> FALSE] /\ tornDown = [c \in Conns |-> FALSE]
  /\ seq = [c \in Conns |-> [h \in Channels |-> SeqMod - 1]]   \* rd(): about to wrap
  /\ timerId = [c \in Conns |-> FALSE] /\ timers = [c \in Conns |-> 0]
  /\ queue = <<>> /\ late = {} /\ phase = "events" /\ step = Idle
  /\ wire = [c \in Conns |-> <<>>]

\* The media threads that hold the connection, or its RtpConnection.
Held(c)    == \E s \in Sessions : pushing[s].op = "post" /\ pushing[s].conn = c
Taken(c)   == \E s \in Sessions : pushing[s].op \in {"send", "post"} /\ c \in pushing[s].todo
Alive(c)    == life[c] \in {"open", "closed"} \/ Held(c)
RtpAlive(c) == rtp[c] /\ (Alive(c) \/ Taken(c))

\* The connections registered with a stream they have left by a DESCRIBE.
Strayed == {c \in Conns : \E s \in Sessions : c \in joined[s] /\ sessionId[c] # s}
Work == pushed + Cardinality(Strayed) + Cardinality(Sessions \ sessions)
        + Cardinality({c \in Conns : tornDown[c]})

\* The scheduler's thread may begin something of that phase.
Free(p) == phase = p /\ step.op = "idle"

\* Mutant: the newest trigger event runs first.
PostFirst(e) == IF Len(queue) < MaxTriggerEvents THEN <<e>> \o queue ELSE queue

\* AddTriggerEvent: false when the ring is full.
Post(e) == IF Len(queue) < MaxTriggerEvents THEN Append(queue, e) ELSE queue

-----------------------------------------------------------------------------
(* Requests, handled by the scheduler's thread.                            *)

\* OnConnect; the kernel hands out a socket number nobody has.
Connect(c) ==
  /\ Free("events") /\ life[c] = "new"
  /\ \E f \in Fds : /\ \A d \in Conns : Alive(d) => fd[d] # f
                    /\ fd' = [fd EXCEPT ![c] = f]
  /\ life' = [life EXCEPT ![c] = "open"]
  /\ UNCHANGED <<server, media, nonce, hasAuth, rtp, sessionId, rtpc, loop, wire>>

\* HandleAuthentication fails: a new nonce, and 401 for the client.
Unauthorized(c) ==
  /\ Free("events") /\ life[c] = "open" /\ ~hasAuth[c]
  /\ nonce' = [nonce EXCEPT ![c] = TRUE]
  /\ UNCHANGED <<server, media, life, fd, hasAuth, rtp, sessionId, rtpc, loop, wire>>

\* Mutant: any response will do.
AuthenticatedUnchecked(c) ==
  /\ Free("events") /\ life[c] = "open"
  /\ UNCHANGED <<hasAuth, nonce>>

\* HandleAuthentication succeeds, now or earlier: the response is computed
\* from the nonce the connection was given last.
Authenticated(c) ==
  /\ Free("events") /\ life[c] = "open"
  /\ hasAuth[c] \/ nonce[c]
  /\ hasAuth' = [hasAuth EXCEPT ![c] = TRUE]
  /\ nonce' = [nonce EXCEPT ![c] = nonce[c] /\ hasAuth[c]]

\* HandleCmdDescribe up to the lookup; 404 leaves session_id_ as it was.
Describe(c, s) ==
  /\ Authenticated(c)
  /\ sessionId[c] \in {"none", s} \/ Work < MaxWork
  /\ rtp' = [rtp EXCEPT ![c] = TRUE]
  /\ IF s \in sessions
     THEN /\ sessionId' = [sessionId EXCEPT ![c] = s]
          /\ step' = [op |-> "add", conn |-> c, session |-> s]
     ELSE UNCHANGED <<sessionId, step>>
  /\ UNCHANGED <<server, media, life, fd, rtpc, queue, late, phase, wire>>

\* MediaSession::AddClient
AddClient ==
  /\ step.op = "add"
  /\ LET c == step.conn
         s == step.session
     IN IF clients[s][fd[c]] = "none"
        THEN /\ clients' = [clients EXCEPT ![s][fd[c]] = c]
             /\ count' = [count EXCEPT ![s] = @ + 1]
             /\ joined' = [joined EXCEPT ![s] = @ \cup {c}]
        ELSE UNCHANGED <<clients, count, joined>>
  /\ step' = Idle
  /\ UNCHANGED <<sessions, media, rtsp, rtpc, queue, late, phase, wire>>

\* SetupRtpOverTcp, and the end of SetupRtpOverUdp.
SetupRtp(c, h, m) ==
  /\ isSetup' = [isSetup EXCEPT ![c] = @ \cup {h}]
  /\ mode' = [mode EXCEPT ![c] = m]

\* SetupRtpOverUdp: ten attempts at two neighbouring ports may all fail.
SetupRtpOverUdp(c, h) ==
  \/ SetupRtp(c, h, "udp")
  \/ UNCHANGED <<isSetup, mode>>

\* HandleCmdSetup of a unicast session; without a session an error.
Setup(c, h, m) ==
  /\ Authenticated(c)
  /\ IF sessionId[c] \notin sessions THEN UNCHANGED <<isSetup, mode>>
     ELSE IF m = "tcp" THEN SetupRtp(c, h, "tcp") ELSE SetupRtpOverUdp(c, h)
  /\ UNCHANGED <<server, media, life, fd, rtp, sessionId, isPlay, keyed, tornDown,
                 seq, timerId, timers, loop, wire>>

\* StartRtcpTimer
StartRtcpTimer(c) ==
  /\ timerId' = [timerId EXCEPT ![c] = TRUE]
  /\ timers' = [timers EXCEPT ![c] = IF timerId[c] THEN @ ELSE @ + 1]

\* RtpConnection::Play
PlayRtp(c) ==
  /\ isPlay' = [isPlay EXCEPT ![c] = isSetup[c]]
  /\ StartRtcpTimer(c)

\* HandleCmdPlay: the answer is 200 whatever was set up, and after a TEARDOWN.
Play(c) ==
  /\ Authenticated(c)
  /\ IF rtp[c] THEN PlayRtp(c) ELSE UNCHANGED <<isPlay, timerId, timers>>
  /\ UNCHANGED <<server, media, life, fd, rtp, sessionId, mode, isSetup, keyed,
                 tornDown, seq, loop, wire>>

\* RtpConnection::Teardown; is_closed_ is never set back.
TeardownRtp(c) ==
  IF tornDown[c]
  THEN UNCHANGED <<tornDown, isPlay, timerId, timers>>
  ELSE /\ tornDown' = [tornDown EXCEPT ![c] = TRUE]
       /\ isPlay' = [isPlay EXCEPT ![c] = {}]
       /\ timerId' = [timerId EXCEPT ![c] = FALSE]
       /\ timers' = [timers EXCEPT ![c] = IF timerId[c] /\ @ > 0 THEN @ - 1 ELSE @]

\* HandleCmdTeardown: the connection and the client stay.
Teardown(c) ==
  /\ Free("events") /\ life[c] = "open" /\ rtp[c] /\ Work < MaxWork
  /\ TeardownRtp(c)
  /\ UNCHANGED <<server, media, rtsp, mode, isSetup, keyed, seq, loop, wire>>

-----------------------------------------------------------------------------
(* A connection closes: TcpConnection::Close with OnClose as close_cb_.    *)

\* The disconnect_cb_ of the server: RemoveConnection as a trigger event, or
\* by a timer when there is no room.  One that is lost, because a media thread takes
\* the last place between AddTriggerEvent's test and its Push, is here a timer that
\* never comes: no timer has to.
PostRemoval(c) ==
  /\ queue' = Post([op |-> "remove", conn |-> c])
  /\ late' = IF Len(queue) < MaxTriggerEvents THEN late ELSE late \cup {c}

\* The peer has gone, the request is no RTSP, or writing failed: that of a
\* packet over TCP closes the connection among the trigger events.
Close(c) ==
  /\ Free("events") \/ (Free("triggers") /\ mode[c] = "tcp")
  /\ life[c] = "open"
  /\ life' = [life EXCEPT ![c] = "closed"]
  /\ IF sessionId[c] \in sessions
     THEN /\ step' = [op |-> "leave", conn |-> c, session |-> sessionId[c]]
          /\ UNCHANGED <<queue, late>>
     ELSE /\ PostRemoval(c)
          /\ UNCHANGED step
  /\ UNCHANGED <<server, media, fd, nonce, hasAuth, rtp, sessionId, rtpc, phase, wire>>

\* Mutant: a client is forgotten without the disconnected callbacks.
RemoveClientSilently ==
  /\ step.op = "leave"
  /\ clients' = [clients EXCEPT ![step.session][fd[step.conn]] = "none"]
  /\ PostRemoval(step.conn)
  /\ step' = Idle
  /\ UNCHANGED <<sessions, count, joined, media, rtsp, rtpc, phase, wire>>

\* MediaSession::RemoveClient; no callback for a client that has expired.
RemoveClient ==
  /\ step.op = "leave"
  /\ LET c == step.conn
         s == step.session
         d == clients[s][fd[c]]
     IN /\ clients' = [clients EXCEPT ![s][fd[c]] = "none"]
        /\ count' = [count EXCEPT ![s] = IF d # "none" /\ RtpAlive(d) THEN @ - 1 ELSE @]
        /\ PostRemoval(c)
  /\ step' = Idle
  /\ UNCHANGED <<sessions, joined, media, rtsp, rtpc, phase, wire>>

\* RemoveConnection: the last reference, unless a media thread has one.
Forget(c) ==
  /\ life' = [life EXCEPT ![c] = "removed"]
  /\ UNCHANGED <<fd, nonce, hasAuth, rtp, sessionId>>

RemoveLate(c) ==
  /\ Free("timers") /\ c \in late
  /\ late' = late \ {c}
  /\ Forget(c)
  /\ UNCHANGED <<server, media, rtpc, queue, phase, step, wire>>

-----------------------------------------------------------------------------
(* The trigger events.                                                     *)

RemoveConnection ==
  /\ Free("triggers") /\ queue # <<>> /\ Head(queue).op = "remove"
  /\ queue' = Tail(queue)
  /\ Forget(Head(queue).conn)
  /\ UNCHANGED <<server, media, rtpc, late, phase, step, wire>>

Playing(c, h) == h \in isPlay[c]

\* Mutant: a sequence number of more than 16 bits.
NextSeqUnbounded(c, h) == seq' = [seq EXCEPT ![c][h] = @ + 1]

\* SetRtpHeader: the packet takes the channel's next sequence number.
NextSeq(c, h) == seq' = [seq EXCEPT ![c][h] = (@ + 1) % SeqMod]

Ignored(e) == ~(Playing(e.conn, e.pkt.chn) /\ (keyed[e.conn] \/ e.pkt.kind = "key"))

\* The gate keeps the packet back, and its sequence number.
SkipPacket(e) ==
  /\ Ignored(e)
  /\ UNCHANGED <<seq, wire>>

\* Packets go out over UDP as long as the RtpConnection lives; over TCP a
\* connection that is closed takes no more bytes.
Sending(c) == life[c] = "open" \/ mode[c] = "udp"

\* Over TCP BufferWriter::Append refuses the packet when the queue is full, and
\* nobody looks at its result.
Queued(c) == IF mode[c] = "udp" THEN {TRUE} ELSE BOOLEAN

SendPacket(e) ==
  /\ ~Ignored(e)
  /\ NextSeq(e.conn, e.pkt.chn)
  /\ IF Sending(e.conn)
     THEN \E queued \in Queued(e.conn) :
            wire' = [wire EXCEPT ![e.conn] = Append(@,
              [chn |-> e.pkt.chn, seq |-> seq[e.conn][e.pkt.chn],
               session |-> e.pkt.session, n |-> e.pkt.n, queued |-> queued])]
     ELSE UNCHANGED wire

\* sendto fails: the RtpConnection tears itself down.
SendFails(e) ==
  /\ ~Ignored(e) /\ mode[e.conn] = "udp"
  /\ NextSeq(e.conn, e.pkt.chn)
  /\ TeardownRtp(e.conn)
  /\ UNCHANGED wire

\* The event that SendRtpPacket posted.  When the RtpConnection is gone it
\* reads freed memory; what comes of that is not modelled.
RunPacket ==
  /\ Free("triggers") /\ queue # <<>> /\ Head(queue).op = "packet"
  /\ queue' = Tail(queue)
  /\ LET e == Head(queue)
     IN IF RtpAlive(e.conn)
        THEN /\ keyed' = [keyed EXCEPT ![e.conn] = @ \/ e.pkt.kind = "key"]
             /\ \/ SendFails(e)
                \/ /\ SkipPacket(e) \/ SendPacket(e)
                   /\ UNCHANGED <<tornDown, isPlay, timerId, timers>>
        ELSE UNCHANGED <<keyed, seq, wire, tornDown, isPlay, timerId, timers>>
  /\ UNCHANGED <<server, media, rtsp, mode, isSetup, late, phase, step>>

\* OnRtcpTimer, when is_closed_ is set; until then it repeats, which changes
\* nothing here.  That of a destroyed RtpConnection, which StopRtcpTimer could
\* not remove, stays.
RtcpTimer(c) ==
  /\ Free("timers") /\ timers[c] > 0 /\ RtpAlive(c)
  /\ tornDown[c]
  /\ timers' = [timers EXCEPT ![c] = @ - 1]
  /\ UNCHANGED <<server, media, rtsp, mode, isSetup, isPlay, keyed, tornDown, seq,
                 timerId, loop, wire>>

-----------------------------------------------------------------------------
(* The media threads.                                                      *)

\* PushFrame of a packet, when the session is in the server and has clients,
\* and the send callback of AddSource, under map_mutex_: expired clients are
\* dropped without the disconnected callbacks, the others are taken.
PushFrame(s, h, k) ==
  /\ pushing[s].op = "idle" /\ s \in sessions /\ Work < MaxWork
  /\ \E f \in Fds : clients[s][f] # "none"
  /\ pushed' = pushed + 1
  /\ clients' = [clients EXCEPT ![s] =
       [f \in Fds |-> IF @[f] # "none" /\ RtpAlive(@[f]) THEN @[f] ELSE "none"]]
  /\ LET todo == {c \in Conns : RtpAlive(c) /\ Alive(c) /\ \E f \in Fds : clients[s][f] = c}
     IN pushing' = [pushing EXCEPT ![s] =
          IF todo = {} THEN Idle
          ELSE [op |-> "send", todo |-> todo,
                pkt |-> [chn |-> h, kind |-> k, session |-> s, n |-> pushed + 1]]]
  /\ UNCHANGED <<sessions, count, joined, rtsp, rtpc, loop, wire>>

Done(p, c) == IF p.todo = {c} THEN Idle
              ELSE [op |-> "send", pkt |-> p.pkt, todo |-> p.todo \ {c}]

\* SendRtpPacket up to the lock of the weak pointer.
SendRtpPacket(s, c) ==
  /\ pushing[s].op = "send" /\ c \in pushing[s].todo
  /\ pushing' = [pushing EXCEPT ![s] =
       IF tornDown[c] \/ ~Alive(c) THEN Done(@, c)
       ELSE [op |-> "post", pkt |-> @.pkt, todo |-> @.todo, conn |-> c]]
  /\ UNCHANGED <<server, pushed, rtsp, rtpc, loop, wire>>

\* AddTriggerEvent; a packet that finds no room is lost.
PostPacket(s) ==
  /\ pushing[s].op = "post"
  /\ LET p == pushing[s]
     IN /\ queue' = Post([op |-> "packet", conn |-> p.conn, pkt |-> p.pkt,
                          open |-> life[p.conn] = "open"])
        /\ pushing' = [pushing EXCEPT ![s] = Done(p, p.conn)]
  /\ UNCHANGED <<server, pushed, rtsp, rtpc, late, phase, step, wire>>

\* RtspServer::RemoveSession, from the thread that stops the stream.
RemoveSession(s) ==
  /\ s \in sessions /\ Work < MaxWork
  /\ sessions' = sessions \ {s}
  /\ UNCHANGED <<clients, count, joined, media, rtsp, rtpc, loop, wire>>

\* TaskScheduler::Start: all trigger events, the timers, then the sockets.
NextPhase ==
  /\ step.op = "idle"
  /\ \/ phase = "triggers" /\ queue = <<>> /\ phase' = "timers"
     \/ phase = "timers" /\ phase' = "events"
     \/ phase = "events" /\ phase' = "triggers"
  /\ UNCHANGED <<server, media, rtsp, rtpc, queue, late, step, wire>>

Request(c) ==
  \/ Connect(c)
  \/ Unauthorized(c) \* any of the three requests that ask for it
  \/ \E s \in Sessions : Describe(c, s)
  \/ \E h \in Channels, m \in Modes : Setup(c, h, m)
  \/ Play(c)
  \/ Teardown(c)
  \/ Close(c)

Scheduler ==
  \/ \E c \in Conns : Request(c) \/ RemoveLate(c) \/ RtcpTimer(c)
  \/ AddClient \/ RemoveClient \/ RemoveConnection \/ RunPacket \/ NextPhase

MediaThread(s) ==
  \/ \E h \in Channels, k \in Kinds : PushFrame(s, h, k)
  \/ \E c \in Conns : SendRtpPacket(s, c)
  \/ PostPacket(s)

Next == Scheduler \/ \E s \in Sessions : MediaThread(s) \/ RemoveSession(s)

Symmetries == Permutations(Conns) \cup Permutations(Fds) \cup Permutations(Sessions)

Spec == Init /\ [][Next]_vars

-----------------------------------------------------------------------------
(* Properties                                                              *)

Packet == [chn : Channels, kind : Kinds, session : Sessions, n : Nat]

\* Every variable has its type, the trigger events stay within the ring, and
\* session_id_ names a session only of a connection with an RtpConnection.
TypeOK ==
  /\ sessions \subseteq Sessions
  /\ clients \in [Sessions -> [Fds -> Conns \cup {"none"}]]
  /\ count \in [Sessions -> Int] /\ joined \in [Sessions -> SUBSET Conns]
  /\ \A s \in Sessions :
       \/ pushing[s].op = "idle"
       \/ /\ pushing[s].op \in {"send", "post"}
          /\ pushing[s].pkt \in Packet /\ pushing[s].todo \in (SUBSET Conns) \ {{}}
          /\ pushing[s].op = "post" => pushing[s].conn \in pushing[s].todo
  /\ pushed \in Nat
  /\ life \in [Conns -> {"new", "open", "closed", "removed"}] /\ fd \in [Conns -> Fds]
  /\ {nonce, hasAuth, rtp, keyed, tornDown, timerId} \subseteq [Conns -> BOOLEAN]
  /\ sessionId \in [Conns -> Sessions \cup {"none"}]
  /\ \A c \in Conns : sessionId[c] # "none" => rtp[c]
  /\ mode \in [Conns -> Modes \cup {"none"}]
  /\ {isSetup, isPlay} \subseteq [Conns -> SUBSET Channels]
  /\ seq \in [Conns -> [Channels -> 0 .. SeqMod - 1]] /\ timers \in [Conns -> Nat]
  /\ Len(queue) <= MaxTriggerEvents
  /\ \A i \in 1 .. Len(queue) :
       /\ queue[i].op \in {"packet", "remove"} /\ queue[i].conn \in Conns
       /\ queue[i].op = "packet" => queue[i].pkt \in Packet /\ queue[i].open \in BOOLEAN
  /\ late \subseteq Conns /\ phase \in {"triggers", "timers", "events"}
  /\ \/ step = Idle
     \/ step.op \in {"add", "leave"} /\ step.conn \in Conns /\ step.session \in Sessions

\* The handler that closes c has called RemoveClient, or there was none to call.
Left(c) == life[c] \in {"closed", "removed"} /\ ~(step.op = "leave" /\ step.conn = c)

\* MediaSession tells StreamSession of every client that joins and leaves: as
\* long as the session is in the server its count is at least the clients
\* whose connection is open, and exceeds it only by connections that have
\* since described another stream: a closing RtspConnection leaves the
\* session of its last DESCRIBE alone.
CountBounds ==
  \A s \in sessions :
    /\ count[s] >= Cardinality({c \in joined[s] : ~Left(c)})
    /\ count[s] <= Cardinality({c \in joined[s] : ~Left(c) \/ sessionId[c] # s})

\* Whatever is lost before the trigger events, gated by a missing key frame or
\* not played, a client is sent the packets of a session in the order they
\* were pushed, each once.
WireOrdered ==
  \A c \in Conns : \A i, j \in 1 .. Len(wire[c]) :
    i < j /\ wire[c][i].session = wire[c][j].session => wire[c][i].n < wire[c][j].n

\* The packets of channel h that w has after the i-th.
After(w, h, i) == {k \in i + 1 .. Len(w) : w[k].chn = h}

\* next follows the packets w: per channel, no number is missing.
NoGap(w, next) ==
  \A i \in 1 .. Len(w) :
    next[w[i].chn] = (w[i].seq + 1 + Cardinality(After(w, w[i].chn, i))) % SeqMod

\* The sequence numbers of a channel have no gap, across 2^16 as well, up to
\* the packet the channel sends next, but for the packets that the client's full
\* write queue refused: until a TEARDOWN or a sendto that failed, for a packet
\* posted before and a PLAY after it go on with a number missing.
WireGapless ==
  \A c \in Conns : Sending(c) /\ ~tornDown[c] => NoGap(wire[c], seq[c])

\* A connection gets packets only of the stream of its last DESCRIBE, or of
\* those it described before and was never taken out of.
OwnStream ==
  \A c \in Conns : \A i \in 1 .. Len(wire[c]) :
    c \in joined[wire[c][i].session] /\ hasAuth[c]

\* What a client is sent is in order, complete from the first packet it gets but
\* for what its write queue had no room for, and of its own streams
\* (RtpConnection.cpp:235-296, MediaSession.cpp:52-98, RtspConnection.cpp:224-268).
WireRight == WireOrdered /\ WireGapless /\ OwnStream

\* The trigger events hold a bare RtpConnection: one that was posted while the
\* connection was open runs before RemoveConnection destroys it, since the
\* events run in the order they were posted and the removal is one of them,
\* or comes later still.  And a connection's only timer is the one that
\* rtcp_timer_id_ can stop.
RawThisValid ==
  /\ \A i \in 1 .. Len(queue) :
       queue[i].op = "packet" /\ queue[i].open => RtpAlive(queue[i].conn)
  /\ \A c \in Conns : RtpAlive(c) => timers[c] <= (IF timerId[c] THEN 1 ELSE 0)

\* RtpConnection.cpp:328, of the RTCP timer: "keep repeating while alive".  A
\* connection that closes while it plays leaves the timer in the queue.
TimersDieWithOwner == \A c \in Conns : timers[c] > 0 => RtpAlive(c)

=============================================================================
