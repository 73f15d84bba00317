------------------------- MODULE RtspSessionProofs --------------------------
(***************************************************************************)
(* The bare `this` of a trigger event is valid, clients get their packets  *)
(* in order and without a gap, and the notifications of a media session    *)
(* add up, for any connections, sockets, sessions and channels, a ring of  *)
(* trigger events of any size, and any modulus of the sequence numbers.    *)
(*                                                                         *)
(* RawThisValid is inductive with what the order of the queue gives        *)
(* (EventsInOrder): behind the removal of a connection there is no packet  *)
(* posted while it was open, and a removal that waits for a timer runs     *)
(* when the queue has been empty since the connection closed.              *)
(* CountBounds needs who is where in clients_ (Registered): a socket       *)
(* number is used again only after its connection has gone, so the entry   *)
(* of a client whose connection has not left is its own.  The lower bound  *)
(* is kept by counting those too that have left and still have an entry.   *)
(* WireRight needs the same order of the packets underway: on the wire,    *)
(* then in the queue, then in the hands of a media thread (InFlight).      *)
(***************************************************************************)
EXTENDS RtspSession, SequenceTheorems, FiniteSetTheorems, TLAPS

Removal     == [op : {"remove"}, conn : Conns]
PacketEvent == [op : {"packet"}, conn : Conns, pkt : Packet, open : BOOLEAN]
Event       == Removal \cup PacketEvent
Sent        == [chn : Channels, seq : 0 .. SeqMod - 1, session : Sessions, n : Nat, queued : BOOLEAN]

Sends   == [op : {"send"}, todo : (SUBSET Conns) \ {{}}, pkt : Packet]
Posts   == {p \in [op : {"post"}, todo : (SUBSET Conns) \ {{}}, pkt : Packet, conn : Conns] :
              p.conn \in p.todo}
Steps   == [op : {"add", "leave"}, conn : Conns, session : Sessions]

\* TypeOK, with the sequences and the records in full.
Typed ==
  /\ sessions \subseteq Sessions
  /\ clients \in [Sessions -> [Fds -> Conns \cup {"none"}]]
  /\ count \in [Sessions -> Int] /\ joined \in [Sessions -> SUBSET Conns]
  /\ pushing \in [Sessions -> {Idle} \cup Sends \cup Posts] /\ pushed \in Nat
  /\ life \in [Conns -> {"new", "open", "closed", "removed"}] /\ fd \in [Conns -> Fds]
  /\ nonce \in [Conns -> BOOLEAN] /\ hasAuth \in [Conns -> BOOLEAN]
  /\ rtp \in [Conns -> BOOLEAN] /\ sessionId \in [Conns -> Sessions \cup {"none"}]
  /\ mode \in [Conns -> Modes \cup {"none"}]
  /\ isSetup \in [Conns -> SUBSET Channels] /\ isPlay \in [Conns -> SUBSET Channels]
  /\ keyed \in [Conns -> BOOLEAN] /\ tornDown \in [Conns -> BOOLEAN]
  /\ seq \in [Conns -> [Channels -> 0 .. SeqMod - 1]]
  /\ timerId \in [Conns -> BOOLEAN] /\ timers \in [Conns -> Nat]
  /\ queue \in Seq(Event) /\ Len(queue) <= MaxTriggerEvents
  /\ late \subseteq Conns /\ phase \in {"triggers", "timers", "events"}
  /\ step \in {Idle} \cup Steps
  /\ wire \in [Conns -> Seq(Sent)]

InUse(c) == life[c] \in {"open", "closed"}   \* it has its socket
Gone(c)  == life[c] \in {"closed", "removed"}

\* What the scheduler is in the middle of: a DESCRIBE of a connection that is
\* open, or the closing of one.
InHandler ==
  /\ step.op = "add" =>
       /\ phase = "events" /\ life[step.conn] = "open"
       /\ rtp[step.conn] /\ sessionId[step.conn] = step.session
  /\ step.op = "leave" =>
       /\ phase # "timers" /\ life[step.conn] = "closed"
       /\ sessionId[step.conn] = step.session

\* An RtpConnection is made by a DESCRIBE that was allowed, and who is in a
\* session has one.
Described ==
  /\ \A c \in Conns : rtp[c] => hasAuth[c] /\ life[c] # "new"
  /\ \A c \in Conns : sessionId[c] # "none" => rtp[c]
  /\ \A s \in Sessions : \A c \in joined[s] : rtp[c]

\* The entries of clients_.
Registered ==
  /\ \A c, d \in Conns : InUse(c) /\ InUse(d) /\ fd[c] = fd[d] => c = d
  /\ \A s \in Sessions, f \in Fds :
       clients[s][f] # "none" => clients[s][f] \in joined[s] /\ fd[clients[s][f]] = f
  /\ \A s \in Sessions : \A c \in joined[s] : ~Left(c) => clients[s][fd[c]] = c

\* A packet posted while the connection was open.
OpenPacket(e, c) == e \in PacketEvent /\ e.conn = c /\ e.open

\* The removals, those in the queue and the late ones, come after the packets.
EventsInOrder ==
  /\ \A i \in DOMAIN queue : queue[i] \in Removal => Gone(queue[i].conn)
  /\ \A i \in DOMAIN queue, c \in Conns : OpenPacket(queue[i], c) => InUse(c)
  /\ \A i, j \in DOMAIN queue :
       i < j /\ queue[i] \in Removal => ~OpenPacket(queue[j], queue[i].conn)
  /\ \A c \in late : Gone(c)
  /\ phase = "timers" => \A c \in late, i \in DOMAIN queue : ~OpenPacket(queue[i], c)

OneTimer == \A c \in Conns : timers[c] <= (IF timerId[c] THEN 1 ELSE 0)

\* Whom the count of s must include, and whom it may.
Present(s)  == {c \in joined[s] : ~Left(c) \/ clients[s][fd[c]] = c}
Strayers(s) == {c \in joined[s] : ~Left(c) \/ sessionId[c] # s}

Counted ==
  \A s \in sessions : Cardinality(Present(s)) <= count[s] /\ count[s] <= Cardinality(Strayers(s))

\* Of the same session, p was pushed before q.
Precedes(p, q) == p.session = q.session => p.n < q.n

\* The media thread of s has a packet for c.
Has(s, c) == pushing[s].op # "idle" /\ c \in pushing[s].todo

\* The packets underway to a client are of its sessions, and numbered in the
\* order of their going: those in the hands of a media thread,
InHands ==
  \A s \in Sessions : pushing[s].op # "idle" =>
    pushing[s].todo \subseteq joined[s] /\ pushing[s].pkt.session = s /\ pushing[s].pkt.n <= pushed

\* those in the queue,
InQueue ==
  \A i \in DOMAIN queue : queue[i] \in PacketEvent =>
    LET c == queue[i].conn
        p == queue[i].pkt
    IN /\ c \in joined[p.session] /\ p.n <= pushed
       /\ \A j \in DOMAIN queue :
            (i < j /\ queue[j] \in PacketEvent /\ queue[j].conn = c) => Precedes(p, queue[j].pkt)
       /\ \A s \in Sessions : Has(s, c) => Precedes(p, pushing[s].pkt)

\* and those on the wire.
OnWire ==
  \A c \in Conns : \A i \in DOMAIN wire[c] :
    LET p == wire[c][i]
    IN /\ c \in joined[p.session] /\ p.n <= pushed
       /\ \A j \in DOMAIN wire[c] : i < j => Precedes(p, wire[c][j])
       /\ \A j \in DOMAIN queue :
            (queue[j] \in PacketEvent /\ queue[j].conn = c) => Precedes(p, queue[j].pkt)
       /\ \A s \in Sessions : Has(s, c) => Precedes(p, pushing[s].pkt)

InFlight == InHands /\ InQueue /\ OnWire

IInv == /\ Typed /\ InHandler /\ Described /\ Registered /\ EventsInOrder /\ OneTimer
        /\ Counted /\ InFlight /\ WireGapless

-----------------------------------------------------------------------------
(* The initial state, and the types.                                       *)

\* The invariant holds at the start.
LEMMA InitIInv == Init => IInv
<1> SUFFICES ASSUME Init PROVE IInv
  OBVIOUS
<1> USE RtspAssumption
<1>1. Typed
  BY DEF Init, Typed, Idle
<1>2. InHandler /\ Described /\ Registered /\ OneTimer
  BY DEF Init, InHandler, Described, Registered, OneTimer, Idle, InUse
<1>3. EventsInOrder /\ InFlight /\ WireGapless
  BY DEF Init, EventsInOrder, InFlight, InHands, InQueue, OnWire, WireGapless, NoGap, Idle
<1>4. Counted
  <2>1. ASSUME NEW s \in sessions PROVE Present(s) = {} /\ Strayers(s) = {} /\ count[s] = 0
    BY DEF Init, Present, Strayers
  <2> QED BY <2>1, FS_EmptySet DEF Counted
<1> QED BY <1>1, <1>2, <1>3, <1>4 DEF IInv

\* Posting an event appends it, or loses it.
LEMMA PostEvent ==
  ASSUME Typed, NEW e \in Event
  PROVE  /\ Post(e) \in Seq(Event) /\ Len(Post(e)) <= MaxTriggerEvents
         /\ \/ Post(e) = queue
            \/ /\ DOMAIN Post(e) = DOMAIN queue \cup {Len(queue) + 1}
               /\ \A i \in DOMAIN queue : Post(e)[i] = queue[i] /\ i < Len(queue) + 1
               /\ Post(e)[Len(queue) + 1] = e
<1>1. queue \in Seq(Event) /\ Len(queue) \in Nat /\ DOMAIN queue = 1 .. Len(queue)
  BY LenProperties DEF Typed
<1>2. CASE Len(queue) < MaxTriggerEvents
  <2> DEFINE r == Append(queue, e)
  <2>1. Post(e) = r
    BY <1>2 DEF Post
  <2>2. r \in Seq(Event) /\ Len(r) = Len(queue) + 1
    BY <1>1, AppendProperties
  <2>3. \A i \in 1 .. Len(queue) : r[i] = queue[i]
    BY <1>1, AppendProperties
  <2>4. r[Len(queue) + 1] = e
    BY <1>1, AppendProperties
  <2> HIDE DEF r
  <2>5. DOMAIN r = 1 .. Len(queue) + 1
    BY <2>2, LenProperties
  <2>6. DOMAIN r = DOMAIN queue \cup {Len(queue) + 1}
    BY <1>1, <2>5
  <2>7. Len(r) <= MaxTriggerEvents
    BY <1>1, <1>2, <2>2, RtspAssumption
  <2>8. \A i \in DOMAIN queue : r[i] = queue[i] /\ i < Len(queue) + 1
    BY <1>1, <2>3
  <2> QED BY <2>1, <2>2, <2>4, <2>6, <2>7, <2>8
<1>3. CASE ~(Len(queue) < MaxTriggerEvents)
  BY <1>1, <1>3 DEF Post, Typed
<1> HIDE DEF Post
<1> QED BY <1>2, <1>3

\* Taking the first event leaves the others, in their order.
LEMMA TakeEvent ==
  ASSUME Typed, queue # <<>>
  PROVE  /\ Head(queue) = queue[1] /\ 1 \in DOMAIN queue /\ Head(queue) \in Event
         /\ Tail(queue) \in Seq(Event) /\ Len(Tail(queue)) <= MaxTriggerEvents
         /\ \A i \in DOMAIN Tail(queue) :
              i + 1 \in DOMAIN queue /\ 1 < i + 1 /\ Tail(queue)[i] = queue[i + 1]
<1>1. queue \in Seq(Event) /\ Len(queue) \in Nat \ {0} /\ DOMAIN queue = 1 .. Len(queue)
  BY LenProperties, EmptySeq DEF Typed
<1>2. Head(queue) = queue[1] /\ Head(queue) \in Event
  BY <1>1, HeadTailProperties, ElementOfSeq
<1>3. /\ Tail(queue) \in Seq(Event) /\ Len(Tail(queue)) = Len(queue) - 1
      /\ \A i \in 1 .. Len(queue) - 1 : Tail(queue)[i] = queue[i + 1]
  BY <1>1, HeadTailProperties
<1>4. DOMAIN Tail(queue) = 1 .. Len(queue) - 1
  BY <1>3, LenProperties
<1>5. Len(queue) <= MaxTriggerEvents /\ MaxTriggerEvents \in Nat
  BY RtspAssumption DEF Typed
<1> QED BY <1>1, <1>2, <1>3, <1>4, <1>5

-----------------------------------------------------------------------------
(* The types.                                                              *)

\* A media thread is done with one of its clients.
LEMMA DoneTyped ==
  ASSUME NEW p \in Sends \cup Posts, NEW c \in p.todo
  PROVE  /\ Done(p, c) \in {Idle} \cup Sends
         /\ Done(p, c).op # "idle" => Done(p, c).todo \subseteq p.todo \ {c} /\ Done(p, c).pkt = p.pkt
BY DEF Done, Sends, Posts, Idle

\* Where a media thread is.
LEMMA PushingTyped ==
  ASSUME Typed, NEW s \in Sessions
  PROVE  /\ pushing[s].op = "idle" => pushing[s] = Idle
         /\ pushing[s].op = "send" => pushing[s] \in Sends
         /\ pushing[s].op = "post" => pushing[s] \in Posts /\ pushing[s].conn \in pushing[s].todo
         /\ pushing[s].op \in {"idle", "send", "post"}
BY DEF Typed, Sends, Posts, Idle

\* What the scheduler is in the middle of.
LEMMA StepTyped ==
  ASSUME Typed
  PROVE  /\ step.op \in {"idle", "add", "leave"}
         /\ step.op # "idle" => step.conn \in Conns /\ step.session \in Sessions
         /\ step.op = "idle" => step = Idle
BY DEF Typed, Steps, Idle

\* The event that comes next.
LEMMA EventTyped ==
  ASSUME Typed, NEW e \in Event
  PROVE  /\ e.op = "remove" => e \in Removal
         /\ e.op = "packet" => e \in PacketEvent /\ e.pkt \in Packet
         /\ e.conn \in Conns
BY DEF Event, Removal, PacketEvent

\* What starts or stops the RTCP timer.
LEMMA TimerTyped ==
  ASSUME Typed, NEW c \in Conns, StartRtcpTimer(c) \/ TeardownRtp(c)
  PROVE  timerId' \in [Conns -> BOOLEAN] /\ timers' \in [Conns -> Nat]
<1>1. timers[c] \in Nat /\ timers \in [Conns -> Nat] /\ timerId \in [Conns -> BOOLEAN]
  BY DEF Typed
<1>2. CASE StartRtcpTimer(c)
  <2>1. \E n \in Nat : timers' = [timers EXCEPT ![c] = n]
    <3> DEFINE n == IF timerId[c] THEN timers[c] ELSE timers[c] + 1
    <3>1. n \in Nat
      BY <1>1
    <3>2. timers' = [timers EXCEPT ![c] = n]
      BY <1>2 DEF StartRtcpTimer
    <3> QED BY <3>1, <3>2
  <2> QED BY <1>1, <1>2, <2>1 DEF StartRtcpTimer
<1>3. CASE TeardownRtp(c)
  <2>1. timers' = timers \/ \E n \in Nat : timers' = [timers EXCEPT ![c] = n]
    <3> DEFINE n == IF timerId[c] /\ timers[c] > 0 THEN timers[c] - 1 ELSE timers[c]
    <3>1. n \in Nat
      BY <1>1
    <3>2. timers' = timers \/ timers' = [timers EXCEPT ![c] = n]
      BY <1>3 DEF TeardownRtp
    <3> QED BY <3>1, <3>2
  <2> QED BY <1>1, <1>3, <2>1 DEF TeardownRtp
<1> QED BY <1>2, <1>3

\* The types, after a request or the closing of a connection,
LEMMA TypedAfterRequest ==
  ASSUME Typed, NEW c \in Conns, Request(c)
  PROVE  Typed'
<1> USE DEF server, media, rtsp, rtpc, loop, Free
<1>1. CASE Connect(c)
  BY <1>1 DEF Connect, Typed
<1>2. CASE Unauthorized(c)
  BY <1>2 DEF Unauthorized, Typed
<1>3. ASSUME NEW s \in Sessions, Describe(c, s) PROVE Typed'
  <2>1. step' \in {Idle} \cup Steps
    BY <1>3 DEF Describe, Typed, Steps
  <2> QED BY <1>3, <2>1 DEF Describe, Authenticated, Typed
<1>4. ASSUME NEW h \in Channels, NEW m \in Modes, Setup(c, h, m) PROVE Typed'
  <2>1. mode' \in [Conns -> Modes \cup {"none"}] /\ isSetup' \in [Conns -> SUBSET Channels]
    <3>1. CASE UNCHANGED <<isSetup, mode>>
      BY <3>1 DEF Typed
    <3>2. CASE SetupRtp(c, h, "tcp") /\ m = "tcp"
      BY <3>2 DEF SetupRtp, Typed
    <3>3. CASE SetupRtp(c, h, "udp") /\ m # "tcp"
      <4>1. m = "udp"
        BY <3>3, RtspAssumption
      <4> QED BY <3>3, <4>1 DEF SetupRtp, Typed
    <3> QED BY <1>4, <3>1, <3>2, <3>3 DEF Setup, SetupRtpOverUdp
  <2> QED BY <1>4, <2>1 DEF Setup, Authenticated, Typed
<1>5. CASE Play(c)
  <2>1. timerId' \in [Conns -> BOOLEAN] /\ timers' \in [Conns -> Nat]
    BY <1>5, TimerTyped DEF Play, PlayRtp, Typed
  <2>2. isPlay' \in [Conns -> SUBSET Channels]
    <3>1. isPlay' = isPlay \/ isPlay' = [isPlay EXCEPT ![c] = isSetup[c]]
      BY <1>5 DEF Play, PlayRtp
    <3>2. isSetup[c] \in SUBSET Channels
      BY DEF Typed
    <3> QED BY <3>1, <3>2 DEF Typed
  <2>3. hasAuth' \in [Conns -> BOOLEAN] /\ nonce' \in [Conns -> BOOLEAN]
    BY <1>5 DEF Play, Authenticated, Typed
  <2> QED BY <1>5, <2>1, <2>2, <2>3 DEF Play, Typed
<1>6. CASE Teardown(c)
  <2>1. timerId' \in [Conns -> BOOLEAN] /\ timers' \in [Conns -> Nat]
    BY <1>6, TimerTyped DEF Teardown
  <2>2. isPlay' \in [Conns -> SUBSET Channels] /\ tornDown' \in [Conns -> BOOLEAN]
    BY <1>6 DEF Teardown, TeardownRtp, Typed
  <2> QED BY <1>6, <2>1, <2>2 DEF Teardown, Typed
<1>7. CASE Close(c)
  <2>1. step' \in {Idle} \cup Steps
    BY <1>7 DEF Close, Typed, Steps
  <2>2. [op |-> "remove", conn |-> c] \in Event
    BY DEF Event, Removal
  <2>3. queue' \in Seq(Event) /\ Len(queue') <= MaxTriggerEvents /\ late' \subseteq Conns
    BY <1>7, <2>2, PostEvent DEF Close, PostRemoval, Typed
  <2> QED BY <1>7, <2>1, <2>3 DEF Close, Typed
<1> QED BY <1>1, <1>2, <1>3, <1>4, <1>5, <1>6, <1>7 DEF Request

\* after a step of the scheduler,
LEMMA TypedAfterScheduler ==
  ASSUME Typed, Scheduler
  PROVE  Typed'
<1> USE DEF server, media, rtsp, rtpc, loop, Free
<1>1. ASSUME NEW c \in Conns, Request(c) PROVE Typed'
  BY <1>1, TypedAfterRequest
<1>2. ASSUME NEW c \in Conns, RemoveLate(c) PROVE Typed'
  BY <1>2 DEF RemoveLate, Forget, Typed
<1>3. ASSUME NEW c \in Conns, RtcpTimer(c) PROVE Typed'
  BY <1>3 DEF RtcpTimer, Typed
<1>4. CASE AddClient
  <2>1. step.conn \in Conns /\ step.session \in Sessions
    BY <1>4, StepTyped DEF AddClient
  <2> DEFINE c == step.conn
             s == step.session
  <2>2. CASE UNCHANGED <<clients, count, joined>>
    BY <1>4, <2>2 DEF AddClient, Typed
  <2>3. CASE /\ clients' = [clients EXCEPT ![s][fd[c]] = c]
             /\ count' = [count EXCEPT ![s] = count[s] + 1]
             /\ joined' = [joined EXCEPT ![s] = joined[s] \cup {c}]
    <3> HIDE DEF c, s
    <3>1. c \in Conns /\ s \in Sessions
      BY <2>1 DEF c, s
    <3>2. clients' \in [Sessions -> [Fds -> Conns \cup {"none"}]]
      BY <2>3, <3>1 DEF Typed
    <3>3. count' \in [Sessions -> Int]
      BY <2>3, <3>1 DEF Typed
    <3>4. joined' \in [Sessions -> SUBSET Conns]
      BY <2>3, <3>1 DEF Typed
    <3> QED BY <1>4, <3>2, <3>3, <3>4 DEF AddClient, Typed
  <2> QED BY <1>4, <2>2, <2>3 DEF AddClient
<1>5. CASE RemoveClient
  <2>1. [op |-> "remove", conn |-> step.conn] \in Event
    BY <1>5, StepTyped DEF Event, Removal, RemoveClient
  <2>2. queue' \in Seq(Event) /\ Len(queue') <= MaxTriggerEvents /\ late' \subseteq Conns
    BY <1>5, <2>1, PostEvent, StepTyped DEF RemoveClient, PostRemoval, Typed
  <2> QED BY <1>5, <2>2, StepTyped DEF RemoveClient, Typed
<1>6. CASE RemoveConnection
  BY <1>6, TakeEvent, EventTyped DEF RemoveConnection, Forget, Typed
<1>7. CASE RunPacket
  <2> DEFINE e == Head(queue)
  <2>1. e \in PacketEvent /\ e.pkt \in Packet /\ e.conn \in Conns
    BY <1>7, TakeEvent, EventTyped DEF RunPacket
  <2>2. queue' \in Seq(Event) /\ Len(queue') <= MaxTriggerEvents
    BY <1>7, TakeEvent DEF RunPacket
  <2>3. seq' \in [Conns -> [Channels -> 0 .. SeqMod - 1]]
    <3>1. CASE seq' = seq
      BY <3>1 DEF Typed
    <3>2. CASE NextSeq(e.conn, e.pkt.chn)
      <4> HIDE DEF e
      <4> DEFINE c == e.conn
                 h == e.pkt.chn
      <4>0. c \in Conns /\ h \in Channels
        BY <2>1 DEF Packet
      <4>1. (seq[c][h] + 1) % SeqMod \in 0 .. SeqMod - 1
        <5>1. SeqMod \in Nat \ {0} /\ seq[c][h] \in 0 .. SeqMod - 1
          BY <4>0, RtspAssumption DEF Typed
        <5> HIDE DEF c, h
        <5> QED BY <5>1
      <4>2. seq' = [seq EXCEPT ![c][h] = (seq[c][h] + 1) % SeqMod]
        BY <3>2, <4>0 DEF NextSeq, Typed
      <4> HIDE DEF c, h
      <4> QED BY <4>0, <4>1, <4>2 DEF Typed
    <3> QED BY <1>7, <3>1, <3>2 DEF RunPacket, SkipPacket, SendPacket, SendFails
  <2>4. wire' \in [Conns -> Seq(Sent)]
    <3>1. CASE wire' = wire
      BY <3>1 DEF Typed
    <3>2. CASE SendPacket(e) /\ Sending(e.conn)
      <4>0. PICK queued \in Queued(e.conn) :
              wire' = [wire EXCEPT ![e.conn] = Append(wire[e.conn],
                [chn |-> e.pkt.chn, seq |-> seq[e.conn][e.pkt.chn],
                 session |-> e.pkt.session, n |-> e.pkt.n, queued |-> queued])]
        BY <3>2 DEF SendPacket
      <4> DEFINE x == [chn |-> e.pkt.chn, seq |-> seq[e.conn][e.pkt.chn],
                       session |-> e.pkt.session, n |-> e.pkt.n, queued |-> queued]
      <4>b. queued \in BOOLEAN
        BY DEF Queued
      <4>1. x \in Sent
        BY <2>1, <4>b DEF Sent, Packet, Typed
      <4>2. wire[e.conn] \in Seq(Sent)
        BY <2>1 DEF Typed
      <4>3. Append(wire[e.conn], x) \in Seq(Sent)
        BY <4>1, <4>2, AppendProperties
      <4>4. wire' = [wire EXCEPT ![e.conn] = Append(wire[e.conn], x)]
        BY <4>0
      <4> HIDE DEF x
      <4> QED BY <2>1, <4>3, <4>4 DEF Typed
    <3> QED BY <1>7, <3>1, <3>2 DEF RunPacket, SkipPacket, SendPacket, SendFails
  <2>5. keyed' \in [Conns -> BOOLEAN]
    BY <1>7, <2>1 DEF RunPacket, Typed
  <2>6. /\ tornDown' \in [Conns -> BOOLEAN] /\ isPlay' \in [Conns -> SUBSET Channels]
        /\ timerId' \in [Conns -> BOOLEAN] /\ timers' \in [Conns -> Nat]
    <3>1. CASE UNCHANGED <<tornDown, isPlay, timerId, timers>>
      BY <3>1 DEF Typed
    <3>2. CASE TeardownRtp(e.conn)
      <4>1. timerId' \in [Conns -> BOOLEAN] /\ timers' \in [Conns -> Nat]
        BY <3>2, <2>1, TimerTyped
      <4>2. isPlay' \in [Conns -> SUBSET Channels] /\ tornDown' \in [Conns -> BOOLEAN]
        BY <3>2 DEF TeardownRtp, Typed
      <4> QED BY <4>1, <4>2
    <3> QED BY <1>7, <3>1, <3>2 DEF RunPacket, SendFails
  <2> QED BY <1>7, <2>2, <2>3, <2>4, <2>5, <2>6 DEF RunPacket, Typed
<1>8. CASE NextPhase
  BY <1>8 DEF NextPhase, Typed
<1> QED BY <1>1, <1>2, <1>3, <1>4, <1>5, <1>6, <1>7, <1>8 DEF Scheduler

\* and after any step.
LEMMA TypedInductive == Typed /\ [Next]_vars => Typed'
<1> SUFFICES ASSUME Typed, [Next]_vars PROVE Typed'
  OBVIOUS
<1> USE DEF server, media, rtsp, rtpc, loop
<1>1. CASE Scheduler
  BY <1>1, TypedAfterScheduler
<1>2. ASSUME NEW s \in Sessions, MediaThread(s) PROVE Typed'
  <2>1. ASSUME NEW h \in Channels, NEW k \in Kinds, PushFrame(s, h, k) PROVE Typed'
    <3>1. pushing' \in [Sessions -> {Idle} \cup Sends \cup Posts]
      <4> DEFINE todo == {c \in Conns : RtpAlive(c) /\ Alive(c) /\ \E f \in Fds : clients[s][f] = c}
                 pkt  == [chn |-> h, kind |-> k, session |-> s, n |-> pushed + 1]
                 new  == [op |-> "send", todo |-> todo, pkt |-> pkt]
      <4>1. pkt \in Packet
        BY DEF Packet, Typed
      <4>2. todo \subseteq Conns
        OBVIOUS
      <4>3. pushing' = [pushing EXCEPT ![s] = IF todo = {} THEN Idle ELSE new]
        BY <2>1 DEF PushFrame
      <4> HIDE DEF todo, pkt
      <4>4. ASSUME todo # {} PROVE new \in Sends
        <5>1. todo \in (SUBSET Conns) \ {{}}
          BY <4>2, <4>4
        <5> QED BY <4>1, <5>1 DEF Sends
      <4> QED BY <4>3, <4>4 DEF Typed
    <3>2. clients' \in [Sessions -> [Fds -> Conns \cup {"none"}]]
      BY <2>1 DEF PushFrame, Typed
    <3> QED BY <2>1, <3>1, <3>2 DEF PushFrame, Typed
  <2>2. ASSUME NEW c \in Conns, SendRtpPacket(s, c) PROVE Typed'
    <3>1. pushing' \in [Sessions -> {Idle} \cup Sends \cup Posts]
      <4>1. pushing[s] \in Sends /\ c \in pushing[s].todo
        BY <2>2, PushingTyped DEF SendRtpPacket
      <4>2. [op |-> "post", pkt |-> pushing[s].pkt, todo |-> pushing[s].todo, conn |-> c] \in Posts
        BY <4>1 DEF Sends, Posts
      <4> QED BY <2>2, <4>1, <4>2, DoneTyped DEF SendRtpPacket, Typed
    <3> QED BY <2>2, <3>1 DEF SendRtpPacket, Typed
  <2>3. CASE PostPacket(s)
    <3>1. pushing[s] \in Posts /\ pushing[s].conn \in pushing[s].todo
      BY <2>3, PushingTyped DEF PostPacket
    <3>2. [op |-> "packet", conn |-> pushing[s].conn, pkt |-> pushing[s].pkt,
           open |-> life[pushing[s].conn] = "open"] \in Event
      BY <3>1 DEF Posts, Event, PacketEvent
    <3> QED BY <2>3, <3>1, <3>2, DoneTyped, PostEvent DEF PostPacket, Typed
  <2> QED BY <1>2, <2>1, <2>2, <2>3 DEF MediaThread
<1>3. ASSUME NEW s \in Sessions, RemoveSession(s) PROVE Typed'
  BY <1>3 DEF RemoveSession, Typed
<1>4. CASE UNCHANGED vars
  BY <1>4 DEF vars, Typed
<1> QED BY <1>1, <1>2, <1>3, <1>4 DEF Next

\* TypeOK is what these types say, less the records.
LEMMA TypedTypeOK == Typed /\ Described => TypeOK
<1> SUFFICES ASSUME Typed, Described PROVE TypeOK
  OBVIOUS
<1>1. \A s \in Sessions :
       \/ pushing[s].op = "idle"
       \/ /\ pushing[s].op \in {"send", "post"}
          /\ pushing[s].pkt \in Packet /\ pushing[s].todo \in (SUBSET Conns) \ {{}}
          /\ pushing[s].op = "post" => pushing[s].conn \in pushing[s].todo
  BY PushingTyped DEF Sends, Posts
<1>2. \A i \in 1 .. Len(queue) :
       /\ queue[i].op \in {"packet", "remove"} /\ queue[i].conn \in Conns
       /\ queue[i].op = "packet" => queue[i].pkt \in Packet /\ queue[i].open \in BOOLEAN
  <2>1. \A i \in 1 .. Len(queue) : queue[i] \in Event
    BY ElementOfSeq DEF Typed
  <2> QED BY <2>1 DEF Event, Removal, PacketEvent
<1>3. \/ step = Idle
      \/ step.op \in {"add", "leave"} /\ step.conn \in Conns /\ step.session \in Sessions
  BY StepTyped
<1>4. /\ {nonce, hasAuth, rtp, keyed, tornDown, timerId} \subseteq [Conns -> BOOLEAN]
      /\ {isSetup, isPlay} \subseteq [Conns -> SUBSET Channels]
  BY DEF Typed
<1> QED BY <1>1, <1>2, <1>3, <1>4 DEF TypeOK, Typed, Described

-----------------------------------------------------------------------------
(* The connections and the handlers of the scheduler.                      *)

\* What the media threads, and who removes a session, leave alone.
LEMMA MediaFrame ==
  ASSUME NEW s \in Sessions, MediaThread(s) \/ RemoveSession(s)
  PROVE  /\ UNCHANGED <<rtsp, rtpc, count, joined, late, phase, step, wire>>
         /\ sessions' \subseteq sessions
BY DEF MediaThread, RemoveSession, PushFrame, SendRtpPacket, PostPacket, server, media, rtsp, rtpc, loop

\* The requests that begin no other step.
Quiet(c) ==
  \/ Unauthorized(c) \/ Play(c) \/ Teardown(c)
  \/ \E h \in Channels, m \in Modes : Setup(c, h, m)

\* They leave the connection open, and its RtpConnection as it is.
LEMMA QuietFrame ==
  ASSUME Typed, NEW c \in Conns, Quiet(c)
  PROVE  /\ UNCHANGED <<server, media, life, fd, rtp, sessionId, loop, wire>>
         /\ life[c] = "open" /\ step.op = "idle"
         /\ \A d \in Conns : hasAuth[d] => hasAuth'[d]
BY DEF Quiet, Unauthorized, Play, Teardown, Setup, Authenticated, Free, Typed, rtsp, loop

\* AddClient gives the client the entry of its socket, if it is free.
LEMMA AddClientEffect ==
  ASSUME Typed, AddClient
  PROVE  /\ step.conn \in Conns /\ step.session \in Sessions
         /\ \A t \in Sessions : joined[t] \subseteq joined'[t] /\ joined'[t] \subseteq joined[t] \cup {step.conn}
         /\ \/ UNCHANGED <<clients, count, joined>>
            \/ /\ clients[step.session][fd[step.conn]] = "none"
               /\ \A t \in Sessions, f \in Fds :
                    clients'[t][f] = IF t = step.session /\ f = fd[step.conn] THEN step.conn ELSE clients[t][f]
               /\ \A t \in Sessions :
                    /\ count'[t] = IF t = step.session THEN count[t] + 1 ELSE count[t]
                    /\ joined'[t] = IF t = step.session THEN joined[t] \cup {step.conn} ELSE joined[t]
<1> DEFINE c == step.conn
           s == step.session
<1>1. c \in Conns /\ s \in Sessions
  BY StepTyped DEF AddClient
<1>2. CASE UNCHANGED <<clients, count, joined>>
  BY <1>1, <1>2
<1>3. CASE /\ clients[s][fd[c]] = "none"
           /\ clients' = [clients EXCEPT ![s][fd[c]] = c]
           /\ count' = [count EXCEPT ![s] = count[s] + 1]
           /\ joined' = [joined EXCEPT ![s] = joined[s] \cup {c}]
  <2> HIDE DEF c, s
  <2>1. \A t \in Sessions, f \in Fds :
          clients'[t][f] = IF t = s /\ f = fd[c] THEN c ELSE clients[t][f]
    BY <1>1, <1>3 DEF Typed
  <2>2. \A t \in Sessions :
          /\ count'[t] = IF t = s THEN count[t] + 1 ELSE count[t]
          /\ joined'[t] = IF t = s THEN joined[t] \cup {c} ELSE joined[t]
    BY <1>1, <1>3 DEF Typed
  <2> QED BY <1>1, <1>3, <2>1, <2>2 DEF c, s
<1> QED BY <1>2, <1>3 DEF AddClient

\* Who handles a request keeps its connection as it found it.
LEMMA InHandlerInductive ==
  ASSUME Typed, Described, InHandler, [Next]_vars
  PROVE  InHandler'
<1> USE DEF server, media, rtsp, rtpc, loop, Free, Idle
<1>1. ASSUME NEW c \in Conns, Request(c) PROVE InHandler'
  <2>1. CASE Quiet(c)
    BY <2>1, QuietFrame DEF InHandler
  <2>2. CASE Connect(c)
    BY <2>2 DEF Connect, InHandler
  <2>3. ASSUME NEW s \in Sessions, Describe(c, s) PROVE InHandler'
    BY <2>3 DEF Describe, Authenticated, InHandler, Typed
  <2>4. CASE Close(c)
    BY <2>4 DEF Close, InHandler, Typed
  <2> QED BY <1>1, <2>1, <2>2, <2>3, <2>4 DEF Request, Quiet
<1>2. ASSUME NEW c \in Conns, RemoveLate(c) \/ RtcpTimer(c) PROVE InHandler'
  BY <1>2 DEF RemoveLate, RtcpTimer, InHandler
<1>3. CASE AddClient \/ RemoveClient
  BY <1>3 DEF AddClient, RemoveClient, InHandler
<1>4. CASE RemoveConnection \/ RunPacket \/ NextPhase
  BY <1>4 DEF RemoveConnection, RunPacket, NextPhase, InHandler
<1>5. ASSUME NEW s \in Sessions, MediaThread(s) \/ RemoveSession(s) PROVE InHandler'
  BY <1>5, MediaFrame DEF InHandler
<1>6. CASE UNCHANGED vars
  BY <1>6 DEF vars, InHandler
<1> QED BY <1>1, <1>2, <1>3, <1>4, <1>5, <1>6 DEF Next, Scheduler

\* Only an allowed DESCRIBE makes an RtpConnection, and a client.
LEMMA DescribedInductive ==
  ASSUME Typed, Described, InHandler, EventsInOrder, [Next]_vars
  PROVE  Described'
<1> USE DEF server, media, rtsp, rtpc, loop, Free
<1>1. ASSUME NEW c \in Conns, Request(c) PROVE Described'
  <2>1. CASE Quiet(c)
    BY <2>1, QuietFrame DEF Described, Typed
  <2>2. CASE Connect(c)
    BY <2>2 DEF Connect, Described, Typed
  <2>3. ASSUME NEW s \in Sessions, Describe(c, s) PROVE Described'
    BY <2>3 DEF Describe, Authenticated, Described, Typed
  <2>4. CASE Close(c)
    BY <2>4 DEF Close, Described, Typed
  <2> QED BY <1>1, <2>1, <2>2, <2>3, <2>4 DEF Request, Quiet
<1>2. ASSUME NEW c \in Conns, RemoveLate(c) \/ RtcpTimer(c) PROVE Described'
  BY <1>2 DEF RemoveLate, Forget, RtcpTimer, Described, Typed
<1>3. CASE AddClient
  <2>1. rtp[step.conn]
    BY <1>3 DEF AddClient, InHandler
  <2>2. \A s \in Sessions : joined'[s] \subseteq joined[s] \cup {step.conn}
    BY <1>3, AddClientEffect
  <2> QED BY <1>3, <2>1, <2>2 DEF AddClient, Described
<1>4. CASE RemoveClient
  BY <1>4 DEF RemoveClient, Described
<1>5. CASE RemoveConnection
  BY <1>5 DEF RemoveConnection, Forget, Described, Typed
<1>6. CASE RunPacket \/ NextPhase
  BY <1>6 DEF RunPacket, NextPhase, Described
<1>7. ASSUME NEW s \in Sessions, MediaThread(s) \/ RemoveSession(s) PROVE Described'
  BY <1>7, MediaFrame DEF Described
<1>8. CASE UNCHANGED vars
  BY <1>8 DEF vars, Described
<1> QED BY <1>1, <1>2, <1>3, <1>4, <1>5, <1>6, <1>7, <1>8 DEF Next, Scheduler

\* A timer is started only if none is known.
LEMMA OneTimerInductive ==
  ASSUME Typed, OneTimer, [Next]_vars
  PROVE  OneTimer'
<1> USE DEF server, media, rtsp, rtpc, loop
<1>3. ASSUME UNCHANGED <<timerId, timers>> PROVE OneTimer'
  BY <1>3 DEF OneTimer
<1>1. ASSUME NEW c \in Conns, StartRtcpTimer(c) PROVE OneTimer'
  BY <1>1 DEF StartRtcpTimer, OneTimer, Typed
<1>2. ASSUME NEW c \in Conns, TeardownRtp(c) PROVE OneTimer'
  <2>1. timers[c] \in Nat /\ timers[c] <= 1 /\ (timers[c] = 1 => timerId[c])
    BY DEF OneTimer, Typed
  <2>2. \A d \in Conns \ {c} : timers'[d] = timers[d] /\ timerId'[d] = timerId[d]
    BY <1>2 DEF TeardownRtp, Typed
  <2>3. CASE tornDown[c]
    BY <1>2, <1>3, <2>3 DEF TeardownRtp
  <2>4. CASE ~tornDown[c]
    <3>1. timerId'[c] = FALSE /\ timers'[c] = (IF timerId[c] /\ timers[c] > 0 THEN timers[c] - 1 ELSE timers[c])
      BY <1>2, <2>4 DEF TeardownRtp, Typed
    <3>2. timers'[c] = 0
      BY <2>1, <3>1
    <3> QED BY <2>2, <3>1, <3>2 DEF OneTimer
  <2> QED BY <2>3, <2>4
<1>4. ASSUME NEW c \in Conns, Request(c) PROVE OneTimer'
  BY <1>1, <1>2, <1>3, <1>4 DEF Request, Connect, Unauthorized, Describe, Setup, Play, PlayRtp,
                                Teardown, Close
<1>5. ASSUME NEW c \in Conns, RtcpTimer(c) PROVE OneTimer'
  BY <1>5 DEF RtcpTimer, OneTimer, Typed
<1>6. CASE RunPacket
  <2>1. Head(queue).conn \in Conns
    BY <1>6, TakeEvent, EventTyped DEF RunPacket
  <2> QED BY <1>2, <1>3, <1>6, <2>1 DEF RunPacket, SendFails
<1>7. ASSUME NEW c \in Conns, RemoveLate(c) PROVE OneTimer'
  BY <1>3, <1>7 DEF RemoveLate
<1>8. CASE AddClient \/ RemoveClient \/ RemoveConnection \/ NextPhase
  BY <1>3, <1>8 DEF AddClient, RemoveClient, RemoveConnection, NextPhase
<1>9. ASSUME NEW s \in Sessions, MediaThread(s) \/ RemoveSession(s) PROVE OneTimer'
  BY <1>3, <1>9, MediaFrame
<1>10. CASE UNCHANGED vars
  BY <1>3, <1>10 DEF vars
<1> QED BY <1>4, <1>5, <1>6, <1>7, <1>8, <1>9, <1>10 DEF Next, Scheduler

-----------------------------------------------------------------------------
(* The entries of clients_.                                                *)

\* RemoveClient clears the entry of its socket.
LEMMA RemoveClientEffect ==
  ASSUME Typed, InHandler, RemoveClient
  PROVE  /\ step.conn \in Conns /\ step.session \in Sessions /\ life[step.conn] = "closed"
         /\ sessionId[step.conn] = step.session
         /\ \A t \in Sessions, f \in Fds :
              clients'[t][f] = IF t = step.session /\ f = fd[step.conn] THEN "none" ELSE clients[t][f]
         /\ \A t \in Sessions : t # step.session => count'[t] = count[t]
         /\ LET d == clients[step.session][fd[step.conn]]
            IN count'[step.session] = IF d # "none" /\ RtpAlive(d) THEN count[step.session] - 1
                                      ELSE count[step.session]
         /\ step' = Idle /\ UNCHANGED <<sessions, joined, media, rtsp, rtpc, phase, wire>>
<1> DEFINE c == step.conn
           s == step.session
           d == clients[s][fd[c]]
<1>1. c \in Conns /\ s \in Sessions /\ life[c] = "closed" /\ sessionId[c] = s
  BY StepTyped DEF RemoveClient, InHandler
<1>2. /\ clients' = [clients EXCEPT ![s][fd[c]] = "none"]
      /\ count' = [count EXCEPT ![s] = IF d # "none" /\ RtpAlive(d) THEN count[s] - 1 ELSE count[s]]
  BY DEF RemoveClient
<1>3. step' = Idle /\ UNCHANGED <<sessions, joined, media, rtsp, rtpc, phase, wire>>
  BY DEF RemoveClient
<1> HIDE DEF c, s
<1>4. \A t \in Sessions, f \in Fds :
        clients'[t][f] = IF t = s /\ f = fd[c] THEN "none" ELSE clients[t][f]
  BY <1>1, <1>2 DEF Typed
<1>5. \A t \in Sessions : t # s => count'[t] = count[t]
  BY <1>1, <1>2 DEF Typed
<1>6. count'[s] = IF d # "none" /\ RtpAlive(d) THEN count[s] - 1 ELSE count[s]
  BY <1>1, <1>2 DEF Typed
<1> QED BY <1>1, <1>3, <1>4, <1>5, <1>6 DEF c, s

\* PushFrame drops the entries of the clients that have expired.
LEMMA PushFrameEffect ==
  ASSUME Typed, NEW s \in Sessions, NEW h \in Channels, NEW k \in Kinds, PushFrame(s, h, k)
  PROVE  /\ \A t \in Sessions, f \in Fds :
              clients'[t][f] = IF t = s /\ clients[s][f] # "none" /\ ~RtpAlive(clients[s][f])
                               THEN "none" ELSE clients[t][f]
         /\ UNCHANGED <<sessions, count, joined, rtsp, rtpc, loop, wire>>
BY DEF PushFrame, Typed

\* A client that has not left is open, or closing, and has its RtpConnection.
LEMMA StillClient ==
  ASSUME Typed, InHandler, Described, NEW s \in Sessions, NEW c \in joined[s], ~Left(c)
  PROVE  c \in Conns /\ InUse(c) /\ RtpAlive(c)
BY DEF Typed, InHandler, Described, Left, InUse, RtpAlive, Alive

\* A client keeps its entry until it has left.
LEMMA RegisteredInductive ==
  ASSUME Typed, InHandler, Described, Registered, EventsInOrder, [Next]_vars
  PROVE  Registered'
<1> USE DEF server, media, rtsp, rtpc, loop, Free
<1>0. ASSUME UNCHANGED <<clients, joined, life, fd, step>> PROVE Registered'
  BY <1>0 DEF Registered, InUse, Left
<1>1. ASSUME NEW c \in Conns, Request(c) PROVE Registered'
  <2>1. CASE Quiet(c)
    BY <1>0, <2>1, QuietFrame
  <2>2. CASE Connect(c)
    <3>1. PICK f \in Fds : /\ \A d \in Conns : Alive(d) => fd[d] # f
                           /\ fd' = [fd EXCEPT ![c] = f]
      BY <2>2 DEF Connect
    <3>2. \A s \in Sessions : c \notin joined[s]
      BY <2>2 DEF Connect, Described
    <3>3. UNCHANGED <<clients, joined, step>> /\ life' = [life EXCEPT ![c] = "open"]
      BY <2>2 DEF Connect
    <3>4. \A d \in Conns : d # c => fd'[d] = fd[d] /\ InUse(d)' = InUse(d) /\ Left(d)' = Left(d)
      BY <3>1, <3>3 DEF InUse, Left, Typed
    <3>5. \A d \in Conns : InUse(d) => fd[d] # f
      BY <3>1 DEF InUse, Alive
    <3>6. fd'[c] = f
      BY <3>1 DEF Typed
    <3>7. \A d, e \in Conns : InUse(d)' /\ InUse(e)' /\ fd'[d] = fd'[e] => d = e
      BY <3>4, <3>5, <3>6 DEF Registered
    <3>8. \A s \in Sessions : joined[s] \subseteq Conns \ {c}
      BY <3>2 DEF Typed
    <3> QED BY <3>3, <3>4, <3>7, <3>8 DEF Registered
  <2>3. ASSUME NEW s \in Sessions, Describe(c, s) PROVE Registered'
    <3>1. UNCHANGED <<clients, joined, life, fd>> /\ \A d \in Conns : Left(d)' = Left(d)
      BY <2>3 DEF Describe, Authenticated, Left
    <3> QED BY <3>1 DEF Registered, InUse, Typed
  <2>4. CASE Close(c)
    <3>1. UNCHANGED <<clients, joined, fd>>
      BY <2>4 DEF Close
    <3>2. \A d \in Conns : InUse(d)' = InUse(d) /\ (Left(d) => Left(d)')
      BY <2>4 DEF Close, InUse, Left, Typed
    <3> QED BY <3>1, <3>2 DEF Registered, Typed
  <2> QED BY <1>1, <2>1, <2>2, <2>3, <2>4 DEF Request, Quiet
<1>2. ASSUME NEW c \in Conns, Forget(c), Gone(c), UNCHANGED <<clients, joined, step>>
      PROVE  Registered'
  <2>1. \A d \in Conns : (InUse(d)' => InUse(d)) /\ Left(d)' = Left(d)
    BY <1>2 DEF Forget, Gone, InUse, Left, Typed
  <2> QED BY <1>2, <2>1 DEF Registered, Forget, Typed
<1>3. ASSUME NEW c \in Conns, RemoveLate(c) PROVE Registered'
  BY <1>2, <1>3 DEF RemoveLate, EventsInOrder
<1>4. CASE RemoveConnection
  <2>1. Head(queue).conn \in Conns /\ Gone(Head(queue).conn)
    BY <1>4, TakeEvent, EventTyped DEF RemoveConnection, EventsInOrder
  <2> QED BY <1>2, <1>4, <2>1 DEF RemoveConnection
<1>5. CASE AddClient
  <2> DEFINE c == step.conn
             s == step.session
  <2>1. c \in Conns /\ s \in Sessions /\ fd[c] \in Fds
    BY AddClientEffect, <1>5 DEF Typed
  <2>2. UNCHANGED <<life, fd>> /\ \A d \in Conns : Left(d)' = Left(d)
    BY <1>5 DEF AddClient, Left, Idle
  <2>3. CASE UNCHANGED <<clients, joined>>
    BY <2>2, <2>3 DEF Registered, InUse, Typed
  <2>4. CASE ~UNCHANGED <<clients, joined>>
    <3>1. /\ clients[s][fd[c]] = "none"
          /\ \A t \in Sessions, f \in Fds :
               clients'[t][f] = IF t = s /\ f = fd[c] THEN c ELSE clients[t][f]
          /\ \A t \in Sessions : joined'[t] = IF t = s THEN joined[t] \cup {c} ELSE joined[t]
      BY <1>5, <2>4, AddClientEffect
    <3> HIDE DEF c, s
    <3>j. \A t \in Sessions : \A d : d \in joined'[t] <=> d \in joined[t] \/ (t = s /\ d = c)
      BY ZenonT(30), <3>1
    <3>2. \A t \in Sessions, f \in Fds :
            clients'[t][f] # "none" => clients'[t][f] \in joined'[t] /\ fd[clients'[t][f]] = f
      BY <2>1, <3>1, <3>j DEF Registered
    <3>3. ASSUME NEW t \in Sessions, NEW d \in joined'[t], ~Left(d) PROVE clients'[t][fd[d]] = d
      <4>1. CASE d \in joined[t]
        <5>1. clients[t][fd[d]] = d /\ d \in Conns /\ fd[d] \in Fds /\ d # "none"
          BY <3>3, <4>1, RtspAssumption DEF Registered, Typed
        <5> QED BY <2>1, <3>1, <5>1
      <4>2. CASE d \notin joined[t]
        BY <2>1, <3>1, <3>j, <3>3, <4>2
      <4> QED BY <4>1, <4>2
    <3>4. \A t \in Sessions : joined'[t] \subseteq Conns
      BY <2>1, <3>j DEF Typed
    <3> QED BY <2>2, <3>2, <3>3, <3>4 DEF Registered, InUse
  <2> QED BY <2>3, <2>4
<1>6. CASE RemoveClient
  <2> DEFINE c == step.conn
             s == step.session
  <2>1. /\ c \in Conns /\ s \in Sessions /\ life[c] = "closed"
        /\ \A t \in Sessions, f \in Fds :
             clients'[t][f] = IF t = s /\ f = fd[c] THEN "none" ELSE clients[t][f]
        /\ step' = Idle /\ UNCHANGED <<joined, life, fd>>
    BY <1>6, RemoveClientEffect
  <2> HIDE DEF c, s
  <2>2. ASSUME NEW t \in Sessions, NEW d \in joined[t], ~Left(d)' PROVE clients'[t][fd[d]] = d
    <3>1. d \in Conns /\ life[d] \notin {"closed", "removed"} /\ ~Left(d)
      BY <2>1, <2>2 DEF Left, Idle, Typed
    <3>2. InUse(d) /\ InUse(c) /\ d # c /\ clients[t][fd[d]] = d /\ fd[d] \in Fds
      BY <2>1, <3>1, StillClient DEF InUse, Registered, Typed
    <3>3. fd[d] # fd[c]
      BY <2>1, <3>1, <3>2 DEF Registered
    <3> QED BY <2>1, <3>2, <3>3
  <2>3. \A t \in Sessions, f \in Fds :
          clients'[t][f] # "none" => clients'[t][f] \in joined'[t] /\ fd[clients'[t][f]] = f
    BY <2>1 DEF Registered
  <2> QED BY <2>1, <2>2, <2>3 DEF Registered, InUse
<1>7. ASSUME NEW s \in Sessions, MediaThread(s) PROVE Registered'
  <2>1. ASSUME NEW h \in Channels, NEW k \in Kinds, PushFrame(s, h, k) PROVE Registered'
    <3>1. /\ \A t \in Sessions, f \in Fds :
               clients'[t][f] = IF t = s /\ clients[s][f] # "none" /\ ~RtpAlive(clients[s][f])
                                THEN "none" ELSE clients[t][f]
          /\ UNCHANGED <<joined, life, fd, step>>
      BY <2>1, PushFrameEffect
    <3>2. ASSUME NEW t \in Sessions, NEW c \in joined[t], ~Left(c) PROVE clients'[t][fd[c]] = c
      <4>1. clients[t][fd[c]] = c /\ RtpAlive(c) /\ fd[c] \in Fds
        BY <3>2, StillClient DEF Registered, Typed
      <4> QED BY <3>1, <4>1
    <3>3. \A t \in Sessions, f \in Fds :
            clients'[t][f] # "none" => clients'[t][f] \in joined'[t] /\ fd[clients'[t][f]] = f
      BY <3>1 DEF Registered
    <3>4. \A c : Left(c)' = Left(c) /\ InUse(c)' = InUse(c)
      BY <3>1 DEF Left, InUse
    <3> QED BY <3>1, <3>2, <3>3, <3>4 DEF Registered
  <2>2. CASE (\E c \in Conns : SendRtpPacket(s, c)) \/ PostPacket(s)
    BY <1>0, <2>2 DEF SendRtpPacket, PostPacket
  <2> QED BY <1>7, <2>1, <2>2 DEF MediaThread
<1>8. CASE RunPacket \/ NextPhase \/ UNCHANGED vars
  BY <1>0, <1>8 DEF RunPacket, NextPhase, vars
<1>9. ASSUME NEW c \in Conns, RtcpTimer(c) PROVE Registered'
  BY <1>0, <1>9 DEF RtcpTimer
<1>10. ASSUME NEW s \in Sessions, RemoveSession(s) PROVE Registered'
  BY <1>0, <1>10 DEF RemoveSession
<1> QED BY <1>1, <1>3, <1>4, <1>5, <1>6, <1>7, <1>8, <1>9, <1>10 DEF Next, Scheduler

-----------------------------------------------------------------------------
(* The order of the trigger events.                                        *)

\* An event is posted behind all others: a removal once its connection is
\* closed, a packet as open while its connection is.
LEMMA OrderAfterPost ==
  ASSUME Typed, EventsInOrder,
         NEW e \in Event, queue' = Post(e),
         e \in Removal => life'[e.conn] \in {"closed", "removed"} /\ phase # "timers",
         \A c \in Conns : OpenPacket(e, c) => life[c] = "open" /\ life' = life,
         \A d \in Conns : (Gone(d) => Gone(d)') /\ (InUse(d) => InUse(d)'),
         \A d \in late' : d \in Conns /\ (d \in late \/ (Gone(d)' /\ phase # "timers")),
         UNCHANGED phase
  PROVE  EventsInOrder'
<1>1. \A i \in DOMAIN queue : queue[i] \in Event /\ queue[i].conn \in Conns
  BY ElementOfSeq, LenProperties DEF Typed, Event, Removal, PacketEvent
<1>2. late \subseteq Conns
  BY DEF Typed
<1>3. CASE queue' = queue
  BY <1>1, <1>2, <1>3 DEF EventsInOrder
<1>4. CASE /\ DOMAIN queue' = DOMAIN queue \cup {Len(queue) + 1}
           /\ \A i \in DOMAIN queue : queue'[i] = queue[i] /\ i < Len(queue) + 1
           /\ queue'[Len(queue) + 1] = e
  <2> DEFINE n == Len(queue) + 1
  <2>0. n \in Nat /\ \A i \in DOMAIN queue : i \in Nat /\ ~(n < i) /\ ~(n < n)
    BY <1>4, LenProperties DEF Typed
  <2>1. e \in Removal => \A c : ~OpenPacket(e, c)
    BY DEF Removal, PacketEvent, OpenPacket
  <2>2. \A c \in Conns : OpenPacket(e, c) => InUse(c)' /\ ~Gone(c)'
    BY DEF InUse, Gone
  <2> HIDE DEF n
  <2>3. \A i \in DOMAIN queue' : queue'[i] \in Removal => life'[queue'[i].conn] \in {"closed", "removed"}
    BY <1>1, <1>4 DEF EventsInOrder, Gone
  <2>4. \A i \in DOMAIN queue', c \in Conns : OpenPacket(queue'[i], c) => InUse(c)'
    BY <1>4, <2>2 DEF EventsInOrder
  <2>5. ASSUME NEW i \in DOMAIN queue', NEW j \in DOMAIN queue', i < j, queue'[i] \in Removal
        PROVE  ~OpenPacket(queue'[j], queue'[i].conn)
    <3>1. i \in DOMAIN queue
      BY <1>4, <2>0, <2>5 DEF n
    <3>2. queue[i] \in Removal /\ queue'[i] = queue[i] /\ queue[i].conn \in Conns
      BY <1>1, <1>4, <2>5, <3>1
    <3>3. CASE j \in DOMAIN queue
      BY <1>4, <2>5, <3>1, <3>2, <3>3 DEF EventsInOrder
    <3>4. CASE j \notin DOMAIN queue
      <4> DEFINE c == queue[i].conn
      <4>1. c \in Conns /\ Gone(c)
        BY <3>1, <3>2 DEF EventsInOrder
      <4>2. life'[c] \in {"closed", "removed"}
        BY <4>1 DEF Gone
      <4>3. queue'[j] = e /\ queue'[i].conn = c
        BY <1>4, <3>2, <3>4
      <4> HIDE DEF c
      <4>4. ~OpenPacket(e, c)
        BY <2>2, <4>1, <4>2 DEF Gone
      <4> QED BY <4>3, <4>4
    <3> QED BY <3>3, <3>4
  <2>6. \A c \in late' : Gone(c)'
    BY <1>2 DEF EventsInOrder
  <2>7. ASSUME phase' = "timers", NEW c \in late', NEW i \in DOMAIN queue'
        PROVE  ~OpenPacket(queue'[i], c)
    <3>1. c \in late /\ c \in Conns /\ Gone(c)'
      BY <1>2, <2>6, <2>7
    <3> QED BY <1>4, <2>2, <2>7, <3>1 DEF EventsInOrder
  <2> QED BY <2>3, <2>4, <2>5, <2>6, <2>7 DEF EventsInOrder, Gone
<1> QED BY <1>3, <1>4, PostEvent

\* The first event is taken; a removal is behind all packets posted while its
\* connection was open, and the connection may go.
LEMMA OrderAfterTake ==
  ASSUME Typed, EventsInOrder, queue # <<>>, queue' = Tail(queue),
         \A d \in Conns : Gone(d) => Gone(d)',
         \A d \in Conns : InUse(d) => InUse(d)' \/ (Head(queue) \in Removal /\ d = Head(queue).conn),
         UNCHANGED <<late, phase>>
  PROVE  EventsInOrder'
<1>1. \A i \in DOMAIN queue : queue[i] \in Event /\ queue[i].conn \in Conns /\ i \in Nat
  BY ElementOfSeq, LenProperties DEF Typed, Event, Removal, PacketEvent
<1>2. /\ Head(queue) = queue[1] /\ 1 \in DOMAIN queue
      /\ \A i \in DOMAIN queue' : i + 1 \in DOMAIN queue /\ 1 < i + 1 /\ queue'[i] = queue[i + 1]
  BY TakeEvent
<1>3. queue' \in Seq(Event) /\ \A i \in DOMAIN queue' : i \in Nat
  BY TakeEvent, LenProperties
<1> HIDE DEF OpenPacket
<1>4. \A i \in DOMAIN queue' : queue'[i] \in Removal => life'[queue'[i].conn] \in {"closed", "removed"}
  BY <1>1, <1>2 DEF EventsInOrder, Gone
<1>5. \A i \in DOMAIN queue', c \in Conns : OpenPacket(queue'[i], c) => InUse(c)'
  BY <1>1, <1>2 DEF EventsInOrder
<1>6. ASSUME NEW i \in DOMAIN queue', NEW j \in DOMAIN queue', i < j, queue'[i] \in Removal
      PROVE  ~OpenPacket(queue'[j], queue'[i].conn)
  <2>1. i + 1 < j + 1
    BY <1>3, <1>6
  <2> QED BY <1>2, <1>6, <2>1 DEF EventsInOrder
<1>7. \A c \in late' : Gone(c)'
  BY DEF EventsInOrder, Typed
<1>8. phase' = "timers" => \A c \in late', i \in DOMAIN queue' : ~OpenPacket(queue'[i], c)
  BY <1>2 DEF EventsInOrder
<1> QED BY <1>4, <1>5, <1>6, <1>7, <1>8 DEF EventsInOrder, Gone

\* No step puts a removal before a packet of the open connection.
LEMMA EventsInOrderInductive ==
  ASSUME Typed, InHandler, EventsInOrder, [Next]_vars
  PROVE  EventsInOrder'
<1> USE DEF server, media, rtsp, rtpc, loop, Free
<1>0. ASSUME UNCHANGED <<life, queue, late, phase>> PROVE EventsInOrder'
  BY <1>0 DEF EventsInOrder, InUse, Gone
<1>e. \A i \in DOMAIN queue : queue[i] \in Event /\ queue[i].conn \in Conns
  BY ElementOfSeq, LenProperties DEF Typed, Event, Removal, PacketEvent
<1>1. ASSUME NEW c \in Conns, Request(c) PROVE EventsInOrder'
  <2>1. CASE Quiet(c)
    BY <1>0, <2>1, QuietFrame
  <2>2. CASE Connect(c)
    <3>1. \A d \in Conns : (Gone(d)' = Gone(d)) /\ (InUse(d) => InUse(d)')
      BY <2>2 DEF Connect, Gone, InUse, Typed
    <3>2. UNCHANGED <<queue, late, phase>> /\ late \subseteq Conns
      BY <2>2 DEF Connect, Typed
    <3> QED BY <1>e, <3>1, <3>2 DEF EventsInOrder
  <2>3. ASSUME NEW s \in Sessions, Describe(c, s) PROVE EventsInOrder'
    BY <1>0, <2>3 DEF Describe
  <2>4. CASE Close(c)
    <3>1. /\ \A d \in Conns : (Gone(d) => Gone(d)') /\ (InUse(d) => InUse(d)')
          /\ Gone(c)' /\ UNCHANGED phase /\ phase # "timers" /\ late \subseteq Conns
      BY <2>4 DEF Close, Gone, InUse, Typed
    <3>2. CASE UNCHANGED <<queue, late>>
      BY <1>e, <3>1, <3>2 DEF EventsInOrder
    <3>3. CASE PostRemoval(c)
      <4> DEFINE e == [op |-> "remove", conn |-> c]
      <4>1. e \in Event /\ e \in Removal /\ e.conn = c
        BY DEF Event, Removal
      <4>2. \A d : ~OpenPacket(e, d)
        BY DEF OpenPacket, PacketEvent
      <4>3. queue' = Post(e) /\ \A d \in late' : d \in Conns /\ (d \in late \/ d = c)
        BY <3>1, <3>3 DEF PostRemoval
      <4>4. life'[e.conn] \in {"closed", "removed"}
        BY <3>1, <4>1 DEF Gone
      <4>5. \A d \in late' : d \in Conns /\ (d \in late \/ (Gone(d)' /\ phase # "timers"))
        BY <3>1, <4>3
      <4> HIDE DEF e
      <4> QED BY <3>1, <4>1, <4>2, <4>3, <4>4, <4>5, OrderAfterPost
    <3> QED BY <2>4, <3>2, <3>3 DEF Close
  <2> QED BY <1>1, <2>1, <2>2, <2>3, <2>4 DEF Request, Quiet
<1>2. ASSUME NEW c \in Conns, RemoveLate(c) PROVE EventsInOrder'
  <2>1. /\ phase = "timers" /\ c \in late /\ late' = late \ {c} /\ late \subseteq Conns
        /\ life' = [life EXCEPT ![c] = "removed"] /\ UNCHANGED <<queue, phase>>
    BY <1>2 DEF RemoveLate, Forget, Typed
  <2>2. \A d \in Conns : (Gone(d) => Gone(d)') /\ (InUse(d) => InUse(d)' \/ d = c)
    BY <2>1 DEF Gone, InUse, Typed
  <2>3. \A i \in DOMAIN queue : ~OpenPacket(queue[i], c)
    BY <2>1 DEF EventsInOrder
  <2>4. \A i \in DOMAIN queue, d \in Conns : OpenPacket(queue[i], d) => InUse(d)'
    BY <2>2, <2>3 DEF EventsInOrder
  <2>5. \A i \in DOMAIN queue : queue[i] \in Removal => life'[queue[i].conn] \in {"closed", "removed"}
    BY <1>e, <2>2 DEF EventsInOrder, Gone
  <2> QED BY <2>1, <2>2, <2>4, <2>5 DEF EventsInOrder, Gone
<1>3. CASE RemoveConnection
  <2>1. /\ queue # <<>> /\ queue' = Tail(queue) /\ UNCHANGED <<late, phase>>
        /\ life' = [life EXCEPT ![Head(queue).conn] = "removed"]
    BY <1>3 DEF RemoveConnection, Forget
  <2>2. Head(queue) \in Removal /\ Head(queue).conn \in Conns
    BY <1>3, TakeEvent, EventTyped DEF RemoveConnection
  <2>3. \A d \in Conns : (Gone(d) => Gone(d)') /\ (InUse(d) => InUse(d)' \/ d = Head(queue).conn)
    BY <2>1, <2>2 DEF Gone, InUse, Typed
  <2> QED BY <2>1, <2>2, <2>3, OrderAfterTake
<1>4. CASE RunPacket
  <2>1. queue # <<>> /\ queue' = Tail(queue) /\ UNCHANGED <<life, late, phase>>
    BY <1>4 DEF RunPacket
  <2>2. \A d \in Conns : Gone(d)' = Gone(d) /\ InUse(d)' = InUse(d)
    BY <2>1 DEF Gone, InUse
  <2> QED BY <2>1, <2>2, OrderAfterTake
<1>5. CASE RemoveClient
  <2> DEFINE c == step.conn
             e == [op |-> "remove", conn |-> c]
  <2>1. c \in Conns /\ Gone(c) /\ phase # "timers"
    BY <1>5, StepTyped DEF RemoveClient, InHandler, Gone
  <2>2. UNCHANGED <<life, phase>> /\ PostRemoval(c)
    BY <1>5 DEF RemoveClient
  <2>3. \A d \in Conns : Gone(d)' = Gone(d) /\ InUse(d)' = InUse(d)
    BY <2>2 DEF Gone, InUse
  <2>4. queue' = Post(e) /\ \A d \in late' : d \in late \/ d = c
    BY <2>2 DEF PostRemoval
  <2> HIDE DEF c
  <2>5. e \in Event /\ e \in Removal /\ e.conn = c
    BY <2>1 DEF Event, Removal
  <2>6. \A d : ~OpenPacket(e, d)
    BY DEF OpenPacket, PacketEvent
  <2>7. \A d \in late' : d \in Conns /\ (d \in late \/ (Gone(d)' /\ phase # "timers"))
    BY <2>1, <2>3, <2>4 DEF Typed
  <2>8. life'[e.conn] \in {"closed", "removed"} /\ UNCHANGED phase
    BY <2>1, <2>2, <2>5 DEF Gone
  <2> HIDE DEF e
  <2> QED BY <2>1, <2>3, <2>4, <2>5, <2>6, <2>7, <2>8, OrderAfterPost
<1>6. CASE NextPhase
  <2>1. UNCHANGED <<life, queue, late>> /\ (phase' = "timers" => queue = <<>>)
    BY <1>6 DEF NextPhase
  <2>2. queue = <<>> => DOMAIN queue = {}
    OBVIOUS
  <2> QED BY <2>1, <2>2 DEF EventsInOrder, InUse, Gone
<1>7. ASSUME NEW s \in Sessions, MediaThread(s) PROVE EventsInOrder'
  <2>1. CASE PostPacket(s)
    <3> DEFINE p == pushing[s]
               e == [op |-> "packet", conn |-> p.conn, pkt |-> p.pkt, open |-> life[p.conn] = "open"]
    <3>1. p.conn \in Conns /\ p.pkt \in Packet
      BY <2>1, PushingTyped DEF PostPacket, Posts
    <3>2. queue' = Post(e) /\ UNCHANGED <<life, late, phase>>
      BY <2>1 DEF PostPacket
    <3> HIDE DEF p
    <3>3. e \in Event /\ e \notin Removal
      BY <3>1 DEF Event, PacketEvent, Removal
    <3>4. \A c \in Conns : OpenPacket(e, c) => life[c] = "open" /\ life' = life
      BY <3>2 DEF OpenPacket
    <3>5. \A d \in Conns : (Gone(d) => Gone(d)') /\ (InUse(d) => InUse(d)')
      BY <3>2 DEF Gone, InUse
    <3>6. \A d \in late' : d \in Conns /\ d \in late
      BY <3>2 DEF Typed
    <3>7. queue' = Post(e) /\ UNCHANGED phase
      BY <3>2
    <3> HIDE DEF e
    <3> QED BY <3>3, <3>4, <3>5, <3>6, <3>7, OrderAfterPost
  <2>2. CASE \/ \E h \in Channels, k \in Kinds : PushFrame(s, h, k)
             \/ \E c \in Conns : SendRtpPacket(s, c)
    BY <1>0, <2>2 DEF PushFrame, SendRtpPacket
  <2> QED BY <1>7, <2>1, <2>2 DEF MediaThread
<1>8. ASSUME NEW c \in Conns, RtcpTimer(c) PROVE EventsInOrder'
  BY <1>0, <1>8 DEF RtcpTimer
<1>9. CASE AddClient \/ UNCHANGED vars
  BY <1>0, <1>9 DEF AddClient, vars
<1>10. ASSUME NEW s \in Sessions, RemoveSession(s) PROVE EventsInOrder'
  BY <1>0, <1>10 DEF RemoveSession
<1> QED BY <1>1, <1>2, <1>3, <1>4, <1>5, <1>6, <1>7, <1>8, <1>9, <1>10 DEF Next, Scheduler

-----------------------------------------------------------------------------
(* The notifications of a media session.                                   *)

\* Both sets are finite.
LEMMA CountedSets ==
  ASSUME Typed, NEW s \in Sessions
  PROVE  /\ IsFiniteSet(Present(s)) /\ Cardinality(Present(s)) \in Nat
         /\ IsFiniteSet(Strayers(s)) /\ Cardinality(Strayers(s)) \in Nat
<1>1. Present(s) \subseteq Conns /\ Strayers(s) \subseteq Conns
  BY DEF Present, Strayers, Typed
<1>2. IsFiniteSet(Conns)
  BY RtspAssumption
<1>3. IsFiniteSet(Present(s)) /\ IsFiniteSet(Strayers(s))
  BY <1>1, <1>2, FS_Subset
<1> QED BY <1>3, FS_CardinalityType

\* The bounds stay while no one more has to be counted and no one less may be.
LEMMA CountKept ==
  ASSUME Typed, Typed', NEW s \in Sessions,
         Cardinality(Present(s)) <= count[s] /\ count[s] <= Cardinality(Strayers(s)),
         Present(s)' \subseteq Present(s), Strayers(s) \subseteq Strayers(s)',
         count'[s] = count[s]
  PROVE  Cardinality(Present(s)') <= count'[s] /\ count'[s] <= Cardinality(Strayers(s)')
<1>1. /\ IsFiniteSet(Present(s)) /\ Cardinality(Present(s)) \in Nat
      /\ IsFiniteSet(Strayers(s)) /\ Cardinality(Strayers(s)) \in Nat
  BY CountedSets
<1>2. /\ IsFiniteSet(Present(s)') /\ Cardinality(Present(s)') \in Nat
      /\ IsFiniteSet(Strayers(s)') /\ Cardinality(Strayers(s)') \in Nat
  <2>1. Present(s)' \subseteq Conns /\ Strayers(s)' \subseteq Conns
    BY DEF Present, Strayers, Typed
  <2>2. IsFiniteSet(Present(s)') /\ IsFiniteSet(Strayers(s)')
    BY <2>1, FS_Subset, RtspAssumption
  <2> QED BY <2>2, FS_CardinalityType
<1>3. Cardinality(Present(s)') <= Cardinality(Present(s))
  BY <1>1, FS_Subset
<1>4. Cardinality(Strayers(s)) <= Cardinality(Strayers(s)')
  BY <1>2, FS_Subset
<1>5. count[s] \in Int
  BY DEF Typed
<1> QED BY <1>1, <1>2, <1>3, <1>4, <1>5

\* Adding one element.
LEMMA OneMore ==
  ASSUME NEW S, NEW x, x \notin S, IsFiniteSet(S)
  PROVE  IsFiniteSet(S \cup {x}) /\ Cardinality(S \cup {x}) = Cardinality(S) + 1
BY FS_AddElement

\* Taking one away.
LEMMA OneLess ==
  ASSUME NEW S, NEW x \in S, IsFiniteSet(S)
  PROVE  IsFiniteSet(S \ {x}) /\ Cardinality(S \ {x}) = Cardinality(S) - 1
BY FS_RemoveElement

\* Every notification goes with a client that joins, or that leaves.
LEMMA CountedInductive ==
  ASSUME Typed, Typed', InHandler, Described, Registered, EventsInOrder, Counted, [Next]_vars
  PROVE  Counted'
<1> USE DEF server, media, rtsp, rtpc, loop, Free
<1>k. ASSUME sessions' \subseteq sessions,
             \A s \in sessions' : /\ Present(s)' \subseteq Present(s) /\ Strayers(s) \subseteq Strayers(s)'
                                  /\ count'[s] = count[s]
      PROVE  Counted'
  BY <1>k, CountKept DEF Counted, Typed
<1>0. ASSUME UNCHANGED <<clients, count, joined, life, fd, sessionId, step>>, sessions' \subseteq sessions
      PROVE  Counted'
  BY <1>k, <1>0 DEF Present, Strayers, Left
<1>1. ASSUME NEW c \in Conns, Request(c) PROVE Counted'
  <2>1. CASE Quiet(c)
    BY <1>0, <2>1, QuietFrame
  <2>2. CASE Connect(c)
    <3>1. \A s \in Sessions : c \notin joined[s]
      BY <2>2 DEF Connect, Described
    <3>2. /\ UNCHANGED <<sessions, clients, count, joined, sessionId, step>>
          /\ \A d \in Conns \ {c} : fd'[d] = fd[d] /\ life'[d] = life[d]
      BY <2>2 DEF Connect, Typed
    <3>3. \A d \in Conns \ {c} : Left(d)' = Left(d)
      BY <3>2 DEF Left
    <3>4. \A s \in Sessions : joined[s] \subseteq Conns \ {c}
      BY <3>1 DEF Typed
    <3>5. \A s \in Sessions : Present(s)' = Present(s) /\ Strayers(s)' = Strayers(s)
      BY <3>2, <3>3, <3>4 DEF Present, Strayers
    <3> QED BY <1>k, <3>2, <3>5 DEF Typed
  <2>3. ASSUME NEW s \in Sessions, Describe(c, s) PROVE Counted'
    <3>1. /\ UNCHANGED <<sessions, clients, count, joined, fd, life>> /\ ~Left(c)
          /\ \A d \in Conns : Left(d)' = Left(d)
          /\ \A d \in Conns \ {c} : sessionId'[d] = sessionId[d]
      BY <2>3 DEF Describe, Authenticated, Left, Typed
    <3>2. \A t \in Sessions : Present(t)' = Present(t) /\ Strayers(t) \subseteq Strayers(t)'
      BY <3>1 DEF Present, Strayers, Typed
    <3> QED BY <1>k, <3>1, <3>2 DEF Typed
  <2>4. CASE Close(c)
    <3>1. UNCHANGED <<sessions, clients, count, joined, fd, sessionId>> /\ ~Left(c)
      BY <2>4 DEF Close, Left
    <3>2. \A d \in Conns \ {c} : Left(d)' = Left(d)
      BY <2>4 DEF Close, Left, Typed
    <3>3. \A s \in Sessions : c \in joined[s] => clients[s][fd[c]] = c
      BY <3>1 DEF Registered
    <3>4. Left(c)' => sessionId[c] \notin sessions
      BY <2>4 DEF Close, Left
    <3>5. ASSUME NEW s \in sessions
          PROVE  Present(s)' \subseteq Present(s) /\ Strayers(s) \subseteq Strayers(s)'
      <4>1. s \in Sessions /\ joined[s] \subseteq Conns /\ (Left(c)' => sessionId[c] # s)
        BY <3>4 DEF Typed
      <4>2. \A d \in joined[s] : d \in Present(s)' => d \in Present(s)
        BY <3>1, <3>2, <3>3, <4>1 DEF Present
      <4>3. \A d \in joined[s] : d \in Strayers(s) => d \in Strayers(s)'
        BY <3>1, <3>2, <4>1 DEF Strayers
      <4> QED BY <3>1, <4>2, <4>3 DEF Present, Strayers
    <3> QED BY <1>k, <3>1, <3>5
  <2> QED BY <1>1, <2>1, <2>2, <2>3, <2>4 DEF Request, Quiet
<1>2. ASSUME NEW c \in Conns, Forget(c), Gone(c),
             UNCHANGED <<sessions, clients, count, joined, step>>
      PROVE  Counted'
  <2>1. \A d \in Conns : Left(d)' = Left(d)
    BY <1>2 DEF Forget, Gone, Left, Typed
  <2>2. \A s \in Sessions : Present(s)' = Present(s) /\ Strayers(s)' = Strayers(s)
    BY <1>2, <2>1 DEF Forget, Present, Strayers, Typed
  <2> QED BY <1>k, <1>2, <2>2 DEF Typed
<1>3. ASSUME NEW c \in Conns, RemoveLate(c) PROVE Counted'
  BY <1>2, <1>3 DEF RemoveLate, EventsInOrder
<1>4. CASE RemoveConnection
  <2>1. Head(queue).conn \in Conns /\ Gone(Head(queue).conn)
    BY <1>4, TakeEvent, EventTyped DEF RemoveConnection, EventsInOrder
  <2> QED BY <1>2, <1>4, <2>1 DEF RemoveConnection
<1>5. CASE AddClient
  <2> SUFFICES ASSUME NEW c \in Conns, NEW s \in Sessions, c = step.conn, s = step.session
               PROVE  Counted'
    BY <1>5, StepTyped DEF AddClient
  <2>0. c \in Conns /\ s \in Sessions /\ c # "none" /\ ~Left(c) /\ fd[c] \in Fds
    BY <1>5, RtspAssumption DEF AddClient, InHandler, Left, Typed
  <2>1. UNCHANGED <<sessions, life, fd, sessionId>> /\ \A d \in Conns : Left(d)' = Left(d)
    BY <1>5 DEF AddClient, Left, Idle
  <2>2. CASE UNCHANGED <<clients, count, joined>>
    <3>1. \A t \in Sessions : Present(t)' = Present(t) /\ Strayers(t)' = Strayers(t)
      BY <2>1, <2>2 DEF Present, Strayers, Typed
    <3> QED BY <1>k, <2>1, <2>2, <3>1 DEF Typed
  <2>3. CASE ~UNCHANGED <<clients, count, joined>>
    <3>1. /\ clients[s][fd[c]] = "none"
          /\ \A t \in Sessions, f \in Fds :
               clients'[t][f] = IF t = s /\ f = fd[c] THEN c ELSE clients[t][f]
          /\ \A t \in Sessions :
               /\ count'[t] = IF t = s THEN count[t] + 1 ELSE count[t]
               /\ joined'[t] = IF t = s THEN joined[t] \cup {c} ELSE joined[t]
      BY <1>5, <2>3, AddClientEffect
    <3>2. c \notin joined[s]
      BY <2>0, <3>1 DEF Registered
    <3>3. \A t \in Sessions \ {s} : Present(t)' = Present(t) /\ Strayers(t)' = Strayers(t)
      BY <2>1, <3>1 DEF Present, Strayers, Typed
    <3>4. Present(s)' \subseteq Present(s) \cup {c} /\ c \notin Present(s)
      <4>1. ASSUME NEW d \in Present(s)', d # c PROVE d \in Present(s)
        <5>1. d \in joined[s] /\ d \in Conns
          BY <2>0, <3>1, <4>1 DEF Present, Typed
        <5>2. Left(d) => clients'[s][fd[d]] = d
          BY <2>1, <4>1, <5>1 DEF Present
        <5>3. Left(d) => clients[s][fd[d]] = d
          BY <2>0, <3>1, <4>1, <5>1, <5>2 DEF Typed
        <5> QED BY <5>1, <5>3 DEF Present
      <4> QED BY <3>2, <4>1 DEF Present
    <3>5. Strayers(s) \cup {c} \subseteq Strayers(s)' /\ c \notin Strayers(s)
      BY <2>0, <2>1, <3>1, <3>2 DEF Strayers, Typed
    <3>6. s \in sessions => /\ Cardinality(Present(s)') <= count'[s]
                            /\ count'[s] <= Cardinality(Strayers(s)')
      <4> SUFFICES ASSUME s \in sessions
                   PROVE  /\ Cardinality(Present(s)') <= count'[s]
                          /\ count'[s] <= Cardinality(Strayers(s)')
        OBVIOUS
      <4>1. /\ IsFiniteSet(Present(s)) /\ Cardinality(Present(s)) \in Nat
            /\ IsFiniteSet(Strayers(s)) /\ Cardinality(Strayers(s)) \in Nat
        BY <2>0, CountedSets
      <4>2. /\ IsFiniteSet(Present(s) \cup {c}) /\ Cardinality(Present(s) \cup {c}) = Cardinality(Present(s)) + 1
            /\ Cardinality(Strayers(s) \cup {c}) = Cardinality(Strayers(s)) + 1
        BY <3>4, <3>5, <4>1, OneMore
      <4>3. /\ Cardinality(Present(s)') <= Cardinality(Present(s) \cup {c})
            /\ Cardinality(Present(s)') \in Nat
        BY <3>4, <4>2, FS_Subset, FS_CardinalityType
      <4>4. IsFiniteSet(Strayers(s)') /\ Cardinality(Strayers(s)') \in Nat
        <5>1. Strayers(s)' \subseteq Conns
          BY <2>0 DEF Strayers, Typed
        <5> QED BY <5>1, FS_Subset, FS_CardinalityType, RtspAssumption
      <4>5. Cardinality(Strayers(s) \cup {c}) <= Cardinality(Strayers(s)')
        BY <3>5, <4>4, FS_Subset
      <4>6. count'[s] = count[s] + 1 /\ count[s] \in Int
        BY <2>0, <3>1 DEF Typed
      <4>7. Cardinality(Present(s)) <= count[s] /\ count[s] <= Cardinality(Strayers(s))
        BY DEF Counted
      <4> QED BY <4>1, <4>2, <4>3, <4>4, <4>5, <4>6, <4>7
    <3>7. \A t \in sessions \ {s} : /\ Cardinality(Present(t)') <= count'[t]
                                    /\ count'[t] <= Cardinality(Strayers(t)')
      BY <3>1, <3>3, CountKept DEF Counted, Typed
    <3> QED BY <2>1, <3>6, <3>7 DEF Counted
  <2> QED BY <2>2, <2>3
<1>6. CASE RemoveClient
  <2> SUFFICES ASSUME NEW c \in Conns, NEW s \in Sessions, c = step.conn, s = step.session
               PROVE  Counted'
    BY <1>6, StepTyped DEF RemoveClient
  <2> DEFINE d == clients[s][fd[c]]
  <2>1. /\ c \in Conns /\ s \in Sessions /\ life[c] = "closed" /\ sessionId[c] = s
        /\ \A t \in Sessions, f \in Fds :
             clients'[t][f] = IF t = s /\ f = fd[c] THEN "none" ELSE clients[t][f]
        /\ \A t \in Sessions : t # s => count'[t] = count[t]
        /\ count'[s] = IF d # "none" /\ RtpAlive(d) THEN count[s] - 1 ELSE count[s]
        /\ step' = Idle /\ UNCHANGED <<sessions, joined, life, fd, sessionId>>
    BY <1>6, RemoveClientEffect
  <2>2. ~Left(c) /\ \A e \in Conns \ {c} : Left(e)' = Left(e)
    BY <1>6, <2>1 DEF RemoveClient, Left, Idle
  <2>3. \A t \in Sessions : c \in joined[t] => clients[t][fd[c]] = c
    BY <2>1, <2>2 DEF Registered
  <2>4. \A t \in Sessions \ {s} : Present(t)' \subseteq Present(t) /\ Strayers(t) \subseteq Strayers(t)'
    <3>1. \A t \in Sessions \ {s}, e \in Conns : clients'[t][fd[e]] = clients[t][fd[e]]
      BY <2>1 DEF Typed
    <3>2. ASSUME NEW t \in Sessions \ {s}, NEW e \in joined[t]
          PROVE  (e \in Present(t)' => e \in Present(t)) /\ (e \in Strayers(t) => e \in Strayers(t)')
      <4>1. e \in Conns /\ clients'[t][fd[e]] = clients[t][fd[e]]
        BY <3>1, <3>2 DEF Typed
      <4>2. CASE e = c
        BY <2>1, <2>2, <2>3, <3>2, <4>1, <4>2 DEF Present, Strayers
      <4>3. CASE e # c
        <5>1. Left(e)' = Left(e)
          BY <2>2, <4>1, <4>3
        <5> QED BY <2>1, <3>2, <4>1, <5>1 DEF Present, Strayers
      <4> QED BY <4>2, <4>3
    <3> QED BY <2>1, <3>2 DEF Present, Strayers
  <2>5. Present(s)' \subseteq Present(s) \ {d}
    <3>1. ASSUME NEW e \in Present(s)' PROVE e \in Present(s) /\ e # d
      <4>1. e \in joined[s] /\ e \in Conns /\ fd[e] \in Fds
        BY <2>1, <3>1 DEF Present, Typed
      <4>2. ~Left(e)' \/ clients'[s][fd[e]] = e
        BY <2>1, <3>1 DEF Present
      <4>3. CASE clients'[s][fd[e]] = e
        <5>1. e # "none" /\ fd[e] # fd[c] /\ clients[s][fd[e]] = e
          BY <2>1, <4>1, <4>3, RtspAssumption
        <5>2. fd[c] \in Fds /\ (d # "none" => fd[d] = fd[c])
          BY <2>1 DEF Registered, Typed
        <5> QED BY <4>1, <5>1, <5>2 DEF Present
      <4>4. CASE ~Left(e)'
        <5>1. life[e] \notin {"closed", "removed"} /\ ~Left(e)
          BY <2>1, <4>1, <4>4 DEF Left, Idle
        <5>2. InUse(e) /\ InUse(c) /\ e # c
          BY <2>1, <4>1, <5>1, StillClient DEF InUse
        <5>3. fd[e] # fd[c]
          BY <2>1, <4>1, <5>2 DEF Registered
        <5>4. fd[c] \in Fds /\ (d # "none" => fd[d] = fd[c])
          BY <2>1 DEF Registered, Typed
        <5>5. e # "none"
          BY <4>1, RtspAssumption
        <5> QED BY <4>1, <5>1, <5>3, <5>4, <5>5 DEF Present
      <4> QED BY <4>2, <4>3, <4>4
    <3> QED BY <3>1
  <2>6. d # "none" => d \in Present(s)
    BY <2>1 DEF Registered, Present, Typed
  <2>7. d # c => Strayers(s) \subseteq Strayers(s)'
    <3> SUFFICES ASSUME d # c, NEW e \in Strayers(s) PROVE e \in Strayers(s)'
      OBVIOUS
    <3>1. e \in joined[s] /\ e \in Conns \ {c} /\ (~Left(e) \/ sessionId[e] # s)
      BY <2>3 DEF Strayers, Typed
    <3>2. Left(e)' = Left(e)
      BY <2>2, <3>1
    <3> QED BY <2>1, <3>1, <3>2 DEF Strayers
  <2>8. Strayers(s) \subseteq Strayers(s)' \cup {c}
    BY <2>1, <2>2 DEF Strayers, Typed
  <2>9. s \in sessions => /\ Cardinality(Present(s)') <= count'[s]
                          /\ count'[s] <= Cardinality(Strayers(s)')
    <3> SUFFICES ASSUME s \in sessions
                 PROVE  /\ Cardinality(Present(s)') <= count'[s]
                        /\ count'[s] <= Cardinality(Strayers(s)')
      OBVIOUS
    <3>1. /\ IsFiniteSet(Present(s)) /\ Cardinality(Present(s)) \in Nat
          /\ IsFiniteSet(Strayers(s)) /\ Cardinality(Strayers(s)) \in Nat
      BY <2>1, CountedSets
    <3>2. IsFiniteSet(Strayers(s)') /\ Cardinality(Strayers(s)') \in Nat
      <4>1. Strayers(s)' \subseteq Conns
        BY <2>1 DEF Strayers, Typed
      <4> QED BY <4>1, FS_Subset, FS_CardinalityType, RtspAssumption
    <3>3. Cardinality(Present(s)) <= count[s] /\ count[s] <= Cardinality(Strayers(s)) /\ count[s] \in Int
      BY DEF Counted, Typed
    <3>4. Cardinality(Present(s)') <= Cardinality(Present(s)) /\ Cardinality(Present(s)') \in Nat
      <4>1. Present(s)' \subseteq Present(s)
        BY <2>5
      <4> QED BY <3>1, <4>1, FS_Subset, FS_CardinalityType
    <3>5. CASE d # "none" /\ RtpAlive(d)
      <4>1. /\ IsFiniteSet(Present(s) \ {d})
            /\ Cardinality(Present(s) \ {d}) = Cardinality(Present(s)) - 1
        BY <2>6, <3>1, <3>5, OneLess
      <4>2. Cardinality(Present(s)') <= Cardinality(Present(s)) - 1
        BY <2>5, <4>1, FS_Subset
      <4>3. count'[s] = count[s] - 1
        BY <2>1, <3>5
      <4>4. Cardinality(Strayers(s)) - 1 <= Cardinality(Strayers(s)')
        <5>1. CASE c \in Strayers(s)'
          <6>1. Strayers(s) \subseteq Strayers(s)'
            BY <2>8, <5>1
          <6> QED BY <3>1, <3>2, <6>1, FS_Subset
        <5>2. CASE c \notin Strayers(s)'
          <6>1. /\ IsFiniteSet(Strayers(s)' \cup {c})
                /\ Cardinality(Strayers(s)' \cup {c}) = Cardinality(Strayers(s)') + 1
            BY <3>2, <5>2, OneMore
          <6>2. Cardinality(Strayers(s)) <= Cardinality(Strayers(s)' \cup {c})
            BY <2>8, <6>1, FS_Subset
          <6> QED BY <3>1, <3>2, <6>1, <6>2
        <5> QED BY <5>1, <5>2
      <4> QED BY <3>1, <3>2, <3>3, <3>4, <4>2, <4>3, <4>4
    <3>6. CASE ~(d # "none" /\ RtpAlive(d))
      <4>1. d # c
        BY <2>1, <2>2, <2>6, <3>6, StillClient, RtspAssumption DEF Present
      <4>2. Cardinality(Strayers(s)) <= Cardinality(Strayers(s)')
        BY <2>7, <3>2, <4>1, FS_Subset
      <4>3. count'[s] = count[s]
        BY <2>1, <3>6
      <4> QED BY <3>1, <3>2, <3>3, <3>4, <4>2, <4>3
    <3> QED BY <3>5, <3>6
  <2>10. \A t \in sessions \ {s} : /\ Cardinality(Present(t)') <= count'[t]
                                   /\ count'[t] <= Cardinality(Strayers(t)')
    BY <2>1, <2>4, CountKept DEF Counted, Typed
  <2> QED BY <2>1, <2>9, <2>10 DEF Counted
<1>7. ASSUME NEW s \in Sessions, MediaThread(s) PROVE Counted'
  <2>1. ASSUME NEW h \in Channels, NEW k \in Kinds, PushFrame(s, h, k) PROVE Counted'
    <3>1. /\ \A t \in Sessions, f \in Fds :
               clients'[t][f] = IF t = s /\ clients[s][f] # "none" /\ ~RtpAlive(clients[s][f])
                                THEN "none" ELSE clients[t][f]
          /\ UNCHANGED <<sessions, count, joined, life, fd, sessionId, step>>
      BY <2>1, PushFrameEffect
    <3>2. \A c \in Conns : Left(c)' = Left(c) /\ c # "none" /\ fd[c] \in Fds
      BY <3>1, RtspAssumption DEF Left, Typed
    <3>3. \A t \in Sessions : Present(t)' \subseteq Present(t) /\ Strayers(t)' = Strayers(t)
      BY <3>1, <3>2 DEF Present, Strayers, Typed
    <3> QED BY <1>k, <3>1, <3>3 DEF Typed
  <2>2. CASE (\E c \in Conns : SendRtpPacket(s, c)) \/ PostPacket(s)
    BY <1>0, <2>2 DEF SendRtpPacket, PostPacket
  <2> QED BY <1>7, <2>1, <2>2 DEF MediaThread
<1>8. CASE RunPacket \/ NextPhase \/ UNCHANGED vars
  BY <1>0, <1>8 DEF RunPacket, NextPhase, vars
<1>9. ASSUME NEW c \in Conns, RtcpTimer(c) PROVE Counted'
  BY <1>0, <1>9 DEF RtcpTimer
<1>10. ASSUME NEW s \in Sessions, RemoveSession(s) PROVE Counted'
  BY <1>0, <1>10 DEF RemoveSession
<1> QED BY <1>1, <1>3, <1>4, <1>5, <1>6, <1>7, <1>8, <1>9, <1>10 DEF Next, Scheduler

-----------------------------------------------------------------------------
(* The packets underway.                                                   *)

\* What a media thread holds only shrinks, the clients of a session only grow.
HandsShrink ==
  \A s \in Sessions : pushing'[s].op # "idle" =>
    /\ pushing[s].op # "idle" /\ pushing'[s].todo \subseteq pushing[s].todo
    /\ pushing'[s].pkt = pushing[s].pkt

Steady == /\ pushed' = pushed /\ \A s \in Sessions : joined[s] \subseteq joined'[s]
          /\ HandsShrink

\* What a packet's event is made of.
LEMMA PacketTyped ==
  ASSUME NEW e \in PacketEvent
  PROVE  e.conn \in Conns /\ e.pkt \in Packet /\ e.pkt.session \in Sessions /\ e.pkt.n \in Nat
BY DEF PacketEvent, Packet

\* What is on the wire.
LEMMA WireTyped ==
  ASSUME Typed, NEW c \in Conns, NEW i \in DOMAIN wire[c]
  PROVE  wire[c][i] \in Sent /\ wire[c][i].session \in Sessions /\ wire[c][i].n \in Nat
<1>1. wire[c][i] \in Sent
  BY ElementOfSeq, LenProperties DEF Typed
<1> QED BY <1>1 DEF Sent

\* Neither the queue nor the wire changes.
LEMMA InFlightKept ==
  ASSUME Typed, InFlight, Steady, UNCHANGED <<queue, wire>>
  PROVE  InFlight'
<1>1. InHands'
  BY DEF InFlight, InHands, Steady, HandsShrink
<1>2. ASSUME NEW s \in Sessions, NEW c PROVE Has(s, c)' => Has(s, c) /\ pushing'[s].pkt = pushing[s].pkt
  BY DEF Steady, HandsShrink, Has
<1>3. InQueue'
  BY <1>2, PacketTyped DEF InFlight, InQueue, Steady, Precedes
<1>4. OnWire'
  BY <1>2, WireTyped DEF InFlight, OnWire, Steady, Precedes
<1> QED BY <1>1, <1>3, <1>4 DEF InFlight

\* A removal is posted.
LEMMA InFlightRemoval ==
  ASSUME Typed, InFlight, Steady, NEW e \in Removal, queue' = Post(e), UNCHANGED wire
  PROVE  InFlight'
<1>1. CASE queue' = queue
  BY <1>1, InFlightKept
<1>2. CASE /\ DOMAIN queue' = DOMAIN queue \cup {Len(queue) + 1}
           /\ \A i \in DOMAIN queue : queue'[i] = queue[i] /\ i < Len(queue) + 1
           /\ queue'[Len(queue) + 1] = e
  <2>1. e \notin PacketEvent
    BY DEF Removal, PacketEvent
  <2>2. \A i \in DOMAIN queue' : queue'[i] \in PacketEvent => i \in DOMAIN queue /\ queue'[i] = queue[i]
    BY <1>2, <2>1
  <2>3. InHands'
    BY DEF InFlight, InHands, Steady, HandsShrink
  <2>4. ASSUME NEW s \in Sessions, NEW c PROVE Has(s, c)' => Has(s, c) /\ pushing'[s].pkt = pushing[s].pkt
    BY DEF Steady, HandsShrink, Has
  <2>5. InQueue'
    BY <2>2, <2>4, PacketTyped DEF InFlight, InQueue, Steady, Precedes
  <2>6. OnWire'
    BY <2>2, <2>4, WireTyped DEF InFlight, OnWire, Steady, Precedes
  <2> QED BY <2>3, <2>5, <2>6 DEF InFlight
<1>3. e \in Event
  BY DEF Event
<1> QED BY <1>1, <1>2, <1>3, PostEvent

\* A media thread posts its packet for one of its clients, and is done with it.
LEMMA InFlightPost ==
  ASSUME Typed, InFlight, Steady, UNCHANGED <<wire, joined>>,
         NEW s \in Sessions, NEW c \in Conns, NEW e \in PacketEvent, queue' = Post(e),
         Has(s, c), e.conn = c, e.pkt = pushing[s].pkt, ~Has(s, c)',
         \A t \in Sessions \ {s} : pushing'[t] = pushing[t]
  PROVE  InFlight'
<1>1. CASE queue' = queue
  BY <1>1, InFlightKept
<1>2. CASE /\ DOMAIN queue' = DOMAIN queue \cup {Len(queue) + 1}
           /\ \A i \in DOMAIN queue : queue'[i] = queue[i] /\ i < Len(queue) + 1
           /\ queue'[Len(queue) + 1] = e
  <2> DEFINE n == Len(queue) + 1
  <2>0. n \in Nat /\ \A i \in DOMAIN queue : i \in Nat /\ i < n
    BY <1>2, LenProperties DEF Typed
  <2> HIDE DEF n
  <2>1. \A i \in DOMAIN queue' : (i \in DOMAIN queue /\ queue'[i] = queue[i]) \/ (i = n /\ queue'[i] = e)
    BY <1>2 DEF n
  <2>2. InHands'
    BY DEF InFlight, InHands, Steady, HandsShrink
  <2>3. ASSUME NEW t \in Sessions, NEW d PROVE Has(t, d)' => Has(t, d) /\ pushing'[t].pkt = pushing[t].pkt
    BY DEF Steady, HandsShrink, Has
  <2>4. e.pkt.session = s /\ c \in joined[s] /\ e.pkt.n <= pushed
    BY DEF InFlight, InHands, Has
  <2>5. \A t \in Sessions : Has(t, c)' => Precedes(e.pkt, pushing'[t].pkt)
    BY <2>3, <2>4 DEF InFlight, InHands, Has, Precedes
  <2>6. \A i \in DOMAIN queue : (queue[i] \in PacketEvent /\ queue[i].conn = c) => Precedes(queue[i].pkt, e.pkt)
    BY DEF InFlight, InQueue
  <2>7. \A i \in DOMAIN wire[c] : Precedes(wire[c][i], e.pkt)
    BY DEF InFlight, OnWire
  <2>8. InQueue'
    <3> SUFFICES ASSUME NEW i \in DOMAIN queue', queue'[i] \in PacketEvent
                 PROVE  /\ queue'[i].conn \in joined'[queue'[i].pkt.session] /\ queue'[i].pkt.n <= pushed'
                        /\ \A j \in DOMAIN queue' :
                             (i < j /\ queue'[j] \in PacketEvent /\ queue'[j].conn = queue'[i].conn)
                               => Precedes(queue'[i].pkt, queue'[j].pkt)
                        /\ \A t \in Sessions : (pushing'[t].op # "idle" /\ queue'[i].conn \in pushing'[t].todo)
                                           => Precedes(queue'[i].pkt, pushing'[t].pkt)
      BY DEF InQueue, Precedes, Has
    <3>1. CASE i \in DOMAIN queue /\ queue'[i] = queue[i]
      <4>1. queue[i].conn \in joined[queue[i].pkt.session] /\ queue[i].pkt.n <= pushed
        BY <3>1 DEF InFlight, InQueue
      <4>2. ASSUME NEW j \in DOMAIN queue', i < j, queue'[j] \in PacketEvent, queue'[j].conn = queue'[i].conn
            PROVE  Precedes(queue'[i].pkt, queue'[j].pkt)
        BY <2>1, <2>6, <3>1, <4>2 DEF InFlight, InQueue
      <4>3. \A t \in Sessions : Has(t, queue[i].conn) => Precedes(queue[i].pkt, pushing[t].pkt)
        BY <3>1 DEF InFlight, InQueue
      <4>4. \A t \in Sessions : (pushing'[t].op # "idle" /\ queue'[i].conn \in pushing'[t].todo)
                                           => Precedes(queue'[i].pkt, pushing'[t].pkt)
        BY <3>1, <4>3 DEF Has, Steady, HandsShrink
      <4> QED BY <3>1, <4>1, <4>2, <4>4 DEF Steady
    <3>2. CASE i = n /\ queue'[i] = e
      <4>1. \A j \in DOMAIN queue' : ~(i < j)
        BY <2>0, <2>1, <3>2
      <4>2. \A t \in Sessions : (pushing'[t].op # "idle" /\ queue'[i].conn \in pushing'[t].todo)
                                           => Precedes(queue'[i].pkt, pushing'[t].pkt)
        BY <2>5, <3>2 DEF Has
      <4> QED BY <2>4, <3>2, <4>1, <4>2 DEF Steady
    <3> QED BY <2>1, <3>1, <3>2
  <2>9. OnWire'
    <3>1. \A d \in Conns : \A i \in DOMAIN wire[d] : \A j \in DOMAIN queue' :
            (queue'[j] \in PacketEvent /\ queue'[j].conn = d) => Precedes(wire[d][i], queue'[j].pkt)
      BY <2>1, <2>7 DEF InFlight, OnWire
    <3> QED BY <2>3, <3>1 DEF InFlight, OnWire, Steady, Precedes
  <2> QED BY <2>2, <2>8, <2>9 DEF InFlight
<1>3. e \in Event
  BY DEF Event
<1> QED BY <1>1, <1>2, <1>3, PostEvent

\* Append keeps the places it finds and adds one after them all.
LEMMA Appended ==
  ASSUME NEW S, NEW t \in Seq(S), NEW x \in S
  PROVE  LET w == Append(t, x)
         IN  /\ Len(t) + 1 \in Nat
             /\ \A i \in DOMAIN w : /\ i \in Nat /\ ~(Len(t) + 1 < i)
                                    /\ \/ i \in DOMAIN t /\ w[i] = t[i] /\ i < Len(t) + 1
                                       \/ i = Len(t) + 1 /\ w[i] = x
<1> DEFINE w == Append(t, x)
<1>1. Len(t) \in Nat /\ DOMAIN t = 1 .. Len(t)
  BY LenProperties
<1>2. w \in Seq(S) /\ Len(w) = Len(t) + 1 /\ (\A i \in 1 .. Len(t) : w[i] = t[i]) /\ w[Len(t) + 1] = x
  BY AppendProperties
<1>3. DOMAIN w = 1 .. Len(t) + 1
  BY <1>2, LenProperties
<1> HIDE DEF w
<1>4. ASSUME NEW i \in DOMAIN w
      PROVE  /\ i \in Nat /\ ~(Len(t) + 1 < i)
             /\ \/ i \in DOMAIN t /\ w[i] = t[i] /\ i < Len(t) + 1
                \/ i = Len(t) + 1 /\ w[i] = x
  BY <1>1, <1>2, <1>3, <1>4
<1> QED BY <1>1, <1>4 DEF w

\* The first event is taken; if it is a packet, it may go out.
LEMMA InFlightTake ==
  ASSUME Typed, InFlight, Steady, queue # <<>>, queue' = Tail(queue),
         \/ UNCHANGED wire
         \/ /\ Head(queue) \in PacketEvent
            /\ \E x \in Sent :
                 /\ x.session = Head(queue).pkt.session /\ x.n = Head(queue).pkt.n
                 /\ wire' = [wire EXCEPT ![Head(queue).conn] = Append(wire[Head(queue).conn], x)]
  PROVE  InFlight'
<1>1. /\ Head(queue) = queue[1] /\ 1 \in DOMAIN queue
      /\ \A i \in DOMAIN queue' : i + 1 \in DOMAIN queue /\ 1 < i + 1 /\ queue'[i] = queue[i + 1]
  BY TakeEvent
<1>2. \A i, j \in DOMAIN queue' : i < j => i + 1 < j + 1
  BY TakeEvent, LenProperties
<1>3. ASSUME NEW s \in Sessions, NEW c PROVE Has(s, c)' => Has(s, c) /\ pushing'[s].pkt = pushing[s].pkt
  BY DEF Steady, HandsShrink, Has
<1>4. InHands'
  BY DEF InFlight, InHands, Steady, HandsShrink
<1>5. InQueue'
  <2> SUFFICES ASSUME NEW i \in DOMAIN queue', queue'[i] \in PacketEvent
               PROVE  /\ queue'[i].conn \in joined'[queue'[i].pkt.session] /\ queue'[i].pkt.n <= pushed'
                      /\ \A j \in DOMAIN queue' :
                           (i < j /\ queue'[j] \in PacketEvent /\ queue'[j].conn = queue'[i].conn)
                             => Precedes(queue'[i].pkt, queue'[j].pkt)
                      /\ \A t \in Sessions : (pushing'[t].op # "idle" /\ queue'[i].conn \in pushing'[t].todo)
                           => Precedes(queue'[i].pkt, pushing'[t].pkt)
    BY DEF InQueue, Precedes, Has
  <2>1. i + 1 \in DOMAIN queue /\ queue'[i] = queue[i + 1]
    BY <1>1
  <2>2. queue[i + 1].conn \in joined[queue[i + 1].pkt.session] /\ queue[i + 1].pkt.n <= pushed
    BY <2>1 DEF InFlight, InQueue
  <2>3. ASSUME NEW j \in DOMAIN queue', i < j, queue'[j] \in PacketEvent, queue'[j].conn = queue'[i].conn
        PROVE  Precedes(queue'[i].pkt, queue'[j].pkt)
    BY <1>1, <1>2, <2>1, <2>3 DEF InFlight, InQueue
  <2>4. \A t \in Sessions : Has(t, queue[i + 1].conn) => Precedes(queue[i + 1].pkt, pushing[t].pkt)
    BY <2>1 DEF InFlight, InQueue
  <2> QED BY <2>1, <2>2, <2>3, <2>4, PacketTyped DEF Steady, HandsShrink, Has
<1>6. ASSUME NEW c \in Conns, NEW i \in DOMAIN wire[c]
      PROVE  /\ c \in joined'[wire[c][i].session] /\ wire[c][i].n <= pushed'
             /\ \A j \in DOMAIN queue' :
                  (queue'[j] \in PacketEvent /\ queue'[j].conn = c) => Precedes(wire[c][i], queue'[j].pkt)
             /\ \A s \in Sessions : Has(s, c)' => Precedes(wire[c][i], pushing'[s].pkt)
  BY <1>1, <1>3, WireTyped DEF InFlight, OnWire, Steady
<1>7. CASE UNCHANGED wire
  <2>1. OnWire'
    BY <1>6, <1>7 DEF InFlight, OnWire, Precedes
  <2> QED BY <1>4, <1>5, <2>1 DEF InFlight
<1>8. CASE ~UNCHANGED wire
  <2> SUFFICES ASSUME NEW c \in Conns, c = Head(queue).conn, queue[1] \in PacketEvent, NEW x \in Sent,
                      x.session = queue[1].pkt.session, x.n = queue[1].pkt.n,
                      wire' = [wire EXCEPT ![c] = Append(wire[c], x)]
               PROVE  OnWire'
    BY <1>1, <1>4, <1>5, <1>8, PacketTyped DEF InFlight
  <2> DEFINE w == Append(wire[c], x)
             n == Len(wire[c]) + 1
  <2>1. wire[c] \in Seq(Sent)
    BY DEF Typed
  <2>5. wire'[c] = w /\ \A d \in Conns \ {c} : wire'[d] = wire[d]
    BY DEF Typed
  <2>6. \A i \in DOMAIN w : (i \in DOMAIN wire[c] /\ w[i] = wire[c][i] /\ i < n) \/ (i = n /\ w[i] = x)
    BY ONLY <2>1, x \in Sent, Appended
  <2>7. n \in Nat /\ \A i \in DOMAIN w : i \in Nat /\ ~(n < i)
    BY ONLY <2>1, x \in Sent, Appended
  <2> HIDE DEF w
  <2> HIDE DEF n
  <2>8. \A i \in DOMAIN wire[c] : Precedes(wire[c][i], x)
    BY <1>1 DEF InFlight, OnWire, Precedes
  <2>9. /\ c \in joined'[x.session] /\ x.n <= pushed'
        /\ \A j \in DOMAIN queue' : (queue'[j] \in PacketEvent /\ queue'[j].conn = c) => Precedes(x, queue'[j].pkt)
        /\ \A s \in Sessions : Has(s, c)' => Precedes(x, pushing'[s].pkt)
    <3>1. /\ c \in joined[x.session] /\ x.n <= pushed
          /\ \A j \in DOMAIN queue : (1 < j /\ queue[j] \in PacketEvent /\ queue[j].conn = c) => Precedes(x, queue[j].pkt)
          /\ \A s \in Sessions : Has(s, c) => Precedes(x, pushing[s].pkt)
      BY <1>1 DEF InFlight, InQueue, Precedes
    <3>2. x.session \in Sessions
      BY DEF Sent
    <3> QED BY <1>1, <1>3, <3>1, <3>2 DEF Steady
  <2>10. ASSUME NEW i \in DOMAIN w
         PROVE  /\ c \in joined'[w[i].session] /\ w[i].n <= pushed'
                /\ \A j \in DOMAIN w : i < j => Precedes(w[i], w[j])
                /\ \A j \in DOMAIN queue' :
                     (queue'[j] \in PacketEvent /\ queue'[j].conn = c) => Precedes(w[i], queue'[j].pkt)
                /\ \A s \in Sessions : Has(s, c)' => Precedes(w[i], pushing'[s].pkt)
    <3>1. CASE i = n /\ w[i] = x
      BY <2>7, <2>9, <3>1
    <3>2. CASE i \in DOMAIN wire[c] /\ w[i] = wire[c][i]
      <4>1. \A j \in DOMAIN w : i < j => Precedes(w[i], w[j])
        BY <2>6, <2>8, <3>2 DEF InFlight, OnWire
      <4> QED BY <1>6, <3>2, <4>1
    <3> QED BY <2>6, <3>1, <3>2
  <2>11. ASSUME NEW d \in Conns, NEW i \in DOMAIN wire'[d]
         PROVE  /\ d \in joined'[wire'[d][i].session] /\ wire'[d][i].n <= pushed'
                /\ \A j \in DOMAIN wire'[d] : i < j => Precedes(wire'[d][i], wire'[d][j])
                /\ \A j \in DOMAIN queue' :
                     (queue'[j] \in PacketEvent /\ queue'[j].conn = d) => Precedes(wire'[d][i], queue'[j].pkt)
                /\ \A s \in Sessions : Has(s, d)' => Precedes(wire'[d][i], pushing'[s].pkt)
    <3>1. CASE d = c
      BY <2>5, <2>10, <3>1
    <3>2. CASE d # c
      BY ZenonT(30), <1>6, <2>5, <3>2 DEF InFlight, OnWire
    <3> QED BY <3>1, <3>2
  <2> QED BY <2>11 DEF OnWire, Precedes
<1> QED BY <1>4, <1>5, <1>7, <1>8 DEF InFlight

\* PushFrame numbers its packet after all that have been pushed.
LEMMA InFlightPush ==
  ASSUME Typed, Registered, InFlight, NEW s \in Sessions, NEW h \in Channels, NEW k \in Kinds, PushFrame(s, h, k)
  PROVE  InFlight'
<1>1. pushed' = pushed + 1 /\ pushed \in Nat /\ UNCHANGED <<joined, queue, wire>>
  BY DEF PushFrame, Typed, loop
<1>2. \A t \in Sessions \ {s} : pushing'[t] = pushing[t]
  BY DEF PushFrame, Typed
<1>3. pushing'[s].op # "idle" => /\ pushing'[s].todo \subseteq joined[s]
                                 /\ pushing'[s].pkt.session = s /\ pushing'[s].pkt.n = pushed + 1
  <2> DEFINE todo == {c \in Conns : RtpAlive(c) /\ Alive(c) /\ \E f \in Fds : clients[s][f] = c}
             pkt  == [chn |-> h, kind |-> k, session |-> s, n |-> pushed + 1]
  <2>1. pushing'[s] = IF todo = {} THEN Idle ELSE [op |-> "send", todo |-> todo, pkt |-> pkt]
    BY DEF PushFrame, Typed
  <2>2. todo \subseteq joined[s]
    <3>1. \A c \in Conns : c # "none"
      BY RtspAssumption
    <3> QED BY <3>1 DEF Registered
  <2>3. pkt.session = s /\ pkt.n = pushed + 1
    OBVIOUS
  <2> HIDE DEF todo, pkt
  <2> QED BY <2>1, <2>2, <2>3 DEF Idle
<1>4. \A t \in Sessions : pushing[t].op # "idle" => pushing[t].pkt.n \in Nat
  BY PushingTyped DEF Sends, Posts, Packet
<1>5. InHands'
  BY <1>1, <1>2, <1>3, <1>4 DEF InFlight, InHands
<1>6. InQueue'
  <2>1. ASSUME NEW i \in DOMAIN queue, queue[i] \in PacketEvent, NEW t \in Sessions,
               Has(t, queue[i].conn)'
        PROVE  Precedes(queue[i].pkt, pushing'[t].pkt)
    <3>1. queue[i].pkt.n <= pushed /\ queue[i].pkt.n \in Nat
      BY <2>1, PacketTyped DEF InFlight, InQueue
    <3>2. CASE t = s
      BY <1>1, <1>3, <2>1, <3>1, <3>2 DEF Has, Precedes
    <3>3. CASE t # s
      BY <1>1, <1>2, <2>1, <3>3 DEF InFlight, InQueue, Has
    <3> QED BY <3>2, <3>3
  <2>2. \A i \in DOMAIN queue : queue[i] \in PacketEvent => queue[i].pkt.n <= pushed'
    BY <1>1, PacketTyped DEF InFlight, InQueue
  <2> QED BY <1>1, <2>1, <2>2 DEF InFlight, InQueue, Precedes, Has
<1>7. OnWire'
  <2>1. ASSUME NEW c \in Conns, NEW i \in DOMAIN wire[c], NEW t \in Sessions, Has(t, c)'
        PROVE  Precedes(wire[c][i], pushing'[t].pkt)
    <3>1. wire[c][i].n <= pushed /\ wire[c][i].n \in Nat
      BY WireTyped DEF InFlight, OnWire
    <3>2. CASE t = s
      BY <1>1, <1>3, <2>1, <3>1, <3>2 DEF Has, Precedes
    <3>3. CASE t # s
      BY <1>1, <1>2, <2>1, <3>3 DEF InFlight, OnWire, Has
    <3> QED BY <3>2, <3>3
  <2>2. \A c \in Conns : \A i \in DOMAIN wire[c] : wire[c][i].n <= pushed'
    BY <1>1, WireTyped DEF InFlight, OnWire
  <2> QED BY <1>1, <2>1, <2>2 DEF InFlight, OnWire, Precedes
<1> QED BY <1>5, <1>6, <1>7 DEF InFlight

\* The packets underway stay in their order, whatever step is taken.
LEMMA InFlightInductive ==
  ASSUME Typed, Typed', InHandler, Registered, InFlight, [Next]_vars
  PROVE  InFlight'
<1> USE DEF server, media, rtsp, rtpc, loop, Free
<1>h. ASSUME UNCHANGED <<pushing, pushed, joined>> PROVE Steady
  BY <1>h DEF Steady, HandsShrink
<1>0. ASSUME UNCHANGED <<pushing, pushed, joined, queue, wire>> PROVE InFlight'
  BY <1>0, <1>h, InFlightKept
<1>1. ASSUME NEW c \in Conns, Request(c) PROVE InFlight'
  <2>1. CASE Quiet(c)
    BY <1>0, <2>1, QuietFrame
  <2>2. CASE Connect(c) \/ \E s \in Sessions : Describe(c, s)
    BY <1>0, <2>2 DEF Connect, Describe
  <2>3. CASE Close(c)
    <3>1. UNCHANGED <<pushing, pushed, joined, wire>>
      BY <2>3 DEF Close
    <3>2. CASE UNCHANGED queue
      BY <1>0, <3>1, <3>2
    <3>3. CASE queue' = Post([op |-> "remove", conn |-> c])
      <4>1. [op |-> "remove", conn |-> c] \in Removal
        BY DEF Removal
      <4> QED BY <1>h, <3>1, <3>3, <4>1, InFlightRemoval
    <3> QED BY <2>3, <3>2, <3>3 DEF Close, PostRemoval
  <2> QED BY <1>1, <2>1, <2>2, <2>3 DEF Request, Quiet
<1>2. ASSUME NEW c \in Conns, RemoveLate(c) \/ RtcpTimer(c) PROVE InFlight'
  BY <1>0, <1>2 DEF RemoveLate, RtcpTimer
<1>3. CASE AddClient
  <2>1. Steady /\ UNCHANGED <<queue, wire>>
    BY <1>3, AddClientEffect DEF AddClient, Steady, HandsShrink
  <2> QED BY <2>1, InFlightKept
<1>4. CASE RemoveClient
  <2>1. [op |-> "remove", conn |-> step.conn] \in Removal
    BY <1>4, StepTyped DEF Removal, RemoveClient
  <2>2. UNCHANGED <<pushing, pushed, joined, wire>> /\ queue' = Post([op |-> "remove", conn |-> step.conn])
    BY <1>4 DEF RemoveClient, PostRemoval
  <2> QED BY <1>h, <2>1, <2>2, InFlightRemoval
<1>5. CASE RemoveConnection
  <2>1. UNCHANGED <<pushing, pushed, joined, wire>> /\ queue # <<>> /\ queue' = Tail(queue)
    BY <1>5 DEF RemoveConnection
  <2> QED BY <1>h, <2>1, InFlightTake
<1>6. CASE RunPacket
  <2>1. UNCHANGED <<pushing, pushed, joined>> /\ queue # <<>> /\ queue' = Tail(queue)
    BY <1>6 DEF RunPacket
  <2>2. Head(queue) \in PacketEvent
    BY <1>6, TakeEvent, EventTyped DEF RunPacket
  <2>3. CASE UNCHANGED wire
    BY <1>h, <2>1, <2>3, InFlightTake
  <2>4. CASE SendPacket(Head(queue)) /\ Sending(Head(queue).conn)
    <3> DEFINE e == Head(queue)
    <3>0. PICK queued \in Queued(e.conn) :
            wire' = [wire EXCEPT ![e.conn] = Append(wire[e.conn],
              [chn |-> e.pkt.chn, seq |-> seq[e.conn][e.pkt.chn],
               session |-> e.pkt.session, n |-> e.pkt.n, queued |-> queued])]
      BY <2>4 DEF SendPacket
    <3> DEFINE x == [chn |-> e.pkt.chn, seq |-> seq[e.conn][e.pkt.chn], session |-> e.pkt.session, n |-> e.pkt.n,
                     queued |-> queued]
    <3>1. x \in Sent /\ x.session = e.pkt.session /\ x.n = e.pkt.n
      <4>1. queued \in BOOLEAN
        BY DEF Queued
      <4> QED BY SMTT(30), <2>2, <4>1, PacketTyped DEF Sent, Packet, Typed
    <3>2. wire' = [wire EXCEPT ![e.conn] = Append(wire[e.conn], x)]
      BY <3>0
    <3> HIDE DEF x
    <3> QED BY <1>h, <2>1, <2>2, <3>1, <3>2, InFlightTake
  <2> QED BY <1>6, <2>3, <2>4 DEF RunPacket, SendFails, SkipPacket, SendPacket
<1>7. CASE NextPhase \/ UNCHANGED vars
  BY <1>0, <1>7 DEF NextPhase, vars
<1>8. ASSUME NEW s \in Sessions, RemoveSession(s) PROVE InFlight'
  BY <1>0, <1>8 DEF RemoveSession
<1>9. ASSUME NEW s \in Sessions, MediaThread(s) PROVE InFlight'
  <2>1. ASSUME NEW h \in Channels, NEW k \in Kinds, PushFrame(s, h, k) PROVE InFlight'
    BY <2>1, InFlightPush
  <2>2. ASSUME NEW c \in Conns, SendRtpPacket(s, c) PROVE InFlight'
    <3>1. pushing[s] \in Sends /\ c \in pushing[s].todo
      BY <2>2, PushingTyped DEF SendRtpPacket
    <3>2. \/ pushing'[s] = Done(pushing[s], c)
          \/ pushing'[s].op = "post" /\ pushing'[s].todo = pushing[s].todo /\ pushing'[s].pkt = pushing[s].pkt
      BY <2>2 DEF SendRtpPacket, Typed
    <3>3. UNCHANGED <<pushed, joined, queue, wire>> /\ \A t \in Sessions \ {s} : pushing'[t] = pushing[t]
      BY <2>2 DEF SendRtpPacket, Typed
    <3>4. pushing[s].op # "idle"
      BY <2>2 DEF SendRtpPacket
    <3>5. Steady
      BY <3>1, <3>2, <3>3, <3>4, DoneTyped DEF Steady, HandsShrink
    <3> QED BY <3>3, <3>5, InFlightKept
  <2>3. CASE PostPacket(s)
    <3> SUFFICES ASSUME NEW c \in Conns, c = pushing[s].conn PROVE InFlight'
      BY <2>3, PushingTyped DEF PostPacket, Posts
    <3> DEFINE e == [op |-> "packet", conn |-> c, pkt |-> pushing[s].pkt, open |-> life[c] = "open"]
    <3>1. pushing[s] \in Posts /\ c \in pushing[s].todo /\ pushing[s].op # "idle"
      BY <2>3, PushingTyped DEF PostPacket
    <3>2. queue' = Post(e) /\ UNCHANGED <<pushed, joined, wire>>
      BY <2>3 DEF PostPacket
    <3>3. pushing'[s] = Done(pushing[s], c) /\ \A t \in Sessions \ {s} : pushing'[t] = pushing[t]
      BY <2>3 DEF PostPacket, Typed
    <3>4. Steady
      BY <3>1, <3>2, <3>3, DoneTyped DEF Steady, HandsShrink
    <3>5. Has(s, c) /\ ~Has(s, c)'
      BY <3>1, <3>3, DoneTyped DEF Has
    <3>6. e \in PacketEvent /\ e.conn = c /\ e.pkt = pushing[s].pkt
      BY <3>1 DEF Posts, PacketEvent
    <3> HIDE DEF e
    <3> QED BY <3>2, <3>3, <3>4, <3>5, <3>6, InFlightPost
  <2> QED BY <1>9, <2>1, <2>2, <2>3 DEF MediaThread
<1> QED BY <1>1, <1>2, <1>3, <1>4, <1>5, <1>6, <1>7, <1>8, <1>9 DEF Next, Scheduler

-----------------------------------------------------------------------------
(* The sequence numbers.                                                   *)

\* A remainder is the only one.
LEMMA RemainderUnique ==
  ASSUME NEW M \in Nat \ {0}, NEW q \in Int, NEW r \in 0 .. M - 1, NEW x \in Nat, x = M * q + r
  PROVE  x % M = r
<1> DEFINE k == x \div M
           t == x % M
<1>1. t \in 0 .. M - 1 /\ k \in Int /\ x = M * k + t
  OBVIOUS
<1> HIDE DEF t, k
<1>2. M * (k - q) = r - t
  BY <1>1
<1>3. ASSUME NEW d \in Int, d >= 1 PROVE M * d >= M
  BY <1>3
<1>4. ~(k - q >= 1)
  <2> DEFINE d == k - q
  <2>1. d \in Int /\ M * d = r - t
    BY <1>1, <1>2
  <2> HIDE DEF d
  <2>2. ~(d >= 1)
    BY <1>1, <1>3, <2>1
  <2> QED BY <2>2 DEF d
<1>5. ~(q - k >= 1)
  <2> DEFINE d == q - k
  <2>1. d \in Int /\ M * d = t - r
    BY <1>1, <1>2
  <2> HIDE DEF d
  <2>2. ~(d >= 1)
    BY <1>1, <1>3, <2>1
  <2> QED BY <2>2 DEF d
<1>6. k = q
  BY <1>1, <1>4, <1>5
<1>7. t = r
  BY <1>1, <1>6
<1> QED BY <1>7 DEF t

\* Counting on modulo M.
LEMMA ModNext ==
  ASSUME NEW M \in Nat \ {0}, NEW a \in Nat
  PROVE  ((a % M) + 1) % M = (a + 1) % M
<1> DEFINE r == a % M
           q == a \div M
<1>1. r \in 0 .. M - 1 /\ q \in Int /\ a = M * q + r
  OBVIOUS
<1> HIDE DEF r, q
<1>2. CASE r + 1 < M
  <2>1. a + 1 = M * q + (r + 1) /\ r + 1 \in 0 .. M - 1
    BY <1>1, <1>2
  <2>2. (a + 1) % M = r + 1
    BY <1>1, <2>1, RemainderUnique
  <2>3. (r + 1) % M = r + 1
    BY <1>1, <1>2
  <2> QED BY <2>2, <2>3 DEF r
<1>3. CASE r + 1 = M
  <2>1. a + 1 = M * (q + 1) + 0
    BY <1>1, <1>3
  <2>2. (a + 1) % M = 0
    BY <1>1, <2>1, RemainderUnique
  <2>3. (r + 1) % M = 0
    BY <1>3
  <2> QED BY <2>2, <2>3 DEF r
<1> QED BY <1>1, <1>2, <1>3

\* The channel and the number of a packet sent.
LEMMA SentTyped ==
  ASSUME NEW x \in Sent
  PROVE  x.chn \in Channels /\ x.seq \in Nat
BY RtspAssumption DEF Sent

\* One more packet goes out: the channel counts it, and those before see it.
LEMMA OneMoreSent ==
  ASSUME NEW v \in Seq(Sent), NEW next \in [Channels -> 0 .. SeqMod - 1],
         NEW h \in Channels, NEW x \in Sent, x.chn = h, x.seq = next[h], NoGap(v, next)
  PROVE  NoGap(Append(v, x), [next EXCEPT ![h] = (next[h] + 1) % SeqMod])
<1> DEFINE w == Append(v, x)
           n == Len(v) + 1
           q == [next EXCEPT ![h] = (next[h] + 1) % SeqMod]
<1>0. SeqMod \in Nat \ {0}
  BY RtspAssumption
<1>1. Len(v) \in Nat /\ \A i \in 1 .. Len(v) : v[i] \in Sent
  BY LenProperties, ElementOfSeq
<1>2. w \in Seq(Sent) /\ Len(w) = n /\ \A i \in 1 .. Len(v) : w[i] = v[i]
  BY <1>1, AppendProperties
<1>3. w[n] = x
  BY <1>1, AppendProperties
<1>4. /\ next[h] \in Nat /\ q[h] = (next[h] + 1) % SeqMod
      /\ \A g \in Channels \ {h} : q[g] = next[g]
  BY <1>0
<1> HIDE DEF w, q
<1>5. ASSUME NEW i \in 1 .. Len(v)
      PROVE  q[w[i].chn] = (w[i].seq + 1 + Cardinality(After(w, w[i].chn, i))) % SeqMod
  <2> DEFINE g == v[i].chn
             A == After(v, g, i)
             B == After(w, g, i)
             m == v[i].seq
  <2>1. w[i] = v[i] /\ g \in Channels /\ m \in Nat
    <3>1. w[i] = v[i] /\ v[i] \in Sent
      BY <1>1, <1>2
    <3> QED BY <3>1, SentTyped
  <2>2. next[g] = (m + 1 + Cardinality(A)) % SeqMod
    BY DEF NoGap
  <2>3. IsFiniteSet(A) /\ Cardinality(A) \in Nat
    <3>1. A \subseteq i + 1 .. Len(v) /\ i + 1 \in Int /\ Len(v) \in Int
      BY <1>1 DEF After
    <3>2. IsFiniteSet(i + 1 .. Len(v))
      BY <3>1, FS_Interval
    <3>3. IsFiniteSet(A)
      BY <3>1, <3>2, FS_Subset
    <3> QED BY <3>3, FS_CardinalityType
  <2>4. CASE g = h
    <3>1. B = A \cup {n} /\ n \notin A
      BY SMTT(30), <1>1, <1>2, <1>3, <2>4 DEF After
    <3> HIDE DEF A, B
    <3>2. Cardinality(B) = Cardinality(A) + 1
      BY <2>3, <3>1, OneMore
    <3> DEFINE a == m + 1 + Cardinality(A)
    <3>3. a \in Nat /\ m + 1 + Cardinality(B) = a + 1
      <4>1. \A j, k \in Nat : j + 1 + k \in Nat /\ j + 1 + (k + 1) = (j + 1 + k) + 1
        OBVIOUS
      <4> HIDE DEF m
      <4> QED BY <2>1, <2>3, <3>2, <4>1
    <3>4. next[h] = a % SeqMod
      BY <2>2, <2>4
    <3> HIDE DEF a
    <3>5. q[h] = (a + 1) % SeqMod
      BY <1>0, <1>4, <3>3, <3>4, ModNext
    <3> QED BY <2>1, <2>4, <3>3, <3>5 DEF B
  <2>5. CASE g # h
    <3>1. B = A
      BY <1>1, <1>2, <1>3, <2>5 DEF After
    <3> QED BY <1>4, <2>1, <2>2, <2>5, <3>1
  <2> QED BY <2>4, <2>5
<1>6. q[w[n].chn] = (w[n].seq + 1 + Cardinality(After(w, w[n].chn, n))) % SeqMod
  <2>1. After(w, w[n].chn, n) = {}
    BY <1>1, <1>2 DEF After
  <2>2. w[n].seq + 1 + Cardinality(After(w, w[n].chn, n)) = next[h] + 1
    <3>1. Cardinality(After(w, w[n].chn, n)) = 0
      BY <2>1, FS_EmptySet
    <3>2. w[n].seq = next[h]
      BY <1>3
    <3> QED BY <1>4, <3>1, <3>2
  <2> QED BY <1>3, <1>4, <2>2
<1>7. \A i \in 1 .. Len(w) : i \in 1 .. Len(v) \/ i = n
  BY <1>1, <1>2
<1>8. NoGap(w, q)
  BY <1>5, <1>6, <1>7 DEF NoGap
<1> QED BY <1>8 DEF w, q

\* The next number follows those on the wire, whatever step is taken.
LEMMA WireGaplessInductive ==
  ASSUME Typed, Described, InFlight, WireGapless, [Next]_vars
  PROVE  WireGapless'
<1> USE DEF server, media, rtsp, rtpc, loop, Free
<1>0. ASSUME UNCHANGED <<wire, seq>>,
             \A c \in Conns : \/ (Sending(c) /\ ~tornDown[c])' => Sending(c) /\ ~tornDown[c]
                              \/ Len(wire[c]) = 0
      PROVE  WireGapless'
  <2>1. \A c \in Conns : Len(wire[c]) = 0 => NoGap(wire[c], seq[c])
    BY DEF NoGap
  <2> QED BY <1>0, <2>1 DEF WireGapless
<1>1. ASSUME UNCHANGED <<wire, seq, life, mode, tornDown>> PROVE WireGapless'
  BY <1>0, <1>1 DEF Sending
<1>2. ASSUME NEW c \in Conns, TeardownRtp(c), UNCHANGED <<wire, seq, life, mode>> PROVE WireGapless'
  BY ZenonT(30), <1>0, <1>2 DEF TeardownRtp, Sending, Typed
<1>3. ASSUME NEW c \in Conns, Request(c) PROVE WireGapless'
  <2>1. CASE Connect(c)
    <3>1. \A s \in Sessions : c \notin joined[s]
      BY <2>1 DEF Connect, Described
    <3>2. Len(wire[c]) = 0
      <4>1. wire[c] \in Seq(Sent) /\ Len(wire[c]) \in Nat
        BY LenProperties DEF Typed
      <4>2. ~(1 \in DOMAIN wire[c])
        BY <3>1, WireTyped DEF InFlight, OnWire
      <4> QED BY <4>1, <4>2, LenProperties
    <3>3. UNCHANGED <<wire, seq, mode, tornDown>> /\ \A d \in Conns \ {c} : life'[d] = life[d]
      BY <2>1 DEF Connect, Typed
    <3> QED BY <1>0, <3>2, <3>3 DEF Sending
  <2>2. ASSUME NEW h \in Channels, NEW m \in Modes, Setup(c, h, m) PROVE WireGapless'
    <3>1. UNCHANGED <<wire, seq, life, tornDown>> /\ life[c] = "open"
      BY <2>2 DEF Setup, Authenticated
    <3>2. \A d \in Conns \ {c} : mode'[d] = mode[d]
      BY <2>2 DEF Setup, SetupRtp, SetupRtpOverUdp, Typed
    <3> QED BY <1>0, <3>1, <3>2 DEF Sending
  <2>3. CASE Teardown(c)
    BY <1>2, <2>3 DEF Teardown
  <2>4. CASE Close(c)
    <3>1. UNCHANGED <<wire, seq, mode, tornDown>> /\ life[c] = "open"
      BY <2>4 DEF Close
    <3>2. \A d \in Conns \ {c} : life'[d] = life[d]
      BY <2>4 DEF Close, Typed
    <3> QED BY <1>0, <3>1, <3>2 DEF Sending
  <2>5. CASE Unauthorized(c) \/ Play(c) \/ \E s \in Sessions : Describe(c, s)
    BY <1>1, <2>5 DEF Unauthorized, Play, Describe
  <2> QED BY <1>3, <2>1, <2>2, <2>3, <2>4, <2>5 DEF Request
<1>4. ASSUME NEW c \in Conns, Forget(c), UNCHANGED <<wire, seq, mode, tornDown>> PROVE WireGapless'
  BY <1>0, <1>4 DEF Forget, Sending, Typed
<1>5. ASSUME NEW c \in Conns, RemoveLate(c) PROVE WireGapless'
  BY <1>4, <1>5 DEF RemoveLate
<1>6. CASE RemoveConnection
  BY <1>4, <1>6, TakeEvent, EventTyped DEF RemoveConnection
<1>7. CASE RunPacket
  <2> SUFFICES ASSUME NEW e \in PacketEvent, e = Head(queue) PROVE WireGapless'
    BY <1>7, TakeEvent, EventTyped DEF RunPacket
  <2> DEFINE c == e.conn
             h == e.pkt.chn
  <2>1. c \in Conns /\ h \in Channels
    BY PacketTyped DEF Packet
  <2>2. UNCHANGED <<life, mode>>
    BY <1>7 DEF RunPacket
  <2>3. CASE UNCHANGED <<wire, seq, tornDown>>
    BY <1>1, <2>2, <2>3
  <2>4. CASE SendFails(e)
    <3>1. UNCHANGED wire /\ \A d \in Conns \ {c} : seq'[d] = seq[d] /\ tornDown'[d] = tornDown[d]
      BY ZenonT(30), <2>1, <2>4 DEF SendFails, NextSeq, TeardownRtp, Typed
    <3>2. tornDown'[c] = TRUE
      BY <2>1, <2>4 DEF SendFails, TeardownRtp, Typed
    <3> HIDE DEF c
    <3> QED BY <2>2, <3>1, <3>2 DEF WireGapless, Sending
  <2>5. CASE SendPacket(e) /\ UNCHANGED tornDown
    <3>0. PICK queued \in Queued(c) :
            Sending(c) => wire' = [wire EXCEPT ![c] = Append(wire[c],
              [chn |-> h, seq |-> seq[c][h], session |-> e.pkt.session, n |-> e.pkt.n, queued |-> queued])]
      BY <2>5 DEF SendPacket, Queued
    <3> DEFINE x == [chn |-> h, seq |-> seq[c][h], session |-> e.pkt.session, n |-> e.pkt.n, queued |-> queued]
    <3>1. x \in Sent /\ x.chn = h /\ x.seq = seq[c][h]
      <4>1. queued \in BOOLEAN
        BY DEF Queued
      <4> QED BY <2>1, <4>1, PacketTyped DEF Sent, Typed
    <3>2. seq' = [seq EXCEPT ![c][h] = (seq[c][h] + 1) % SeqMod]
      BY <2>1, <2>5 DEF SendPacket, NextSeq, Typed
    <3>3. wire' = IF Sending(c) THEN [wire EXCEPT ![c] = Append(wire[c], x)] ELSE wire
      BY <2>5, <3>0 DEF SendPacket
    <3> HIDE DEF x, c, h
    <3>4. \A d \in Conns : Sending(d)' = Sending(d) /\ tornDown'[d] = tornDown[d]
      BY <2>2, <2>5 DEF Sending
    <3>5. \A d \in Conns \ {c} : seq'[d] = seq[d] /\ wire'[d] = wire[d]
      BY <2>1, <3>2, <3>3 DEF Typed
    <3>6. ASSUME NEW d \in Conns, Sending(d)', ~tornDown'[d] PROVE NoGap(wire'[d], seq'[d])
      <4>1. Sending(d) /\ NoGap(wire[d], seq[d])
        BY <3>4, <3>6 DEF WireGapless
      <4>2. CASE d = c
        <5>1. wire'[d] = Append(wire[d], x) /\ seq'[d] = [seq[d] EXCEPT ![h] = (seq[d][h] + 1) % SeqMod]
          BY <2>1, <3>2, <3>3, <4>1, <4>2 DEF Typed
        <5>2. wire[d] \in Seq(Sent) /\ seq[d] \in [Channels -> 0 .. SeqMod - 1]
          BY DEF Typed
        <5>3. x.seq = seq[d][h] /\ x.chn = h /\ x \in Sent
          BY <3>1, <4>2
        <5>4. NoGap(Append(wire[d], x), [seq[d] EXCEPT ![h] = (seq[d][h] + 1) % SeqMod])
          BY <2>1, <4>1, <5>2, <5>3, OneMoreSent DEF h
        <5> QED BY <5>1, <5>4
      <4>3. CASE d # c
        BY <3>5, <4>1, <4>3
      <4> QED BY <4>2, <4>3
    <3> QED BY <3>6 DEF WireGapless
  <2> QED BY <1>7, <2>3, <2>4, <2>5 DEF RunPacket, SkipPacket
<1>8. ASSUME NEW c \in Conns, RtcpTimer(c) PROVE WireGapless'
  BY <1>1, <1>8 DEF RtcpTimer
<1>9. CASE AddClient \/ RemoveClient \/ NextPhase \/ UNCHANGED vars
  BY <1>1, <1>9 DEF AddClient, RemoveClient, NextPhase, vars
<1>10. ASSUME NEW s \in Sessions, MediaThread(s) \/ RemoveSession(s) PROVE WireGapless'
  BY <1>1, <1>10, MediaFrame
<1> QED BY <1>3, <1>5, <1>6, <1>7, <1>8, <1>9, <1>10 DEF Next, Scheduler

-----------------------------------------------------------------------------
(* The theorems.                                                           *)

\* Each part is kept with the help of the others.
LEMMA IInvInductive == IInv /\ [Next]_vars => IInv'
<1> SUFFICES ASSUME IInv, [Next]_vars PROVE IInv'
  OBVIOUS
<1>1. Typed'
  BY TypedInductive DEF IInv
<1>2. InHandler' /\ Described' /\ Registered' /\ EventsInOrder' /\ OneTimer'
  BY InHandlerInductive, DescribedInductive, RegisteredInductive, EventsInOrderInductive,
     OneTimerInductive DEF IInv
<1>3. Counted' /\ InFlight' /\ WireGapless'
  BY <1>1, CountedInductive, InFlightInductive, WireGaplessInductive DEF IInv
<1> QED BY <1>1, <1>2, <1>3 DEF IInv

\* The inductive invariant holds in every state of every behaviour.
THEOREM RtspInvariant == Spec => []IInv
BY InitIInv, IInvInductive, PTL DEF Spec

\* Every variable keeps its type and the trigger events stay within the ring,
\* whatever its size.
THEOREM RtspTypeOK == Spec => []TypeOK
<1>1. IInv => TypeOK
  BY TypedTypeOK DEF IInv
<1> QED BY <1>1, RtspInvariant, PTL

\* A packet posted while the connection was open runs on an RtpConnection that
\* lives, and rtcp_timer_id_ can stop the only timer there is.
THEOREM RtspRawThisValid == Spec => []RawThisValid
<1>1. IInv => RawThisValid
  <2> SUFFICES ASSUME IInv PROVE RawThisValid
    OBVIOUS
  <2>1. ASSUME NEW i \in 1 .. Len(queue), queue[i].op = "packet", queue[i].open
        PROVE  RtpAlive(queue[i].conn)
    <3> DEFINE c == queue[i].conn
    <3>1. i \in DOMAIN queue /\ queue[i] \in PacketEvent /\ c \in Conns
      BY <2>1, ElementOfSeq, LenProperties, EventTyped DEF IInv, Typed
    <3>2. InUse(c)
      BY <2>1, <3>1 DEF IInv, EventsInOrder, OpenPacket
    <3>3. rtp[c]
      BY <3>1, PacketTyped DEF IInv, Described, InFlight, InQueue
    <3> QED BY <3>2, <3>3 DEF RtpAlive, Alive, InUse
  <2>2. \A c \in Conns : RtpAlive(c) => timers[c] <= (IF timerId[c] THEN 1 ELSE 0)
    BY DEF IInv, OneTimer
  <2> QED BY <2>1, <2>2 DEF RawThisValid
<1> QED BY <1>1, RtspInvariant, PTL

\* The count of a session in the server is that of its clients, up to those
\* that have described another stream.
THEOREM RtspCountBounds == Spec => []CountBounds
<1>1. IInv => CountBounds
  <2> SUFFICES ASSUME IInv, NEW s \in sessions
               PROVE  /\ count[s] >= Cardinality({c \in joined[s] : ~Left(c)})
                      /\ count[s] <= Cardinality({c \in joined[s] : ~Left(c) \/ sessionId[c] # s})
    BY DEF CountBounds
  <2> DEFINE Staying == {c \in joined[s] : ~Left(c)}
  <2>1. s \in Sessions /\ count[s] \in Int /\ Typed
    BY DEF IInv, Typed
  <2>2. IsFiniteSet(Present(s)) /\ Cardinality(Present(s)) \in Nat
    BY <2>1, CountedSets
  <2>3. Staying \subseteq Present(s)
    BY DEF Present
  <2>4. Cardinality(Staying) <= Cardinality(Present(s)) /\ Cardinality(Staying) \in Nat
    BY <2>2, <2>3, FS_Subset, FS_CardinalityType
  <2>5. Cardinality(Present(s)) <= count[s] /\ count[s] <= Cardinality(Strayers(s))
    BY DEF IInv, Counted
  <2> HIDE DEF Staying
  <2>6. count[s] >= Cardinality(Staying)
    BY <2>1, <2>2, <2>4, <2>5
  <2> QED BY <2>5, <2>6 DEF Staying, Strayers
<1> QED BY <1>1, RtspInvariant, PTL

\* What a client is sent is in order, without a gap, and of its own streams.
THEOREM RtspWireRight == Spec => []WireRight
<1>1. IInv => WireRight
  <2> SUFFICES ASSUME IInv PROVE WireRight
    OBVIOUS
  <2>1. \A c \in Conns : DOMAIN wire[c] = 1 .. Len(wire[c])
    BY LenProperties DEF IInv, Typed
  <2>2. WireOrdered
    BY <2>1 DEF IInv, InFlight, OnWire, Precedes, WireOrdered
  <2>3. OwnStream
    BY <2>1, WireTyped DEF IInv, InFlight, OnWire, Described, OwnStream
  <2> QED BY <2>2, <2>3 DEF IInv, WireRight
<1> QED BY <1>1, RtspInvariant, PTL

=============================================================================
