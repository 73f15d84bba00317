# StreamSight in TLA+

StreamSight takes a video input, decodes it, runs AI effects on the frames,
encodes them again and serves the result over RTSP. The modules here model it
from the socket to the frame: the event loop and its timers, the life of a
connection and the bytes on it, RTSP sessions and the packets they get, how a
frame is cut into packets, the rings between threads, the start, gating,
reconnecting and stopping of a streaming session in its two modes, the HTTP API
with the face library, and the latency tracer. TLC checks each module on a small
instance; `*Proofs.tla` hold theorems for every instance.

Paths below are relative to the repository's `src/` unless they start with
`docs/`, `tests/` or name a Markdown file.

    tlc -workers 2 -config SpscRing.cfg SpscRing.tla      # one run
    tlapm TriggerEventsProofs.tla                         # one proof module

## 1. Inventory

| Component | State it keeps | Operations | Interacts through | Hard because | Correct when |
|---|---|---|---|---|---|
| `net/RingBuffer.h` | `buffer_`, `put_pos_`, `get_pos_`, `num_datas_`, `overwrite_mutex_` | Push, Pop, PushOverwrite, PushOrDrop, PruneStale | trigger events of a loop; frames between stages | Push/Pop without a lock; the dropping operations lock, Pop does not | FIFO, no slot shared, every frame accounted for |
| `net/TaskScheduler`, `EpollTaskScheduler`, `Pipe` | `trigger_events_`, `timer_queue_`, `wakeup_pipe_`, `is_shutdown_` | Start (the loop), AddTriggerEvent, AddTimer, Stop | callbacks posted from any thread, a byte in a pipe | the loop sleeps without a timeout | nothing posted is slept on; Stop ends the loop |
| `net/EventLoop` | the schedulers and their threads, `mutex_`, round-robin index | Loop, Quit, GetTaskScheduler, delegations | owns the TaskSchedulers | Quit joins while it holds `mutex_` | Quit returns |
| `net/Timer` (TimerQueue) | `timers_`, `events_`, `last_timer_id_` | AddTimer, RemoveTimer, HandleTimerEvent, GetTimeRemaining | loop thread and callers | callbacks run outside the lock | a removed timer does not fire again |
| `net/TcpServer`, `Acceptor`, `TcpConnection`, `Channel` | `connections_`, per connection `is_closed_`, callbacks, buffers | accept, Close, Disconnect, RemoveConnection, Stop | raw pointers in epoll, posted callbacks | accepted on one loop, served by another, stopped by a third thread | no event reaches a dead object; every connection leaves the map |
| `net/BufferReader`, `BufferWriter` | read/write indices, packet queue | Read, Append, Send | a TcpConnection | partial sends | bytes in order, none lost |
| `net/MemoryManager` | free lists per size | Alloc, Free | RTP packets | pool at its limit | a block is owned once |
| `rtsp/RtspServer`, `MediaSession` | suffix and id maps, `clients_`, notify callbacks | AddSession, Look, RemoveSession, PushFrame, AddClient, RemoveClient | session threads and connection loops | maps shared by loops and sessions | a removed session is not found; counts match clients |
| `rtsp/RtspConnection`, `RtpConnection`, RTCP | request state, `session_id_`, sequence numbers, RTCP timer | OPTIONS … TEARDOWN, Play, SendRtpPacket, OnClose | MediaSession, TaskScheduler | requests in any order, close at any time | one client per session per connection |
| `rtsp/RtspMessage`, `DigestAuthentication` | parser state | ParseRequest, Build… | RtspConnection | a request in pieces | same result whole or in pieces |
| `rtsp/*Source` | format parameters | HandleFrame | MediaSession | fragmentation boundaries | fragments reassemble to the frame |
| `rtsp/RtspPusher` | a connection | OpenUrl, PushFrame, Close | same RtspConnection | not reachable from `main` | – |
| `ffmpeg/StreamServer` | `event_loop_`, `rtsp_server_` | Start, Stop | owns the two | order of teardown | Stop returns, nothing is left |
| `ffmpeg/StreamSession` | `running_`, `stop_`, `client_count_`, `client_cv_`, `run_thread_` | Start, Stop, RunSerial, RunParallel, UpdateEffects, GetStatus | MediaSession callbacks, condition variable | three kinds of threads; notify without the mutex | gated by clients, Stop joins and unregisters |
| `ffmpeg/StreamPipeline` | `stop_`, three rings, counters | Start, Stop, three stage loops | rings, `stop_`, the session's condition variable | any stage's end stops the others | stages end, counters add up |
| `ffmpeg/FFmpegStreamer` | codec contexts | Open, ProcessNextFrame, Close | RunSerial | EOF and reconnect | Close after a failed Open is safe |
| `ffmpeg/*OutputAdapter`, `Pacer` | muxers, next deadline | Open, WritePacket, Close, Wait | encode stage, `*Source` | sizes and times they hand on | times increase, frames come back whole |
| `api/StreamApiServer` | `sessions_`, event history, `mutex_` | HTTP routes, Create/Register/RemoveSession, AddEvent | StreamSession | destroys a session under its mutex | registry and sessions agree, history bounded |
| `effect/*` | `plugins_` | AddPlugin, ProcessFrame, Clear | AI stage and HTTP threads | unlocked | no plugin used after it is cleared |
| `ai/FaceDatabase` | entries, file | Register, Remove, Save, Load | HTTP threads, plugin | rewritten in place, by every plugin's database on the same file; may crash half-way | what was acknowledged is in the file, unless a Save crashed, failed or was another plugin's |
| `ai/*` (inference) | models | Detect, Recognize, Analyze | plugin | numeric | – |
| `observe/LatencyTracer`, `EventBus`, `MetricsRegistry` | buffers, subscribers | LogEvent, Reset, Subscribe, Publish | everybody | writer thread, writes that fail or are partial; callbacks that unsubscribe | each event's line is written once, whole unless a write failed |
| `net` sockets, logger, `SelectTaskScheduler`; `main.cpp` | – | – | – | I/O, Windows, argument parsing | – |

`PROJECT.json` lists the same components with what is modelled of each, and the
hazards of the code line by line with the properties that cover them.

## 2. The modules

| Module | Models | One action is |
|---|---|---|
| `BoundedFifo` | what a ring promises: a bounded FIFO queue | one put or get |
| `SpscRing` | `RingBuffer` Push and Pop, as `trigger_events_` uses them | one access to `num_datas_`, a cursor or a slot |
| `DropRing` | `RingBuffer` between two pipeline stages: Push, PushOverwrite, PushOrDrop, PruneStale, Pop | the same; `overwrite_mutex_` explicit, `Advance(get_pos_)` a load and a store |
| `DropRingProofs` | theorems about `DropRing` | |
| `TaskScheduler` | one loop: `Start`, `AddTriggerEvent`, `AddTimer`, `Stop`, and `EventLoop::Quit`'s join | one access to the ring, the pipe, the mutex or `is_shutdown_` |
| `TriggerEvents` | `TaskScheduler` with `SpscRing` in the place of its queue: `trigger_events_->Push`, `Pop` and `Size` as the loop and `AddTriggerEvent` call them | one access to the ring, else as in `TaskScheduler` |
| `TriggerEventsProofs` | theorems about `SpscRing`, `TaskScheduler` and `TriggerEvents` | |
| `TcpServer` | accept, close, removal of connections; `StreamServer::Stop` from `TcpServer::Stop` to `EventLoop::Quit` | one lock-protected section, callback or handler |
| `TcpServerProofs` | theorems about `TcpServer` | |
| `RtspWire` | one connection's bytes: `BufferReader`, `RtspRequest`, `RtspConnection::OnRead`, `BufferWriter`, `HandleWrite`, `Disconnect` | one recv with what OnRead makes of it, one send, one step of Disconnect |
| `RtspWireProofs` | theorems about `RtspWire` | |
| `RtspSession` | `RtspConnection`'s handlers, `RtpConnection`, `MediaSession`, `RtspServer`'s registry, the RTCP timers | one handler, trigger event, timer, or step of a media thread |
| `RtspSessionProofs` | theorems about `RtspSession` | |
| `MediaSources` | `HandleFrame` of the five sources and what the adapters push | one RTP packet |
| `StreamSession` | `Start`, `Stop`, `RunSerial` and the clients' callbacks | one access to a variable shared between threads |
| `StreamSessionProofs` | theorems about `StreamSession` | |
| `StreamPipeline` | `RunParallel`, `StreamPipeline::Start`/`Stop` and the three stages | one call on a ring, of Pop and of a PushOrDrop that displaces a frame the begin or the end; one test of `stop_` |
| `StreamPipelineProofs` | theorems about `StreamPipeline` | |
| `FFmpegStreamer` | the streamer of a serial session: Open, ProcessNextFrame, Close, under `RunSerial` with its wait for clients (`Gate`) | one of these calls, one packet read |
| `LatencyTracer` | LogEvent, Reset, the routes over it, the writer thread, the destructor | one section under a mutex, one call of write, which may fail or be partial |
| `FaceDatabase` | the face libraries of main's plugin and of the other plugins, on one file: Register, Remove, Save and Load, crashes | one method; Save entry by entry |
| `ApiServer` | `main` from its session's registration to its end, the HTTP routes, `StreamSession::UpdateEffects` and destructor, the run threads with their wait for clients, the subscriber of the `EventBus`, the end of the servers | one section under a mutex or call that may wait |
| `Parts` | `FFmpegStreamer`, `LatencyTracer`, `FaceDatabase`, `MediaSources` and `ApiServer`, which share nothing in the models | one action of the part that `Init` chose |
| `PartsProofs` | theorems about `Parts`, with an invariant for each part | |

How they fit: `SpscRing` implements `BoundedFifo` (property `ImplementsFifo`, a
refinement with the slots from `get_pos_` on, less a value Pop has already moved out, as
the queue; also a theorem). `TaskScheduler` takes its ring as a sequence that Push and
Pop change in one step. `TriggerEvents` composes the two, one access to the ring at a
time, and implements `TaskScheduler` (property `ImplementsScheduler`; also a theorem),
with one difference in the mapping: who asks for the size still counts a callback that
Pop has moved out and not subtracted (`Queue`). It also shows what `SpscRing` takes for
granted, that the producers are one at a time (`OneProducer`). `TcpServer` and
`RtspSession` take from `TaskScheduler` that posted callbacks are run in order, one
after another. `RtspSession` takes from `RtspWire` that requests are answered whole and
in order, and from `TcpServer` that a connection is removed once, after its closing; it
gives `StreamSession` the callbacks at which clients are counted. `MediaSources` is what
a media thread of `RtspSession` does before it pushes a packet: there a packet is only a
key frame or not. `StreamPipeline` takes Pop, and a PushOrDrop that displaces a frame,
as two steps each, and leaves open what a ring holds on which two of them have
overlapped; the single accesses inside the calls are the subject of `DropRing`.
`StreamSession` and `StreamPipeline` are the two modes of one session; they share
`Start`, `Stop` and the wait for clients. `FFmpegStreamer` is what the run thread of the
serial mode does between two such waits. `ApiServer` takes sessions as wholes: what it
adds is who may destroy them, and their plugins, while somebody else uses them, and in
which order main takes down what they use.

`Parts` is a sum, not a composition: its parts share no variable, so that one
behaviour runs one of them and a property of a part means what it would mean
alone. They share a run because each is small.

### Correspondence worth knowing

* **SpscRing.** `buffer`, `putPos`, `getPos`, `num` are the four members; `ppc`
  and `gpc` are where Push and Pop are. The atomics are read and written in
  program order, as `memory_order_seq_cst` on `num_datas_` gives it.
* **DropRing.** A frame is its index, which is also its capture time. A slot
  moved out of holds `NoFrame` (the `shared_ptr` is null, and the encoder would
  dereference it, `ffmpeg/StreamPipeline.cpp:687`). `backpressure` is chosen in
  `Init`. `raced` remembers that a Pop overlapped a displacement: what is said of
  cursors and slots is said of behaviours without one (see "Met on the way"),
  while the balance of the counters holds in all.
* **TaskScheduler, TriggerEvents.** `pipe` stands for "at least one byte"; `Wake` reads
  ten at a time, and a byte left over only wakes the loop again. Timers are a number.
  `loop` follows `Start`: test, HandleTriggerEvent (pop, more), HandleTimers,
  GetTimeRemaining, epoll_wait. In `TriggerEvents` a callback is known by the thread
  that posts it, so the values of the ring are the threads; the steps of `TaskScheduler`
  that do not touch the ring are taken from it as they are.
* **TcpServer.** A connection's life is that of a `shared_ptr`: in `connections`,
  in the acceptor's callback, or in a posted Close. `channels`, `batch` and
  `handling` are the raw pointers. `hooked` is `disconnect_cb_`. `ownLoop` is
  whether connections have a loop other than the acceptor's. When the trigger
  events are full, `Close` falls back on a timer (`TcpServer.cpp:24-32`), or the
  removal is dropped because AddTriggerEvent returned true for a callback that
  Push refused (`TaskScheduler.cpp:77-82`); `MayBeFull` lets both happen at any
  time. `missed` and `lost` remember which closed connections have no removal, and
  why. `Destroy` is `rtsp_server_.reset()` (`ffmpeg/StreamServer.cpp:49`), which
  destroys the map with what an accept in progress has added to it; `overtaken`
  remembers that TcpServer::Stop returned during an accept, after which the
  acceptor's callback goes on with a destroyed server (`Gone`).
* **StreamSession.** `client_mutex_` is not modelled because nobody but the waiter takes
  it: the notifying side does not, and so it excludes nobody. What is left of
  `condition_variable::wait` is that the test and the blocking are two steps (`wait`,
  `block`) and that a notification reaches only a `blocked` thread. `early` counts the
  clients that found the session before both callbacks were in place; `expired` are
  entries of `clients_` whose connection has gone without RemoveClient, after a second
  DESCRIBE, and which the next packet erases without a callback
  (`MediaSession.cpp:58-62`); `gone` counts the clients that went that way, `Live` are
  the others; `seen` remembers whether a client was there since the last frame.
* **StreamPipeline.** `RunParallel` always turns backpressure on, so frames
  enter by PushOrDrop. Whether the oldest frame is old enough, and where the
  cutoff of PruneStale falls, is free: time passes as it likes. The waits on
  `decode_cv_` and `process_cv_` time out after 100 ms and are a pause, no more.
  The audio ring is only empty or not, which is what the encode loop asks.
  PruneStale takes the places from the front to the first fresh frame, drops
  those without a keyframe and puts the keyframes behind the rest; `At` reads the
  frames at a set of places in their order. `raced` are the rings on which a Pop
  and a displacement have overlapped: such a ring has its length, which is
  `num_datas_`, and any frames (`Contents`).
  Clients are not counted here: the wait may find one or not, at any time.
  `stopAsked` is the session's `stop_`, `stop` the pipeline's.
* **RtspWire.** A line is two pieces, its text and its CRLF, an RTCP packet its head and
  its body; a recv brings any number of pieces, so every cut of the stream that the
  parser can tell apart occurs. `ready` is whether the derived constructor has set
  `read_cb_`; `clean` remembers that every recv so far brought one whole request, of the
  methods in `asked`. `rtpConn` is whether `rtp_conn_` has been made, by a DESCRIBE:
  without it PLAY, TEARDOWN and GET_PARAMETER return without an answer (`Answers`). RTCP
  comes after a first request and media after a first answer, since both belong to a
  stream that was set up. `MaxMessage` is `MAX_RTSP_MESSAGE_SIZE`.
* **RtspSession.** `queue` are the trigger events, `phase` the place of the loop
  in its round (triggers, timers, sockets). `pushing` is a media thread inside
  `PushFrame`: it takes the clients under `map_mutex_`, sends, and posts one event
  per client; a client that cannot be posted to loses the packet. `wire` is
  what was sent or, if the write queue was full, numbered and thrown away
  (`queued` is FALSE; `BufferWriter.cpp:53, 67`). `joined` and
  `late` are history: who was added to a session and has not left it by
  RemoveClient, and events posted when their connection had been closed.
* **MediaSources.** Sizes are those of the code, in bytes; a payload is the
  interval of the frame it copies. `Depacketize` is a receiver that knows the
  payload formats, written from what the packets say and not from the loops that
  cut them; `received` is the history of what it has made of the packets so far.
* **FFmpegStreamer.** `heap` counts what is allocated of each kind and `held` is
  what a pointer names: Open overwrites pointers and so can lose one. `packet` is
  the `AVPacket` of ReadAndDecode, which may have been freed (`ReadIntoNull`).
* **LatencyTracer.** An event is its number, which stands for its duration too;
  `log` counts the results of the calls of write for it: a part of the text, the
  rest of it, a failure after which the text is given up (`LatencyTracer.cpp:328`),
  and the newline, which is written whatever came of the text and may fail too. A
  text takes two calls at most. `since` is the
  history the ring and the statistics are compared with. `Sorted` is what
  `std::sort` promises: the durations in some order that is one.
* **FaceDatabase.** A face is its name and a library a set of names. `file` is
  what Load would find after a crash now: Save truncates the file and writes entry
  by entry. Each plugin has a database of its own on the same file: `entries`,
  `saving` and `left` are per database, `Others` are the plugins besides main's,
  which load the file when they are opened and save what they have loaded when
  they are closed (`FaceRecognitionPlugin.cpp:74`). Where two Saves overlap in the
  file each may overwrite what the other has written (`Kept`). `authors` are those
  whose Saves the file is made of; `MainsFile` says that it is main's alone, and
  whole. `acked` are the faces a client was told are in the library.
* **ApiServer.** `chain` is the effect chain of a session, `plugin` the face
  plugin it has last made, `apiPlugin` and `mainPlugin` whose components the API
  and main hold. `mutex` is the API server's; what holds it while it joins a run
  thread is `RemoveSession`. A run thread waits for clients (`gate`, `block`,
  `sleep`), goes through its chain and publishes, if it is main's, and pushes the
  frame through `rtsp_server_`; `missed` are those that Stop's notify_all did not
  reach. `stopSeen` is whether `svr.stop()` found the server listening.
  `server.Stop` returns, and the servers are gone (`ServersGone`), or it waits for
  ever (`stuck`), as `server_stop_claim` shows that it may.

### Left out inside the modelled parts

`PeekOldest` (no caller), statistics of the loop, logging, pacing,
`backpressure_events_` and the peak fills, whether the AI callback is skipped
(it changes no control state); of RTSP what headers contain and answers say,
multicast (no caller starts it), the pusher's side of `RtspConnection`, RTCP over
UDP (read and thrown away) and the contents of sender reports; of the API the
routes that only list, and the text of every answer; of `TimerQueue` its two
maps: no caller removes a timer whose callback is running and asks to be
repeated.

## 3. The runs

The configuration switches of the code (gating, reconnecting, backpressure,
own loop) are variables fixed in `Init`, so that one run covers all of them.

| Run | Bounds | Shows |
|---|---|---|
| `spsc_ring` | 3 slots, 3 values | no slot is accessed by both threads, FIFO (that cursors and count agree is a theorem; the types of the ring are part of `TypesOK` in `scheduler`) |
| `drop_ring` | 3 slots, 6 frames, keyframes 1, 2, 5 | every frame is accounted for; without an overlap of Pop and a displacement cursors and slots agree with the count; PruneStale keeps keyframes |
| `scheduler` | the loop with its ring: 2 threads of 2 calls, ring of 2 | it implements the scheduler with a queue; no lost wakeup, one producer, callbacks run, Stop ends a started loop |
| `server` | 2 connections, trigger events full or not | unless TcpServer::Stop returns during an accept: no event to a dead connection; one removal (`RemovalsOutstanding`), after the closing (`LeavesClosed`), carried out (`RemovalsHappen`) |
| `session` | 2 clients, 2 reconnect attempts, 1 early client, 1 that goes without its callback | exact count, gating, Stop quiesces, reconnecting ends |
| `pipeline` | rings of 2, 3 frames, keyframe 1 | counters add up whatever overlaps, order until a keyframe is moved or a Pop overlaps a displacement, the end of the input ends all stages |
| `rtsp_session` | 2 connections, 2 sockets, 2 sessions, 1 channel over TCP or UDP, authentication, 2 trigger events, sequence numbers modulo 4, 2 pieces of work; connections, sockets and sessions symmetric | client counts within bounds, packets in order and of the client's own streams and, until a TEARDOWN or a failed send, without gaps but for packets refused by a full write queue, bare pointers valid |
| `rtsp_wire` | 2 requests of OPTIONS, DESCRIBE and PLAY, 1 RTCP packet, 8 pieces, a write queue of 1, 1 packet of media | requests answered in order, once; those that come whole are handled at once, and answered but for a PLAY before any DESCRIBE; messages leave whole, none stays behind |
| `parts` | see below | one property per part (`StreamerKeeps`, `TracerRight`, `FacesKept`, `FramesReassembled`, `PointersOutlive`) and for the last part `JoinedAreTold`: nobody waits in a circle |

The bounds of `parts`: a streamer of 3 Opens, 3 frames, an encoder delay of 2; 2 logging
threads, 2 events, a ring and a list of durations of 1, 1 Reset; 2 handlers, 1 plugin
besides main's, 2 names, 3 changes, 2 crashes; the frame sizes on both sides of each
limit of one packet and of two (for NAL units after their start code, for access units
after their header, for raw frames), a byte and 9999 bytes, 2 frames per source; 2
sessions, 2 plugins and 2 threads of the HTTP server.

Why the bounds are enough to show the interesting cases: a ring of three slots wraps
while it is neither full nor empty, six frames fill it twice, so a displaced or moved
frame is met again; two threads suffice for every pairwise race on the scheduler's mutex
and ring, and a ring of two can be full while one is inside the critical section; two
connections give a batch in which the first handler closes the second, and let a socket
number be used again; two clients are the least for "the first comes" and "the last
goes" to differ; rings of two in the pipeline are full, near full (`start_drop_ratio`
0.75) and empty, and three frames displace one in each. Two sessions are what a
connection needs to describe one after the other, and two pieces of work what it takes
to push a packet before and after something else, or to remove the session in between.
The three methods are one that ends with any header, one that makes `rtp_conn_` and one
that needs it. A ring and a list of one event drop at the second; two handlers are a
writer of the face library and another that overtakes it, and one other plugin is enough
to save stale faces over them; two crashes are one during the Save that repairs another.
Percentiles are compared for every list of up to four durations out of three; for longer
ones there is a theorem. `MaxEarly`, `MaxGone`, `MaxFrames`, `MaxCalls`, `MaxReconnect`,
`MaxWork`, `MaxRequests`, `MaxMedia`, `MaxOpens`, `MaxEvents`, `MaxResets`,
`MaxChanges`, `MaxCrashes`, `MaxPushed`, `MaxSessions` and `MaxPlugins` are the only
bounds on unbounded things. Deadlock is not checked where the system stops for good
(everything but `spsc_ring`).

Runs that end in a violation (each has an entry under `findings`, with the
sentence of the repository it contradicts):

| Run | What the behaviour shows |
|---|---|
| `session_stop_claim` | Stop's notify_all falls between the predicate's test and the blocking |
| `server_stop_claim` | StreamServer::Stop waits for ever for a connection nobody removes, or for an acceptor that waits for Quit's mutex |
| `rtsp_timer_claim` | a connection that closes while it plays leaves its RTCP timer behind, with a bare `this` |

### Met on the way, without a run of their own

Rings, loop and server:

* A Pop that overlaps PushOverwrite or PushOrDrop can get an empty slot or an
  older frame, although `RingBuffer.h:40` speaks of one producer and one
  consumer. The counters balance all the same, because `num_datas_` is atomic
  (`FramesConserved`, which was first stated without the overlap and turned out
  to need no such restriction); what `RingAccounts` says of cursors and slots is
  said of behaviours without one. In the proof that took one more fact: a Pop
  under way leaves `num_datas_` at least 1 (in `CountRange`).
* PruneStale's comment "FIFO: first fresh frame means all subsequent are fresh"
  (`RingBuffer.h:127`) does not hold after it has moved a keyframe to the tail,
  and the encoder's pts then goes back (`OrderKept` is stated up to the first
  move).
* `Start` clears `is_shutdown_` (`TaskScheduler.cpp:43`): a Quit right after the
  loop's creation is forgotten and the join never returns (`StreamServer.h:44`).
* "disconnect clients while the event loop is still running, so the disconnect
  callbacks can drain" (`ffmpeg/StreamServer.cpp:45`): an accept in progress may
  add a connection to a server whose Stop has found the map empty. It is destroyed
  with the map, unclosed, while epoll or the batch may still have its channel, and
  the acceptor's callback uses the destroyed server. The properties of `server` are
  said of the behaviours without it (`overtaken`).
* AddTriggerEvent returns true for a callback that Push refused, when another
  thread took the last place between the test of the size and the lock
  (`TaskScheduler.cpp:77-82`). A removal lost that way leaves its connection in the
  map for ever (`lost`).

Sessions:

* A client that finds the session between AddSession and its callbacks
  (`StreamSession.cpp:53`) is never counted (`StreamSession.h:211`).
* "Last client left" and the pipeline "will pause on next WaitForClients() call"
  (`StreamSession.cpp:250`): a client that has described another stream before it
  leaves is never counted down (`RtspConnection.cpp:78-88, 245`;
  `MediaSession.cpp:58-62`), and the gated session goes on for nobody. `FramesGated`
  speaks of sessions without such a client, `CountExact` counts them.
* The first client's notify_all (`StreamSession.cpp:243`) can be lost like
  Stop's.
* The end of a video ends the stages of a parallel session but not RunParallel
  (`StreamSession.cpp:406`; `CHANGELOG.md:32`, `main.cpp:191`).
* When the encoder cannot be opened, stage 3 returns and the other stages run on.
* `FrameDropPolicy::time_window_us` is documented and used nowhere.
* "skip bad packets, keep trying" (`FFmpegStreamer.cpp:436`): the packet has been
  freed, and the next `av_read_frame` gets a null pointer.
* An Open that fails half-way leaves what it acquired to be overwritten by the
  next (`LostOnlyByFailedOpen` allows exactly that).

RTSP and RTP:

* A connection that described two streams is a client of the first for ever,
  and its count never falls; `CountBounds` and `OwnStream` allow exactly that.
* PLAY after TEARDOWN is answered and delivers nothing; PLAY, TEARDOWN and
  GET_PARAMETER before any DESCRIBE are not answered at all
  (`RtspConnection.cpp:360-362, 375-377, 390-392`).
* Over TCP a packet that the full write queue refuses has taken its sequence number
  (`RtpConnection.cpp:241-242`, `TcpConnection.cpp:50`): the client sees a gap.
* Over UDP the sequence numbers of a client need not be without a gap: a packet
  posted before a TEARDOWN, or before a `sendto` that fails, and a PLAY after it
  go on with a number missing. It takes four pieces of work, more than the run
  has; it was the proof that showed `WireGapless` false in its first form. It
  now holds until one of the two.
* A connection that is closed goes on sending what is posted for it over UDP
  until its RtpConnection is gone; over TCP a failed write closes it in the
  middle of the trigger events.
* A trigger event posted after a connection has been closed reads an
  RtpConnection that may be gone (`RawThisValid` speaks of the others).
* An interleaved RTCP packet of 128 bytes or more is never found complete
  (`RtspConnection.cpp:195`), and headers are taken up to the last CRLF of the
  buffer, a pipelined request with them (`RtspMessage.cpp:36`).
* A VP8 frame whose size is a multiple of 1420 has no packet with the marker, and
  a VP8 payload is one byte longer than the limit. The H.264 source is given the
  start code with the frame, and takes its first byte for the NAL header of
  fragments. The last byte of the SEI marker is stored one past its vector.
  `BuildAdtsHeader` writes the index of 32 kHz, which the source strips again.

HTTP API:

* "the StreamServer outlives every session it hosts"
  (`ffmpeg/StreamSession.h:187-188`), but main calls `server.Stop()`
  (`main.cpp:199`) while sessions created through the API still run: they push
  frames through the RtspServer that is gone (`RtspOutputAdapter.cpp:99`) and their
  destructor unregisters them from it (`StreamSession.cpp:149`). `PointersOutlive`
  says that nobody else is left to do so.
* A run thread that misses Stop's notify_all keeps RemoveSession, and with it the
  API server's mutex and every other request, waiting for ever; `JoinedAreTold`
  says that nothing else keeps them waiting for one another.
* POST of a session answers 200 also when it failed (`docs/api.md` says 500);
  DELETE of main's session only takes it off the list; the results route is
  registered behind `/(.+)` and never reached; `/api/events` stays empty.
* When `listen` has failed `Stop` returns early and a joinable thread is
  destroyed; a `Stop` before `listen` has begun is not noticed, and join waits.
* UpdateEffects replaces the plugins of a session "dynamically"
  (`docs/architecture.md:178`), without a lock, while its run thread goes through
  them (`StreamSession.cpp:210`).
* A FaceDatabase "Persists to / loads from a JSON file on disk"
  (`FaceDatabase.h:3`), but a plugin of another session that is closed writes the
  faces it loaded when it was opened over those registered since
  (`FaceRecognitionPlugin.cpp:74`, by default on the same file: `main.cpp:50`,
  `StreamSession.cpp:84`). `FacesKept` excuses the file until main's database is
  saved again.
* A negative `limit` of `/api/latency/recent` asks for too long a vector, and the
  request fails; `StatisticsRight` speaks of the others.

### Fairness

Fairness is per thread and weak: an operating system goes on running a thread that can
run. It is given to what a thread has begun or loops over, never to what the outside may
or may not do: no fairness on a client coming or leaving, a socket becoming ready, a
call being made, the input delivering a frame or ending, or somebody calling Stop. No
spurious wakeup is fair, so a lost notification stays lost. `RtspSession`, `RtspWire`
and the five parts of `Parts` state no fairness: their properties are about safety. The
assumptions visible in the specifications: opening and reading the input returns (FFmpeg
is given timeouts, `FFmpegStreamer.cpp:63-67`, `StreamPipeline.cpp:96-100`); the
postponed removal of a connection is strongly fair (`RunTimer` in `TcpServer`: its timer
expires and each round of the loop runs the expired timers, but the action is enabled
only at that place of the round); and callbacks terminate. Liveness that depends on the
wait for clients is stated without gating, because with gating it is false
(`session_stop_claim`).

## 4. What is proved

Eight modules hold theorems (45 of them, with the invariants, are listed in
`PROJECT.json`). TLAPS checks them for every value of the constants, and every safety
property that a run checks is among them. Assumptions are those on the constants only
(`CapacityAssumption`, `SchedulerConstants`, …: the ring has at least one place,
`"none"` is not a thread, at least one duration is kept, a packet that an encoder
delivers has 1 to 2^31 - 1 bytes, as `AVPacket::size` allows); bounds such as `MaxCalls`
are any natural numbers.

* `TriggerEventsProofs`, in three parts. Of the ring: `RingTypeOK`,
  `RingCursorsAgree`, `RingSlotExclusive` and
  `RingImplementsFifo`, for every capacity and every set of values. The inductive
  invariant `IInv` adds to the types and `CursorsAgree` that the tests at the
  head of Push and Pop stay true until the operation ends (`ChecksHold`): only
  the other side runs meanwhile, and it can only help. `SlotExclusive` follows
  since the cursors are as far apart as there are values between them, and two
  threads inside a slot would have an equal cursor on a ring that is neither
  empty nor full. The refinement adds what the slots between the cursors hold.
  Of the scheduler with a queue: its invariant (`SchedulerIInv`), for any number
  of threads, calls and any capacity.
  `NoLostWakeup` speaks of a loop that sleeps; it is not inductive, because the
  loop's last look at the ring comes three steps earlier. `Unannounced` follows
  the three looks (ring, timers, `is_shutdown_`) from where they are made to
  `epoll_wait`. `OneProducer` needs `MutexHeld` and that the pop only shrinks
  the ring; the room test outside the mutex is made up for by Push's own test.
  Of the two together: `TriggersImplementScheduler`. The queue's length is
  `num_datas_` at every step (`QueueLength`), so that each test of the size is one
  of the queue's; the last step of a Push appends (`QueuePushed`), that of a Pop
  takes the first (`QueuePopped`), the others leave the queue alone
  (`QueueUnchanged`). The scheduler's invariant therefore holds of the scheduler
  with its ring, and with it `TriggersTypesOK`, `TriggersOneProducer` and
  `TriggersNoLostWakeup`.
* `DropRingProofs`: `DropRingTypeOK`, `DropRingAccounts` and
  `DropRingPruneKeeps`, for every capacity and any stream of frames. Two parts of
  the invariant hold whatever races: the counters balance, and `num_datas_` keeps
  its range because each thread's test stays true until its call ends
  (`CountRange`). The others hold until a Pop overlaps a displacement: the cursors
  are as far apart as the count says, less what has moved a cursor and not
  counted yet (`Filled`), and the slots between them hold frames (`Entries`).
* `TcpServerProofs`: `ServerTypeOK`, `ServerHandlersAlive`,
  `ServerRemovalsOutstanding` and the action property `ServerLeavesClosed`, for
  any set of connections, with room for trigger events or without, of behaviours
  where TcpServer::Stop does not return during an accept (`~overtaken`; the types
  in all). That no raw pointer dangles is inductive once three
  things are said: batch and handler are empty when the loop runs the removals
  (`Batches`); what has a removal outstanding is closed, hence out of epoll
  (`ClosedLeft`), and still in `connections_`, since a connection whose
  `disconnect_cb_` is set stays there until it is closed (`Hooked`); and nobody
  knows of a connection whose `TcpConnection` is not constructed (`Entered`). When
  Stop has waited the map is empty and nobody is left to fill it (`Waited`), so
  that destroying the server destroys no connection.
* `RtspWireProofs`: `WireTypeOK`, `WireAnswersRight` and `WireOutputRight`, for
  any number of requests, of any methods, cut anywhere, and any limits of the
  buffer and the queue. What the client has sent and the server has not answered
  is one stream, the read buffer and what is still in the socket (`Coming`); the
  CSeqs in it ascend from above the request in the parser, and that from above
  the last answer (`InOrder`). The parser may take less or more than a request,
  since it takes headers up to the last CRLF of the buffer: what is left behind
  is a part of what was there in the same order (`WithinAscends`). That a request
  that comes whole is handled at once, and answered if its method does not need an
  `rtp_conn_` that is missing, needs the parser to go through one with nothing
  around it (`ParseWhole`), and that `rtp_conn_` is there when one of the requests
  was a DESCRIBE (`ConnRight`). On the way out, what has left and what is
  queued are halves of messages in pairs, each message after the last
  (`Paired`), before the one that is being given to Send.
* `RtspSessionProofs`: `RtspTypeOK`, `RtspRawThisValid`, `RtspCountBounds` and
  `RtspWireRight`, for any connections, sockets, sessions, channels and any
  modulus of the sequence numbers. The bare `this` is valid by the order of the
  queue (`EventsInOrder`): behind the removal of a connection there is no packet
  that was posted while it was open. The count of a session lies between those
  who have an entry in `clients_` and those who have been added and not taken
  out (`Counted`); since a socket number is used again only after its connection
  has gone, the entry of a client that has not left is its own (`Registered`).
  Order on the wire needs the same order of all packets under way: on the wire,
  in the queue, in the hands of a media thread (`InFlight`). A packet that the full
  write queue refuses has its number, so that the numbers have no gap but for
  these.
* `StreamSessionProofs`: `SessionTypeOK`, `SessionCountExact`, `SessionStopQuiesces` and
  `SessionFramesGated`, for any set of clients and any number of reconnects. The
  invariant says when the session is registered relative to where Start, Stop and the
  run thread are (`Registration`), that without an early client nobody is there before
  the callbacks are (`Quiet`), and and from then on each entry of the map is counted
  once on its way in and, on its way out, down or in `gone`: the count is that of the
  clients who are there and of those who went without a callback. `LetThrough` carries
  what the wait has seen, a client or `stop_`, to the frame, in behaviours where nobody
  has gone that way. The limits of `count` in `TypeOK` need one more invariant: how far
  each client that came early may still put the count wrong (`Drift`).
* `StreamPipelineProofs`: `PipelineTypeOK`, `PipelineFramesAccounted` and
  `PipelineOrderKept`, for rings of any capacity and any input. A frame is in
  hand just while a stage is about to pass it on (`InHand`), so that none is
  forgotten when the next is taken; and a Pop or a displacement under way has a
  frame to take (`Takes`), whatever overlaps it, so that the counters balance in
  every behaviour. Order is that of one line through the stages and rings, last
  encoded frame first (`InLine`), in which every frame was decoded before the one
  stage 1 reads (`Decoded`); both hold until a keyframe is moved or a Pop overlaps
  a displacement (`Ordered`). What PushOrDrop and PruneStale do to the length and
  the order of a ring are lemmas of their own (`AfterPush`, `PrunedRing`).
* `PartsProofs`, one invariant per part, since a step of the process is one of a single
  part: `PartsTypeOK`, for all five parts. `PartsPointersOutlive`: requests are handled
  only while the server listens, and main takes things down after it has ended
  (`Serving`, `References`); a session leaves the registry before a handler stops it
  (`Registered`). Of those who use the servers only sessions made through the API are
  left when main stops them. `PartsJoinedAreTold`: a run thread that was told to stop
  does not go to wait for clients again, so that it waits only if the notify_all missed
  it, and who joins has told it (`Told`). `PartsStreamerKeeps`: between an Open and the
  next Close what is allocated and not named is what failed Opens have left (`Owned`);
  the frames in the encoder are in the order of their numbers, above the last packet's
  (`Times`). `PartsFacesKept`, for any number of other plugins on the file: who is in a
  Save is one of the authors of the file, and while main is the only one, what its Save
  has written and what is left to write are what is in memory (`Written`); who has still
  to save or to answer has its face there, and when the file is main's alone the
  acknowledged faces are in it (`Recorded`). Then a write leaves the file as it was
  (`KeptOfMain`). `PartsTracerRight`, for any number of events, of threads that log and
  of Resets. The ring: keeping a list bounded at each event or cutting it once at the
  end is the same (`BoundedAppend`). The log: each event is in one place, with the
  thread that has still to queue it, in the queue, in the list of one of the two who
  write, or its line is over (`Lines`); in a list that is being written only the first
  event may have calls of write in the log already (`Pending`), and the next call is one
  that it has not had. Each call has at most one result of its kind (`Calls`,
  `CountsOf`), whichever writes failed or were partial. The statistics: minimum and
  maximum hold for every duration since the last Reset, the total lies between their
  multiples (`Statistics`), and a percentile is one of the durations that are left.
  `PercentileOfAny`: any list can be brought in order (`Ordered`), so that `Sorted` is
  what its definition chooses, and a percentile is then the duration at its place
  (`PercentileFacts`), with as many below as there are places before it (`Counts`).
  `PartsFramesReassembled`, for any size an AVPacket can have: the frame being sent is
  the last one accepted, with bytes left, of which VP8 has sent a multiple of 1420
  (`Sent`). What a receiver has made of the packets so far is the frames that were
  accepted, the last as far as it is in packets (`Received`): the first packet of a
  frame begins it with what its header holds (`Begun`), each further one continues it
  where the last ended (`Continued`), and the receiver knows from each packet alone
  which of the two it is, and whether its header stands for bytes of the frame
  (`FragmentTells`). When nothing is being sent it has them all (`AllReceived`).

Where a proof needs induction over data it takes a least counterexample:
`LeastOf` (from `WFMin`, about sets, in `RtspWireProofs` and `PartsProofs`)
needs no operator as a parameter. So `Ordered` is proved of the shortest list
that cannot be ordered, and the first and last CRLF of a buffer are found.

Only model-checked:

* Every liveness property (`CallbacksRun`, `StopEndsLoop`, `RunEnds`, `RemovalsHappen`,
  `StagesEnd`): the prover has no ENABLED, hence no fairness. That `TriggerEvents`
  implements the safety part of `TaskScheduler` only is for the same reason; the run
  checks the liveness properties on `TriggerEvents` itself.

## 5. Plan

Done: rings (`BoundedFifo`, `SpscRing`, `DropRing`), `TaskScheduler` with its
ring (`TriggerEvents`), `StreamSession`, `TcpServer`, `StreamPipeline`,
`RtspSession` with the registry and RTCP timers, `RtspWire`, `FFmpegStreamer`,
`MediaSources`, `LatencyTracer`, `FaceDatabase`, `ApiServer`; theorems for all of
them.

Next: which of `TcpServer`'s guarantees `RtspSession` takes for granted, as a
refinement; `DropRing` as the rings of `StreamPipeline`, as `TriggerEvents` has
done it for `SpscRing`.

Of the code what is left is small: a bounded event history once somebody fills
it, sender reports, and the encoder of the audio adapter.

## 6. Not modelled, and why

Third-party code (FFmpeg, OpenCV/ONNX, httplib, JSON) appears as outcomes of
calls. Response formatting, SDP building, digest strings, socket options and
logging are wording or I/O. Inference is numeric. `SelectTaskScheduler` is the
Windows build; `RtspPusher`, multicast and `MemoryManager` have no caller in the
program.
