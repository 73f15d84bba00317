--------------------------- MODULE StreamPipeline ---------------------------
(***************************************************************************)
(* A session in parallel mode: the run thread (RunParallel) and the three  *)
(* stages of its StreamPipeline, each a thread, with a ring between each   *)
(* two.  Any stage that ends sets stop_, which the others read at several  *)
(* places of their loops.                                                  *)
(*                                                                         *)
(* RunParallel always enables backpressure, so frames enter a ring by      *)
(* PushOrDrop, which excludes PruneStale by a mutex.  Pop takes no lock: a *)
(* Pop and a PushOrDrop that displaces the oldest frame are two steps each *)
(* here and may overlap, and what such a ring then holds and gives is left *)
(* open (raced), but for num_datas_, the length of the sequence: DropRing  *)
(* has their single accesses.  A frame is its index, which is also its     *)
(* capture time, as in DropRing; a slot that was moved out of keeps both,  *)
(* only its pixels are gone.  The waits on decode_cv_ and process_cv_ end  *)
(* after 100 ms whatever happens, so they are only a pause.                *)
(***************************************************************************)
EXTENDS Integers, Sequences, FiniteSets, SequencesExt

CONSTANTS Capacity,    \* cfg_.decode_ring_size and process_ring_size
          MaxFrames,   \* bound: how many video frames the input holds
          Keyframes    \* the frames with is_keyframe

ASSUME PipelineAssumption ==
  /\ Capacity \in Nat \ {0} /\ MaxFrames \in Nat
  /\ Keyframes \subseteq 1 .. MaxFrames

VARIABLES gating,        \* cfg_.client_cv and the like are set
          stopAsked,     \* StreamSession::stop_
          stop,          \* StreamPipeline::stop_
          rp,            \* where RunParallel is
          demux, ai, enc,         \* where the stages are
          read, taken, encoding,  \* the frame each stage has in hand
          decodeRing, processRing,
          audio,         \* audio_ring_ is not empty
          decoded, dropped, pruned,   \* the counters that GetStatus reports
          refused,       \* frames PushOrDrop discarded, which nothing counts
          encoded,       \* frames given to the encoder ...
          last,          \* ... and the last of them
          moved,         \* PruneStale has moved a keyframe (history)
          raced          \* rings a Pop and a displacement overlapped on (history)

rings  == <<decodeRing, processRing>>
counts == <<decoded, dropped, pruned, refused, encoded, last, moved>>
stages == <<demux, ai, enc, read, taken, encoding, audio>>
vars   == <<gating, stopAsked, stop, rp, stages, rings, counts, raced>>

NoFrame == 0
Frames == 1 .. MaxFrames

Init ==
  /\ gating \in BOOLEAN
  /\ stopAsked = FALSE /\ stop = FALSE
  /\ rp = "start"
  /\ demux = "none" /\ ai = "none" /\ enc = "none"
  /\ read = NoFrame /\ taken = NoFrame /\ encoding = NoFrame
  /\ decodeRing = <<>> /\ processRing = <<>> /\ audio = FALSE
  /\ decoded = 0 /\ dropped = 0 /\ pruned = 0 /\ refused = 0
  /\ encoded = 0 /\ last = NoFrame /\ moved = FALSE
  /\ raced = {}

-----------------------------------------------------------------------------
(* What one call does to a ring.                                           *)

\* What a ring may hold: its frames.  Once a Pop and a displacement have overlapped
\* on it, its cursors may be off and only its length, num_datas_, tells something:
\* any frames.
Contents(name, ring) == IF name \in raced THEN [1 .. Len(ring) -> Frames] ELSE {ring}

\* Mutant: the test for a free place is off by one.
HasRoomOffByOne(ring) == Len(ring) <= Capacity

\* num_datas_ < capacity_: PushOrDrop accepts the frame.
HasRoom(ring) == Len(ring) < Capacity

\* Mutant: the new frame takes the oldest one's place in the order too.
DisplacedInPlace(ring, frame) == <<frame>> \o Tail(ring)

\* OldDropped: the oldest frame gives way to the new one.
Displaced(ring, frame) == Append(Tail(ring), frame)

\* The ring a displacement leaves, which does not touch num_datas_.
AfterDisplacement(name, ring, frame) ==
  IF name \in raced THEN ring ELSE Displaced(ring, frame)

\* fill_ratio >= start_drop_ratio
NearFull(ring) == 4 * Len(ring) >= 3 * Capacity

\* The frames at the places ps of a ring, in their order: the i-th place is
\* that which has i of them up to it.
At(ring, ps) ==
  [i \in 1 .. Cardinality(ps) |-> ring[CHOOSE p \in ps : Cardinality({q \in ps : q <= p}) = i]]

\* The places of the stale frames: from the front to the first fresh one.
Stale(ring, cutoff) == {i \in 1 .. Len(ring) : \A j \in 1 .. i : ring[j] < cutoff}

\* Mutant: the keyframes that were kept are counted as pruned.
PruneStaleCountsKept(ring, cutoff) ==
  LET stale == Stale(ring, cutoff)
      keys  == {i \in stale : ring[i] \in Keyframes}
  IN [ring |-> At(ring, (1 .. Len(ring)) \ stale) \o At(ring, keys),
      pruned |-> Cardinality(stale),
      moved |-> keys # {}]

\* PruneStale with prefer_keep_keyframe: of the stale frames the keyframes are
\* put back at the tail and the others are gone.
PruneStale(ring, cutoff) ==
  LET stale == Stale(ring, cutoff)
      keys  == {i \in stale : ring[i] \in Keyframes}
  IN [ring |-> At(ring, (1 .. Len(ring)) \ stale) \o At(ring, keys),
      pruned |-> Cardinality(stale) - Cardinality(keys),
      moved |-> keys # {}]

-----------------------------------------------------------------------------
(* RunParallel, StreamPipeline::Start and StreamPipeline::Stop.            *)

\* Start: the three threads are created.
Start ==
  /\ rp = "start"
  /\ demux' = "open" /\ ai' = "loop" /\ enc' = "open"
  /\ rp' = "run"
  /\ UNCHANGED <<stopAsked, stop, read, taken, encoding, audio, rings, counts>>

\* Mutant: the run thread goes to join the stages without having set stop_.
StopFlagForgotten ==
  /\ rp = "run" /\ stopAsked
  /\ rp' = "notify"
  /\ UNCHANGED <<stopAsked, stop, stages, rings, counts>>

\* while (!stop_) sleep: the session's flag, not the pipeline's.  Then
\* Stop: stop_ = true ...
StopFlag ==
  /\ rp = "run" /\ stopAsked
  /\ stop' = TRUE
  /\ rp' = "notify"
  /\ UNCHANGED <<stopAsked, stages, rings, counts>>

\* ... client_cv->notify_all(), without client_mutex ...
StopNotify ==
  /\ rp = "notify"
  /\ demux' = IF gating /\ demux = "blocked" THEN "wait" ELSE demux
  /\ rp' = "join"
  /\ UNCHANGED <<stopAsked, stop, ai, enc, read, taken, encoding, audio, rings, counts>>

\* ... and the three joins.  Then the session's running_ = false.
Join ==
  /\ rp = "join"
  /\ demux = "done" /\ ai = "done" /\ enc \in {"done", "failed"}
  /\ rp' = "done"
  /\ UNCHANGED <<stopAsked, stop, stages, rings, counts>>

RunParallel == Start \/ StopFlag \/ StopNotify \/ Join

\* StreamSession::Stop sets the session's stop_.
AskStop == ~stopAsked /\ stopAsked' = TRUE /\ UNCHANGED <<gating, stop, rp, stages, rings, counts, raced>>

-----------------------------------------------------------------------------
(* Stage 1: DemuxDecodeLoop.                                               *)

\* Steps of stage 1 that change nothing but where it is.
DemuxGo(from, to) ==
  /\ demux = from /\ demux' = to
  /\ UNCHANGED <<stop, ai, enc, read, taken, encoding, audio, rings, counts>>

\* while (!stop_), the wait for clients, and if (stop_) break.
DemuxLoop == DemuxGo("loop", IF stop THEN "close" ELSE IF gating THEN "wait" ELSE "read")
\* Clients come and go at any time: the wait may find one, or none.
WaitForClients == DemuxGo("wait", "check") \/ (~stop /\ DemuxGo("wait", "block"))
Block == DemuxGo("block", "blocked")
Check == DemuxGo("check", IF stop THEN "close" ELSE "read")

\* OnClientConnected notifies, or the wait ends for no reason.
Wake == DemuxGo("blocked", "wait")

\* ReadAndDecodeOnce, one packet: the next video frame ...
ReadVideo ==
  /\ demux = "read" /\ ~stop
  /\ decoded < MaxFrames
  /\ read' = decoded + 1
  /\ demux' = "push"
  /\ UNCHANGED <<stop, ai, enc, taken, encoding, audio, rings, counts>>

\* An audio packet: its frames are pushed to audio_ring_.
ReadAudio ==
  /\ demux = "read" /\ ~stop
  /\ audio' = TRUE
  /\ UNCHANGED <<stop, demux, ai, enc, read, taken, encoding, rings, counts>>

\* ... or the end of the input or an error: false, and the loop is left ...
ReadEnd == ~stop /\ DemuxGo("read", "close")

\* ... as it is when stop_ is set.
ReadStopped == stop /\ DemuxGo("read", "close")

\* decode_ring_.PushOrDrop: the frame enters; or the ring is full, and the frame
\* is discarded, or the oldest is older than max_frame_age_us and gives way.
PushDecoded ==
  /\ demux = "push"
  /\ \/ /\ HasRoom(decodeRing)
        /\ decodeRing' = Append(decodeRing, read)
        /\ demux' = "loop" /\ UNCHANGED refused
     \/ /\ ~HasRoom(decodeRing)
        /\ demux' = "loop" /\ refused' = refused + 1 /\ UNCHANGED decodeRing
  /\ decoded' = decoded + 1
  /\ read' = NoFrame
  /\ UNCHANGED <<stop, ai, enc, taken, encoding, audio, processRing,
                 dropped, pruned, encoded, last, moved>>

DisplaceDecoded == ~HasRoom(decodeRing) /\ DemuxGo("push", "displace")

\* The displacement ends: OldDropped, and the counters.
DecodedDisplaced ==
  /\ demux = "displace"
  /\ decodeRing' = AfterDisplacement("decode", decodeRing, read)
  /\ dropped' = dropped + 1 /\ decoded' = decoded + 1
  /\ read' = NoFrame
  /\ demux' = "loop"
  /\ UNCHANGED <<stop, ai, enc, taken, encoding, audio, processRing,
                 pruned, refused, encoded, last, moved>>

\* OpenDemuxer; when it fails, stop_ = true and the stage returns.
OpenDemuxer ==
  /\ demux = "open"
  /\ \/ demux' = "loop" /\ UNCHANGED stop
     \/ demux' = "done" /\ stop' = TRUE
  /\ UNCHANGED <<ai, enc, read, taken, encoding, audio, rings, counts>>

\* Mutant: the end of the input is not signalled.
CloseDemuxerSilently == DemuxGo("close", "done")

\* CloseDemuxer, and stop_ = true: "signal downstream stages".
CloseDemuxer ==
  /\ demux = "close"
  /\ stop' = TRUE
  /\ demux' = "done"
  /\ UNCHANGED <<ai, enc, read, taken, encoding, audio, rings, counts>>

Input == ReadVideo \/ ReadAudio \/ ReadEnd
DemuxDecodeLoop == OpenDemuxer \/ DemuxLoop \/ WaitForClients \/ Block \/ Check
                     \/ ReadStopped \/ PushDecoded \/ DisplaceDecoded \/ DecodedDisplaced
                     \/ CloseDemuxer

-----------------------------------------------------------------------------
(* Stage 2: AIProcessLoop.                                                 *)

AiGo(from, to) ==
  /\ ai = from /\ ai' = to
  /\ UNCHANGED <<stop, demux, enc, read, taken, encoding, audio, rings, counts>>

\* while (!stop_ || !decode_ring_.IsEmpty()), and whether to prune.
AiLoop == AiGo("loop", IF stop /\ decodeRing = <<>> THEN "end"
                       ELSE IF NearFull(decodeRing) THEN "prune" ELSE "pop")

\* overwrite_mutex_ is free: no displacement is under way.
PruneDecoded ==
  /\ ai = "prune" /\ demux # "displace"
  /\ \E cutoff \in 0 .. MaxFrames + 1, ring \in Contents("decode", decodeRing) :
       LET r == PruneStale(ring, cutoff)
       IN /\ decodeRing' = r.ring
          /\ pruned' = pruned + r.pruned
          /\ moved' = (moved \/ r.moved)
  /\ ai' = "pop"
  /\ UNCHANGED <<stop, demux, enc, read, taken, encoding, audio, processRing,
                 decoded, dropped, refused, encoded, last>>

\* Pop begins: num_datas_ > 0 ...
PopDecoded == AiGo("pop", IF decodeRing = <<>> THEN "empty" ELSE "take")

\* ... and ends: the oldest frame, and num_datas_--.
DecodedPopped ==
  /\ ai = "take"
  /\ taken' \in {Head(ring) : ring \in Contents("decode", decodeRing)}
  /\ decodeRing' = Tail(decodeRing)
  /\ ai' = "push"
  /\ UNCHANGED <<stop, demux, enc, read, encoding, audio, processRing, counts>>

\* Pop found nothing: if (stop_) break, else a pause and the loop again.
AiEmpty == AiGo("empty", IF stop THEN "end" ELSE "loop")

\* frame_cb, or not; then process_ring_.PushOrDrop, as stage 1 pushes.
PushProcessed ==
  /\ ai = "push"
  /\ \/ /\ HasRoom(processRing)
        /\ processRing' = Append(processRing, taken)
        /\ UNCHANGED refused
     \/ /\ ~HasRoom(processRing)
        /\ refused' = refused + 1 /\ UNCHANGED processRing
  /\ taken' = NoFrame
  /\ ai' = "loop"
  /\ UNCHANGED <<stop, demux, enc, read, encoding, audio, decodeRing,
                 decoded, dropped, pruned, encoded, last, moved>>

DisplaceProcessed == ~HasRoom(processRing) /\ AiGo("push", "displace")

ProcessedDisplaced ==
  /\ ai = "displace"
  /\ processRing' = AfterDisplacement("process", processRing, taken)
  /\ dropped' = dropped + 1
  /\ taken' = NoFrame
  /\ ai' = "loop"
  /\ UNCHANGED <<stop, demux, enc, read, encoding, audio, decodeRing,
                 decoded, pruned, refused, encoded, last, moved>>

\* stop_ = true
AiEnd ==
  /\ ai = "end"
  /\ stop' = TRUE
  /\ ai' = "done"
  /\ UNCHANGED <<demux, enc, read, taken, encoding, audio, rings, counts>>

AIProcessLoop == AiLoop \/ PruneDecoded \/ PopDecoded \/ DecodedPopped \/ AiEmpty
                   \/ PushProcessed \/ DisplaceProcessed \/ ProcessedDisplaced \/ AiEnd

-----------------------------------------------------------------------------
(* Stage 3: EncodeOutputLoop.                                              *)

EncGo(from, to) ==
  /\ enc = from /\ enc' = to
  /\ UNCHANGED <<stop, demux, ai, read, taken, encoding, audio, rings, counts>>

\* The encoder and the outputs are opened; when the encoder fails, the stage
\* returns and nobody is told.
OpenEncoder == EncGo("open", "loop") \/ EncGo("open", "failed")

\* After the loop the encoder is flushed and the outputs are closed.
EncLoop == EncGo("loop", IF stop /\ processRing = <<>> /\ ~audio THEN "done" ELSE "audio")

\* The audio frames are all output, or none if audio is not enabled.
OutputAudio ==
  /\ enc = "audio"
  /\ audio' \in {audio, FALSE}
  /\ enc' = IF NearFull(processRing) THEN "prune" ELSE "pop"
  /\ UNCHANGED <<stop, demux, ai, read, taken, encoding, rings, counts>>

PruneProcessed ==
  /\ enc = "prune" /\ ai # "displace"
  /\ \E cutoff \in 0 .. MaxFrames + 1, ring \in Contents("process", processRing) :
       LET r == PruneStale(ring, cutoff)
       IN /\ processRing' = r.ring
          /\ pruned' = pruned + r.pruned
          /\ moved' = (moved \/ r.moved)
  /\ enc' = "pop"
  /\ UNCHANGED <<stop, demux, ai, read, taken, encoding, audio, decodeRing,
                 decoded, dropped, refused, encoded, last>>

PopProcessed == EncGo("pop", IF processRing = <<>> THEN "empty" ELSE "take")

ProcessedPopped ==
  /\ enc = "take"
  /\ encoding' \in {Head(ring) : ring \in Contents("process", processRing)}
  /\ processRing' = Tail(processRing)
  /\ enc' = "encode"
  /\ UNCHANGED <<stop, demux, ai, read, taken, audio, decodeRing, counts>>

EncEmpty == EncGo("empty", IF stop THEN "done" ELSE "loop")

\* avcodec_send_frame, with the capture time as its pts, and the outputs.
Encode ==
  /\ enc = "encode"
  /\ encoded' = encoded + 1 /\ last' = encoding
  /\ encoding' = NoFrame
  /\ enc' = "loop"
  /\ UNCHANGED <<stop, demux, ai, read, taken, audio, rings, decoded, dropped, pruned, refused, moved>>

EncodeOutputLoop == OpenEncoder \/ EncLoop \/ OutputAudio \/ PruneProcessed \/ PopProcessed
                      \/ ProcessedPopped \/ EncEmpty \/ Encode

-----------------------------------------------------------------------------
\* The rings on which a Pop and a displacement are under way at once.
Overlap == {name \in {"decode", "process"} :
              \/ name = "decode" /\ demux = "displace" /\ ai = "take"
              \/ name = "process" /\ ai = "displace" /\ enc = "take"}

\* What no stage changes, and the history of the rings.
Outside == UNCHANGED <<gating, stopAsked, rp>> /\ raced' = raced \cup Overlap'

Stages == (Input \/ DemuxDecodeLoop \/ Wake \/ AIProcessLoop \/ EncodeOutputLoop) /\ Outside

Runner == RunParallel /\ UNCHANGED <<gating, raced>>

Next == Stages \/ Runner \/ AskStop

\* Every thread that can run does.  The input need not deliver a frame or end
\* (it may hold audio packets for ever), but every av_read_frame returns, so
\* that a stage 1 that is reading sees stop_.  Nobody has to stop the session or
\* to come, and a blocked stage 1 has no right to be woken.
Spec == /\ Init /\ [][Next]_vars
        /\ WF_vars(Runner)
        /\ WF_vars(DemuxDecodeLoop /\ Outside)
        /\ WF_vars(AIProcessLoop /\ Outside)
        /\ WF_vars(EncodeOutputLoop /\ Outside)

-----------------------------------------------------------------------------
(* Properties.                                                             *)

\* Every variable has its type, and the rings their capacity.
TypeOK ==
  /\ {gating, stopAsked, stop, audio, moved} \subseteq BOOLEAN
  /\ rp \in {"start", "run", "notify", "join", "done"}
  /\ demux \in {"none", "open", "loop", "wait", "block", "blocked", "check", "read",
                "push", "displace", "close", "done"}
  /\ ai \in {"none", "loop", "prune", "pop", "empty", "take", "push", "displace",
             "end", "done"}
  /\ enc \in {"none", "open", "failed", "loop", "audio", "prune", "pop", "empty",
              "take", "encode", "done"}
  /\ Overlap \subseteq raced /\ raced \subseteq {"decode", "process"}
  /\ {read, taken, encoding, last} \subseteq Frames \cup {NoFrame}
  /\ {decodeRing, processRing} \subseteq BoundedSeq(Frames, Capacity)
  /\ {decoded, dropped, pruned, refused, encoded} \subseteq 0 .. MaxFrames

\* Held(f): how many frames a thread has in hand.
Held(frame) == IF frame = NoFrame THEN 0 ELSE 1

\* The counters that GetStatus reports tell where the decoded frames went, up to
\* those PushOrDrop discarded when the oldest was not yet old: at any moment the
\* frames decoded are those encoded, dropped, pruned, discarded and on the way.
FramesAccounted ==
  decoded = encoded + dropped + pruned + refused + Len(decodeRing) + Len(processRing)
              + Held(taken) + Held(encoding)

\* As long as PruneStale has not moved a keyframe and no Pop has overlapped a
\* displacement, the frames stay in the order of their capture from stage to stage,
\* whatever is dropped on the way and whatever else overlaps: the encoder's pts grows.
OrderKept ==
  LET One(frame) == IF frame = NoFrame THEN <<>> ELSE <<frame>>
      line == One(last) \o One(encoding) \o processRing \o One(taken) \o decodeRing \o One(read)
  IN (~moved /\ raced = {}) => \A i, j \in 1 .. Len(line) : i < j => line[i] < line[j]

\* Without gating, a session that is asked to stop does: the three stages leave
\* their loops, whatever they were doing, and RunParallel joins them.
StopReturns == (stopAsked /\ ~gating) ~> (rp = "done")

\* When the input ends or cannot be opened, the other two stages end as well.
EndSpreads == (demux = "done") ~> (ai = "done" /\ enc \in {"done", "failed"})

\* No stage is left behind, neither by Stop nor by the end of the input
\* (StreamPipeline.cpp:60-79, 410, 534).
StagesEnd == StopReturns /\ EndSpreads

=============================================================================
