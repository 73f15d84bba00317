--------------------------- MODULE FFmpegStreamer ---------------------------
(***************************************************************************)
(* A FFmpegStreamer in the run thread of a serial StreamSession: Open in   *)
(* six stages, each of which may fail half-way, one frame after another    *)
(* through decoder, interceptor, encoder and outputs, Close, and Open      *)
(* again when the input breaks off.                                        *)
(*                                                                         *)
(* FFmpeg is external: what its calls return is chosen freely.  The wait   *)
(* for clients before a frame and before a reconnect may last for ever;    *)
(* what ends it belongs to StreamSession.                                  *)
(***************************************************************************)
EXTENDS Integers, Sequences, FiniteSets

CONSTANTS ReconnectOnEof,   \* cfg_.reconnect_on_eof
          MaxReconnect,     \* cfg_.max_reconnect
          MaxDelay,         \* frames the encoder keeps back at most
          MaxFrames,        \* frames encoded after an Open (model bound)
          MaxOpens          \* calls of Open (model bound)

\* What the constants are.
StreamerConstants ==
  /\ ReconnectOnEof \in BOOLEAN
  /\ {MaxReconnect, MaxDelay, MaxFrames, MaxOpens} \subseteq Nat

\* What a stage of Open acquires, in order.
Stages == << {"ifmt_ctx"}, {"dec_ctx", "decoded"}, {"audio_dec_ctx"},
             {"to_bgr", "to_enc", "bgr", "enc_in"}, {"enc_ctx"}, {"ofmt_ctx"} >>
Resources == UNION {Stages[i] : i \in 1 .. Len(Stages)}

VARIABLES pc,         \* the run thread: "open", "loop", "gate", "read", "frame", "close",
                      \* "retry", "reopen", "regate", "ended", "crashed"
          stop,       \* stop_
          opened,     \* opened_
          held,       \* the pointers that are not null
          heap,       \* per resource, the objects allocated and not freed
          rtmpOpen,   \* RtmpOutputAdapter::opened_
          opens,      \* calls of Open
          failed,     \* calls of Open that failed
          attempts,   \* i of the reconnect loop
          packet,     \* pkt of ReadAndDecode: "none", "held", "freed"
          frameSeq,   \* frame_seq_
          inEncoder,  \* pts of the frames the encoder has not given back
          rtmpLast    \* pts of the last packet of this RTMP connection, or -1

vars == <<pc, stop, opened, held, heap, rtmpOpen, opens, failed, attempts, packet,
          frameSeq, inEncoder, rtmpLast>>

Init ==
  /\ pc = "open" /\ stop = FALSE /\ opened = FALSE
  /\ held = {} /\ heap = [r \in Resources |-> 0] /\ rtmpOpen = FALSE
  /\ opens = 0 /\ failed = 0 /\ attempts = 0
  /\ packet = "none" /\ frameSeq = 0 /\ inEncoder = <<>> /\ rtmpLast = -1

Stop ==
  /\ ~stop
  /\ stop' = TRUE
  /\ UNCHANGED <<pc, opened, held, heap, rtmpOpen, opens, failed, attempts, packet,
                 frameSeq, inEncoder, rtmpLast>>

-----------------------------------------------------------------------------
(* Open and Close.                                                         *)

\* A stage writes its pointers over whatever they held.
Acquire(rs) ==
  /\ held' = held \cup rs
  /\ heap' = [r \in Resources |-> heap[r] + (IF r \in rs THEN 1 ELSE 0)]

Through(k) == UNION {Stages[i] : i \in 1 .. k}

\* RtmpOutputAdapter::Open, to its end: a new connection.
RtmpOpens == rtmpOpen' = TRUE /\ rtmpLast' = -1

\* All stages; the session has no audio callback, or the input no audio.
OpenSucceeds(next) ==
  /\ \E audio \in SUBSET Stages[3] : Acquire((Resources \ Stages[3]) \cup audio)
  /\ opened' = TRUE /\ RtmpOpens
  /\ pc' = next
  /\ UNCHANGED <<failed, attempts>>

\* Stage k + 1 fails after part of what it acquires: Open returns false and
\* frees nothing.
OpenFails(next) ==
  /\ \E k \in 0 .. Len(Stages) - 1 :
       \E part \in SUBSET Stages[k + 1] :
         /\ k # 3 => Cardinality(part) < 2
         /\ Acquire(Through(k) \cup part)
  /\ failed' = failed + 1
  /\ attempts' = attempts + 1
  /\ pc' = next
  /\ UNCHANGED <<opened, rtmpOpen, rtmpLast>>

Open ==
  /\ pc = "open" /\ opens < MaxOpens
  /\ opens' = opens + 1
  /\ OpenSucceeds("loop") \/ OpenFails("ended")
  /\ UNCHANGED <<stop, packet, frameSeq, inEncoder>>

\* Mutant: Close forgets the audio decoder.
FreeAllButAudio(rs) ==
  /\ held' = held \ (rs \ Stages[3])
  /\ heap' = [r \in Resources |-> heap[r] - (IF r \in (rs \ Stages[3]) \cap held THEN 1 ELSE 0)]

Free(rs) ==
  /\ held' = held \ rs
  /\ heap' = [r \in Resources |-> heap[r] - (IF r \in rs \cap held THEN 1 ELSE 0)]

\* RtmpOutputAdapter::Close
RtmpCloses == rtmpOpen' = FALSE /\ rtmpLast' = -1

\* The flush: the encoder gives back what it kept; then everything is freed,
\* the adapters close and frame_seq_ starts again.  Nothing when not opened.
CloseStreamer ==
  IF ~opened
  THEN UNCHANGED <<opened, held, heap, rtmpOpen, frameSeq, inEncoder, rtmpLast>>
  ELSE /\ opened' = FALSE
       /\ Free(Resources)
       /\ RtmpCloses
       /\ frameSeq' = 0 /\ inEncoder' = <<>>

Close ==
  /\ pc = "close"
  /\ CloseStreamer
  /\ pc' = "ended"
  /\ UNCHANGED <<stop, opens, failed, attempts, packet>>

-----------------------------------------------------------------------------
(* RunSerial and ProcessNextFrame.                                         *)

Loop ==
  /\ pc = "loop"
  /\ pc' = IF stop THEN "close" ELSE "gate"
  /\ UNCHANGED <<stop, opened, held, heap, rtmpOpen, opens, failed, attempts, packet,
                 frameSeq, inEncoder, rtmpLast>>

\* WaitForClients has returned; ProcessNextFrame allocates a packet.
Gate ==
  /\ pc = "gate"
  /\ IF stop \/ ~opened
     THEN pc' = "close" /\ UNCHANGED packet
     ELSE pc' = "read" /\ packet' = "held"
  /\ UNCHANGED <<stop, opened, held, heap, rtmpOpen, opens, failed, attempts,
                 frameSeq, inEncoder, rtmpLast>>

\* What av_read_frame and the decoder make of the next packet, passing over
\* audio and other packets and those after which the decoder wants more.  A
\* packet the decoder refuses is freed, and the loop goes on to read into it.
ReadPacket ==
  /\ pc = "read" /\ packet = "held"
  /\ \/ /\ frameSeq < MaxFrames
        /\ pc' = "frame" /\ packet' = "none"              \* a frame
     \/ pc' = "retry" /\ packet' = "none"                 \* end of file, an error
     \/ UNCHANGED pc /\ packet' = "freed"                 \* refused
  /\ UNCHANGED <<stop, opened, held, heap, rtmpOpen, opens, failed, attempts,
                 frameSeq, inEncoder, rtmpLast>>

\* av_read_frame(ifmt_ctx_, nullptr)
ReadIntoNull ==
  /\ pc = "read" /\ packet = "freed"
  /\ pc' = "crashed"
  /\ UNCHANGED <<stop, opened, held, heap, rtmpOpen, opens, failed, attempts, packet,
                 frameSeq, inEncoder, rtmpLast>>

\* The adapters get the first k packets of those in the encoder.
Deliver(queue, k) ==
  /\ inEncoder' = SubSeq(queue, k + 1, Len(queue))
  /\ rtmpLast' = IF k > 0 /\ rtmpOpen THEN queue[k] ELSE rtmpLast

\* EncodeAndDeliver, whose result ProcessNextFrame ignores: the encoder refuses
\* the frame, or takes it and gives back some packets before it says EAGAIN or
\* fails; a frame it does not give back it keeps.
EncodeAndDeliver ==
  \/ Deliver(inEncoder, 0)
  \/ \E k \in 0 .. Len(inEncoder) + 1 :
       /\ Len(inEncoder) + 1 - k <= MaxDelay
       /\ Deliver(Append(inEncoder, frameSeq), k)

\* Mutant: the frame number stays when delivering has failed.
EncodeNoAdvance ==
  /\ EncodeAndDeliver
  /\ frameSeq' \in {frameSeq, frameSeq + 1}

Encode ==
  /\ EncodeAndDeliver
  /\ frameSeq' = frameSeq + 1

\* frame_cb may drop the frame: then it has no number.
ProcessFrame ==
  /\ pc = "frame"
  /\ \/ Encode
     \/ UNCHANGED <<frameSeq, inEncoder, rtmpLast>>
  /\ pc' = "loop"
  /\ UNCHANGED <<stop, opened, held, heap, rtmpOpen, opens, failed, attempts, packet>>

\* ProcessNextFrame returned false.
Retry ==
  /\ pc = "retry"
  /\ IF ReconnectOnEof
     THEN CloseStreamer /\ pc' = "reopen" /\ attempts' = 0
     ELSE /\ pc' = "close"
          /\ UNCHANGED <<opened, held, heap, rtmpOpen, frameSeq, inEncoder, rtmpLast, attempts>>
  /\ UNCHANGED <<stop, opens, failed, packet>>

\* The reconnect loop, up to the delay and the wait for clients ...
Delay ==
  /\ pc = "reopen"
  /\ pc' = IF stop \/ attempts >= MaxReconnect THEN "close" ELSE "regate"
  /\ UNCHANGED <<stop, opened, held, heap, rtmpOpen, opens, failed, attempts, packet,
                 frameSeq, inEncoder, rtmpLast>>

\* ... and after them.
Reopen ==
  /\ pc = "regate" /\ ~stop /\ opens < MaxOpens
  /\ opens' = opens + 1
  /\ OpenSucceeds("loop") \/ OpenFails("reopen")
  /\ UNCHANGED <<stop, packet, frameSeq, inEncoder>>

GiveUp ==
  /\ pc = "regate" /\ stop
  /\ pc' = "close"
  /\ UNCHANGED <<stop, opened, held, heap, rtmpOpen, opens, failed, attempts, packet,
                 frameSeq, inEncoder, rtmpLast>>

Run == Open \/ Loop \/ Gate \/ ReadPacket \/ ReadIntoNull \/ ProcessFrame \/ Retry \/ Delay
       \/ Reopen \/ GiveUp \/ Close

Next == Run \/ Stop

Spec == Init /\ [][Next]_vars

-----------------------------------------------------------------------------
(* Properties                                                              *)

\* Every variable has its type, and opened_ means that all of Open was done.
TypeOK ==
  /\ pc \in {"open", "loop", "gate", "read", "frame", "close", "retry", "reopen", "regate",
            "ended", "crashed"}
  /\ {stop, opened, rtmpOpen} \subseteq BOOLEAN
  /\ held \subseteq Resources /\ heap \in [Resources -> Nat]
  /\ opens \in 0 .. MaxOpens /\ failed \in 0 .. opens /\ attempts \in 0 .. MaxOpens
  /\ packet \in {"none", "held", "freed"}
  /\ frameSeq \in 0 .. MaxFrames /\ Len(inEncoder) <= MaxDelay
  /\ rtmpLast \in -1 .. MaxFrames
  /\ opened => held \in {Resources, Resources \ Stages[3]} /\ rtmpOpen

\* An input, decoder, scaler, encoder or RTMP connection is lost only to an
\* Open that failed: what is allocated and no pointer names is at most one of
\* each kind per failed Open, and a streamer that was opened and closed
\* without a failure has freed everything.
LostOnlyByFailedOpen ==
  /\ \A r \in Resources :
       LET named == IF r \in held THEN 1 ELSE 0
       IN named <= heap[r] /\ heap[r] <= named + failed
  /\ ~opened /\ failed = 0 => held = {}

\* The RTMP muxer and the encoder want presentation times that increase: over
\* reconnects, dropped frames and failures of the encoder, within one
\* connection they do.
PtsIncrease ==
  /\ \A i \in 1 .. Len(inEncoder) :
       /\ rtmpLast < inEncoder[i] /\ inEncoder[i] < frameSeq
       /\ \A j \in 1 .. i - 1 : inEncoder[j] < inEncoder[i]
  /\ rtmpLast < frameSeq

=============================================================================
