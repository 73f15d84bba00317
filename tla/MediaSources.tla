---------------------------- MODULE MediaSources ----------------------------
(***************************************************************************)
(* How a frame of an encoder becomes the RTP packets of a media channel:   *)
(* the output adapters put a start code or an ADTS header before it, and   *)
(* HandleFrame of the channel's source cuts it into packets and calls      *)
(* send_frame_callback_ for each.  One step is one packet.                 *)
(*                                                                         *)
(* The sizes are those of the code.  A byte is its place in the frame, and *)
(* a payload the interval of the bytes it copies, after a header that says *)
(* what a receiver has to know of the others.                              *)
(*                                                                         *)
(* The callback that AddSource sets returns true whatever comes of the     *)
(* packet, so no loop is left early.                                       *)
(***************************************************************************)
EXTENDS Integers, Sequences, SequencesExt

CONSTANTS Sizes,      \* the sizes of what the encoders deliver
          SeiSize,    \* of the latency marker with its start code
          MaxPushed   \* the frames pushed (model bound)

\* What the constants are: the size of an AVPacket is an int, so that no sum
\* leaves the uint32_t of a frame's size.
MaxSize == 2147483647
SourcesConstants == {SeiSize} \cup Sizes \subseteq 1 .. MaxSize /\ MaxPushed \in Nat

MaxPayload == 1420   \* MAX_RTP_PAYLOAD_SIZE
Heads      == 16     \* RTP_TCP_HEAD_SIZE and RTP_HEADER_SIZE
Buffer     == 1600   \* of an RtpPacket
StartCode  == 4
Adts       == 7      \* ADTS_SIZE
Au         == 4      \* AU_SIZE

Nal    == [h264 |-> 1, h265 |-> 2]   \* the NAL header, which a fragment leaves out
Fu     == [h264 |-> 2, h265 |-> 3]   \* the header of a fragment, in its stead
Codecs == {"h264", "h265", "vp8", "aac", "pcma"}

VARIABLES
  codec,    \* the source of the channel
  todo,     \* the frames that the adapter has still to push: [size, type]
  frame,    \* the frame in HandleFrame, or NoFrame
  pos,      \* the bytes of it that are in packets, or in their headers
  start,    \* the first packet is still to come
  pushed,   \* the frames that HandleFrame accepted
  net,      \* the packets given to send_frame_callback_
  received  \* what a receiver has made of them (history)

sourcesVars == <<codec, todo, frame, pos, start, pushed, net, received>>

NoFrame == [size |-> 0, type |-> "none"]

Init ==
  /\ codec \in Codecs
  /\ todo = <<>> /\ frame = NoFrame /\ pos = 0 /\ start = FALSE
  /\ pushed = <<>> /\ net = <<>> /\ received = <<>>

Idle == todo = <<>> /\ frame = NoFrame /\ Len(pushed) < MaxPushed

Types == IF codec \in {"aac", "pcma"} THEN {"audio"} ELSE {"I", "P"}

-----------------------------------------------------------------------------
(* The adapters.                                                           *)

\* RtspOutputAdapter::WritePacket: before a key frame the latency marker, if
\* that is enabled.
WritePacket(n, type) ==
  /\ Idle /\ codec = "h264"
  /\ \E marked \in BOOLEAN :
       todo' = (IF marked /\ type = "I" THEN <<[size |-> SeiSize, type |-> "I"]>> ELSE <<>>)
               \o <<[size |-> StartCode + n, type |-> type]>>
  /\ UNCHANGED <<codec, frame, pos, start, pushed, net, received>>

\* AudioOutputAdapter::PushFrame, of a packet the AAC encoder gave.
PushAudio(n) ==
  /\ Idle /\ codec = "aac"
  /\ todo' = <<[size |-> Adts + n, type |-> "audio"]>>
  /\ UNCHANGED <<codec, frame, pos, start, pushed, net, received>>

\* RtspServer::PushFrame by an application.
PushRaw(n, type) ==
  /\ Idle /\ codec \in {"h265", "vp8", "pcma"}
  /\ todo' = <<[size |-> n, type |-> type]>>
  /\ UNCHANGED <<codec, frame, pos, start, pushed, net, received>>

-----------------------------------------------------------------------------
(* HandleFrame.                                                            *)

\* A sound frame goes into one packet or nowhere.
Refused(f) ==
  \/ codec = "aac" /\ f.size > MaxPayload - Au
  \/ codec = "pcma" /\ f.size > MaxPayload

Whole(f) == codec \in {"aac", "pcma"} \/ (codec # "vp8" /\ f.size <= MaxPayload)

\* The bytes at the beginning that no payload copies.
Skipped(f) == IF codec = "aac" THEN Adts
              ELSE IF Whole(f) \/ codec = "vp8" THEN 0 ELSE Nal[codec]

HandleFrame ==
  /\ todo # <<>> /\ frame = NoFrame
  /\ todo' = Tail(todo)
  /\ LET f == Head(todo)
     IN IF Refused(f)
        THEN UNCHANGED <<frame, pos, start, pushed>>
        ELSE /\ frame' = f /\ pos' = Skipped(f) /\ start' = TRUE
             /\ pushed' = Append(pushed, f)
  /\ UNCHANGED <<codec, net, received>>

Left == frame.size - pos

\* What a receiver that knows the payload formats makes of a packet, given the
\* frames it has so far, as [frame, got]: the bytes 1 .. got of a frame, or
\* "garbled" when a packet starts nothing and continues nothing.  It begins a
\* frame at a packet that is whole or has the start bit, with the NAL header
\* that the fragment's header holds, or, for AAC, where the access unit begins,
\* which has the size that its header says.
Depacketize(frames, p) ==
  LET begins == p.start \/ codec \in {"aac", "pcma"} \/ p.header.size = 0
      skip   == IF codec \notin DOMAIN Nal THEN 0
                ELSE IF p.header.size = 0 THEN 0 ELSE Nal[codec]
      got    == IF codec = "aac" THEN p.header.high * 32 + p.header.low ELSE p.to - p.from + 1
      before == IF begins THEN (IF codec = "aac" THEN Adts ELSE skip) ELSE Last(frames).got
      follows == frames # <<>> /\ Last(frames).frame = p.frame
  IN IF ~(begins \/ follows) \/ before + 1 # p.from
     THEN Append(frames, [frame |-> "garbled"])
     ELSE Append(IF begins THEN frames ELSE Front(frames), [frame |-> p.frame, got |-> before + got])

Packet(header, n, first, end, last) ==
  [header |-> header, frame |-> Len(pushed), from |-> pos + 1, to |-> pos + n,
   start |-> first, end |-> end, last |-> last, type |-> frame.type]

Given(p) == net' = Append(net, p) /\ received' = Depacketize(received, p)

\* Mutant: the start bit is not taken back.
EmitStarting(header, n, first, end, last) ==
  /\ Given(Packet(header, n, first, end, last))
  /\ pos' = pos + n
  /\ start' = start
  /\ frame' = IF n = Left THEN NoFrame ELSE frame

\* The next packet: n bytes of the frame.  After the last the call returns.
Emit(header, n, first, end, last) ==
  /\ Given(Packet(header, n, first, end, last))
  /\ pos' = pos + n
  /\ start' = FALSE
  /\ frame' = IF n = Left THEN NoFrame ELSE frame

Sending == frame # NoFrame /\ UNCHANGED <<codec, todo, pushed>>

SendWhole ==
  /\ Sending /\ Whole(frame) /\ codec # "aac"
  /\ Emit([size |-> 0], Left, FALSE, FALSE, TRUE)

\* The access unit has its size in 13 bits of two bytes.
AuHeader == [size |-> Au, high |-> (Left % 8192) \div 32, low |-> Left % 32]

SendAccessUnit ==
  /\ Sending /\ codec = "aac"
  /\ Emit(AuHeader, Left, FALSE, FALSE, TRUE)

\* Mutant: the loop ends a byte late.
TooLongByOne == Left + Fu[codec] > MaxPayload + 1

TooLong == Left + Fu[codec] > MaxPayload

\* A pass of the loop over a NAL unit: FU-A, or what H.265 has for it.
SendFragment ==
  /\ Sending /\ ~Whole(frame) /\ codec # "vp8"
  /\ TooLong
  /\ Emit([size |-> Fu[codec]], MaxPayload - Fu[codec], start, FALSE, FALSE)

SendLastFragment ==
  /\ Sending /\ ~Whole(frame) /\ codec # "vp8"
  /\ ~TooLong
  /\ Emit([size |-> Fu[codec]], Left, start, TRUE, TRUE)

\* A pass of VP8Source's loop; the marker is for a packet that is not full.
SendVp8 ==
  /\ Sending /\ codec = "vp8"
  /\ Emit([size |-> 1], IF Left < MaxPayload THEN Left ELSE MaxPayload, start, FALSE,
          Left < MaxPayload)

Next ==
  \/ \E n \in Sizes : \/ \E type \in {"I", "P"} : WritePacket(n, type)
                      \/ PushAudio(n)
                      \/ \E type \in Types : PushRaw(n, type)
  \/ HandleFrame
  \/ SendWhole \/ SendAccessUnit \/ SendFragment \/ SendLastFragment \/ SendVp8

Spec == Init /\ [][Next]_sourcesVars

-----------------------------------------------------------------------------
(* Properties                                                              *)

Frames == [size : Nat \ {0}, type : {"I", "P", "audio"}]

\* Every variable has its type, and HandleFrame has bytes left while it runs.
TypeOK ==
  /\ codec \in Codecs /\ start \in BOOLEAN
  /\ \A i \in 1 .. Len(todo) : todo[i] \in Frames
  /\ frame \in Frames \cup {NoFrame}
  /\ frame # NoFrame => pos < frame.size
  /\ \A i \in 1 .. Len(pushed) : pushed[i] \in Frames

\* Whatever their sizes, the frames that were accepted come back out of the
\* packets, byte for byte and in order, with none missing or run together, the
\* one that is being sent as far as it has been (H264Source.cpp:40-115,
\* H265Source.cpp:40-121, VP8Source.cpp:39-84, AACSource.cpp:75-113,
\* G711ASource.cpp:39-61).
Reassembled ==
  LET sent == IF frame # NoFrame /\ start THEN Len(pushed) - 1 ELSE Len(pushed)
  IN received =
       [i \in 1 .. sent |->
          [frame |-> i,
           got   |-> IF frame # NoFrame /\ i = Len(pushed) THEN pos ELSE pushed[i].size]]

\* A packet fits its buffer and, but for the byte before a VP8 payload, the
\* size the code allows one.  It has the type of its frame, for which clients
\* wait with the key frame.  The end bit and the marker are on the last packet
\* of a frame and on no other; a VP8 frame whose size is a multiple of
\* MAX_RTP_PAYLOAD_SIZE has no packet with the marker.
PacketsWellFormed ==
  \A i \in 1 .. Len(net) :
    LET p == net[i]
        f == pushed[p.frame]
        n == p.header.size + p.to - p.from + 1
    IN /\ n <= MaxPayload + (IF codec = "vp8" THEN 1 ELSE 0) /\ Heads + n <= Buffer
       /\ p.from <= p.to /\ p.type = f.type
       /\ p.last <=> p.to = f.size /\ (codec = "vp8" => f.size % MaxPayload # 0)
       /\ p.end => p.last

FramesReassembled == Reassembled /\ PacketsWellFormed

=============================================================================
