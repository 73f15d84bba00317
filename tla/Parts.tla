------------------------------- MODULE Parts -------------------------------
(***************************************************************************)
(* The parts of the process that share no state in the models: the         *)
(* streamer of a serial session, the LatencyTracer, the face library, the  *)
(* media source of a channel, and main with its HTTP server.  A behaviour  *)
(* is one of one of the parts, which Init chooses; the others stand still. *)
(***************************************************************************)
EXTENDS Integers

CONSTANTS ReconnectOnEof, MaxReconnect, MaxDelay, MaxFrames, MaxOpens,   \* the streamer
          Loggers, BufferSize, MaxDurations, MaxEvents, MaxResets,      \* the tracer
          Handlers,                                                     \* the pool of the HTTP server
          Names, Others, MaxChanges, MaxCrashes,                        \* the face libraries
          Sizes, SeiSize, MaxPushed,                                    \* the media source
          MaxSessions, MaxPlugins                                       \* main and the HTTP server

VARIABLES part,
          streamerPc, streamerStop, opened, held, heap, rtmpOpen, opens, failed, attempts, packet,
          frameSeq, inEncoder, rtmpLast,
          enabled, logPc, event, ring, stats, queued, batch, writerPc, running, pendings, exitPc,
          log, resets, logged, since,
          entries, file, saving, left, request, adding, up, changes, crashes, acked, unsaved,
          authors,
          codec, todo, frame, pos, start, pushed, net, received,
          mainPc, listen, apiRunning, stopSeen, mutex, subscribed, lastId, sessions, state, stop,
          run, missed, chain, plugin, plugins, apiPlugin, mainPlugin, pc, hold, fresh

Str   == INSTANCE FFmpegStreamer WITH pc <- streamerPc, stop <- streamerStop
Trc   == INSTANCE LatencyTracer
Faces == INSTANCE FaceDatabase
Src   == INSTANCE MediaSources
Api   == INSTANCE ApiServer

ASSUME PartsAssumption ==
  /\ Str!StreamerConstants /\ Trc!TracerConstants /\ Faces!FacesConstants
  /\ Src!SourcesConstants /\ Api!ApiConstants

streamerVars == <<streamerPc, streamerStop, opened, held, heap, rtmpOpen, opens, failed, attempts,
                  packet, frameSeq, inEncoder, rtmpLast>>
tracerVars   == <<enabled, logPc, event, ring, stats, queued, batch, writerPc, running, pendings,
                  exitPc, log, resets, logged, since>>
facesVars    == <<entries, file, saving, left, request, adding, up, changes, crashes, acked, unsaved,
                  authors>>
sourcesVars  == <<codec, todo, frame, pos, start, pushed, net, received>>
apiVars      == <<mainPc, listen, apiRunning, stopSeen, mutex, subscribed, lastId, sessions, state,
                  stop, run, missed, chain, plugin, plugins, apiPlugin, mainPlugin, pc, hold, fresh>>
vars == <<part, streamerVars, tracerVars, facesVars, sourcesVars, apiVars>>

Init ==
  /\ part \in {"streamer", "tracer", "faces", "sources", "api"}
  /\ Str!Init /\ Trc!Init /\ Faces!Init /\ Src!Init /\ Api!Init
  \* The parts that stand still need one initial state each.
  /\ part # "api" => plugins = 0
  /\ part # "sources" => codec = "h264"

Next ==
  /\ UNCHANGED part
  /\ \/ part = "streamer" /\ Str!Next /\ UNCHANGED <<tracerVars, facesVars, sourcesVars, apiVars>>
     \/ part = "tracer" /\ Trc!Next /\ UNCHANGED <<streamerVars, facesVars, sourcesVars, apiVars>>
     \/ part = "faces" /\ Faces!Next /\ UNCHANGED <<streamerVars, tracerVars, sourcesVars, apiVars>>
     \/ part = "sources" /\ Src!Next /\ UNCHANGED <<streamerVars, tracerVars, facesVars, apiVars>>
     \/ part = "api" /\ Api!Next /\ UNCHANGED <<streamerVars, tracerVars, facesVars, sourcesVars>>

Spec == Init /\ [][Next]_vars

-----------------------------------------------------------------------------

\* The variables of every part have their types.
TypeOK == Str!TypeOK /\ Trc!TypeOK /\ Faces!TypeOK /\ Src!TypeOK /\ Api!TypeOK

\* The streamer loses nothing but by an Open that failed, and over reconnects,
\* dropped frames and failures of the encoder its outputs get presentation
\* times that increase (FFmpegStreamer.cpp:37-55, 324-391, 460-553).
StreamerKeeps == Str!LostOnlyByFailedOpen /\ Str!PtsIncrease

\* An event is written once, the ring holds the last ones, and what the HTTP
\* routes say of them is right (LatencyTracer.cpp:69-86, 156-211, 289-333,
\* StreamApiServer.cpp:366-383).
TracerRight ==
  Trc!RingIsTail /\ Trc!EachWrittenOnce /\ Trc!PercentilesRight /\ Trc!StatisticsRight

\* A face that was acknowledged is in main's database and in the file, but for a
\* crash in a Save or after one that failed, and until main saves again over what
\* another plugin's database has saved (FaceDatabase.cpp:140-174).
FacesKept == Faces!FacesKept

\* The frames pushed into a source come back out of its packets, whatever
\* their sizes (H264Source.cpp:40-115 and the other sources).
FramesReassembled == Src!FramesReassembled

\* Nobody uses the face components or main's subscription when they are gone, and
\* nobody but sessions made through the API the servers (main.cpp:157-202,
\* StreamSession.cpp:159-222).
PointersOutlive == Api!PointersOutlive

\* Requests and main wait for a run thread only when it has been told to stop and
\* does not wait for clients, unless Stop's notify_all missed it
\* (StreamApiServer.cpp:561-602, StreamSession.cpp:126-157).
JoinedAreTold == Api!JoinedAreTold
=============================================================================
