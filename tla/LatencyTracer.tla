---------------------------- MODULE LatencyTracer ----------------------------
(***************************************************************************)
(* The LatencyTracer of the process: threads whose LatencyScopes log       *)
(* events, the HTTP thread that resets the statistics, the writer thread   *)
(* with its own batch, and the destructor, which flushes at exit while the *)
(* writer may still be writing.                                            *)
(*                                                                         *)
(* Each block under ring_mutex_ or queue_mutex_ is one step, and so is each *)
(* call of write in WriteLine; a text takes two of them at most, and any   *)
(* may fail.  The threads that log have been joined when the destructor    *)
(* runs.  An event's number stands for its duration too.                   *)
(***************************************************************************)
EXTENDS Integers, Sequences, FiniteSets, SequencesExt

CONSTANTS Loggers,      \* threads that log
          BufferSize,   \* buffer_size_
          MaxDurations, \* durations kept per stage
          MaxEvents,    \* events logged (model bound)
          MaxResets     \* calls of Reset (model bound)

\* What the constants are.
TracerConstants ==
  /\ IsFiniteSet(Loggers)
  /\ {BufferSize, MaxEvents, MaxResets} \subseteq Nat /\ MaxDurations \in Nat \ {0}

VARIABLES enabled,    \* enabled_
          logPc,      \* per logger, "idle", "ring" or "queue"
          event,      \* per logger, the event it logs
          ring,       \* ring_buffer_
          stats,      \* stats_ of the one stage: [count, total, min, max, durations]
          queued,     \* write_queue_
          batch,      \* the writer's batch, as far as it is not written
          writerPc,   \* "none", "wait", "write", "check", "final", "done"
          running,    \* writer_running_
          pendings,   \* the pending of Flush, as far as it is not written
          exitPc,     \* the destructor: "no", "flush", "write", "stop", "clear", "join", "done"
          log,        \* how many calls of write for an event had which result
          resets,     \* calls of Reset
          logged,     \* events given a number (history)
          since       \* events that took ring_mutex_ since the last Reset (history)

vars == <<enabled, logPc, event, ring, stats, queued, batch, writerPc, running, pendings, exitPc,
          log, resets, logged, since>>

Events == 1 .. MaxEvents

\* What comes of a call of write: some of the text is written, or the rest of
\* it; it fails, and the text is given up; the newline is written, or fails too.
Results == {"part", "rest", "broken", "newline", "bare"}

NoStats == [count |-> 0, total |-> 0, min |-> 0, max |-> 0, durations |-> <<>>]

Init ==
  /\ enabled = FALSE
  /\ logPc = [t \in Loggers |-> "idle"] /\ event = [t \in Loggers |-> 0]
  /\ ring = <<>> /\ stats = NoStats
  /\ queued = <<>> /\ batch = <<>> /\ writerPc = "none" /\ running = FALSE
  /\ pendings = <<>> /\ exitPc = "no" /\ log = [call \in Events \X Results |-> 0]
  /\ resets = 0 /\ logged = 0 /\ since = <<>>

-----------------------------------------------------------------------------
(* Enable.                                                                 *)

\* Enable(true): the first time the log file is opened and the writer started;
\* when it cannot be opened nothing is enabled.
EnableOn ==
  /\ exitPc = "no" /\ ~enabled
  /\ \/ running /\ enabled' = TRUE /\ UNCHANGED <<running, writerPc>>
     \/ ~running /\ enabled' = TRUE /\ running' = TRUE /\ writerPc' = "check"
  /\ UNCHANGED <<logPc, event, ring, stats, queued, batch, pendings, exitPc, log, resets, logged, since>>

EnableOff ==
  /\ exitPc = "no" /\ enabled
  /\ enabled' = FALSE
  /\ UNCHANGED <<logPc, event, ring, stats, queued, batch, writerPc, running, pendings, exitPc,
                 log, resets, logged, since>>

-----------------------------------------------------------------------------
(* LogEvent.                                                               *)

\* The end of a LatencyScope; nothing when the tracer is not enabled.
LogEvent(t) ==
  /\ logPc[t] = "idle" /\ enabled /\ exitPc = "no" /\ logged < MaxEvents
  /\ logged' = logged + 1
  /\ event' = [event EXCEPT ![t] = logged + 1]
  /\ logPc' = [logPc EXCEPT ![t] = "ring"]
  /\ UNCHANGED <<enabled, ring, stats, queued, batch, writerPc, running, pendings, exitPc, log, resets, since>>

LastOf(s, n) == SubSeq(s, Len(s) - n + 1, Len(s))

\* Mutant: the front is dropped one element late.
BoundedLate(s, n) == IF Len(s) > n + 1 THEN LastOf(s, n) ELSE s

\* A list from whose front elements are dropped when there are more than n.
Bounded(s, n) == IF Len(s) > n THEN LastOf(s, n) ELSE s

\* The statistics st with one more duration d.
Counted(st, d) ==
  [count |-> st.count + 1, total |-> st.total + d,
   min |-> IF st.count = 0 \/ d < st.min THEN d ELSE st.min,
   max |-> IF st.count = 0 \/ d > st.max THEN d ELSE st.max,
   durations |-> Bounded(Append(st.durations, d), MaxDurations)]

\* Under ring_mutex_: the ring and the statistics.
LogToRing(t) ==
  /\ logPc[t] = "ring"
  /\ ring' = Bounded(Append(ring, event[t]), BufferSize)
  /\ stats' = Counted(stats, event[t])
  /\ since' = Append(since, event[t])
  /\ logPc' = [logPc EXCEPT ![t] = "queue"]
  /\ UNCHANGED <<enabled, event, queued, batch, writerPc, running, pendings, exitPc, log, resets, logged>>

\* Under queue_mutex_, then notify_one.
LogToQueue(t) ==
  /\ logPc[t] = "queue"
  /\ queued' = Append(queued, event[t])
  /\ logPc' = [logPc EXCEPT ![t] = "idle"]
  /\ UNCHANGED <<enabled, event, ring, stats, batch, writerPc, running, pendings, exitPc, log, resets,
                 logged, since>>

Cleared == ring' = <<>> /\ stats' = NoStats

Reset ==
  /\ exitPc = "no" /\ resets < MaxResets
  /\ Cleared
  /\ since' = <<>> /\ resets' = resets + 1
  /\ UNCHANGED <<enabled, logPc, event, queued, batch, writerPc, running, pendings, exitPc, log, logged>>

-----------------------------------------------------------------------------
(* What the HTTP routes make of it.                                        *)

\* GetRecentEvents; a limit below 0 asks reserve for more than there can be,
\* and the request fails.
GetRecentEvents(limit) ==
  LET from == IF Len(ring) > limit THEN Len(ring) - limit ELSE 0
  IN IF ring = <<>> THEN <<>>
     ELSE IF from > Len(ring) THEN <<"length_error">>
     ELSE SubSeq(ring, from + 1, Len(ring))

\* Mutant: the durations are not sorted.
PercentileUnsorted(durations, p) ==
  LET index == (Len(durations) * p) \div 100
  IN IF durations = <<>> THEN 0
     ELSE durations[1 + (IF index >= Len(durations) THEN Len(durations) - 1 ELSE index)]

\* The durations in order, as std::sort leaves them.
Sorted(durations) ==
  LET places == 1 .. Len(durations)
      order  == CHOOSE f \in Bijection(places, places) :
                  \A i, j \in places : i < j => durations[f[i]] <= durations[f[j]]
  IN [i \in places |-> durations[order[i]]]

\* pct of GET /api/latency/stats, for p percent.
Percentile(durations, p) ==
  LET d     == Sorted(durations)
      index == (Len(d) * p) \div 100
  IN IF d = <<>> THEN 0
     ELSE d[1 + (IF index >= Len(d) THEN Len(d) - 1 ELSE index)]

-----------------------------------------------------------------------------
(* WriterThreadFunc.                                                       *)

Wrote(e, result) == log[<<e, result>>] > 0
TextOver(e)      == Wrote(e, "rest") \/ Wrote(e, "broken")

\* The next call of write for the first event of s ...
NextResults(e) ==
  IF TextOver(e) THEN {"newline", "bare"}
  ELSE {"rest", "broken"} \cup (IF Wrote(e, "part") THEN {} ELSE {"part"})

WriteLine(s) == \E result \in NextResults(Head(s)) : log' = [log EXCEPT ![<<Head(s), result>>] = @ + 1]

\* ... and s after it: the newline is the last, whatever came of it.
AfterWrite(s) == IF TextOver(Head(s)) THEN Tail(s) ELSE s

WriterCheck ==
  /\ writerPc = "check"
  /\ writerPc' = IF running THEN "wait" ELSE "final"
  /\ UNCHANGED <<enabled, logPc, event, ring, stats, queued, batch, running, pendings, exitPc, log,
                 resets, logged, since>>

WriterLeaves == queued = <<>> /\ ~running

\* wait_for returns, be it after 500 ms; the queue becomes the batch.
WriterTake ==
  /\ writerPc = "wait"
  /\ IF WriterLeaves
     THEN writerPc' = "final" /\ UNCHANGED <<queued, batch>>
     ELSE writerPc' = "write" /\ batch' = queued /\ queued' = <<>>
  /\ UNCHANGED <<enabled, logPc, event, ring, stats, running, pendings, exitPc, log, resets, logged, since>>

WriterWrite ==
  /\ writerPc \in {"write", "flush"}
  /\ IF batch = <<>>
     THEN /\ writerPc' = IF writerPc = "write" THEN "check" ELSE "done"
          /\ UNCHANGED <<batch, log>>
     ELSE WriteLine(batch) /\ batch' = AfterWrite(batch) /\ UNCHANGED writerPc
  /\ UNCHANGED <<enabled, logPc, event, ring, stats, queued, running, pendings, exitPc, resets, logged, since>>

WriterFinal ==
  /\ writerPc = "final"
  /\ batch' = queued /\ queued' = <<>>
  /\ writerPc' = "flush"
  /\ UNCHANGED <<enabled, logPc, event, ring, stats, running, pendings, exitPc, log, resets, logged, since>>

Writer == WriterCheck \/ WriterTake \/ WriterWrite \/ WriterFinal

-----------------------------------------------------------------------------
(* ~LatencyTracer.                                                         *)

\* Mutant: Flush copies the queue.
FlushedCopy == pendings' = queued /\ UNCHANGED queued

Flushed == pendings' = queued /\ queued' = <<>>

\* Flush: pending.swap(write_queue_) ...
ExitFlush ==
  /\ exitPc = "no" /\ \A t \in Loggers : logPc[t] = "idle"
  /\ Flushed
  /\ exitPc' = "write"
  /\ UNCHANGED <<enabled, logPc, event, ring, stats, batch, writerPc, running, log, resets, logged, since>>

\* ... and its lines, while the writer writes its own.
ExitWrite ==
  /\ exitPc = "write"
  /\ IF pendings = <<>> THEN exitPc' = "stop" /\ UNCHANGED <<pendings, log>>
     ELSE WriteLine(pendings) /\ pendings' = AfterWrite(pendings) /\ UNCHANGED exitPc
  /\ UNCHANGED <<enabled, logPc, event, ring, stats, queued, batch, writerPc, running, resets, logged, since>>

\* writer_running_ = false; then the queue is cleared and the writer notified.
ExitStop ==
  /\ exitPc = "stop"
  /\ running' = FALSE /\ exitPc' = "clear"
  /\ UNCHANGED <<enabled, logPc, event, ring, stats, queued, batch, writerPc, pendings, log, resets,
                 logged, since>>

ExitClear ==
  /\ exitPc = "clear"
  /\ queued' = <<>> /\ exitPc' = "join"
  /\ UNCHANGED <<enabled, logPc, event, ring, stats, batch, writerPc, running, pendings, log, resets,
                 logged, since>>

ExitJoin ==
  /\ exitPc = "join" /\ writerPc \in {"none", "done"}
  /\ exitPc' = "done"
  /\ UNCHANGED <<enabled, logPc, event, ring, stats, queued, batch, writerPc, running, pendings, log,
                 resets, logged, since>>

Leave == ExitWrite \/ ExitStop \/ ExitClear \/ ExitJoin

Next ==
  \/ EnableOn \/ EnableOff \/ Reset \/ Writer \/ ExitFlush \/ Leave
  \/ \E t \in Loggers : LogEvent(t) \/ LogToRing(t) \/ LogToQueue(t)

Spec == Init /\ [][Next]_vars

-----------------------------------------------------------------------------

\* Every variable has its type, and the durations kept are bounded.
TypeOK ==
  /\ {enabled, running} \subseteq BOOLEAN
  /\ logPc \in [Loggers -> {"idle", "ring", "queue"}] /\ event \in [Loggers -> 0 .. logged]
  /\ Range(ring) \subseteq Events /\ Range(queued) \subseteq Events /\ Range(batch) \subseteq Events
  /\ stats.count \in Nat /\ Len(stats.durations) <= MaxDurations
  /\ writerPc \in {"none", "check", "wait", "write", "final", "flush", "done"}
  /\ exitPc \in {"no", "write", "stop", "clear", "join", "done"}

\* Whatever the order in which threads log and a client resets: the ring is
\* the last events of those the statistics count (LatencyTracer.cpp:159-179, 207-211).
RingIsTail ==
  /\ stats.count = Len(since)
  /\ ring = Bounded(since, BufferSize)
  /\ stats.durations = Bounded(since, MaxDurations)

Asked == {50, 90, 95, 99}   \* the percentiles of the route

\* A percentile p of some durations is one of them, of which at least p percent
\* are no longer and at most p percent are shorter; a larger p has no smaller
\* percentile.
PercentileRight(durations, p) ==
  LET v == Percentile(durations, p)
      n == Len(durations)
  IN /\ v \in Range(durations)
     /\ 100 * Cardinality({i \in 1 .. n : durations[i] <= v}) >= p * n
     /\ 100 * Cardinality({i \in 1 .. n : durations[i] < v}) <= p * n
     /\ \A q \in Asked : q < p => Percentile(durations, q) <= v

\* So it is whatever durations the statistics keep (StreamApiServer.cpp:366-383).
PercentilesRight ==
  \A durations \in BoundedSeq(0 .. 2, 4) \ {<<>>}, p \in Asked : PercentileRight(durations, p)

\* The percentiles lie between the shortest and the longest duration since the
\* last Reset, though only the last durations are kept; a limit that is not
\* negative gives that many of the last events.
StatisticsRight ==
  /\ stats.count > 0 => \A p \in Asked : Percentile(stats.durations, p) \in stats.min .. stats.max
  /\ stats.count = 0 \/ stats.count * stats.min <= stats.total
  /\ stats.total <= stats.count * stats.max
  /\ \A limit \in 0 .. BufferSize + 1 : GetRecentEvents(limit) = Bounded(since, IF limit < BufferSize THEN limit ELSE BufferSize)

Times(e, s) == Cardinality({i \in DOMAIN s : s[i] = e})

LineOver(e) == Wrote(e, "newline") \/ Wrote(e, "bare")

\* An event that was logged is with the thread that logs it, once in a queue, or
\* its line is over, also when the destructor's Flush writes while the writer
\* does; nothing is written twice; a line that is over is whole, with its
\* newline, unless a write of it failed; when the destructor has ended all lines
\* are over (LatencyTracer.cpp:69-86, 289-333).
EachWrittenOnce ==
  /\ \A e \in 1 .. logged :
       /\ \A result \in Results : log[<<e, result>>] <= 1
       /\ LineOver(e) => \/ Wrote(e, "rest") /\ Wrote(e, "newline")
                         \/ Wrote(e, "broken") \/ Wrote(e, "bare")
       /\ ~(Wrote(e, "rest") /\ Wrote(e, "broken")) /\ ~(Wrote(e, "newline") /\ Wrote(e, "bare"))
       /\ (\A t \in Loggers : logPc[t] = "idle" \/ event[t] # e) =>
             LineOver(e) \/ Times(e, queued) + Times(e, batch) + Times(e, pendings) = 1
  /\ exitPc = "done" => \A e \in 1 .. logged : LineOver(e)

=============================================================================
