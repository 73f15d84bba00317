------------------------------ MODULE DropRing ------------------------------
(***************************************************************************)
(* A ring between two stages of a StreamPipeline (decode_ring_,            *)
(* process_ring_): the upstream thread pushes frames that may displace     *)
(* older ones, the downstream thread prunes and pops.                      *)
(*                                                                         *)
(* PushOverwrite, PushOrDrop and PruneStale hold overwrite_mutex_; Pop and *)
(* Push do not.  PushOrDrop and PushOverwrite on a full ring move get_pos_,*)
(* which is also Pop's cursor, so here Advance(get_pos_) is the two steps  *)
(* it is in the code: a load and a store.  A frame is its index in the     *)
(* stream, which is also its capture time: both grow with every frame.  A  *)
(* slot moved out of holds NoFrame (its shared_ptr is null).               *)
(***************************************************************************)
EXTENDS Integers, Sequences

CONSTANTS Capacity,      \* capacity_
          MaxFrames,     \* bound: how many frames the upstream stage makes
          Keyframes      \* the frames with is_keyframe

ASSUME DropRingAssumption ==
  /\ Capacity \in Nat \ {0}
  /\ MaxFrames \in Nat
  /\ Keyframes \subseteq 1 .. MaxFrames

VARIABLES backpressure,                  \* cfg_.enable_backpressure
          buffer, putPos, getPos, num,   \* as in RingBuffer
          lock,      \* who holds overwrite_mutex_: "none", "up" or "down"
          ppc, item, \* where the upstream thread is, and the frame it pushes
          ppos,      \* its local copy of get_pos_
          gpc, data, \* where the downstream thread is, and its frame
          gpos,      \* its local copy of get_pos_
          scan,      \* PruneStale's locals: [cutoff, left]
          next,      \* the index of the next frame
          popped, dropped, refused, pruned,  \* how many frames went which way
          raced      \* a Pop overlapped a push that was displacing a frame

slots  == <<buffer, putPos, getPos, num>>
up     == <<ppc, item, ppos, next, dropped, refused>>
down   == <<gpc, data, gpos, scan, popped, pruned>>
vars   == <<backpressure, slots, lock, up, down, raced>>

NoFrame == 0
Frames == 1 .. MaxFrames
Slots == 0 .. Capacity - 1
Stored == Frames \cup {NoFrame}
NoScan == [cutoff |-> 0, left |-> 0]
After(pos) == (pos + 1) % Capacity

Init ==
  /\ backpressure \in BOOLEAN
  /\ buffer = [i \in Slots |-> NoFrame]
  /\ putPos = 0 /\ getPos = 0 /\ num = 0
  /\ lock = "none"
  /\ ppc = "idle" /\ item = NoFrame /\ ppos = 0 /\ next = 1
  /\ gpc = "idle" /\ data = NoFrame /\ gpos = 0 /\ scan = NoScan
  /\ popped = 0 /\ dropped = 0 /\ refused = 0 /\ pruned = 0
  /\ raced = FALSE

-----------------------------------------------------------------------------
(* The upstream thread.                                                    *)

\* A new frame; with backpressure PushOrDrop takes the lock at once, without
\* it Push comes first and PushOverwrite follows when the ring was full.
NewFrame ==
  /\ ppc = "idle" /\ next <= MaxFrames
  /\ item' = next
  /\ next' = next + 1
  /\ \/ backpressure /\ lock = "none" /\ lock' = "up" /\ ppc' = "orDrop"
     \/ ~backpressure /\ num < Capacity /\ ppc' = "write" /\ UNCHANGED lock
     \/ ~backpressure /\ num >= Capacity /\ ppc' = "overwrite" /\ UNCHANGED lock
  /\ UNCHANGED <<slots, ppos, dropped, refused, down>>

\* Mutant: a full ring is taken for one with room.
PushOrDropOffByOne ==
  /\ ppc = "orDrop"
  /\ ppos' = getPos
  /\ \/ num <= Capacity /\ ppc' = "write" /\ UNCHANGED <<refused, lock>>
     \/ num > Capacity /\ ppc' = "replace" /\ UNCHANGED <<refused, lock>>
  /\ UNCHANGED <<slots, item, next, dropped, down>>

\* PushOrDrop: room for the frame, or the oldest entry is older than
\* max_age_us and gives way, or the new frame is discarded.  Time is abstract:
\* the oldest entry may be stale or not, as the clock has it.
PushOrDrop ==
  /\ ppc = "orDrop"
  /\ ppos' = getPos
  /\ \/ num < Capacity /\ ppc' = "write" /\ UNCHANGED <<refused, lock>>
     \/ num >= Capacity /\ ppc' = "replace" /\ UNCHANGED <<refused, lock>>
     \/ num >= Capacity /\ ppc' = "idle" /\ refused' = refused + 1 /\ lock' = "none"
  /\ UNCHANGED <<slots, item, next, dropped, down>>

\* OldDropped: the new frame is written over the oldest one.
Replace ==
  /\ ppc = "replace"
  /\ buffer' = [buffer EXCEPT ![ppos] = item]
  /\ ppc' = "getLoad"
  /\ UNCHANGED <<putPos, getPos, num, lock, item, ppos, next, dropped, refused, down>>

\* PushOverwrite takes the lock and tests for a full ring again.
PushOverwrite ==
  /\ ppc = "overwrite" /\ lock = "none"
  /\ lock' = "up"
  /\ ppc' = IF num >= Capacity THEN "getLoad" ELSE "write"
  /\ UNCHANGED <<slots, item, ppos, next, dropped, refused, down>>

\* Advance(get_pos_), by the upstream thread: load ...
UpGetLoad ==
  /\ ppc = "getLoad"
  /\ ppos' = getPos
  /\ ppc' = "getStore"
  /\ UNCHANGED <<slots, lock, item, next, dropped, refused, down>>

\* ... and store.  PushOverwrite then gives the slot back; PushOrDrop has
\* already filled it, and only moves put_pos_ on.
UpGetStore ==
  /\ ppc = "getStore"
  /\ getPos' = After(ppos)
  /\ ppc' = IF backpressure THEN "putOnly" ELSE "uncount"
  /\ UNCHANGED <<buffer, putPos, num, lock, item, ppos, next, dropped, refused, down>>

\* PushOrDrop's Advance(put_pos_); it returns OldDropped, which is counted.
PutOnly ==
  /\ ppc = "putOnly"
  /\ putPos' = After(putPos)
  /\ dropped' = dropped + 1
  /\ lock' = "none"
  /\ ppc' = "idle"
  /\ UNCHANGED <<buffer, getPos, num, item, ppos, next, refused, down>>

\* Mutant: the displaced frame is still counted.
UncountForgotten ==
  /\ ppc = "uncount"
  /\ dropped' = dropped + 1
  /\ ppc' = "write"
  /\ UNCHANGED <<slots, lock, item, ppos, next, refused, down>>

\* PushOverwrite's num_datas_-- for the displaced frame.
Uncount ==
  /\ ppc = "uncount"
  /\ num' = num - 1
  /\ dropped' = dropped + 1
  /\ ppc' = "write"
  /\ UNCHANGED <<buffer, putPos, getPos, lock, item, ppos, next, refused, down>>

\* The common end of an accepted push: the slot, put_pos_ and num_datas_.
Write ==
  /\ ppc = "write"
  /\ buffer' = [buffer EXCEPT ![putPos] = item]
  /\ ppc' = "advance"
  /\ UNCHANGED <<putPos, getPos, num, lock, item, ppos, next, dropped, refused, down>>

\* Advance(put_pos_)
AdvancePut ==
  /\ ppc = "advance"
  /\ putPos' = After(putPos)
  /\ ppc' = "count"
  /\ UNCHANGED <<buffer, getPos, num, lock, item, ppos, next, dropped, refused, down>>

\* num_datas_++, and the lock is released if it was taken.
Count ==
  /\ ppc = "count"
  /\ num' = num + 1
  /\ ppc' = "idle"
  /\ lock' = IF lock = "up" THEN "none" ELSE lock
  /\ UNCHANGED <<buffer, putPos, getPos, item, ppos, next, dropped, refused, down>>

Upstream == NewFrame \/ PushOrDrop \/ Replace \/ PushOverwrite \/ UpGetLoad
              \/ UpGetStore \/ PutOnly \/ Uncount \/ Write \/ AdvancePut \/ Count

-----------------------------------------------------------------------------
(* The downstream thread.                                                  *)

\* fill_ratio >= start_drop_ratio, whose default is 0.75.
NearFull == 4 * num >= 3 * Capacity

\* PruneStale with cutoff now - max_frame_age_us: the clock may have reached
\* any point of the stream so far.  The fill ratio is read before the lock is
\* taken; only this thread lowers it, so reading it here is the same.
PruneStale ==
  /\ gpc = "idle" /\ backpressure /\ NearFull
  /\ lock = "none" /\ lock' = "down"
  /\ \E cutoff \in 1 .. next : scan' = [cutoff |-> cutoff, left |-> num]
  /\ gpc' = "prune"
  /\ UNCHANGED <<slots, up, data, gpos, popped, pruned>>

Stale == scan.left > 0 /\ num > 0 /\ buffer[getPos] < scan.cutoff

\* Mutant: a stale keyframe is not moved but dropped with the others.
PruneKeepNothing ==
  /\ gpc = "prune" /\ Stale /\ buffer[getPos] \in Keyframes
  /\ getPos' = After(getPos)
  /\ num' = num - 1
  /\ scan' = [scan EXCEPT !.left = @ - 1]
  /\ UNCHANGED <<buffer, putPos, lock, up, gpc, data, gpos, popped, pruned>>

\* One round of the loop on a stale keyframe: it moves to the tail.
PruneKeep ==
  /\ gpc = "prune" /\ Stale /\ buffer[getPos] \in Keyframes
  /\ buffer' = [[buffer EXCEPT ![getPos] = NoFrame]
                        EXCEPT ![putPos] = buffer[getPos]]
  /\ getPos' = After(getPos)
  /\ putPos' = After(putPos)
  /\ scan' = [scan EXCEPT !.left = @ - 1]
  /\ UNCHANGED <<num, lock, up, gpc, data, gpos, popped, pruned>>

\* One round of the loop on any other stale frame: it is dropped.
PruneDrop ==
  /\ gpc = "prune" /\ Stale /\ buffer[getPos] \notin Keyframes
  /\ getPos' = After(getPos)
  /\ num' = num - 1
  /\ pruned' = pruned + 1
  /\ scan' = [scan EXCEPT !.left = @ - 1]
  /\ UNCHANGED <<buffer, putPos, lock, up, gpc, data, gpos, popped>>

\* The loop ends: every entry scanned, or the first fresh one met.
PruneEnd ==
  /\ gpc = "prune" /\ ~Stale
  /\ lock' = "none"
  /\ gpc' = "idle"
  /\ scan' = NoScan
  /\ UNCHANGED <<slots, up, data, gpos, popped, pruned>>

\* Pop: the test of num_datas_ and the load of get_pos_, in one step: only this
\* thread empties an entry, so what the test found is still there ...
PopCheck ==
  /\ gpc = "idle" /\ num > 0
  /\ gpos' = getPos
  /\ gpc' = "move"
  /\ UNCHANGED <<slots, lock, up, data, scan, popped, pruned>>

\* ... the entry is moved out of its slot ...
PopMove ==
  /\ gpc = "move"
  /\ data' = buffer[gpos]
  /\ buffer' = [buffer EXCEPT ![gpos] = NoFrame]
  /\ gpc' = "getLoad"
  /\ UNCHANGED <<putPos, getPos, num, lock, up, gpos, scan, popped, pruned>>

\* ... Advance loads get_pos_ again ...
PopGetLoad ==
  /\ gpc = "getLoad"
  /\ gpos' = getPos
  /\ gpc' = "getStore"
  /\ UNCHANGED <<slots, lock, up, data, scan, popped, pruned>>

\* ... and stores it ...
PopGetStore ==
  /\ gpc = "getStore"
  /\ getPos' = After(gpos)
  /\ gpc' = "count"
  /\ UNCHANGED <<buffer, putPos, num, lock, up, data, gpos, scan, popped, pruned>>

\* Mutant: the popped frame's place is not given back.
PopCountForgotten ==
  /\ gpc = "count"
  /\ popped' = popped + 1
  /\ gpc' = "idle"
  /\ UNCHANGED <<slots, lock, up, data, gpos, scan, pruned>>

\* ... and num_datas_-- ends it.
PopCount ==
  /\ gpc = "count"
  /\ num' = num - 1
  /\ popped' = popped + 1
  /\ gpc' = "idle"
  /\ UNCHANGED <<buffer, putPos, getPos, lock, up, data, gpos, scan, pruned>>

Downstream == PruneStale \/ PruneKeep \/ PruneDrop \/ PruneEnd
                \/ PopCheck \/ PopMove \/ PopGetLoad \/ PopGetStore \/ PopCount

-----------------------------------------------------------------------------
\* The upstream thread is between its test for a full ring and the end of the
\* displacement; the downstream thread is inside Pop.
Displacing == ppc \in {"overwrite", "replace", "getLoad", "getStore", "putOnly", "uncount"}
Popping == gpc \in {"move", "getLoad", "getStore", "count"}

Next ==
  /\ Upstream \/ Downstream
  /\ UNCHANGED backpressure
  /\ raced' = (raced \/ (Displacing /\ Popping)')

Spec == Init /\ [][Next]_vars

-----------------------------------------------------------------------------
(* Properties.                                                             *)

\* Every variable has its type.  With backpressure the count never leaves
\* 0 .. Capacity, whatever races: a full ring is never pushed past its end and
\* an empty one never popped.  PushOverwrite gives it up: the ring it found
\* full may be popped empty before its num_datas_--, which then leaves -1.
TypeOK ==
  /\ backpressure \in BOOLEAN
  /\ buffer \in [Slots -> Stored]
  /\ putPos \in Slots /\ getPos \in Slots
  /\ num \in (IF backpressure THEN 0 ELSE -1) .. Capacity
  /\ lock \in {"none", "up", "down"}
  /\ ppc \in {"idle", "orDrop", "replace", "overwrite", "getLoad", "getStore",
              "putOnly", "uncount", "write", "advance", "count"}
  /\ gpc \in {"idle", "prune", "move", "getLoad", "getStore", "count"}
  /\ item \in Stored /\ data \in Stored /\ ppos \in Slots /\ gpos \in Slots
  /\ scan \in [cutoff : 0 .. MaxFrames + 1, left : 0 .. Capacity]
  /\ next \in 1 .. MaxFrames + 1
  /\ {popped, dropped, refused, pruned} \subseteq 0 .. MaxFrames
  /\ raced \in BOOLEAN

\* The entries from get_pos_ on, oldest first.
Window == [i \in 1 .. num |-> buffer[(getPos + i - 1) % Capacity]]
Quiet == ppc = "idle" /\ gpc = "idle"

\* Unless some Pop overlapped a displacement, the cursors and the count agree
\* whenever neither thread is inside the ring, and every entry is a frame.
RingCoherent ==
  (Quiet /\ ~raced) =>
    /\ (getPos + num) % Capacity = putPos
    /\ \A i \in 1 .. num : Window[i] # NoFrame

\* Every frame the upstream stage made is accounted for: popped, displaced,
\* refused, pruned, counted as inside or about to be pushed.  A Pop that overlaps a
\* displacement may take a wrong slot, but num_datas_ is atomic: the sum stays.
FramesConserved ==
  next - 1 = popped + dropped + refused + pruned + num + (IF ppc = "idle" THEN 0 ELSE 1)

\* Both: what the counters say is what the cursors say (RingBuffer.h:27-132).
RingAccounts == RingCoherent /\ FramesConserved

\* PruneStale drops no keyframe: each one it meets is still in the ring after
\* the round that met it.
KeyframesIn == {Window[i] : i \in DOMAIN Window} \cap Keyframes
PruneKeepsKeyframes ==
  [][(gpc = "prune" /\ ~raced) => KeyframesIn \subseteq KeyframesIn']_vars
=============================================================================
