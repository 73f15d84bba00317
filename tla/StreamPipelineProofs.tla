------------------------ MODULE StreamPipelineProofs ------------------------
(***************************************************************************)
(* The frames of a StreamPipeline, for rings of any capacity and an input  *)
(* of any length: what the counters say of them, and their order.          *)
(*                                                                         *)
(* A frame is in hand just while a stage is about to pass it on (InHand),  *)
(* so that none is forgotten when the next is taken, and FramesAccounted   *)
(* holds after every step; a Pop or a displacement under way has a frame   *)
(* to take (Takes), whatever overlaps it.  Order needs that every frame    *)
(* past stage 1 was decoded before the one it reads (Decoded), and that    *)
(* each place of the line has lower frames than the places behind it       *)
(* (InLine); both hold as long as the rings are (Ordered).  What the calls *)
(* on the rings do to their order and to their length are the two lemmas   *)
(* AfterPush and PrunedRing.                                               *)
(***************************************************************************)
EXTENDS StreamPipeline, FiniteSetTheorems, TLAPS

\* A ring whose frames grow from the front to the tail.
Growing(ring) == \A i, j \in 1 .. Len(ring) : i < j => ring[i] < ring[j]

\* Everything that comes out of the call was in the ring.
From(new, ring) == \A i \in 1 .. Len(new) : \E j \in 1 .. Len(ring) : new[i] = ring[j]

\* What comes out of the call was in the ring, or is the frame given to it.
FromWith(new, ring, frame) ==
  \A i \in 1 .. Len(new) : new[i] = frame \/ \E j \in 1 .. Len(ring) : new[i] = ring[j]

Switches == {gating, stopAsked, stop, audio, moved} \subseteq BOOLEAN

Places ==
  /\ rp \in {"start", "run", "notify", "join", "done"}
  /\ demux \in {"none", "open", "loop", "wait", "block", "blocked", "check", "read",
                "push", "displace", "close", "done"}
  /\ ai \in {"none", "loop", "prune", "pop", "empty", "take", "push", "displace",
             "end", "done"}
  /\ enc \in {"none", "open", "failed", "loop", "audio", "prune", "pop", "empty",
              "take", "encode", "done"}
  /\ rp = "start" => demux = "none" /\ ai = "none" /\ enc = "none"

Rings ==
  /\ decodeRing \in Seq(Frames) /\ Len(decodeRing) <= Capacity
  /\ processRing \in Seq(Frames) /\ Len(processRing) <= Capacity

\* A frame is in hand between its being taken and its being passed on.
InHand ==
  /\ read = IF demux \in {"push", "displace"} THEN decoded + 1 ELSE NoFrame
  /\ taken \in Frames \cup {NoFrame} /\ (ai \in {"push", "displace"} <=> taken # NoFrame)
  /\ encoding \in Frames \cup {NoFrame} /\ (enc = "encode" <=> encoding # NoFrame)
  /\ last \in Frames \cup {NoFrame}

Counters ==
  /\ {decoded, dropped, pruned, refused, encoded} \subseteq Nat
  /\ decoded <= MaxFrames /\ (demux \in {"push", "displace"} => decoded < MaxFrames)

\* What is past stage 1 has been counted as decoded.
Decoded ==
  /\ taken <= decoded /\ encoding <= decoded /\ last <= decoded
  /\ \A i \in 1 .. Len(decodeRing) : decodeRing[i] <= decoded
  /\ \A i \in 1 .. Len(processRing) : processRing[i] <= decoded

\* The line last, encoding, processRing, taken, decodeRing grows.
InLine ==
  /\ Growing(decodeRing) /\ Growing(processRing)
  /\ encoding # NoFrame => last < encoding
  /\ taken # NoFrame => last < taken /\ encoding < taken
  /\ \A i \in 1 .. Len(processRing) :
       /\ last < processRing[i] /\ encoding < processRing[i]
       /\ taken # NoFrame => processRing[i] < taken
  /\ \A i \in 1 .. Len(decodeRing) :
       /\ last < decodeRing[i] /\ encoding < decodeRing[i] /\ taken < decodeRing[i]
       /\ \A j \in 1 .. Len(processRing) : processRing[j] < decodeRing[i]

\* Nothing has disturbed the order of a ring.
Ordered == ~moved /\ raced = {}

\* The overlaps under way are remembered.
Races == Overlap \subseteq raced /\ raced \subseteq {"decode", "process"}

\* A Pop under way, and a displacement no Pop overlapped, has a frame to take.
Takes ==
  /\ ai = "take" => decodeRing # <<>>
  /\ demux = "displace" /\ "decode" \notin raced => decodeRing # <<>>
  /\ enc = "take" => processRing # <<>>
  /\ ai = "displace" /\ "process" \notin raced => processRing # <<>>

IInv == /\ Switches /\ Places /\ Races /\ Takes /\ Rings /\ InHand /\ Counters
        /\ FramesAccounted /\ (Ordered => Decoded /\ InLine)

-----------------------------------------------------------------------------
(* What a call does to a ring.                                             *)

\* A frame that is not NoFrame is a number from 1 to MaxFrames.
LEMMA FrameNumbers ==
  /\ MaxFrames \in Nat /\ Capacity \in Nat \ {0}
  /\ \A f : f \in Frames <=> f \in Int /\ 1 <= f /\ f <= MaxFrames
  /\ NoFrame = 0
BY PipelineAssumption DEF Frames, NoFrame

\* A place of a concatenation is one of the first sequence or of the second.
LEMMA ConcatPlaces ==
  ASSUME NEW S, NEW s \in Seq(S), NEW t \in Seq(S)
  PROVE  /\ s \o t \in Seq(S) /\ Len(s \o t) = Len(s) + Len(t)
         /\ \A i \in 1 .. Len(s \o t) :
              \/ i \in 1 .. Len(s) /\ (s \o t)[i] = s[i]
              \/ i - Len(s) \in 1 .. Len(t) /\ i > Len(s) /\ (s \o t)[i] = t[i - Len(s)]
  OBVIOUS

\* How many places of ps there are up to p.
Rank(ps, p) == Cardinality({q \in ps : q <= p})

\* The places have the ranks from 1 on, each one of them.
LEMMA Ranks ==
  ASSUME NEW n \in Nat, NEW ps, ps \subseteq (1 .. n)
  PROVE  /\ IsFiniteSet(ps) /\ Cardinality(ps) \in Nat /\ Cardinality(ps) <= n
         /\ \A i \in 1 .. Cardinality(ps) : \E p \in ps : Rank(ps, p) = i
         /\ \A p, q \in ps : Rank(ps, p) < Rank(ps, q) => p < q
<1>1. IsFiniteSet(ps) /\ Cardinality(ps) \in Nat /\ Cardinality(ps) <= n
  <2>1. IsFiniteSet(1 .. n) /\ Cardinality(1 .. n) = n
    BY FS_Interval
  <2>2. IsFiniteSet(ps) /\ Cardinality(ps) <= n
    BY <2>1, FS_Subset
  <2> QED BY <2>2, FS_CardinalityType
<1>2. \A p \in ps : p \in Int
  OBVIOUS
<1> DEFINE upto(p) == {q \in ps : q <= p}
<1>3. \A p : IsFiniteSet(upto(p)) /\ Cardinality(upto(p)) \in Nat
  <2> SUFFICES ASSUME NEW p PROVE IsFiniteSet(upto(p)) /\ Cardinality(upto(p)) \in Nat
    OBVIOUS
  <2>1. upto(p) \in SUBSET ps
    OBVIOUS
  <2> QED BY <1>1, <2>1, FS_Subset, FS_CardinalityType
<1>4. \A p, q \in ps : p < q => Cardinality(upto(p)) < Cardinality(upto(q))
  <2> SUFFICES ASSUME NEW p \in ps, NEW q \in ps, p < q
               PROVE  Cardinality(upto(p)) < Cardinality(upto(q))
    OBVIOUS
  <2>0. \A x \in ps : x <= p => x <= q
    BY <1>2
  <2>1. upto(p) \in SUBSET upto(q)
    BY <2>0
  <2>2. q \in upto(q) /\ q \notin upto(p)
    BY <1>2
  <2> HIDE DEF upto
  <2>3. Cardinality(upto(p)) <= Cardinality(upto(q)) /\ Cardinality(upto(p)) # Cardinality(upto(q))
    BY <1>3, <2>1, <2>2, FS_Subset
  <2> QED BY <1>3, <2>3
<1>5. \A p \in ps : Cardinality(upto(p)) \in 1 .. Cardinality(ps)
  <2> SUFFICES ASSUME NEW p \in ps PROVE Cardinality(upto(p)) \in 1 .. Cardinality(ps)
    OBVIOUS
  <2>1. upto(p) \in SUBSET ps /\ p \in upto(p)
    BY <1>2
  <2> HIDE DEF upto
  <2>2. Cardinality(upto(p)) <= Cardinality(ps) /\ Cardinality(upto(p)) # 0
    BY <1>1, <1>3, <2>1, FS_Subset, FS_EmptySet
  <2> QED BY <1>1, <1>3, <2>2
<1> DEFINE rank == [p \in ps |-> Cardinality(upto(p))]
           m    == Cardinality(ps)
<1> HIDE DEF upto
<1>6. rank \in Injection(ps, 1 .. m)
  <2>1. rank \in [ps -> 1 .. m]
    BY <1>5
  <2>2. \A p, q \in ps : rank[p] = rank[q] => p = q
    BY <1>2, <1>3, <1>4
  <2> QED BY <2>1, <2>2 DEF Injection, IsInjective
<1>7. rank \in Surjection(ps, 1 .. m)
  <2>1. IsFiniteSet(1 .. m) /\ Cardinality(1 .. m) = m
    BY <1>1, FS_Interval
  <2> HIDE DEF rank
  <2> QED BY <1>6, <2>1, FS_Injection
<1>8. \A i \in 1 .. m : \E p \in ps : Cardinality(upto(p)) = i
  BY <1>7 DEF Surjection
<1>9. \A p, q \in ps : Cardinality(upto(p)) < Cardinality(upto(q)) => p < q
  <2> SUFFICES ASSUME NEW p \in ps, NEW q \in ps, ~(p < q)
               PROVE  ~(Cardinality(upto(p)) < Cardinality(upto(q)))
    OBVIOUS
  <2>1. p = q \/ q < p
    BY <1>2
  <2> QED BY <1>3, <1>4, <2>1
<1> QED BY <1>1, <1>8, <1>9 DEF Rank, upto

\* The frames at some places of a ring: as many as there are places, in their order.
LEMMA FramesAt ==
  ASSUME NEW ring \in Seq(Frames), NEW ps, ps \subseteq (1 .. Len(ring))
  PROVE  /\ At(ring, ps) \in Seq(Frames)
         /\ Len(At(ring, ps)) = Cardinality(ps)
         /\ From(At(ring, ps), ring)
         /\ Growing(ring) => Growing(At(ring, ps))
<1> DEFINE place(i) == CHOOSE p \in ps : Rank(ps, p) = i
<1>1. Len(ring) \in Nat /\ ring \in [1 .. Len(ring) -> Frames]
  OBVIOUS
<1>r. \A p, q \in ps : Rank(ps, p) < Rank(ps, q) => p < q
  BY <1>1, Ranks
<1>2. \A i \in 1 .. Cardinality(ps) : place(i) \in ps /\ Rank(ps, place(i)) = i
  BY <1>1, Ranks
<1>3. Cardinality(ps) \in Nat
  BY <1>1, Ranks
<1>4. At(ring, ps) = [i \in 1 .. Cardinality(ps) |-> ring[place(i)]]
  BY DEF At, Rank
<1> HIDE DEF place
<1>5. \A i, j \in 1 .. Cardinality(ps) : i < j => place(i) < place(j)
  <2> SUFFICES ASSUME NEW i \in 1 .. Cardinality(ps), NEW j \in 1 .. Cardinality(ps), i < j
               PROVE  place(i) < place(j)
    OBVIOUS
  <2>1. /\ place(i) \in ps /\ Rank(ps, place(i)) = i
        /\ place(j) \in ps /\ Rank(ps, place(j)) = j
    BY <1>2
  <2> QED BY <1>r, <2>1
<1>6. \A i \in 1 .. Cardinality(ps) : place(i) \in 1 .. Len(ring) /\ ring[place(i)] \in Frames
  BY <1>1, <1>2
<1>7. At(ring, ps) \in Seq(Frames) /\ Len(At(ring, ps)) = Cardinality(ps)
  BY <1>3, <1>4, <1>6
<1>8. From(At(ring, ps), ring)
  BY <1>4, <1>6, <1>7 DEF From
<1>9. Growing(ring) => Growing(At(ring, ps))
  BY <1>4, <1>5, <1>6, <1>7 DEF Growing
<1> QED BY <1>7, <1>8, <1>9

\* PruneStale: the length and the counter agree, nothing comes in, and as long
\* as no keyframe moves a growing ring stays one.
LEMMA PrunedRing ==
  ASSUME NEW ring \in Seq(Frames), NEW cutoff
  PROVE  LET r == PruneStale(ring, cutoff)
         IN /\ r.ring \in Seq(Frames) /\ r.pruned \in Nat /\ r.moved \in BOOLEAN
            /\ Len(r.ring) + r.pruned = Len(ring)
            /\ From(r.ring, ring)
            /\ ~r.moved /\ Growing(ring) => Growing(r.ring)
<1> DEFINE n     == Len(ring)
           stale == Stale(ring, cutoff)
           keys  == {i \in stale : ring[i] \in Keyframes}
           rest  == (1 .. n) \ stale
           new   == At(ring, rest) \o At(ring, keys)
           gone  == Cardinality(stale)
           kept  == Cardinality(keys)
<1>0. n \in Nat /\ IsFiniteSet(1 .. n) /\ Cardinality(1 .. n) = n
  <2>1. n \in Nat
    OBVIOUS
  <2> QED BY SMTT(30), <2>1, FS_Interval
<1>1. stale \subseteq (1 .. n) /\ rest \subseteq (1 .. n) /\ keys \subseteq stale /\ keys \subseteq (1 .. n)
  BY DEF Stale
<1> HIDE DEF stale, keys
<1>2. gone \in Nat /\ gone <= n /\ kept \in Nat /\ kept <= gone /\ Cardinality(rest) = n - gone
  <2>1. IsFiniteSet(stale) /\ gone \in Nat /\ gone <= n /\ kept \in Nat
    BY <1>0, <1>1, Ranks
  <2>2. kept <= gone
    BY <1>1, <2>1, FS_Subset
  <2>3. (1 .. n) \cap stale = stale
    BY <1>1
  <2>4. Cardinality((1 .. n) \ stale) = Cardinality(1 .. n) - Cardinality((1 .. n) \cap stale)
    BY <1>0, FS_Difference
  <2>5. Cardinality(rest) = n - gone
    BY <1>0, <2>3, <2>4
  <2> QED BY <2>1, <2>2, <2>5
<1> HIDE DEF rest
<1>3. /\ At(ring, rest) \in Seq(Frames) /\ Len(At(ring, rest)) = n - gone
      /\ From(At(ring, rest), ring) /\ (Growing(ring) => Growing(At(ring, rest)))
  BY <1>1, <1>2, FramesAt
<1>4. /\ At(ring, keys) \in Seq(Frames) /\ Len(At(ring, keys)) = kept /\ From(At(ring, keys), ring)
  BY <1>1, FramesAt
<1>5. new \in Seq(Frames) /\ Len(new) = n - gone + kept
  BY SMTT(30), <1>0, <1>2, <1>3, <1>4
<1>6. From(new, ring)
  <2> DEFINE a == At(ring, rest)
             b == At(ring, keys)
  <2>1. ASSUME NEW i \in 1 .. Len(new) PROVE \E j \in 1 .. Len(ring) : new[i] = ring[j]
    <3>1. \/ i \in 1 .. Len(a) /\ new[i] = a[i]
          \/ i - Len(a) \in 1 .. Len(b) /\ new[i] = b[i - Len(a)]
      BY <1>3, <1>4, <2>1, ConcatPlaces
    <3> HIDE DEF a, b, new
    <3> QED BY ZenonT(30), <1>3, <1>4, <3>1 DEF From, a, b
  <2> QED BY <2>1 DEF From
<1>7. keys = {} /\ Growing(ring) => Growing(new)
  <2> SUFFICES ASSUME keys = {}, Growing(ring) PROVE Growing(new)
    OBVIOUS
  <2>1. Len(At(ring, keys)) = 0
    BY <1>4, FS_EmptySet
  <2>2. new = At(ring, rest)
    BY <1>3, <1>4, <2>1
  <2> QED BY <1>3, <2>2
<1>8. PruneStale(ring, cutoff) = [ring |-> new, pruned |-> gone - kept, moved |-> keys # {}]
  BY DEF PruneStale, stale, keys, rest
<1> HIDE DEF new, gone, kept
<1>9. gone - kept \in Nat /\ Len(new) + (gone - kept) = Len(ring)
  BY <1>0, <1>2, <1>5
<1>10. /\ PruneStale(ring, cutoff).ring = new
       /\ PruneStale(ring, cutoff).pruned = gone - kept
       /\ PruneStale(ring, cutoff).moved = (keys # {})
  BY <1>8
<1> QED BY <1>5, <1>6, <1>7, <1>9, <1>10
\* PushOrDrop leaves the ring new, and the counters d and e become dd and ee: it
\* accepts the frame, discards it, displaces the oldest, or displaces something in a
\* ring of which nothing but the length is known.
Pushed(ring, frame, d, e, new, dd, ee) ==
  \/ HasRoom(ring) /\ new = Append(ring, frame) /\ dd = d /\ ee = e
  \/ new = ring /\ dd = d /\ ee = e + 1
  \/ ring # <<>> /\ new = Displaced(ring, frame) /\ dd = d + 1 /\ ee = e
  \/ new = ring /\ dd = d + 1 /\ ee = e

\* Whatever it does, the length and the two counters agree, and a growing ring stays
\* one under a higher frame.
LEMMA AfterPush ==
  ASSUME NEW ring \in Seq(Frames), Len(ring) <= Capacity, NEW frame \in Frames,
         NEW d \in Nat, NEW e \in Nat, NEW new, NEW dd, NEW ee,
         Pushed(ring, frame, d, e, new, dd, ee)
  PROVE  /\ new \in Seq(Frames) /\ Len(new) \in Nat /\ Len(new) <= Capacity
         /\ dd \in Nat /\ ee \in Nat
         /\ Len(new) + dd + ee = Len(ring) + d + e + 1
         /\ FromWith(new, ring, frame)
         /\ Growing(ring) /\ (\A i \in 1 .. Len(ring) : ring[i] < frame) => Growing(new)
<1> USE DEF FromWith
<1>1. Capacity \in Nat \ {0} /\ Len(ring) \in Nat
  BY FrameNumbers
<1>2. CASE HasRoom(ring) /\ new = Append(ring, frame) /\ dd = d /\ ee = e
  BY <1>1, <1>2, FrameNumbers DEF Growing, HasRoom
<1>3. CASE ring # <<>> /\ new = Displaced(ring, frame) /\ dd = d + 1 /\ ee = e
  <2>1. Tail(ring) \in Seq(Frames) /\ Len(Tail(ring)) = Len(ring) - 1
        /\ \A i \in 1 .. Len(ring) - 1 : Tail(ring)[i] = ring[i + 1]
    BY <1>1, <1>3
  <2>2. new \in Seq(Frames) /\ Len(new) = Len(ring)
        /\ (\A i \in 1 .. Len(ring) - 1 : new[i] = ring[i + 1]) /\ new[Len(ring)] = frame
    BY <1>3, <2>1 DEF Displaced
  <2>n. Len(ring) > 0
    BY <1>1, <1>3
  <2>i. \A i \in 1 .. Len(new) : (i < Len(ring) /\ i + 1 \in 1 .. Len(ring) /\ new[i] = ring[i + 1])
                                 \/ (i = Len(ring) /\ new[i] = frame)
    BY <1>1, <2>2, <2>n
  <2>3. \A i \in 1 .. Len(new) : new[i] = frame \/ \E j \in 1 .. Len(ring) : new[i] = ring[j]
    BY <2>i
  <2>4. ASSUME Growing(ring), \A i \in 1 .. Len(ring) : ring[i] < frame,
               NEW i \in 1 .. Len(new), NEW j \in 1 .. Len(new), i < j
        PROVE  new[i] < new[j]
    BY <1>1, <2>2, <2>n, <2>i, <2>4 DEF Growing
  <2>5. Growing(ring) /\ (\A i \in 1 .. Len(ring) : ring[i] < frame) => Growing(new)
    BY <2>4 DEF Growing
  <2> QED BY <1>1, <1>3, <2>2, <2>3, <2>5
<1>4. CASE new = ring /\ ((dd = d /\ ee = e + 1) \/ (dd = d + 1 /\ ee = e))
  BY <1>1, <1>4
<1> QED BY <1>2, <1>3, <1>4 DEF Pushed

\* PruneStale leaves the ring new, and pruned and moved with it.
Pruned(ring, cutoff, p, m, new, pp, mm) ==
  LET r == PruneStale(ring, cutoff)
  IN new = r.ring /\ pp = p + r.pruned /\ mm = (m \/ r.moved)

\* PrunedRing, of the ring and the counter that pruning leaves.
LEMMA AfterPrune ==
  ASSUME NEW ring \in Seq(Frames), NEW p \in Nat, NEW m \in BOOLEAN, NEW new, NEW pp, NEW mm, NEW cutoff,
         Pruned(ring, cutoff, p, m, new, pp, mm)
  PROVE  /\ new \in Seq(Frames) /\ Len(new) \in Nat /\ Len(ring) \in Nat /\ pp \in Nat
         /\ Len(new) + pp = Len(ring) + p /\ Len(new) <= Len(ring)
         /\ From(new, ring)
         /\ ~mm => ~m /\ (Growing(ring) => Growing(new))
<1> DEFINE x == PruneStale(ring, cutoff).pruned
<1>1. /\ new \in Seq(Frames) /\ x \in Nat /\ Len(new) + x = Len(ring) /\ From(new, ring)
  BY PrunedRing DEF Pruned
<1>2. ~mm => ~m /\ (Growing(ring) => Growing(new))
  BY PrunedRing DEF Pruned
<1>3. pp = p + x
  BY DEF Pruned
<1> HIDE DEF x
<1>4. Len(new) \in Nat /\ Len(ring) \in Nat
  BY <1>1
<1>5. pp \in Nat /\ Len(new) + pp = Len(ring) + p /\ Len(new) <= Len(ring)
  BY <1>1, <1>3, <1>4
<1> QED BY <1>1, <1>2, <1>4, <1>5

\* What is left when the first frame is taken out of a ring.
LEMMA PoppedRing ==
  ASSUME NEW ring \in Seq(Frames), ring # <<>>
  PROVE  /\ 1 \in 1 .. Len(ring) /\ Head(ring) = ring[1] /\ ring[1] \in Frames
         /\ Tail(ring) \in Seq(Frames) /\ Len(Tail(ring)) + 1 = Len(ring)
         /\ From(Tail(ring), ring)
         /\ Growing(ring) => Growing(Tail(ring)) /\ \A i \in 1 .. Len(Tail(ring)) : ring[1] < Tail(ring)[i]
<1> DEFINE new == Tail(ring)
<1>1. Len(ring) \in Nat /\ Len(ring) # 0
  OBVIOUS
<1>2. /\ 1 \in 1 .. Len(ring) /\ Head(ring) = ring[1] /\ ring[1] \in Frames
      /\ new \in Seq(Frames) /\ Len(new) = Len(ring) - 1
      /\ \A i \in 1 .. Len(new) : new[i] = ring[i + 1]
  BY <1>1
<1> HIDE DEF new
<1>3. \A i \in 1 .. Len(new) : i \in Nat /\ 0 < i /\ i + 1 \in 1 .. Len(ring) /\ new[i] = ring[i + 1]
  BY <1>1, <1>2
<1>4. From(new, ring)
  BY <1>3 DEF From
<1>5. ASSUME Growing(ring) PROVE Growing(new) /\ \A i \in 1 .. Len(new) : ring[1] < new[i]
  <2>1. \A i, j \in 1 .. Len(new) : i < j => i + 1 < j + 1
    BY <1>3
  <2>2. \A i \in 1 .. Len(new) : 1 < i + 1
    BY <1>3
  <2> QED BY <1>2, <1>3, <1>5, <2>1, <2>2 DEF Growing
<1> QED BY <1>1, <1>2, <1>4, <1>5 DEF new

\* What a ring may hold is frames, as many as it counts, and its own if nothing raced.
LEMMA ContentsRing ==
  ASSUME NEW ring \in Seq(Frames), NEW name, NEW g \in Contents(name, ring)
  PROVE  g \in Seq(Frames) /\ Len(g) = Len(ring) /\ (raced = {} => g = ring)
<1>1. CASE g = ring
  BY <1>1
<1>2. CASE g \in [1 .. Len(ring) -> Frames] /\ name \in raced
  BY <1>2
<1> QED BY <1>1, <1>2 DEF Contents

\* The frame that is popped: the first one, if nothing raced.
LEMMA PoppedFrame ==
  ASSUME NEW ring \in Seq(Frames), ring # <<>>, NEW name,
         NEW f \in {Head(g) : g \in Contents(name, ring)}
  PROVE  f \in Frames /\ (raced = {} => f = Head(ring))
<1> PICK g \in Contents(name, ring) : f = Head(g)
  OBVIOUS
<1>1. g \in Seq(Frames) /\ Len(g) = Len(ring) /\ (raced = {} => g = ring)
  BY ContentsRing
<1>2. g # <<>>
  BY <1>1
<1> QED BY <1>1, <1>2, PoppedRing

-----------------------------------------------------------------------------
(* The inductive invariant.                                                *)

\* At the start no stage runs and there are no frames.
LEMMA InitIInv == Init => IInv
<1> SUFFICES ASSUME Init PROVE IInv
  OBVIOUS
<1>1. Switches /\ Places
  BY DEF Init, Switches, Places
<1>2. Rings /\ InHand /\ Counters
  BY FrameNumbers DEF Init, Rings, InHand, Counters
<1>0. Races /\ Takes
  BY DEF Init, Races, Takes, Overlap
<1>3. Decoded /\ FramesAccounted /\ InLine
  BY FrameNumbers DEF Init, Decoded, FramesAccounted, InLine, Growing, Held
<1> QED BY <1>0, <1>1, <1>2, <1>3 DEF IInv

\* Every variable that is only a switch or a place keeps its type.
LEMMA SwitchesKept == IInv /\ [Next]_vars => Switches' /\ Places'
<1> SUFFICES ASSUME IInv, [Next]_vars PROVE Switches' /\ Places'
  OBVIOUS
<1> USE DEF IInv, Switches, Places
<1>1. CASE RunParallel /\ UNCHANGED <<gating, raced>>
  BY <1>1 DEF RunParallel, Start, StopFlag, StopNotify, Join, stages, rings, counts
<1>2. CASE AskStop
  BY <1>2 DEF AskStop, stages, rings, counts
<1>3. ASSUME Input \/ DemuxDecodeLoop \/ Wake, Outside PROVE Switches' /\ Places'
  <2>1. UNCHANGED <<gating, stopAsked, rp>>
    BY <1>3 DEF Outside
  <2>2. CASE Input \/ Wake
    BY <2>1, <2>2 DEF Input, Wake, DemuxGo, ReadVideo, ReadAudio, ReadEnd, rings, counts
  <2>3. CASE DemuxDecodeLoop
    BY <2>1, <2>3 DEF DemuxDecodeLoop, DemuxGo, OpenDemuxer, DemuxLoop, WaitForClients, Block, Check,
                      ReadStopped, PushDecoded, DisplaceDecoded, DecodedDisplaced, CloseDemuxer, rings, counts
  <2> QED BY <1>3, <2>2, <2>3
<1>4. ASSUME AIProcessLoop, Outside PROVE Switches' /\ Places'
  <2>1. UNCHANGED <<gating, stopAsked, rp, demux, enc, audio>> /\ ai # "none"
    BY <1>4 DEF Outside, AIProcessLoop, AiGo, AiLoop, PruneDecoded, PopDecoded, DecodedPopped, AiEmpty,
                PushProcessed, DisplaceProcessed, ProcessedDisplaced, AiEnd
  <2>2. stop' \in BOOLEAN /\ ai' \in {"loop", "prune", "pop", "empty", "take", "push", "displace", "end", "done"}
    BY <1>4 DEF AIProcessLoop, AiGo, AiLoop, PruneDecoded, PopDecoded, DecodedPopped, AiEmpty, PushProcessed,
                DisplaceProcessed, ProcessedDisplaced, AiEnd
  <2>3. moved' \in BOOLEAN
    <3>1. CASE PruneDecoded
      BY <3>1 DEF PruneDecoded
    <3> QED BY <1>4, <3>1 DEF AIProcessLoop, AiGo, AiLoop, PopDecoded, DecodedPopped, AiEmpty, PushProcessed,
                              DisplaceProcessed, ProcessedDisplaced, AiEnd, counts
  <2> QED BY <2>1, <2>2, <2>3
<1>5. ASSUME EncodeOutputLoop, Outside PROVE Switches' /\ Places'
  <2>1. UNCHANGED <<gating, stopAsked, rp, demux, ai, stop>> /\ enc # "none"
    BY <1>5 DEF Outside, EncodeOutputLoop, OpenEncoder, EncGo, EncLoop, OutputAudio, PruneProcessed,
                PopProcessed, ProcessedPopped, EncEmpty, Encode
  <2>2. audio' \in BOOLEAN /\ enc' \in {"failed", "loop", "audio", "prune", "pop", "empty", "take", "encode", "done"}
    BY <1>5 DEF EncodeOutputLoop, OpenEncoder, EncGo, EncLoop, OutputAudio, PruneProcessed,
                PopProcessed, ProcessedPopped, EncEmpty, Encode
  <2>3. moved' \in BOOLEAN
    <3>1. CASE PruneProcessed
      BY <3>1 DEF PruneProcessed
    <3> QED BY <1>5, <3>1 DEF EncodeOutputLoop, OpenEncoder, EncGo, EncLoop, OutputAudio, PopProcessed,
                              ProcessedPopped, EncEmpty, Encode, counts
  <2> QED BY <2>1, <2>2, <2>3
<1>6. CASE UNCHANGED vars
  BY <1>6 DEF vars, stages, rings, counts
<1> QED BY <1>1, <1>2, <1>3, <1>4, <1>5, <1>6 DEF Next, Stages, Runner

\* The frames, and whether a stage has one in hand.
FrameParts == /\ Rings /\ InHand /\ Counters
              /\ FramesAccounted /\ (Ordered => Decoded /\ InLine)

\* What has overlapped is not forgotten.
Later == raced \subseteq raced'

\* A step that neither touches a frame nor moves to or from a place where a stage
\* has one in hand.
Still ==
  /\ UNCHANGED <<read, taken, encoding, rings, counts>>
  /\ (demux' \in {"push", "displace"}) = (demux \in {"push", "displace"})
  /\ (ai' \in {"push", "displace"}) = (ai \in {"push", "displace"})
  /\ (enc' = "encode") = (enc = "encode")

\* Such a step keeps all that the invariant says of the frames.
LEMMA StillKeeps == FrameParts /\ Still /\ Later => FrameParts'
<1> SUFFICES ASSUME FrameParts, Still, Later PROVE FrameParts'
  OBVIOUS
<1>1. Rings' /\ InHand' /\ Counters' /\ FramesAccounted'
  BY DEF FrameParts, Still, Rings, InHand, Counters, FramesAccounted, Held, rings, counts
<1>2. Ordered' => Ordered
  BY DEF Still, Later, Ordered, counts
<1>3. Decoded /\ InLine => Decoded' /\ InLine'
  BY DEF Still, Decoded, InLine, Growing, rings, counts
<1> QED BY <1>1, <1>2, <1>3 DEF FrameParts

\* What is asked of the rings by those in the middle of a call is there.
LEMMA TakesKept == IInv /\ [Next]_vars => Later /\ Races' /\ Takes'
<1> SUFFICES ASSUME IInv, [Next]_vars PROVE Later /\ Races' /\ Takes'
  OBVIOUS
<1>0. Places /\ Races /\ Takes /\ decodeRing \in Seq(Frames) /\ processRing \in Seq(Frames)
  BY DEF IInv, Rings
<1>a. \A ring \in Seq(Frames) : \A frame : Append(ring, frame) # <<>> /\ Displaced(ring, frame) # <<>>
  BY DEF Displaced
<1>h. \A ring \in Seq(Frames) : ~HasRoom(ring) => ring # <<>>
  BY FrameNumbers DEF HasRoom
<1>1. CASE RunParallel /\ UNCHANGED <<gating, raced>>
  <2>1. /\ UNCHANGED <<raced, rings>>
        /\ (demux' = "displace") = (demux = "displace")
        /\ (ai' = "take") = (ai = "take") /\ (ai' = "displace") = (ai = "displace")
        /\ (enc' = "take") = (enc = "take")
    BY <1>0, <1>1 DEF RunParallel, Start, StopFlag, StopNotify, Join, stages, rings, counts, Places
  <2> QED BY <1>0, <2>1 DEF Later, Races, Takes, Overlap, rings
<1>2. CASE AskStop
  BY <1>0, <1>2 DEF AskStop, Later, Races, Takes, Overlap, stages, rings
<1>3. CASE UNCHANGED vars
  BY <1>0, <1>3 DEF vars, Later, Races, Takes, Overlap, stages, rings
<1>4. ASSUME Outside PROVE Later /\ Races'
  BY <1>0, <1>4 DEF Outside, Later, Races, Overlap
<1>5. ASSUME Input \/ DemuxDecodeLoop \/ Wake, Outside PROVE Takes'
  <2>1. Later /\ UNCHANGED <<ai, enc, processRing>>
    BY <1>4, <1>5 DEF Input, DemuxDecodeLoop, DemuxGo, ReadVideo, ReadAudio, ReadEnd, Wake, OpenDemuxer, DemuxLoop,
                WaitForClients, Block, Check, ReadStopped, PushDecoded, DisplaceDecoded, DecodedDisplaced,
                CloseDemuxer, rings
  <2>2. CASE PushDecoded
    BY <1>0, <1>a, <2>1, <2>2 DEF PushDecoded, Takes, Later
  <2>3. CASE DisplaceDecoded
    BY <1>0, <1>h, <2>1, <2>3 DEF DisplaceDecoded, DemuxGo, Takes, Later, rings
  <2>4. CASE DecodedDisplaced
    BY <1>0, <1>a, <2>1, <2>4 DEF DecodedDisplaced, AfterDisplacement, Takes, Later
  <2>5. CASE Input \/ OpenDemuxer \/ DemuxLoop \/ WaitForClients \/ Block \/ Check \/ ReadStopped \/ CloseDemuxer \/ Wake
    <3>1. UNCHANGED rings /\ demux' # "displace"
      BY <2>5 DEF Input, DemuxGo, ReadVideo, ReadAudio, ReadEnd, Wake, OpenDemuxer, DemuxLoop,
                  WaitForClients, Block, Check, ReadStopped, CloseDemuxer
    <3> QED BY <1>0, <2>1, <3>1 DEF Takes, Later, rings
  <2> QED BY <1>5, <2>2, <2>3, <2>4, <2>5 DEF DemuxDecodeLoop
<1>6. ASSUME AIProcessLoop, Outside PROVE Takes'
  <2>1. Later /\ UNCHANGED <<demux, enc>>
    BY <1>4, <1>6 DEF AIProcessLoop, AiGo, AiLoop, PruneDecoded, PopDecoded, DecodedPopped, AiEmpty, PushProcessed,
                DisplaceProcessed, ProcessedDisplaced, AiEnd
  <2>2. CASE PruneDecoded
    BY <1>0, <2>1, <2>2 DEF PruneDecoded, Takes, Later
  <2>3. CASE DecodedPopped
    BY <1>0, <2>1, <2>3 DEF DecodedPopped, Takes, Later, Races, Overlap
  <2>4. CASE PushProcessed
    BY <1>0, <1>a, <2>1, <2>4 DEF PushProcessed, Takes, Later
  <2>5. CASE DisplaceProcessed
    BY <1>0, <1>h, <2>1, <2>5 DEF DisplaceProcessed, AiGo, Takes, Later, rings
  <2>6. CASE ProcessedDisplaced
    BY <1>0, <1>a, <2>1, <2>6 DEF ProcessedDisplaced, AfterDisplacement, Takes, Later
  <2>7. CASE AiLoop \/ PopDecoded \/ AiEmpty \/ AiEnd
    BY <1>0, <2>1, <2>7 DEF AiLoop, PopDecoded, AiEmpty, AiEnd, AiGo, Takes, Later, rings
  <2> QED BY <1>6, <2>2, <2>3, <2>4, <2>5, <2>6, <2>7 DEF AIProcessLoop
<1>7. ASSUME EncodeOutputLoop, Outside PROVE Takes'
  <2>1. Later /\ UNCHANGED <<demux, ai, decodeRing>>
    BY <1>4, <1>7 DEF EncodeOutputLoop, OpenEncoder, EncGo, EncLoop, OutputAudio, PruneProcessed,
                PopProcessed, ProcessedPopped, EncEmpty, Encode, rings
  <2>2. CASE PruneProcessed
    BY <1>0, <2>1, <2>2 DEF PruneProcessed, Takes, Later
  <2>3. CASE ProcessedPopped
    BY <1>0, <2>1, <2>3 DEF ProcessedPopped, Takes, Later, Races, Overlap
  <2>4. CASE OpenEncoder \/ EncLoop \/ OutputAudio \/ PopProcessed \/ EncEmpty \/ Encode
    BY <1>0, <2>1, <2>4 DEF OpenEncoder, EncLoop, OutputAudio, PopProcessed, EncEmpty, Encode, EncGo, Takes,
                            Later, rings
  <2> QED BY <1>7, <2>2, <2>3, <2>4 DEF EncodeOutputLoop
<1> QED BY <1>1, <1>2, <1>3, <1>4, <1>5, <1>6, <1>7 DEF Next, Stages, Runner
\* The integers the steps compare.
LEMMA Numbers ==
  ASSUME FrameParts
  PROVE  /\ read \in Nat /\ taken \in Nat /\ encoding \in Nat /\ last \in Nat
         /\ decoded \in Nat /\ dropped \in Nat /\ pruned \in Nat /\ refused \in Nat /\ encoded \in Nat
         /\ Len(decodeRing) \in Nat /\ Len(processRing) \in Nat
         /\ \A i \in 1 .. Len(decodeRing) : decodeRing[i] \in Frames
         /\ \A i \in 1 .. Len(processRing) : processRing[i] \in Frames
<1>1. read \in Nat /\ taken \in Nat /\ encoding \in Nat /\ last \in Nat
  BY FrameNumbers DEF FrameParts, InHand, Counters
<1> QED BY <1>1 DEF FrameParts, Rings, Counters

\* FramesAccounted, of its terms, and what each kind of step does to them.
Balanced(d, e, x, p, y, m, n, t, g) == d = e + x + p + y + m + n + t + g

\* The counters, the rings and the hands are the terms.
LEMMA AccountedBalanced ==
  FramesAccounted <=> Balanced(decoded, encoded, dropped, pruned, refused, Len(decodeRing), Len(processRing),
                               Held(taken), Held(encoding))
BY DEF FramesAccounted, Balanced

\* A frame more is decoded: one more is in decode_ring_, dropped or refused.
LEMMA BalancedPushDecoded ==
  ASSUME NEW d \in Nat, NEW e \in Nat, NEW x \in Nat, NEW p \in Nat, NEW y \in Nat,
         NEW m \in Nat, NEW n \in Nat, NEW t \in Nat, NEW g \in Nat, NEW xx \in Nat, NEW yy \in Nat, NEW mm \in Nat,
         Balanced(d, e, x, p, y, m, n, t, g), mm + xx + yy = m + x + y + 1
  PROVE  Balanced(d + 1, e, xx, p, yy, mm, n, t, g)
BY DEF Balanced

\* The frame of stage 2 is in process_ring_ instead, dropped or refused.
LEMMA BalancedPushProcessed ==
  ASSUME NEW d \in Nat, NEW e \in Nat, NEW x \in Nat, NEW p \in Nat, NEW y \in Nat,
         NEW m \in Nat, NEW n \in Nat, NEW t \in Nat, NEW g \in Nat, NEW xx \in Nat, NEW yy \in Nat, NEW nn \in Nat,
         Balanced(d, e, x, p, y, m, n, 1, g), nn + xx + yy = n + x + y + 1
  PROVE  Balanced(d, e, xx, p, yy, m, nn, 0, g)
BY DEF Balanced

\* A frame of decode_ring_ is in the hand of stage 2 instead.
LEMMA BalancedPopDecoded ==
  ASSUME NEW d \in Nat, NEW e \in Nat, NEW x \in Nat, NEW p \in Nat, NEW y \in Nat,
         NEW m \in Nat, NEW n \in Nat, NEW t \in Nat, NEW g \in Nat, NEW mm \in Nat, Balanced(d, e, x, p, y, m, n, 0, g), mm + 1 = m
  PROVE  Balanced(d, e, x, p, y, mm, n, 1, g)
BY DEF Balanced

\* A frame of process_ring_ is in the hand of stage 3 instead.
LEMMA BalancedPopProcessed ==
  ASSUME NEW d \in Nat, NEW e \in Nat, NEW x \in Nat, NEW p \in Nat, NEW y \in Nat,
         NEW m \in Nat, NEW n \in Nat, NEW t \in Nat, NEW g \in Nat, NEW nn \in Nat, Balanced(d, e, x, p, y, m, n, t, 0), nn + 1 = n
  PROVE  Balanced(d, e, x, p, y, m, nn, t, 1)
BY DEF Balanced

\* Frames of a ring are pruned instead.
LEMMA BalancedPrune ==
  ASSUME NEW d \in Nat, NEW e \in Nat, NEW x \in Nat, NEW p \in Nat, NEW y \in Nat,
         NEW m \in Nat, NEW n \in Nat, NEW t \in Nat, NEW g \in Nat, NEW mm \in Nat, NEW nn \in Nat, NEW pp \in Nat,
         Balanced(d, e, x, p, y, m, n, t, g), mm + nn + pp = m + n + p
  PROVE  Balanced(d, e, x, pp, y, mm, nn, t, g)
BY DEF Balanced

\* The frame of stage 3 is encoded instead.
LEMMA BalancedEncode ==
  ASSUME NEW d \in Nat, NEW e \in Nat, NEW x \in Nat, NEW p \in Nat, NEW y \in Nat,
         NEW m \in Nat, NEW n \in Nat, NEW t \in Nat, NEW g \in Nat, Balanced(d, e, x, p, y, m, n, t, 1)
  PROVE  Balanced(d, e + 1, x, p, y, m, n, t, 0)
BY DEF Balanced

\* Stage 1 reads the next frame.
LEMMA ReadKeeps == FrameParts /\ Later /\ ReadVideo => FrameParts'
<1> SUFFICES ASSUME FrameParts, Later, ReadVideo PROVE FrameParts'
  OBVIOUS
<1>1. /\ demux = "read" /\ demux' = "push" /\ decoded < MaxFrames /\ read' = decoded + 1
      /\ UNCHANGED <<ai, enc, taken, encoding, rings, counts>>
  BY DEF ReadVideo
<1>2. Rings' /\ InHand' /\ Counters' /\ FramesAccounted'
  BY <1>1 DEF FrameParts, Rings, InHand, Counters, FramesAccounted, Held, rings, counts
<1>3. Ordered' => Ordered
  BY <1>1 DEF Later, Ordered, counts
<1>4. Decoded /\ InLine => Decoded' /\ InLine'
  BY <1>1 DEF Decoded, InLine, Growing, rings, counts
<1> QED BY <1>2, <1>3, <1>4 DEF FrameParts

\* decode_ring_ takes the frame that stage 1 has read, which is past all others.
LEMMA PushDecodedKeeps ==
  FrameParts /\ Takes /\ Later /\ (PushDecoded \/ DecodedDisplaced) => FrameParts'
<1> SUFFICES ASSUME FrameParts, Takes, Later, PushDecoded \/ DecodedDisplaced PROVE FrameParts'
  OBVIOUS
<1>1. read = decoded + 1 /\ read \in Frames /\ decoded < MaxFrames
  <2>1. read = decoded + 1 /\ decoded < MaxFrames /\ decoded \in Nat
    BY DEF FrameParts, PushDecoded, DecodedDisplaced, InHand, Counters
  <2> QED BY <2>1, FrameNumbers
<1>o. Ordered' => Ordered
  BY DEF Later, Ordered, PushDecoded, DecodedDisplaced
<1>l. ASSUME Ordered PROVE \A i \in 1 .. Len(decodeRing) : decodeRing[i] < read
  <2>2. \A i \in 1 .. Len(decodeRing) : decodeRing[i] \in Nat /\ decodeRing[i] <= decoded
    BY <1>l, Numbers, FrameNumbers DEF FrameParts, Decoded
  <2>3. \A f \in Nat : f <= decoded => f < read
    BY <1>1, Numbers
  <2> QED BY <2>2, <2>3
<1>2. /\ Pushed(decodeRing, read, dropped, refused, decodeRing', dropped', refused')
      /\ decodeRing \in Seq(Frames) /\ Len(decodeRing) <= Capacity
  BY DEF PushDecoded, DecodedDisplaced, AfterDisplacement, Takes, Pushed, FrameParts, Rings
<1>3. /\ decodeRing' \in Seq(Frames) /\ Len(decodeRing') \in Nat /\ Len(decodeRing') <= Capacity
      /\ dropped' \in Nat /\ refused' \in Nat
      /\ Len(decodeRing') + dropped' + refused' = Len(decodeRing) + dropped + refused + 1
  <2>1. dropped \in Nat /\ refused \in Nat
    BY Numbers
  <2> QED BY ONLY <1>1, <1>2, <2>1, AfterPush
<1>q. FromWith(decodeRing', decodeRing, read)
  BY <1>1, <1>2, Numbers, AfterPush
<1>g. Ordered /\ Growing(decodeRing) => Growing(decodeRing')
  <2>1. Growing(decodeRing) /\ (\A i \in 1 .. Len(decodeRing) : decodeRing[i] < read) => Growing(decodeRing')
    BY <1>1, <1>2, Numbers, AfterPush
  <2> QED BY <1>l, <2>1
<1>4. /\ decoded' = decoded + 1 /\ read' = NoFrame /\ demux' = "loop"
      /\ UNCHANGED <<ai, enc, taken, encoding, processRing, pruned, encoded, last, moved>>
  BY DEF PushDecoded, DecodedDisplaced
<1>5. Rings' /\ InHand' /\ Counters'
  <2>1. Rings'
    BY <1>3, <1>4 DEF FrameParts, Rings
  <2>2. InHand'
    BY <1>4 DEF FrameParts, InHand
  <2>3. decoded' \in Nat /\ decoded' <= MaxFrames
    BY <1>1, <1>4, Numbers, FrameNumbers
  <2> QED BY <1>3, <1>4, <2>1, <2>2, <2>3 DEF FrameParts, Counters
<1>6. ASSUME Ordered PROVE Decoded'
  <2>0. Decoded
    BY <1>6 DEF FrameParts
  <2>1. \A f \in Nat : f <= decoded => f <= decoded'
    BY <1>4, Numbers
  <2>2. read <= decoded'
    BY <1>1, <1>4, Numbers
  <2>3. ASSUME NEW i \in 1 .. Len(decodeRing') PROVE decodeRing'[i] <= decoded'
    <3>1. CASE \E j \in 1 .. Len(decodeRing) : decodeRing'[i] = decodeRing[j]
      BY SMTT(30), <2>0, <2>1, <3>1, Numbers, FrameNumbers DEF Decoded
    <3> QED BY <1>q, <2>2, <3>1 DEF FromWith
  <2>4. \A i \in 1 .. Len(processRing) : processRing[i] <= decoded'
    BY SMTT(30), <2>0, <2>1, Numbers, FrameNumbers DEF Decoded
  <2> QED BY <1>4, <2>0, <2>1, <2>3, <2>4, Numbers DEF Decoded
<1>7. FramesAccounted'
  <2>1. Held(taken) \in Nat /\ Held(encoding) \in Nat /\ Held(taken') = Held(taken) /\ Held(encoding') = Held(encoding)
    BY <1>4 DEF Held
  <2>2. Balanced(decoded, encoded, dropped, pruned, refused, Len(decodeRing), Len(processRing),
                 Held(taken), Held(encoding))
    BY AccountedBalanced DEF FrameParts
  <2>3. Balanced(decoded + 1, encoded, dropped', pruned, refused', Len(decodeRing'), Len(processRing),
                 Held(taken), Held(encoding))
    BY <1>3, <2>1, <2>2, Numbers, BalancedPushDecoded
  <2>4. Balanced(decoded', encoded', dropped', pruned', refused', Len(decodeRing'), Len(processRing'),
                 Held(taken'), Held(encoding'))
    BY <1>4, <2>1, <2>3
  <2> QED BY <2>4 DEF FramesAccounted, Balanced
<1>8. ASSUME Ordered PROVE InLine'
  <2>1. InLine
    BY <1>8 DEF FrameParts
  <2>d. Decoded
    BY <1>8 DEF FrameParts
  <2>2. ASSUME NEW i \in 1 .. Len(decodeRing')
        PROVE  /\ last < decodeRing'[i] /\ encoding < decodeRing'[i] /\ taken < decodeRing'[i]
               /\ \A j \in 1 .. Len(processRing) : processRing[j] < decodeRing'[i]
    <3>1. last < read /\ encoding < read /\ taken < read
      BY SMTT(30), <1>1, <2>d, Numbers DEF Decoded
    <3>2. \A j \in 1 .. Len(processRing) : processRing[j] < read
      <4>1. \A f \in Nat : f <= decoded => f < read
        BY SMTT(30), <1>1, Numbers
      <4> QED BY SMTT(30), <2>d, <4>1, Numbers, FrameNumbers DEF Decoded
    <3>3. CASE \E j \in 1 .. Len(decodeRing) : decodeRing'[i] = decodeRing[j]
      BY <2>1, <3>3 DEF InLine
    <3> QED BY <1>q, <3>1, <3>2, <3>3 DEF FromWith
  <2>3. Growing(decodeRing')
    BY <1>g, <1>8, <2>1 DEF InLine
  <2> QED BY <1>4, <2>1, <2>2, <2>3 DEF InLine
<1> QED BY <1>o, <1>5, <1>6, <1>7, <1>8 DEF FrameParts
\* The lines of a step that gives taken or encoding another value.
LEMMA HeldValues == Held(NoFrame) = 0 /\ (\A f \in Frames : Held(f) = 1 /\ f # NoFrame) /\ 0 \in Nat /\ 1 \in Nat
BY FrameNumbers DEF Held

\* process_ring_ takes the frame that stage 2 has in hand.
LEMMA PushProcessedKeeps ==
  FrameParts /\ Takes /\ Later /\ (PushProcessed \/ ProcessedDisplaced) => FrameParts'
<1> SUFFICES ASSUME FrameParts, Takes, Later, PushProcessed \/ ProcessedDisplaced PROVE FrameParts'
  OBVIOUS
<1>1. taken \in Frames /\ (Ordered => taken <= decoded)
  BY DEF FrameParts, PushProcessed, ProcessedDisplaced, InHand, Decoded
<1>o. Ordered' => Ordered
  BY DEF Later, Ordered, PushProcessed, ProcessedDisplaced
<1>2. /\ Pushed(processRing, taken, dropped, refused, processRing', dropped', refused')
      /\ processRing \in Seq(Frames) /\ Len(processRing) <= Capacity
  BY DEF PushProcessed, ProcessedDisplaced, AfterDisplacement, Takes, Pushed, FrameParts, Rings
<1>3. /\ processRing' \in Seq(Frames) /\ Len(processRing') \in Nat /\ Len(processRing') <= Capacity
      /\ dropped' \in Nat /\ refused' \in Nat
      /\ Len(processRing') + dropped' + refused' = Len(processRing) + dropped + refused + 1
  <2>1. dropped \in Nat /\ refused \in Nat
    BY Numbers
  <2> QED BY ONLY <1>1, <1>2, <2>1, AfterPush
<1>q. FromWith(processRing', processRing, taken)
  BY <1>1, <1>2, Numbers, AfterPush
<1>g. Growing(processRing) /\ (\A i \in 1 .. Len(processRing) : processRing[i] < taken) => Growing(processRing')
  BY <1>1, <1>2, Numbers, AfterPush
<1>4. /\ taken' = NoFrame /\ ai' = "loop"
      /\ UNCHANGED <<demux, enc, read, encoding, decodeRing, decoded, pruned, encoded, last, moved>>
  BY DEF PushProcessed, ProcessedDisplaced
<1>5. Rings' /\ InHand' /\ Counters'
  BY <1>3, <1>4 DEF FrameParts, Rings, InHand, Counters
<1>6. ASSUME Ordered PROVE Decoded'
  <2>0. Decoded
    BY <1>6 DEF FrameParts
  <2>1. \A i \in 1 .. Len(processRing') : processRing'[i] <= decoded
    BY <1>1, <1>6, <1>q, <2>0 DEF FromWith, Decoded
  <2>2. taken' <= decoded
    BY <1>4, Numbers, FrameNumbers
  <2> QED BY <1>4, <2>0, <2>1, <2>2 DEF Decoded
<1>7. FramesAccounted'
  <2>1. Held(encoding) \in Nat /\ Held(taken) = 1 /\ Held(taken') = 0
    BY <1>1, <1>4, HeldValues DEF Held
  <2>2. Balanced(decoded, encoded, dropped, pruned, refused, Len(decodeRing), Len(processRing),
                 1, Held(encoding))
    BY <2>1, AccountedBalanced DEF FrameParts
  <2>3. Balanced(decoded, encoded, dropped', pruned, refused', Len(decodeRing), Len(processRing'),
                 0, Held(encoding))
    BY <1>3, <2>1, <2>2, Numbers, BalancedPushProcessed
  <2>4. Balanced(decoded', encoded', dropped', pruned', refused', Len(decodeRing'), Len(processRing'),
                 Held(taken'), Held(encoding'))
    BY <1>4, <2>1, <2>3
  <2> QED BY <2>4 DEF FramesAccounted, Balanced
<1>8. ASSUME Ordered PROVE InLine'
  <2>1. InLine /\ taken # NoFrame
    BY <1>1, <1>8, HeldValues DEF FrameParts
  <2>2. Growing(processRing')
    BY <1>g, <2>1 DEF InLine
  <2>3. ASSUME NEW i \in 1 .. Len(processRing')
        PROVE  /\ last < processRing'[i] /\ encoding < processRing'[i]
               /\ \A j \in 1 .. Len(decodeRing) : processRing'[i] < decodeRing[j]
    <3>1. last < taken /\ encoding < taken /\ \A j \in 1 .. Len(decodeRing) : taken < decodeRing[j]
      BY <2>1 DEF InLine
    <3>2. CASE \E j \in 1 .. Len(processRing) : processRing'[i] = processRing[j]
      BY <2>1, <3>2 DEF InLine
    <3> QED BY <1>q, <3>1, <3>2 DEF FromWith
  <2>4. \A i \in 1 .. Len(decodeRing) : taken' < decodeRing[i]
    BY <1>4, Numbers, FrameNumbers
  <2> QED BY <1>4, <2>1, <2>2, <2>3, <2>4 DEF InLine
<1> QED BY <1>o, <1>5, <1>6, <1>7, <1>8 DEF FrameParts

\* Stage 2 takes the first frame of decode_ring_ in hand.
LEMMA PopDecodedKeeps == FrameParts /\ Takes /\ Later /\ DecodedPopped => FrameParts'
<1> SUFFICES ASSUME FrameParts, Takes, Later, DecodedPopped PROVE FrameParts'
  OBVIOUS
<1>s. decodeRing # <<>>
  BY DEF Takes, DecodedPopped
<1>o. Ordered' => Ordered
  BY DEF Later, Ordered, DecodedPopped, counts
<1> DEFINE f == taken'
           new == Tail(decodeRing)
<1>0. Len(new) \in Nat /\ Len(decodeRing) \in Nat /\ Len(decodeRing) <= Capacity /\ Capacity \in Nat
  BY <1>s, PoppedRing, FrameNumbers, Numbers DEF FrameParts, Rings
<1>1. /\ 1 \in 1 .. Len(decodeRing) /\ f \in Frames /\ (Ordered => f = decodeRing[1])
      /\ new \in Seq(Frames) /\ Len(new) + 1 = Len(decodeRing) /\ From(new, decodeRing)
      /\ Growing(decodeRing) => Growing(new) /\ \A i \in 1 .. Len(new) : decodeRing[1] < new[i]
  <2>1. f \in Frames /\ (Ordered => f = Head(decodeRing))
    BY <1>s, PoppedFrame DEF FrameParts, Rings, Ordered, DecodedPopped
  <2> QED BY <1>s, <2>1, PoppedRing DEF FrameParts, Rings
<1>2. /\ ai = "take" /\ ai' = "push" /\ taken' = f /\ decodeRing' = new
      /\ UNCHANGED <<demux, enc, read, encoding, processRing, counts>>
  BY DEF DecodedPopped
<1> HIDE DEF f, new
<1>3. taken = NoFrame
  BY <1>2 DEF FrameParts, InHand
<1>4. Len(new) \in Nat /\ Len(new) <= Capacity
  BY <1>0, <1>1
<1>5. Rings' /\ InHand' /\ Counters'
  BY <1>1, <1>2, <1>4, HeldValues DEF FrameParts, Rings, InHand, Counters, counts
<1>6. ASSUME Ordered PROVE Decoded'
  <2>0. Decoded
    BY <1>6 DEF FrameParts
  <2>1. \A i \in 1 .. Len(new) : new[i] <= decoded
    BY <1>1, <2>0 DEF From, Decoded
  <2>2. f <= decoded
    BY <1>1, <1>6, <2>0 DEF Decoded
  <2> QED BY <1>2, <2>0, <2>1, <2>2 DEF Decoded, counts
<1>7. FramesAccounted'
  <2>1. Held(encoding) \in Nat /\ Held(taken) = 0 /\ Held(taken') = 1
    BY <1>1, <1>2, <1>3, HeldValues DEF Held
  <2>2. Balanced(decoded, encoded, dropped, pruned, refused, Len(decodeRing), Len(processRing),
                 0, Held(encoding))
    BY <2>1, AccountedBalanced DEF FrameParts
  <2>3. Balanced(decoded, encoded, dropped, pruned, refused, Len(new), Len(processRing),
                 1, Held(encoding))
    BY <1>1, <1>4, <2>1, <2>2, Numbers, BalancedPopDecoded
  <2>4. Balanced(decoded', encoded', dropped', pruned', refused', Len(decodeRing'), Len(processRing'),
                 Held(taken'), Held(encoding'))
    BY <1>2, <2>1, <2>3 DEF counts
  <2> QED BY <2>4 DEF FramesAccounted, Balanced
<1>8. ASSUME Ordered PROVE InLine'
  <2>1. InLine
    BY <1>8 DEF FrameParts
  <2>2. Growing(new) /\ \A i \in 1 .. Len(new) : f < new[i]
    BY <1>1, <1>8, <2>1 DEF InLine
  <2>3. last < f /\ encoding < f /\ \A j \in 1 .. Len(processRing) : processRing[j] < f
    BY <1>1, <1>8, <2>1 DEF InLine
  <2>4. ASSUME NEW i \in 1 .. Len(new)
        PROVE  /\ last < new[i] /\ encoding < new[i]
               /\ \A j \in 1 .. Len(processRing) : processRing[j] < new[i]
    <3>1. PICK k \in 1 .. Len(decodeRing) : new[i] = decodeRing[k]
      BY <1>1 DEF From
    <3> QED BY <2>1, <3>1 DEF InLine
  <2> QED BY <1>2, <2>1, <2>2, <2>3, <2>4 DEF InLine, counts
<1> QED BY <1>o, <1>5, <1>6, <1>7, <1>8 DEF FrameParts

\* Stage 3 takes the first frame of process_ring_ in hand.
LEMMA PopProcessedKeeps == FrameParts /\ Takes /\ Later /\ ProcessedPopped => FrameParts'
<1> SUFFICES ASSUME FrameParts, Takes, Later, ProcessedPopped PROVE FrameParts'
  OBVIOUS
<1>s. processRing # <<>>
  BY DEF Takes, ProcessedPopped
<1>o. Ordered' => Ordered
  BY DEF Later, Ordered, ProcessedPopped, counts
<1> DEFINE f == encoding'
           new == Tail(processRing)
<1>0. Len(new) \in Nat /\ Len(processRing) \in Nat /\ Len(processRing) <= Capacity /\ Capacity \in Nat
  BY <1>s, PoppedRing, FrameNumbers, Numbers DEF FrameParts, Rings
<1>1. /\ 1 \in 1 .. Len(processRing) /\ f \in Frames /\ (Ordered => f = processRing[1])
      /\ new \in Seq(Frames) /\ Len(new) + 1 = Len(processRing) /\ From(new, processRing)
      /\ Growing(processRing) => Growing(new) /\ \A i \in 1 .. Len(new) : processRing[1] < new[i]
  <2>1. f \in Frames /\ (Ordered => f = Head(processRing))
    BY <1>s, PoppedFrame DEF FrameParts, Rings, Ordered, ProcessedPopped
  <2> QED BY <1>s, <2>1, PoppedRing DEF FrameParts, Rings
<1>2. /\ enc = "take" /\ enc' = "encode" /\ encoding' = f /\ processRing' = new
      /\ UNCHANGED <<demux, ai, read, taken, decodeRing, counts>>
  BY DEF ProcessedPopped
<1> HIDE DEF f, new
<1>3. encoding = NoFrame
  BY <1>2 DEF FrameParts, InHand
<1>4. Len(new) \in Nat /\ Len(new) <= Capacity
  BY <1>0, <1>1
<1>5. Rings' /\ InHand' /\ Counters'
  BY <1>1, <1>2, <1>4, HeldValues DEF FrameParts, Rings, InHand, Counters, counts
<1>6. ASSUME Ordered PROVE Decoded'
  <2>0. Decoded
    BY <1>6 DEF FrameParts
  <2>1. \A i \in 1 .. Len(new) : new[i] <= decoded
    BY <1>1, <2>0 DEF From, Decoded
  <2>2. f <= decoded
    BY <1>1, <1>6, <2>0 DEF Decoded
  <2> QED BY <1>2, <2>0, <2>1, <2>2 DEF Decoded, counts
<1>7. FramesAccounted'
  <2>1. Held(taken) \in Nat /\ Held(taken') = Held(taken) /\ Held(encoding) = 0 /\ Held(encoding') = 1
    BY <1>1, <1>2, <1>3, HeldValues DEF Held
  <2>2. Balanced(decoded, encoded, dropped, pruned, refused, Len(decodeRing), Len(processRing),
                 Held(taken), 0)
    BY <2>1, AccountedBalanced DEF FrameParts
  <2>3. Balanced(decoded, encoded, dropped, pruned, refused, Len(decodeRing), Len(new),
                 Held(taken), 1)
    BY <1>1, <1>4, <2>1, <2>2, Numbers, BalancedPopProcessed
  <2>4. Balanced(decoded', encoded', dropped', pruned', refused', Len(decodeRing'), Len(processRing'),
                 Held(taken'), Held(encoding'))
    BY <1>2, <2>1, <2>3 DEF counts
  <2> QED BY <2>4 DEF FramesAccounted, Balanced
<1>8. ASSUME Ordered PROVE InLine'
  <2>1. InLine
    BY <1>8 DEF FrameParts
  <2>2. Growing(new) /\ \A i \in 1 .. Len(new) : f < new[i]
    BY <1>1, <1>8, <2>1 DEF InLine
  <2>3. /\ last < f /\ (taken # NoFrame => f < taken)
        /\ \A j \in 1 .. Len(decodeRing) : f < decodeRing[j]
    BY <1>1, <1>8, <2>1 DEF InLine
  <2>4. ASSUME NEW i \in 1 .. Len(new)
        PROVE  /\ last < new[i] /\ (taken # NoFrame => new[i] < taken)
               /\ \A j \in 1 .. Len(decodeRing) : new[i] < decodeRing[j]
    <3>1. PICK k \in 1 .. Len(processRing) : new[i] = processRing[k]
      BY <1>1 DEF From
    <3> QED BY <2>1, <3>1 DEF InLine
  <2> QED BY <1>2, <2>1, <2>2, <2>3, <2>4 DEF InLine, counts
<1> QED BY <1>o, <1>5, <1>6, <1>7, <1>8 DEF FrameParts


\* Stage 2 prunes decode_ring_.
LEMMA PruneDecodedKeeps == FrameParts /\ Later /\ moved \in BOOLEAN /\ PruneDecoded => FrameParts'
<1> SUFFICES ASSUME FrameParts, Later, moved \in BOOLEAN, PruneDecoded PROVE FrameParts'
  OBVIOUS
<1>1. PICK cutoff \in 0 .. MaxFrames + 1, ring \in Contents("decode", decodeRing) :
        Pruned(ring, cutoff, pruned, moved, decodeRing', pruned', moved')
  BY DEF PruneDecoded, Pruned
<1>2. /\ ai = "prune" /\ ai' = "pop"
      /\ UNCHANGED <<demux, enc, read, taken, encoding, processRing, decoded, dropped, refused, encoded, last>>
  BY DEF PruneDecoded
<1>3. decodeRing \in Seq(Frames) /\ Len(decodeRing) <= Capacity
  BY DEF FrameParts, Rings
<1>r. ring \in Seq(Frames) /\ Len(ring) = Len(decodeRing) /\ (raced = {} => ring = decodeRing)
  BY <1>3, ContentsRing
<1>4. /\ decodeRing' \in Seq(Frames) /\ Len(decodeRing') \in Nat /\ pruned' \in Nat
      /\ Len(decodeRing') + pruned' = Len(decodeRing) + pruned
      /\ From(decodeRing', ring)
      /\ ~moved' => ~moved /\ (Growing(ring) => Growing(decodeRing'))
  BY <1>1, <1>r, Numbers, AfterPrune
<1>o. Ordered' => Ordered /\ ring = decodeRing
  BY <1>4, <1>r DEF Later, Ordered
<1>5. Len(decodeRing') <= Capacity
  <2>1. Len(decodeRing') <= Len(decodeRing)
    BY <1>1, <1>r, Numbers, AfterPrune
  <2> QED BY <1>3, <1>4, <2>1, Numbers, FrameNumbers
<1>6. Rings' /\ InHand' /\ Counters'
  BY <1>2, <1>4, <1>5 DEF FrameParts, Rings, InHand, Counters
<1>7. ASSUME Ordered' PROVE Decoded'
  BY <1>2, <1>4, <1>7, <1>o DEF From, FrameParts, Decoded
<1>8. FramesAccounted'
  <2>1. /\ Held(taken) \in Nat /\ Held(encoding) \in Nat
        /\ Held(taken') = Held(taken) /\ Held(encoding') = Held(encoding)
    BY <1>2 DEF Held
  <2>2. Balanced(decoded, encoded, dropped, pruned, refused, Len(decodeRing), Len(processRing),
                 Held(taken), Held(encoding))
    BY AccountedBalanced DEF FrameParts
  <2>3. Len(decodeRing') + Len(processRing) + pruned' = Len(decodeRing) + Len(processRing) + pruned
    <3>1. Len(decodeRing) \in Nat /\ Len(processRing) \in Nat /\ pruned \in Nat
      BY Numbers
    <3> QED BY ONLY <1>4, <3>1
  <2>4. Balanced(decoded, encoded, dropped, pruned', refused, Len(decodeRing'), Len(processRing),
                 Held(taken), Held(encoding))
    BY <1>4, <2>1, <2>2, <2>3, Numbers, BalancedPrune
  <2>5. Balanced(decoded', encoded', dropped', pruned', refused', Len(decodeRing'), Len(processRing'),
                 Held(taken'), Held(encoding'))
    BY <1>2, <2>1, <2>4
  <2> QED BY <2>5 DEF FramesAccounted, Balanced
<1>9. ASSUME Ordered' PROVE InLine'
  <2>1. InLine /\ Growing(decodeRing')
    BY <1>4, <1>9, <1>o DEF FrameParts, InLine, Ordered
  <2>2. ASSUME NEW i \in 1 .. Len(decodeRing')
        PROVE  /\ last < decodeRing'[i] /\ encoding < decodeRing'[i] /\ taken < decodeRing'[i]
               /\ \A j \in 1 .. Len(processRing) : processRing[j] < decodeRing'[i]
    <3>1. PICK k \in 1 .. Len(decodeRing) : decodeRing'[i] = decodeRing[k]
      BY <1>4, <1>9, <1>o DEF From
    <3> QED BY <2>1, <3>1 DEF InLine
  <2> QED BY <1>2, <2>1, <2>2 DEF InLine
<1> QED BY <1>6, <1>7, <1>8, <1>9 DEF FrameParts

\* Stage 3 prunes process_ring_.
LEMMA PruneProcessedKeeps == FrameParts /\ Later /\ moved \in BOOLEAN /\ PruneProcessed => FrameParts'
<1> SUFFICES ASSUME FrameParts, Later, moved \in BOOLEAN, PruneProcessed PROVE FrameParts'
  OBVIOUS
<1>1. PICK cutoff \in 0 .. MaxFrames + 1, ring \in Contents("process", processRing) :
        Pruned(ring, cutoff, pruned, moved, processRing', pruned', moved')
  BY DEF PruneProcessed, Pruned
<1>2. /\ enc = "prune" /\ enc' = "pop"
      /\ UNCHANGED <<demux, ai, read, taken, encoding, decodeRing, decoded, dropped, refused, encoded, last>>
  BY DEF PruneProcessed
<1>3. processRing \in Seq(Frames) /\ Len(processRing) <= Capacity
  BY DEF FrameParts, Rings
<1>r. ring \in Seq(Frames) /\ Len(ring) = Len(processRing) /\ (raced = {} => ring = processRing)
  BY <1>3, ContentsRing
<1>4. /\ processRing' \in Seq(Frames) /\ Len(processRing') \in Nat /\ pruned' \in Nat
      /\ Len(processRing') + pruned' = Len(processRing) + pruned
      /\ From(processRing', ring)
      /\ ~moved' => ~moved /\ (Growing(ring) => Growing(processRing'))
  BY <1>1, <1>r, Numbers, AfterPrune
<1>o. Ordered' => Ordered /\ ring = processRing
  BY <1>4, <1>r DEF Later, Ordered
<1>5. Len(processRing') <= Capacity
  <2>1. Len(processRing') <= Len(processRing)
    BY <1>1, <1>r, Numbers, AfterPrune
  <2> QED BY <1>3, <1>4, <2>1, Numbers, FrameNumbers
<1>6. Rings' /\ InHand' /\ Counters'
  BY <1>2, <1>4, <1>5 DEF FrameParts, Rings, InHand, Counters
<1>7. ASSUME Ordered' PROVE Decoded'
  BY <1>2, <1>4, <1>7, <1>o DEF From, FrameParts, Decoded
<1>8. FramesAccounted'
  <2>1. /\ Held(taken) \in Nat /\ Held(encoding) \in Nat
        /\ Held(taken') = Held(taken) /\ Held(encoding') = Held(encoding)
    BY <1>2 DEF Held
  <2>2. Balanced(decoded, encoded, dropped, pruned, refused, Len(decodeRing), Len(processRing),
                 Held(taken), Held(encoding))
    BY AccountedBalanced DEF FrameParts
  <2>3. Len(decodeRing) + Len(processRing') + pruned' = Len(decodeRing) + Len(processRing) + pruned
    <3>1. Len(decodeRing) \in Nat /\ Len(processRing) \in Nat /\ pruned \in Nat
      BY Numbers
    <3> QED BY ONLY SMTT(30), <1>4, <3>1
  <2>4. Balanced(decoded, encoded, dropped, pruned', refused, Len(decodeRing), Len(processRing'),
                 Held(taken), Held(encoding))
    BY <1>4, <2>1, <2>2, <2>3, Numbers, BalancedPrune
  <2>5. Balanced(decoded', encoded', dropped', pruned', refused', Len(decodeRing'), Len(processRing'),
                 Held(taken'), Held(encoding'))
    BY <1>2, <2>1, <2>4
  <2> QED BY <2>5 DEF FramesAccounted, Balanced
<1>9. ASSUME Ordered' PROVE InLine'
  <2>1. InLine /\ Growing(processRing')
    BY <1>4, <1>9, <1>o DEF FrameParts, InLine, Ordered
  <2>2. ASSUME NEW i \in 1 .. Len(processRing')
        PROVE  /\ last < processRing'[i] /\ encoding < processRing'[i]
               /\ taken # NoFrame => processRing'[i] < taken
               /\ \A j \in 1 .. Len(decodeRing) : processRing'[i] < decodeRing[j]
    <3>1. PICK k \in 1 .. Len(processRing) : processRing'[i] = processRing[k]
      BY <1>4, <1>9, <1>o DEF From
    <3> QED BY <2>1, <3>1 DEF InLine
  <2> QED BY <1>2, <2>1, <2>2 DEF InLine
<1> QED BY <1>6, <1>7, <1>8, <1>9 DEF FrameParts

\* Stage 3 gives its frame to the encoder.
LEMMA EncodeKeeps == FrameParts /\ Later /\ Encode => FrameParts'
<1> SUFFICES ASSUME FrameParts, Later, Encode PROVE FrameParts'
  OBVIOUS
<1>1. /\ enc = "encode" /\ enc' = "loop" /\ encoded' = encoded + 1 /\ last' = encoding /\ encoding' = NoFrame
      /\ UNCHANGED <<demux, ai, read, taken, rings, decoded, dropped, pruned, refused, moved>>
  BY DEF Encode
<1>2. encoding \in Frames /\ encoding # NoFrame
  BY <1>1 DEF FrameParts, InHand
<1>3. Rings' /\ InHand' /\ Counters'
  BY <1>1, <1>2, Numbers DEF FrameParts, Rings, InHand, Counters, rings
<1>o. Ordered' => Ordered
  BY <1>1 DEF Later, Ordered
<1>4. ASSUME Ordered' PROVE Decoded'
  BY <1>1, <1>4, <1>o, Numbers, FrameNumbers DEF FrameParts, Decoded, rings
<1>5. FramesAccounted'
  <2>1. Held(taken) \in Nat /\ Held(taken') = Held(taken) /\ Held(encoding) = 1 /\ Held(encoding') = 0
    BY <1>1, <1>2, HeldValues DEF Held
  <2>2. Balanced(decoded, encoded, dropped, pruned, refused, Len(decodeRing), Len(processRing),
                 Held(taken), 1)
    BY <2>1, AccountedBalanced DEF FrameParts
  <2>3. Balanced(decoded, encoded + 1, dropped, pruned, refused, Len(decodeRing), Len(processRing),
                 Held(taken), 0)
    BY <2>1, <2>2, Numbers, BalancedEncode
  <2>4. Balanced(decoded', encoded', dropped', pruned', refused', Len(decodeRing'), Len(processRing'),
                 Held(taken'), Held(encoding'))
    BY <1>1, <2>1, <2>3 DEF rings
  <2> QED BY <2>4 DEF FramesAccounted, Balanced
<1>6. ASSUME Ordered' PROVE InLine'
  <2>1. InLine
    BY <1>6, <1>o DEF FrameParts
  <2>2. \A f \in Frames : 0 < f
    BY FrameNumbers
  <2> QED BY SMTT(30), <1>1, <1>2, <2>1, <2>2, Numbers, FrameNumbers DEF InLine, rings
<1> QED BY <1>3, <1>4, <1>5, <1>6 DEF FrameParts
-----------------------------------------------------------------------------
(* The steps together, and what follows from the invariant.                *)

\* Every step of a stage, of RunParallel or of the world keeps the invariant.
LEMMA StepKeeps == IInv /\ [Next]_vars => IInv'
<1> SUFFICES ASSUME IInv, [Next]_vars PROVE IInv'
  OBVIOUS
<1>1. FrameParts /\ moved \in BOOLEAN /\ Places /\ Takes /\ Later /\ Races' /\ Takes'
  BY TakesKept DEF IInv, FrameParts, Switches
<1>2. CASE RunParallel /\ UNCHANGED <<gating, raced>>
  <2>1. Still
    BY <1>1, <1>2 DEF RunParallel, Start, StopFlag, StopNotify, Join, Still, stages, rings, counts, Places
  <2> QED BY <1>1, <2>1, StillKeeps, SwitchesKept DEF IInv, FrameParts
<1>3. CASE AskStop
  <2>1. Still
    BY <1>3 DEF AskStop, Still, stages, rings, counts
  <2> QED BY <1>1, <2>1, StillKeeps, SwitchesKept DEF IInv, FrameParts
<1>4. CASE Input \/ DemuxDecodeLoop \/ Wake
  <2>1. CASE ReadVideo
    BY <1>1, <2>1, ReadKeeps, SwitchesKept DEF IInv, FrameParts
  <2>2. CASE PushDecoded \/ DecodedDisplaced
    BY <1>1, <2>2, PushDecodedKeeps, SwitchesKept DEF IInv, FrameParts
  <2>3. CASE ReadAudio \/ OpenDemuxer \/ CloseDemuxer
    <3>1. Still
      BY <2>3 DEF ReadAudio, OpenDemuxer, CloseDemuxer, Still, rings, counts
    <3> QED BY <1>1, <3>1, StillKeeps, SwitchesKept DEF IInv, FrameParts
  <2>4. CASE DisplaceDecoded \/ ReadEnd \/ ReadStopped \/ DemuxLoop \/ WaitForClients \/ Block \/ Check \/ Wake
    <3>1. Still
      BY <2>4 DEF DisplaceDecoded, ReadEnd, ReadStopped, DemuxLoop, WaitForClients, Block, Check, Wake, DemuxGo, Still,
                  rings, counts
    <3> QED BY <1>1, <3>1, StillKeeps, SwitchesKept DEF IInv, FrameParts
  <2> QED BY <1>4, <2>1, <2>2, <2>3, <2>4 DEF Input, DemuxDecodeLoop
<1>5. CASE AIProcessLoop
  <2>1. CASE PruneDecoded
    BY <1>1, <2>1, PruneDecodedKeeps, SwitchesKept DEF IInv, FrameParts
  <2>2. CASE DecodedPopped
    BY <1>1, <2>2, PopDecodedKeeps, SwitchesKept DEF IInv, FrameParts
  <2>3. CASE PushProcessed \/ ProcessedDisplaced
    BY <1>1, <2>3, PushProcessedKeeps, SwitchesKept DEF IInv, FrameParts
  <2>4. CASE AiLoop \/ PopDecoded \/ DisplaceProcessed \/ AiEmpty \/ AiEnd
    <3>1. Still
      BY <2>4 DEF AiLoop, PopDecoded, DisplaceProcessed, AiEmpty, AiEnd, AiGo, Still, rings, counts
    <3> QED BY <1>1, <3>1, StillKeeps, SwitchesKept DEF IInv, FrameParts
  <2> QED BY <1>5, <2>1, <2>2, <2>3, <2>4 DEF AIProcessLoop
<1>6. CASE EncodeOutputLoop
  <2>1. CASE PruneProcessed
    BY <1>1, <2>1, PruneProcessedKeeps, SwitchesKept DEF IInv, FrameParts
  <2>2. CASE ProcessedPopped
    BY <1>1, <2>2, PopProcessedKeeps, SwitchesKept DEF IInv, FrameParts
  <2>3. CASE Encode
    BY <1>1, <2>3, EncodeKeeps, SwitchesKept DEF IInv, FrameParts
  <2>4. CASE OpenEncoder \/ EncLoop \/ OutputAudio \/ PopProcessed \/ EncEmpty
    <3>1. Still
      BY <2>4 DEF OpenEncoder, EncLoop, OutputAudio, PopProcessed, EncEmpty, EncGo, Still, rings, counts
    <3> QED BY <1>1, <3>1, StillKeeps, SwitchesKept DEF IInv, FrameParts
  <2> QED BY <1>6, <2>1, <2>2, <2>3, <2>4 DEF EncodeOutputLoop
<1>7. CASE UNCHANGED vars
  <2>1. Still
    BY <1>7 DEF Still, vars, stages, rings, counts
  <2> QED BY <1>1, <2>1, StillKeeps, SwitchesKept DEF IInv, FrameParts
<1> QED BY <1>2, <1>3, <1>4, <1>5, <1>6, <1>7 DEF Next, Stages, Runner

\* The frames of a pipeline are in hand, in a ring or counted, in every reachable
\* state.
THEOREM PipelineInvariant == Spec => []IInv
<1>1. Init => IInv
  BY InitIInv
<1>2. IInv /\ [Next]_vars => IInv'
  BY StepKeeps
<1> QED BY <1>1, <1>2, PTL DEF Spec

\* A sum of naturals is at least each of its terms.
LEMMA BalancedBounds ==
  ASSUME NEW d \in Nat, NEW e \in Nat, NEW x \in Nat, NEW p \in Nat, NEW y \in Nat,
         NEW m \in Nat, NEW n \in Nat, NEW t \in Nat, NEW g \in Nat,
         Balanced(d, e, x, p, y, m, n, t, g)
  PROVE  e <= d /\ x <= d /\ p <= d /\ y <= d
BY DEF Balanced

\* A ring within its capacity has the type that TypeOK gives it.
LEMMA RingType ==
  ASSUME NEW ring \in Seq(Frames), Len(ring) <= Capacity
  PROVE  ring \in BoundedSeq(Frames, Capacity)
<1>1. Len(ring) \in 0 .. Capacity
  BY FrameNumbers
<1>2. ring \in [1 .. Len(ring) -> Frames]
  OBVIOUS
<1> QED BY <1>1, <1>2 DEF BoundedSeq, SeqOf

\* Every variable has its type, the rings hold no more than their capacity, and
\* no counter of GetStatus passes the frames of the input (StreamPipeline.cpp).
THEOREM PipelineTypeOK == Spec => []TypeOK
<1>1. IInv => TypeOK
  <2> SUFFICES ASSUME IInv PROVE TypeOK
    OBVIOUS
  <2>1. FrameParts
    BY DEF IInv, FrameParts
  <2>2. Held(taken) \in Nat /\ Held(encoding) \in Nat
    BY DEF Held
  <2>3. Balanced(decoded, encoded, dropped, pruned, refused, Len(decodeRing), Len(processRing),
                 Held(taken), Held(encoding))
    BY <2>1, AccountedBalanced DEF FrameParts
  <2>4. encoded <= decoded /\ dropped <= decoded /\ pruned <= decoded /\ refused <= decoded
    BY <2>1, <2>2, <2>3, Numbers, BalancedBounds
  <2>5. decoded <= MaxFrames
    BY DEF IInv, Counters
  <2>6. {decoded, dropped, pruned, refused, encoded} \subseteq 0 .. MaxFrames
    BY <2>1, <2>4, <2>5, Numbers, FrameNumbers
  <2>7. {read, taken, encoding, last} \subseteq Frames \cup {NoFrame}
    BY FrameNumbers DEF IInv, InHand, Counters
  <2>8. {decodeRing, processRing} \subseteq BoundedSeq(Frames, Capacity)
    BY RingType DEF IInv, Rings
  <2> QED BY <2>6, <2>7, <2>8 DEF IInv, Switches, Places, Races, TypeOK
<1> QED BY <1>1, PipelineInvariant, PTL

\* Every decoded frame is in one of the counters, in a ring or in hand
\* (StreamPipeline.cpp, the counters of GetStatus).
THEOREM PipelineFramesAccounted == Spec => []FramesAccounted
<1>1. IInv => FramesAccounted
  BY DEF IInv
<1> QED BY <1>1, PipelineInvariant, PTL

\* Every element of the first sequence is below every one of the second.
Below(s, t) == \A i \in 1 .. Len(s), j \in 1 .. Len(t) : s[i] < t[j]

\* Two growing sequences make one when the first is below the second.
LEMMA GrowingLine ==
  ASSUME NEW s \in Seq(Nat), NEW t \in Seq(Nat), Growing(s), Growing(t), Below(s, t)
  PROVE  /\ s \o t \in Seq(Nat) /\ Growing(s \o t)
         /\ \A u : Below(s, u) /\ Below(t, u) => Below(s \o t, u)
<1> DEFINE w == s \o t
<1>1. Len(s) \in Nat /\ Len(t) \in Nat
  OBVIOUS
<1>2. w \in Seq(Nat) /\ Len(w) = Len(s) + Len(t)
      /\ \A i \in 1 .. Len(w) : \/ i \in 1 .. Len(s) /\ w[i] = s[i]
                                \/ i - Len(s) \in 1 .. Len(t) /\ i > Len(s) /\ w[i] = t[i - Len(s)]
  BY ConcatPlaces
<1> HIDE DEF w
<1>3. ASSUME NEW i \in 1 .. Len(w), NEW j \in 1 .. Len(w), i < j PROVE w[i] < w[j]
  <2>1. CASE j \in 1 .. Len(s) /\ w[j] = s[j]
    <3>1. i \in 1 .. Len(s) /\ w[i] = s[i]
      <4>1. Len(w) \in Nat
        BY <1>1, <1>2
      <4>2. i \in 1 .. Len(s) /\ ~(i > Len(s))
        BY <1>1, <1>3, <2>1, <4>1
      <4> QED BY <1>2, <4>2
    <3> QED BY <1>3, <2>1, <3>1 DEF Growing
  <2>2. CASE j - Len(s) \in 1 .. Len(t) /\ w[j] = t[j - Len(s)]
    <3>1. CASE i \in 1 .. Len(s) /\ w[i] = s[i]
      BY <2>2, <3>1 DEF Below
    <3>2. CASE i - Len(s) \in 1 .. Len(t) /\ w[i] = t[i - Len(s)]
      <4>1. i - Len(s) < j - Len(s)
        BY <1>1, <1>3
      <4> QED BY <2>2, <3>2, <4>1 DEF Growing
    <3> QED BY <1>2, <3>1, <3>2
  <2> QED BY <1>2, <2>1, <2>2
<1>4. ASSUME NEW u, Below(s, u), Below(t, u) PROVE Below(w, u)
  <2>1. ASSUME NEW i \in 1 .. Len(w), NEW j \in 1 .. Len(u) PROVE w[i] < u[j]
    BY <1>2, <1>4, <2>1 DEF Below
  <2> QED BY <2>1 DEF Below
<1> QED BY <1>2, <1>3, <1>4 DEF w, Growing

\* A place of the line that holds one frame or none.
Place(frame) == IF frame = NoFrame THEN <<>> ELSE <<frame>>

\* What such a place is below, and what is below it.
LEMMA PlaceBelow ==
  ASSUME NEW f \in Nat
  PROVE  /\ Place(f) \in Seq(Nat) /\ Growing(Place(f))
         /\ \A u : (f # NoFrame => \A j \in 1 .. Len(u) : f < u[j]) => Below(Place(f), u)
         /\ \A u : (f # NoFrame => \A j \in 1 .. Len(u) : u[j] < f) => Below(u, Place(f))
         /\ \A g \in Nat : (f # NoFrame /\ g # NoFrame => f < g) => Below(Place(f), Place(g))
<1>1. \A g \in Nat : \A i \in 1 .. Len(Place(g)) : i = 1 /\ g # NoFrame /\ Place(g)[i] = g
  <2> SUFFICES ASSUME NEW g \in Nat, NEW i \in 1 .. Len(Place(g))
               PROVE  i = 1 /\ g # NoFrame /\ Place(g)[i] = g
    OBVIOUS
  <2>1. CASE g = NoFrame
    BY <2>1 DEF Place
  <2>2. CASE g # NoFrame
    BY <2>2 DEF Place
  <2> QED BY <2>1, <2>2
<1>2. Place(f) \in Seq(Nat)
  BY DEF Place
<1>3. Growing(Place(f))
  BY <1>1 DEF Growing
<1> QED BY SMTT(30), <1>1, <1>2, <1>3 DEF Below

\* Until a keyframe is moved or a Pop overlaps a displacement, the frames from the encoder back to stage 1 are in
\* the order of their capture (StreamPipeline.cpp, RingBuffer.h).
THEOREM PipelineOrderKept == Spec => []OrderKept
<1>1. ASSUME IInv, Ordered
      PROVE  Growing(Place(last) \o Place(encoding) \o processRing \o Place(taken) \o decodeRing \o Place(read))
  <2>1. FrameParts /\ InLine /\ Decoded
    BY <1>1 DEF IInv, FrameParts
  <2>2. /\ last \in Nat /\ encoding \in Nat /\ taken \in Nat /\ read \in Nat
        /\ processRing \in Seq(Nat) /\ decodeRing \in Seq(Nat)
    BY <2>1, Numbers, FrameNumbers DEF FrameParts, Rings
  <2>3. read # NoFrame => /\ last < read /\ encoding < read /\ taken < read
                          /\ \A i \in 1 .. Len(decodeRing) : decodeRing[i] < read
                          /\ \A i \in 1 .. Len(processRing) : processRing[i] < read
    <3>1. \A f \in Nat : f <= decoded => f < decoded + 1
      BY <2>1, Numbers
    <3>2. read # NoFrame => read = decoded + 1
      BY <2>1 DEF FrameParts, InHand
    <3>3. last < decoded + 1 /\ encoding < decoded + 1 /\ taken < decoded + 1
      BY <2>1, <2>2, <3>1 DEF FrameParts, Decoded
    <3>4. \A f \in Frames : f \in Nat
      BY FrameNumbers
    <3>5. \A i \in 1 .. Len(decodeRing) : decodeRing[i] < decoded + 1
      BY <2>1, <3>1, <3>4, Numbers DEF FrameParts, Decoded
    <3>6. \A i \in 1 .. Len(processRing) : processRing[i] < decoded + 1
      BY <2>1, <3>1, <3>4, Numbers DEF FrameParts, Decoded
    <3> QED BY <3>2, <3>3, <3>5, <3>6
  <2>4. /\ Below(Place(last), Place(encoding)) /\ Below(Place(last), processRing)
        /\ Below(Place(last), Place(taken)) /\ Below(Place(last), decodeRing) /\ Below(Place(last), Place(read))
    <3>1. Below(Place(last), Place(encoding)) /\ Below(Place(last), Place(taken)) /\ Below(Place(last), Place(read))
      BY PlaceBelow, <2>1, <2>2, <2>3 DEF InLine
    <3>2. Below(Place(last), processRing) /\ Below(Place(last), decodeRing)
      BY PlaceBelow, <2>1, <2>2 DEF InLine
    <3> QED BY <3>1, <3>2
  <2>5. /\ Below(Place(encoding), processRing) /\ Below(Place(encoding), Place(taken))
        /\ Below(Place(encoding), decodeRing) /\ Below(Place(encoding), Place(read))
    <3>1. Below(Place(encoding), Place(taken)) /\ Below(Place(encoding), Place(read))
      BY PlaceBelow, <2>1, <2>2, <2>3 DEF InLine
    <3>2. Below(Place(encoding), processRing) /\ Below(Place(encoding), decodeRing)
      BY PlaceBelow, <2>1, <2>2 DEF InLine
    <3> QED BY <3>1, <3>2
  <2>6. /\ Below(processRing, Place(taken)) /\ Below(processRing, decodeRing) /\ Below(processRing, Place(read))
    <3>1. Below(processRing, Place(taken)) /\ Below(processRing, Place(read))
      BY PlaceBelow, <2>1, <2>2, <2>3 DEF InLine
    <3>2. Below(processRing, decodeRing)
      BY <2>1 DEF InLine, Below
    <3> QED BY <3>1, <3>2
  <2>7. Below(Place(taken), decodeRing) /\ Below(Place(taken), Place(read)) /\ Below(decodeRing, Place(read))
    <3>1. Below(Place(taken), decodeRing) /\ Below(decodeRing, Place(read))
      BY PlaceBelow, <2>1, <2>2, <2>3 DEF InLine
    <3>2. Below(Place(taken), Place(read))
      BY PlaceBelow, <2>2, <2>3
    <3> QED BY <3>1, <3>2
  <2>8. Growing(processRing) /\ Growing(decodeRing)
    BY <2>1 DEF InLine
  <2>9. /\ Growing(Place(last)) /\ Growing(Place(encoding)) /\ Growing(Place(taken)) /\ Growing(Place(read))
        /\ Place(last) \in Seq(Nat) /\ Place(encoding) \in Seq(Nat) /\ Place(taken) \in Seq(Nat) /\ Place(read) \in Seq(Nat)
    BY <2>2, PlaceBelow
  <2> DEFINE l2 == Place(last) \o Place(encoding)
             l3 == l2 \o processRing
             l4 == l3 \o Place(taken)
             l5 == l4 \o decodeRing
  <2>10. /\ l2 \in Seq(Nat) /\ Growing(l2) /\ Below(l2, processRing) /\ Below(l2, Place(taken))
         /\ Below(l2, decodeRing) /\ Below(l2, Place(read))
    BY <2>4, <2>5, <2>9, GrowingLine
  <2> HIDE DEF l2
  <2>11. /\ l3 \in Seq(Nat) /\ Growing(l3) /\ Below(l3, Place(taken))
         /\ Below(l3, decodeRing) /\ Below(l3, Place(read))
    BY <2>2, <2>6, <2>8, <2>10, GrowingLine
  <2> HIDE DEF l3
  <2>12. l4 \in Seq(Nat) /\ Growing(l4) /\ Below(l4, decodeRing) /\ Below(l4, Place(read))
    BY <2>7, <2>9, <2>11, GrowingLine
  <2> HIDE DEF l4
  <2>13. l5 \in Seq(Nat) /\ Growing(l5) /\ Below(l5, Place(read))
    BY <2>2, <2>7, <2>8, <2>12, GrowingLine
  <2> HIDE DEF l5
  <2>14. Growing(l5 \o Place(read))
    BY <2>9, <2>13, GrowingLine
  <2> QED BY <2>14 DEF l2, l3, l4, l5
<1>2. IInv => OrderKept
  BY <1>1 DEF OrderKept, Ordered, Place, Growing
<1> QED BY <1>2, PipelineInvariant, PTL

=============================================================================
