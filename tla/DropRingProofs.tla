--------------------------- MODULE DropRingProofs ---------------------------
(***************************************************************************)
(* The ring between two stages of a StreamPipeline, for any capacity and   *)
(* any stream of frames.                                                   *)
(*                                                                         *)
(* Two things hold whatever races: the counters balance (FramesConserved), *)
(* because num_datas_ is atomic, and num_datas_ keeps its range            *)
(* (CountRange), because each thread's test at the head of its call stays  *)
(* true until the call ends.  As long as no Pop has overlapped a           *)
(* displacement, the cursors are as far apart as Filled says (Cursors) and *)
(* the slots between them hold frames (Entries).                           *)
(***************************************************************************)
EXTENDS DropRing, TLAPS

\* The next slot, without a remainder.
Succ(pos) == IF pos = Capacity - 1 THEN 0 ELSE pos + 1

\* How far a slot is behind get_pos_.
Behind(get, pos) == IF pos >= get THEN pos - get ELSE pos - get + Capacity

\* How many entries there are from get_pos_ to put_pos_, which num_datas_ may not
\* say yet: Pop and Push move their cursor first, and so does a displacement.
Uncounted == IF ppc = "count" THEN 1 ELSE 0
Overcounted == (IF gpc = "count" THEN 1 ELSE 0) + (IF ppc \in {"putOnly", "uncount"} THEN 1 ELSE 0)
Filled == num + Uncounted - Overcounted

\* num_datas_ has its range: its test at the head of a call stays true, and it is
\* -1 only when PushOverwrite has discounted what a Pop had counted already.
Pending == ppc \in {"write", "advance", "count"}
CountRange ==
  /\ num <= Capacity
  /\ Pending => num < Capacity
  /\ backpressure \/ ~Pending => num >= 0 /\ (Popping => num >= 1)
  /\ num >= -1 /\ (Popping => num >= 0)

\* PushOrDrop and PruneStale exclude one another, and each belongs to one mode.
Locks ==
  /\ gpc = "prune" => backpressure /\ lock = "down"
  /\ backpressure /\ ppc # "idle" => lock = "up"
  /\ ppc \in {"orDrop", "replace", "putOnly"} => backpressure
  /\ ppc \in {"overwrite", "uncount"} => ~backpressure

Types ==
  /\ backpressure \in BOOLEAN /\ raced \in BOOLEAN
  /\ buffer \in [Slots -> Stored]
  /\ putPos \in Slots /\ getPos \in Slots
  /\ num \in Int
  /\ lock \in {"none", "up", "down"}
  /\ ppc \in {"idle", "orDrop", "replace", "overwrite", "getLoad", "getStore",
              "putOnly", "uncount", "write", "advance", "count"}
  /\ gpc \in {"idle", "prune", "move", "getLoad", "getStore", "count"}
  /\ item \in Stored /\ data \in Stored /\ ppos \in Slots /\ gpos \in Slots
  /\ scan \in [cutoff : 0 .. MaxFrames + 1, left : 0 .. Capacity]
  /\ next \in 1 .. MaxFrames + 1
  /\ {popped, dropped, refused, pruned} \subseteq Nat

\* Cursors and slots, as long as no Pop overlapped a displacement.
Cursors ==
  /\ ~(Displacing /\ Popping)
  /\ Filled = Behind(getPos, putPos) \/ (Filled = Capacity /\ getPos = putPos)
  /\ Displacing => num = Capacity
  /\ Popping => num >= 1
  /\ ppc \in {"replace", "getStore"} => ppos = getPos
  /\ gpc \in {"move", "getStore"} => gpos = getPos

Entries ==
  /\ ppc # "idle" => item # NoFrame
  /\ ppc \in {"advance", "putOnly"} => buffer[putPos] # NoFrame
  /\ \A s \in Slots : \/ buffer[s] # NoFrame
                      \/ Behind(getPos, s) >= Filled
                      \/ s = getPos /\ gpc \in {"getLoad", "getStore"}

IInv == /\ Types /\ CountRange /\ Locks /\ FramesConserved
        /\ ~raced => Cursors /\ Entries

-----------------------------------------------------------------------------
(* Every step.                                                             *)

\* Sizes and slots are integers.
LEMMA Integral ==
  /\ Capacity \in Nat /\ Capacity > 0 /\ MaxFrames \in Nat /\ NoFrame = 0
  /\ \A s : s \in Slots <=> s \in Int /\ 0 <= s /\ s < Capacity
  /\ \A f : f \in Stored <=> f \in Int /\ 0 <= f /\ f <= MaxFrames
BY DropRingAssumption DEF Slots, Stored, Frames, NoFrame

\* Advance steps a cursor to the next slot, and from the last to the first.
LEMMA AfterWraps ==
  ASSUME NEW pos \in Slots
  PROVE  After(pos) \in Slots /\ After(pos) = Succ(pos)
<1>1. Capacity \in Nat /\ Capacity > 0 /\ pos \in Nat /\ pos < Capacity
  BY Integral
<1>2. CASE pos = Capacity - 1
  <2>1. (pos + 1) % Capacity = 0
    BY <1>1, <1>2, SMT
  <2> QED BY <1>1, <1>2, <2>1, Integral DEF After, Succ
<1>3. CASE pos # Capacity - 1
  <2>1. (pos + 1) % Capacity = pos + 1
    BY <1>1, <1>3, SMT
  <2> QED BY <1>1, <1>3, <2>1, Integral DEF After, Succ
<1> QED BY <1>2, <1>3

\* One step of get_pos_ brings every slot one closer, but the one it leaves.
LEMMA BehindStep ==
  ASSUME NEW get \in Slots, NEW pos \in Slots
  PROVE  /\ get # pos => Behind(get, pos) > 0 /\ Behind(Succ(get), pos) = Behind(get, pos) - 1
         /\ get = pos => Behind(get, pos) = 0 /\ Behind(Succ(get), pos) = Capacity - 1
         /\ Behind(get, pos) \in Slots
<1>1. /\ Capacity \in Nat /\ Capacity > 0 /\ get \in Int /\ 0 <= get /\ get < Capacity
      /\ pos \in Int /\ 0 <= pos /\ pos < Capacity
  BY Integral
<1> QED BY <1>1 DEF Behind, Succ, Slots

\* At first the ring is empty.
LEMMA InitIInv == Init => IInv
<1> SUFFICES ASSUME Init PROVE IInv
  OBVIOUS
<1>1. Types
  <2>1. scan \in [cutoff : 0 .. MaxFrames + 1, left : 0 .. Capacity]
    BY Integral DEF Init, NoScan
  <2>2. buffer \in [Slots -> Stored] /\ 0 \in Slots /\ NoFrame \in Stored /\ next \in 1 .. MaxFrames + 1
    BY Integral DEF Init
  <2>3. {popped, dropped, refused, pruned} \subseteq Nat
    BY DEF Init
  <2>4. num \in Int /\ item \in Stored /\ data \in Stored
    BY <2>2 DEF Init
  <2> QED BY <2>1, <2>2, <2>3, <2>4 DEF Init, Types
<1>2. CountRange /\ Locks /\ FramesConserved
  BY Integral DEF Init, CountRange, Locks, FramesConserved, Pending, Popping
<1>3. Filled = 0 /\ getPos = 0 /\ putPos = 0
  <2>1. num = 0 /\ ppc = "idle" /\ gpc = "idle" /\ getPos = 0 /\ putPos = 0
    BY DEF Init
  <2>2. Uncounted = 0 /\ Overcounted = 0
    BY <2>1 DEF Uncounted, Overcounted
  <2> QED BY <2>1, <2>2 DEF Filled
<1>4. Cursors
  BY <1>3, Integral DEF Init, Cursors, Behind, Displacing, Popping
<1>5. Entries
  <2>1. ASSUME NEW s \in Slots PROVE Behind(getPos, s) >= Filled
    BY <1>3, Integral DEF Behind
  <2> QED BY <2>1 DEF Init, Entries
<1> QED BY <1>1, <1>2, <1>4, <1>5 DEF IInv

\* A step of one of the threads.
Step == (Upstream \/ Downstream) /\ UNCHANGED backpressure /\ raced' = (raced \/ (Displacing /\ Popping)')

\* Every variable keeps its type.
LEMMA TypesKept == Types /\ CountRange /\ Step => Types'
<1> SUFFICES ASSUME Types, CountRange, Step PROVE Types'
  OBVIOUS
<1>1. raced' \in BOOLEAN /\ backpressure' \in BOOLEAN
  BY DEF Step, Types
<1> USE <1>1, Integral, AfterWraps DEF Types, slots, up, down
<1>2. CASE NewFrame
  BY <1>2 DEF NewFrame
<1>3. CASE PushOrDrop
  BY <1>3 DEF PushOrDrop
<1>4. CASE Replace \/ Write
  BY <1>4 DEF Replace, Write
<1>5. CASE PushOverwrite
  BY <1>5 DEF PushOverwrite
<1>6. CASE UpGetLoad \/ UpGetStore
  BY <1>6 DEF UpGetLoad, UpGetStore
<1>7. CASE PutOnly \/ Uncount
  BY <1>7 DEF PutOnly, Uncount
<1>8. CASE AdvancePut \/ Count
  BY <1>8 DEF AdvancePut, Count
<1>9. CASE PruneStale
  BY <1>9 DEF PruneStale, CountRange, Pending
<1>10. CASE PruneKeep
  BY <1>10 DEF PruneKeep, Stale
<1>11. CASE PruneDrop
  BY <1>11 DEF PruneDrop, Stale
<1>12. CASE PruneEnd
  BY <1>12 DEF PruneEnd, NoScan
<1>13. CASE PopCheck \/ PopGetLoad \/ PopGetStore \/ PopCount
  BY <1>13 DEF PopCheck, PopGetLoad, PopGetStore, PopCount
<1>14. CASE PopMove
  BY <1>14 DEF PopMove
<1> QED BY <1>2, <1>3, <1>4, <1>5, <1>6, <1>7, <1>8, <1>9, <1>10, <1>11, <1>12, <1>13, <1>14
        DEF Step, Upstream, Downstream

\* num_datas_ keeps its range and the lock its holders.
LEMMA RangeKept == Types /\ CountRange /\ Locks /\ Step => CountRange' /\ Locks'
<1> SUFFICES ASSUME Types, CountRange, Locks, Step PROVE CountRange' /\ Locks'
  OBVIOUS
<1>1. backpressure' = backpressure /\ num \in Int /\ Capacity \in Nat /\ Capacity > 0
  BY Integral DEF Step, Types
<1> USE <1>1 DEF CountRange, Locks, Pending, Popping, slots, up, down
<1>2. CASE NewFrame
  BY <1>2 DEF NewFrame
<1>3. CASE PushOrDrop
  BY <1>3 DEF PushOrDrop
<1>4. CASE Replace \/ Write \/ AdvancePut
  BY <1>4 DEF Replace, Write, AdvancePut
<1>5. CASE PushOverwrite
  BY <1>5 DEF PushOverwrite
<1>6. CASE UpGetLoad \/ UpGetStore
  BY <1>6 DEF UpGetLoad, UpGetStore
<1>7. CASE PutOnly \/ Uncount
  BY <1>7 DEF PutOnly, Uncount
<1>8. CASE Count
  BY <1>8 DEF Count
<1>9. CASE PruneStale \/ PruneKeep \/ PruneEnd
  BY <1>9 DEF PruneStale, PruneKeep, PruneEnd
<1>10. CASE PruneDrop
  BY <1>10 DEF PruneDrop, Stale
<1>11. CASE PopCheck \/ PopMove \/ PopGetLoad \/ PopGetStore
  BY <1>11 DEF PopCheck, PopMove, PopGetLoad, PopGetStore
<1>12. CASE PopCount
  BY <1>12 DEF PopCount
<1> QED BY <1>2, <1>3, <1>4, <1>5, <1>6, <1>7, <1>8, <1>9, <1>10, <1>11, <1>12 DEF Step, Upstream, Downstream

\* Every step moves a frame from one count to another, or none.
LEMMA FramesKept == Types /\ FramesConserved /\ Step => FramesConserved'
<1> SUFFICES ASSUME Types, FramesConserved, Step PROVE FramesConserved'
  OBVIOUS
<1>1. /\ next \in Int /\ popped \in Int /\ dropped \in Int /\ refused \in Int /\ pruned \in Int
      /\ num \in Int
  BY DEF Types
<1> USE <1>1 DEF FramesConserved, slots, up, down
<1>2. CASE NewFrame
  BY <1>2 DEF NewFrame
<1>3. CASE PushOrDrop
  BY <1>3 DEF PushOrDrop
<1>4. CASE Replace \/ Write \/ AdvancePut \/ PushOverwrite \/ UpGetLoad \/ UpGetStore
  BY <1>4 DEF Replace, Write, AdvancePut, PushOverwrite, UpGetLoad, UpGetStore
<1>5. CASE PutOnly
  BY <1>5 DEF PutOnly
<1>6. CASE Uncount
  BY <1>6 DEF Uncount
<1>7. CASE Count
  BY <1>7 DEF Count
<1>8. CASE PruneStale \/ PruneKeep \/ PruneEnd \/ PopCheck \/ PopMove \/ PopGetLoad \/ PopGetStore
  BY <1>8 DEF PruneStale, PruneKeep, PruneEnd, PopCheck, PopMove, PopGetLoad, PopGetStore
<1>9. CASE PruneDrop
  BY <1>9 DEF PruneDrop
<1>10. CASE PopCount
  BY <1>10 DEF PopCount
<1> QED BY <1>2, <1>3, <1>4, <1>5, <1>6, <1>7, <1>8, <1>9, <1>10 DEF Step, Upstream, Downstream

\* The cursors stay as far apart as the count says, until a Pop overlaps a
\* displacement.
LEMMA CursorsKept ==
  ASSUME Types, Types', CountRange, CountRange', Locks, Locks', Cursors, Step, ~(Displacing /\ Popping)'
  PROVE  Cursors'
<1>1. /\ Capacity \in Nat /\ Capacity > 0 /\ num \in Int
      /\ getPos \in Int /\ 0 <= getPos /\ getPos < Capacity
      /\ putPos \in Int /\ 0 <= putPos /\ putPos < Capacity
      /\ backpressure' = backpressure
  BY Integral DEF Types, Step
<1>2. /\ getPos \in Slots /\ putPos \in Slots /\ ppos \in Slots /\ gpos \in Slots
  BY DEF Types
<1>3. /\ After(getPos) = Succ(getPos) /\ After(putPos) = Succ(putPos)
  BY <1>2, AfterWraps
<1> USE <1>1, <1>3 DEF Cursors, Filled, Uncounted, Overcounted, Behind, Succ, Displacing, Popping, CountRange, Locks, Pending, slots, up, down
<1>4. CASE NewFrame
  BY <1>4 DEF NewFrame
<1>5. CASE PushOrDrop
  BY <1>5 DEF PushOrDrop
<1>6. CASE Replace \/ Write
  BY <1>6 DEF Replace, Write
<1>7. CASE PushOverwrite
  BY <1>7 DEF PushOverwrite
<1>8. CASE UpGetLoad
  BY <1>8 DEF UpGetLoad
<1>9. CASE UpGetStore
  BY <1>9 DEF UpGetStore
<1>10. CASE PutOnly
  BY <1>10 DEF PutOnly
<1>11. CASE Uncount
  BY <1>11 DEF Uncount
<1>12. CASE AdvancePut
  BY <1>12 DEF AdvancePut
<1>13. CASE Count
  BY <1>13 DEF Count
<1>14. CASE PruneStale \/ PruneEnd
  BY <1>14 DEF PruneStale, PruneEnd
<1>15. CASE PruneKeep
  BY <1>15 DEF PruneKeep, Stale
<1>16. CASE PruneDrop
  <2>1. Uncounted' = Uncounted /\ Overcounted' = Overcounted /\ Overcounted = 0 /\ Uncounted \in Int
    BY <1>16 DEF PruneDrop
  <2>2. Filled' = Filled - 1 /\ Filled >= 1
    BY <1>16, <2>1 DEF PruneDrop, Stale
  <2>3. Cursors
    OBVIOUS
  <2>4. putPos' = putPos /\ getPos' = Succ(getPos) /\ ~(gpc' \in {"move", "getStore"}) /\ ~Displacing' /\ ~Popping'
    BY <1>16 DEF PruneDrop
  <2> HIDE DEF Cursors, Filled, Behind, Succ
  <2>5. Filled = Behind(getPos, putPos) \/ (Filled = Capacity /\ getPos = putPos)
    BY <2>3 DEF Cursors
  <2>6. Filled' = Behind(getPos', putPos')
    BY <2>2, <2>4, <2>5, <1>2, BehindStep
  <2> QED BY <2>4, <2>6 DEF Cursors
<1>17. CASE PopCheck \/ PopMove
  BY <1>17 DEF PopCheck, PopMove
<1>18. CASE PopGetLoad
  BY <1>18 DEF PopGetLoad
<1>19. CASE PopGetStore
  <2>1. Uncounted' = Uncounted /\ Uncounted \in 0 .. 1 /\ Overcounted = 0 /\ Overcounted' = 1
    BY <1>19 DEF PopGetStore
  <2>2. Filled' = Filled - 1 /\ Filled >= 1
    <3> HIDE DEF Uncounted, Overcounted
    <3> QED BY <1>19, <2>1 DEF PopGetStore
  <2> QED BY <1>19, <2>2 DEF PopGetStore
<1>20. CASE PopCount
  BY <1>20 DEF PopCount
<1> QED BY <1>4, <1>5, <1>6, <1>7, <1>8, <1>9, <1>10, <1>11, <1>12, <1>13, <1>14, <1>15, <1>16, <1>17,
        <1>18, <1>19, <1>20 DEF Step, Upstream, Downstream

\* No two slots are equally far behind.
LEMMA BehindInjective ==
  ASSUME NEW get \in Slots, NEW pos \in Slots, NEW s \in Slots, Behind(get, pos) = Behind(get, s)
  PROVE  pos = s
<1>1. /\ Capacity \in Nat /\ get \in Int /\ 0 <= get /\ get < Capacity
      /\ pos \in Int /\ 0 <= pos /\ pos < Capacity /\ s \in Int /\ 0 <= s /\ s < Capacity
  BY Integral
<1> QED BY <1>1 DEF Behind

\* The slots between the cursors keep their frames, until a Pop overlaps a
\* displacement.
LEMMA EntriesKept ==
  ASSUME Types, Types', CountRange, Locks, Locks', Cursors, Cursors', Entries, Step
  PROVE  Entries'
<1>1. /\ Capacity \in Nat /\ Capacity > 0 /\ num \in Int
      /\ backpressure' = backpressure
      /\ getPos \in Slots /\ putPos \in Slots
      /\ buffer \in [Slots -> Stored]
      /\ next \in Int /\ next > 0
      /\ NoFrame = 0 /\ Keyframes \subseteq 1 .. MaxFrames
      /\ getPos' \in Slots /\ putPos' \in Slots
  BY Integral, DropRingAssumption DEF Types, Step
<1>2. After(getPos) = Succ(getPos) /\ After(putPos) = Succ(putPos)
  BY <1>1, AfterWraps
<1>3. /\ Filled \in Int /\ Filled <= Capacity /\ (Displacing => Filled >= Capacity - 1)
      /\ (Filled = Behind(getPos, putPos) /\ Filled < Capacity) \/ (Filled = Capacity /\ getPos = putPos)
  <2>1. Uncounted \in 0 .. 1 /\ Overcounted \in Nat /\ (Displacing => Overcounted <= 1)
    BY DEF Uncounted, Overcounted, Displacing, Popping, Cursors
  <2>2. Behind(getPos, putPos) \in Int /\ Behind(getPos, putPos) < Capacity
    BY <1>1, BehindStep, Integral
  <2>3. Filled \in Int /\ (Displacing => Filled >= Capacity - 1)
    BY <1>1, <2>1 DEF Filled, Cursors
  <2>4. Filled = Behind(getPos, putPos) \/ (Filled = Capacity /\ getPos = putPos)
    BY DEF Cursors
  <2> QED BY <1>1, <2>2, <2>3, <2>4
<1>4. ASSUME NEW s \in Slots
      PROVE  /\ s # getPos => Behind(Succ(getPos), s) = Behind(getPos, s) - 1
             /\ s = getPos => Behind(Succ(getPos), s) = Capacity - 1
             /\ s # putPos => Behind(getPos, s) # Behind(getPos, putPos)
             /\ s = getPos => Behind(getPos, s) = 0
             /\ s # getPos => Behind(getPos, s) > 0
             /\ Behind(getPos, s) < Capacity
             /\ Behind(getPos, s) \in Int /\ Behind(getPos', s) \in Int
  BY ZenonT(30), <1>1, BehindStep, BehindInjective, Integral
<1> DEFINE Sound(s) == \/ buffer[s] # NoFrame
                       \/ Behind(getPos, s) >= Filled
                       \/ s = getPos /\ gpc \in {"getLoad", "getStore"}
<1>5. \A s \in Slots : Sound(s)
  BY DEF Entries
<1> SUFFICES ASSUME NEW s \in Slots
             PROVE  /\ ppc' # "idle" => item' # NoFrame
                    /\ ppc' \in {"advance", "putOnly"} => buffer'[putPos'] # NoFrame
                    /\ \/ buffer'[s] # NoFrame
                       \/ Behind(getPos', s) >= Filled'
                       \/ s = getPos' /\ gpc' \in {"getLoad", "getStore"}
  BY <1>1 DEF Entries
<1>6. Sound(s) /\ Sound(getPos) /\ Sound(putPos)
  BY <1>1, <1>5
<1>7. /\ ppc # "idle" => item # NoFrame
      /\ ppc \in {"advance", "putOnly"} => buffer[putPos] # NoFrame
  BY DEF Entries
<1> USE <1>1, <1>2, <1>3, <1>4, <1>6, <1>7 DEF slots, up, down
<1>10. CASE NewFrame \/ PushOrDrop \/ PushOverwrite \/ UpGetLoad
  <2>1. Uncounted' = Uncounted /\ Overcounted' = Overcounted /\ num' = num
    BY <1>10 DEF NewFrame, PushOrDrop, PushOverwrite, UpGetLoad, Uncounted, Overcounted
  <2>2. Filled' = Filled
    BY <2>1 DEF Filled
  <2> QED BY <1>10, <2>2 DEF NewFrame, PushOrDrop, PushOverwrite, UpGetLoad
<1>11. CASE Replace \/ Write
  <2>1. Uncounted' = Uncounted /\ Overcounted' = Overcounted /\ num' = num
    BY <1>11 DEF Replace, Write, Uncounted, Overcounted
  <2>2. Filled' = Filled
    BY <2>1 DEF Filled
  <2>3. ppos \in Slots
    BY DEF Types
  <2> QED BY <1>11, <2>2, <2>3 DEF Replace, Write
<1>12. CASE UpGetStore
  <2>1. Uncounted' = 0 /\ Overcounted' = 1 /\ Uncounted = 0 /\ Overcounted = 0 /\ num' = num /\ num = Capacity
    BY <1>12 DEF UpGetStore, Uncounted, Overcounted, Cursors, Displacing, Popping
  <2>2. Filled' = Capacity - 1 /\ Filled = Capacity
    BY <2>1 DEF Filled
  <2>3. gpc \notin {"getLoad", "getStore"} /\ ppos = getPos
    BY <1>12 DEF UpGetStore, Cursors, Displacing, Popping
  <2> QED BY <1>12, <2>2, <2>3 DEF UpGetStore
<1>13. CASE PutOnly
  <2>1. Uncounted' = 0 /\ Overcounted' = 0 /\ Uncounted = 0 /\ Overcounted = 1 /\ num' = num /\ num = Capacity
    BY <1>13 DEF PutOnly, Uncounted, Overcounted, Cursors, Displacing, Popping
  <2>2. Filled' = Capacity /\ Filled = Capacity - 1
    BY <2>1 DEF Filled
  <2> QED BY <1>13, <2>2 DEF PutOnly
<1>14. CASE Uncount
  <2>1. Uncounted' = 0 /\ Overcounted' = 0 /\ Uncounted = 0 /\ Overcounted = 1 /\ num' = num - 1
    BY <1>14 DEF Uncount, Uncounted, Overcounted, Cursors, Displacing, Popping
  <2>2. Filled' = Filled
    BY <2>1 DEF Filled
  <2> QED BY <1>14, <2>2 DEF Uncount
<1>15. CASE AdvancePut
  <2>1. Uncounted' = 1 /\ Uncounted = 0 /\ Overcounted' = Overcounted /\ Overcounted \in Nat /\ num' = num /\ num < Capacity
    BY <1>15 DEF AdvancePut, Uncounted, Overcounted, CountRange, Pending
  <2>2. Filled' = Filled + 1 /\ Filled < Capacity
    BY <2>1 DEF Filled
  <2> QED BY <1>15, <2>2 DEF AdvancePut
<1>16. CASE Count
  <2>1. Uncounted' = 0 /\ Uncounted = 1 /\ Overcounted' = Overcounted /\ Overcounted \in Nat /\ num' = num + 1
    BY <1>16 DEF Count, Uncounted, Overcounted
  <2>2. Filled' = Filled
    BY <2>1 DEF Filled
  <2> QED BY <1>16, <2>2 DEF Count
<1>17. CASE PruneStale \/ PruneEnd \/ PopCheck
  <2>1. Uncounted' = Uncounted /\ Overcounted' = Overcounted /\ num' = num
    BY <1>17 DEF PruneStale, PruneEnd, PopCheck, Uncounted, Overcounted
  <2>2. Filled' = Filled
    BY <2>1 DEF Filled
  <2> QED BY <1>17, <2>2 DEF PruneStale, PruneEnd, PopCheck
<1>18. CASE PruneKeep
  <2>1. Uncounted' = Uncounted /\ Overcounted' = Overcounted /\ num' = num /\ ppc = "idle" /\ ppc' = "idle"
    BY <1>18 DEF PruneKeep, Uncounted, Overcounted, Locks
  <2>2. Filled' = Filled
    BY <2>1 DEF Filled
  <2>3. buffer[getPos] # NoFrame
    BY <1>18 DEF PruneKeep
  <2>4. buffer'[s] = IF s = putPos THEN buffer[getPos] ELSE IF s = getPos THEN NoFrame ELSE buffer[s]
    BY <1>18 DEF PruneKeep
  <2> QED BY <1>18, <2>1, <2>2, <2>3, <2>4 DEF PruneKeep
<1>19. CASE PruneDrop
  <2>1. Uncounted' = Uncounted /\ Uncounted \in Int /\ Overcounted = 0 /\ Overcounted' = 0 /\ num' = num - 1 /\ ppc' = "idle"
    BY <1>19 DEF PruneDrop, Uncounted, Overcounted, Locks
  <2>2. Filled' = Filled - 1
    BY <2>1 DEF Filled
  <2> QED BY <1>19, <2>1, <2>2 DEF PruneDrop
<1>20. CASE PopMove
  <2>1. Uncounted' = Uncounted /\ Overcounted' = Overcounted /\ num' = num /\ gpos = getPos
    BY <1>20 DEF PopMove, Uncounted, Overcounted, Cursors
  <2>2. Filled' = Filled
    BY <2>1 DEF Filled
  <2>3. ppc \in {"advance", "putOnly"} => putPos # getPos
    <3> SUFFICES ASSUME ppc = "advance", putPos = getPos PROVE FALSE
      BY <1>20 DEF PopMove, Cursors, Displacing, Popping
    <3>1. Uncounted = 0 /\ Overcounted = 0 /\ num >= 1 /\ num < Capacity
      BY <1>20 DEF PopMove, Uncounted, Overcounted, Cursors, Popping, CountRange, Pending
    <3> QED BY <3>1 DEF Filled
  <2> QED BY <1>20, <2>1, <2>2, <2>3 DEF PopMove
<1>21. CASE PopGetLoad
  <2>1. Uncounted' = Uncounted /\ Overcounted' = Overcounted /\ num' = num
    BY <1>21 DEF PopGetLoad, Uncounted, Overcounted
  <2>2. Filled' = Filled
    BY <2>1 DEF Filled
  <2> QED BY <1>21, <2>2 DEF PopGetLoad
<1>22. CASE PopGetStore
  <2>1. /\ Uncounted' = Uncounted /\ Uncounted \in Int /\ Overcounted = 0 /\ Overcounted' = 1
        /\ num' = num /\ gpos = getPos /\ ppc # "putOnly"
    BY <1>22 DEF PopGetStore, Uncounted, Overcounted, Cursors, Displacing, Popping
  <2>2. Filled' = Filled - 1
    BY <2>1 DEF Filled
  <2> QED BY <1>22, <2>1, <2>2 DEF PopGetStore
<1>23. CASE PopCount
  <2>1. /\ Uncounted' = Uncounted /\ Uncounted \in Int /\ Overcounted = 1 /\ Overcounted' = 0
        /\ num' = num - 1
    BY <1>23 DEF PopCount, Uncounted, Overcounted, Cursors, Displacing, Popping
  <2>2. Filled' = Filled
    BY <2>1 DEF Filled
  <2> QED BY <1>23, <2>2 DEF PopCount
<1> QED BY <1>10, <1>11, <1>12, <1>13, <1>14, <1>15, <1>16, <1>17, <1>18, <1>19, <1>20, <1>21, <1>22, <1>23
        DEF Step, Upstream, Downstream

\* IInv is inductive.
LEMMA StepKeeps == IInv /\ [Next]_vars => IInv'
<1> SUFFICES ASSUME IInv, [Next]_vars PROVE IInv'
  OBVIOUS
<1>1. CASE Next
  <2>1. Step /\ Types /\ CountRange /\ Locks /\ FramesConserved /\ (~raced => Cursors /\ Entries)
    BY <1>1 DEF Next, Step, IInv
  <2>2. Types' /\ CountRange' /\ Locks' /\ FramesConserved'
    BY <2>1, TypesKept, RangeKept, FramesKept
  <2>3. ASSUME ~raced' PROVE Cursors' /\ Entries'
    <3>1. ~raced /\ ~(Displacing /\ Popping)'
      BY <2>1, <2>3 DEF Step, Types
    <3>2. Cursors'
      BY <2>1, <2>2, <3>1, CursorsKept
    <3> QED BY <2>1, <2>2, <3>1, <3>2, EntriesKept
  <2> QED BY <2>2, <2>3 DEF IInv
<1>2. CASE UNCHANGED vars
  <2>1. UNCHANGED <<backpressure, buffer, putPos, getPos, num, lock, ppc, item, ppos, next, dropped, refused>>
    BY <1>2 DEF vars, slots, up
  <2>2. UNCHANGED <<gpc, data, gpos, scan, popped, pruned, raced>>
    BY <1>2 DEF vars, down
  <2>3. Types' /\ CountRange' /\ Locks' /\ FramesConserved'
    BY <2>1, <2>2 DEF IInv, Types, CountRange, Pending, Popping, Locks, FramesConserved
  <2>4. Filled' = Filled /\ Displacing' = Displacing /\ Popping' = Popping
    BY <2>1, <2>2 DEF Filled, Uncounted, Overcounted, Displacing, Popping
  <2>5. ASSUME ~raced' PROVE Cursors' /\ Entries'
    <3>1. Cursors /\ Entries
      BY <2>2, <2>5 DEF IInv
    <3>2. Cursors'
      BY <2>1, <2>2, <2>4, <3>1 DEF Cursors
    <3>3. Entries'
      BY <2>1, <2>2, <2>4, <3>1 DEF Entries
    <3> QED BY <3>2, <3>3
  <2> QED BY <2>3, <2>5 DEF IInv
<1> QED BY <1>1, <1>2

\* The counters balance and num_datas_ keeps its range, whatever races; cursors
\* and slots agree with them as long as no Pop overlapped a displacement.
THEOREM DropRingInvariant == Spec => []IInv
BY InitIInv, StepKeeps, PTL DEF Spec

-----------------------------------------------------------------------------
(* What the runs check.                                                    *)

\* The lock's invariant bounds the counters: with backpressure the count stays
\* within 0 .. Capacity whatever races, without it it may be one short.
THEOREM DropRingTypeOK == Spec => []TypeOK
<1>1. IInv => TypeOK
  <2> SUFFICES ASSUME IInv PROVE TypeOK
    OBVIOUS
  <2>1. Capacity \in Nat /\ MaxFrames \in Nat /\ Types /\ CountRange /\ FramesConserved
    BY Integral DEF IInv
  <2>2. num \in (IF backpressure THEN 0 ELSE -1) .. Capacity
    BY <2>1 DEF Types, CountRange
  <2>3. num + (IF ppc = "idle" THEN 0 ELSE 1) >= 0
    BY <2>1 DEF Types, CountRange, Pending
  <2>4. /\ popped \in Nat /\ dropped \in Nat /\ refused \in Nat /\ pruned \in Nat
        /\ next \in Nat /\ next <= MaxFrames + 1 /\ num \in Int
    BY <2>1 DEF Types
  <2>5. popped + dropped + refused + pruned <= MaxFrames
    BY <2>1, <2>3, <2>4 DEF FramesConserved
  <2>6. /\ popped <= MaxFrames /\ dropped <= MaxFrames /\ refused <= MaxFrames /\ pruned <= MaxFrames
    BY <2>1, <2>4, <2>5
  <2> QED BY <2>1, <2>2, <2>4, <2>6 DEF Types, TypeOK
<1> QED BY <1>1, DropRingInvariant, PTL

\* The slot i entries on from get_pos_ is i behind it.
LEMMA WindowSlot ==
  ASSUME NEW get \in Slots, NEW i \in 0 .. Capacity
  PROVE  /\ (get + i) % Capacity \in Slots
         /\ (get + i) % Capacity = IF get + i < Capacity THEN get + i ELSE get + i - Capacity
         /\ i < Capacity => Behind(get, (get + i) % Capacity) = i
<1>1. /\ Capacity \in Nat /\ Capacity > 0 /\ get \in Int /\ 0 <= get /\ get < Capacity
      /\ i \in Int /\ 0 <= i /\ i <= Capacity
  BY Integral
<1>2. CASE get + i < Capacity
  <2>1. (get + i) % Capacity = get + i
    BY <1>1, <1>2
  <2> QED BY <1>1, <1>2, <2>1, Integral DEF Behind
<1>3. CASE get + i >= Capacity
  <2>1. (get + i) % Capacity = get + i - Capacity
    BY <1>1, <1>3
  <2> QED BY <1>1, <1>3, <2>1, Integral DEF Behind
<1> QED BY <1>1, <1>2, <1>3

\* When no thread is inside and none has raced, the cursors are num_datas_ apart
\* and every entry between them is a frame; the counters always balance.
THEOREM DropRingAccounts == Spec => []RingAccounts
<1>1. IInv => RingAccounts
  <2> SUFFICES ASSUME IInv, Quiet, ~raced
               PROVE  /\ (getPos + num) % Capacity = putPos
                      /\ \A i \in 1 .. num : Window[i] # NoFrame
    BY DEF IInv, RingAccounts, RingCoherent
  <2>1. Types /\ CountRange /\ Cursors /\ Entries /\ ppc = "idle" /\ gpc = "idle"
    BY DEF IInv, Quiet
  <2>2. num \in 0 .. Capacity /\ getPos \in Slots /\ putPos \in Slots
    BY <2>1, Integral DEF Types, CountRange, Pending
  <2>3. Filled = num
    <3>1. Uncounted = 0 /\ Overcounted = 0
      BY <2>1 DEF Uncounted, Overcounted
    <3> QED BY <2>2, <3>1 DEF Filled
  <2>4. (getPos + num) % Capacity = putPos
    <3>1. num = Behind(getPos, putPos) \/ (num = Capacity /\ getPos = putPos)
      BY <2>1, <2>3 DEF Cursors
    <3>2. CASE num = Capacity /\ getPos = putPos
      BY <2>2, <3>2, WindowSlot, Integral
    <3>3. CASE num = Behind(getPos, putPos)
      <4>1. (getPos + num) % Capacity = IF getPos + num < Capacity THEN getPos + num ELSE getPos + num - Capacity
        BY <2>2, WindowSlot
      <4>2. /\ Capacity \in Nat /\ getPos \in Nat /\ putPos \in Nat /\ num \in Nat
            /\ getPos < Capacity /\ putPos < Capacity
        BY <2>2, Integral
      <4>3. num = IF putPos >= getPos THEN putPos - getPos ELSE putPos - getPos + Capacity
        BY <3>3 DEF Behind
      <4>4. putPos = IF getPos + num < Capacity THEN getPos + num ELSE getPos + num - Capacity
        BY <4>2, <4>3
      <4> QED BY <4>1, <4>4
    <3> QED BY <3>1, <3>2, <3>3
  <2>5. ASSUME NEW i \in 1 .. num PROVE Window[i] # NoFrame
    <3>1. /\ i - 1 \in 0 .. Capacity /\ i - 1 < Capacity /\ i - 1 < num
          /\ getPos + i - 1 = getPos + (i - 1)
      BY <2>2, Integral
    <3>2. /\ (getPos + (i - 1)) % Capacity \in Slots
          /\ Behind(getPos, (getPos + (i - 1)) % Capacity) = i - 1
      BY <2>2, <3>1, WindowSlot
    <3>3. buffer[(getPos + (i - 1)) % Capacity] # NoFrame
      BY <2>1, <2>2, <2>3, <3>1, <3>2 DEF Entries
    <3> QED BY <3>1, <3>3 DEF Window
  <2> QED BY <2>4, <2>5
<1> QED BY <1>1, DropRingInvariant, PTL

\* The keyframes in the ring are those in a slot less than num_datas_ behind.
Inside(k) == \E s \in Slots : Behind(getPos, s) < num /\ buffer[s] = k
KeyframesInside ==
  getPos \in Slots /\ num \in 0 .. Capacity =>
    \A k : k \in KeyframesIn <=> k \in Keyframes /\ Inside(k)

\* KeyframesIn, told by places, is what the slots say.
LEMMA KeyframeSlots == KeyframesInside
<1> SUFFICES ASSUME getPos \in Slots, num \in 0 .. Capacity, NEW k
             PROVE  k \in KeyframesIn <=> k \in Keyframes /\ Inside(k)
  BY DEF KeyframesInside
<1>1. ASSUME NEW i \in 1 .. num, Window[i] = k PROVE Inside(k)
  <2>1. /\ i - 1 \in 0 .. Capacity /\ i - 1 < Capacity /\ i - 1 < num
        /\ getPos + i - 1 = getPos + (i - 1)
    BY Integral
  <2>2. /\ (getPos + (i - 1)) % Capacity \in Slots
        /\ Behind(getPos, (getPos + (i - 1)) % Capacity) = i - 1
    BY <2>1, WindowSlot
  <2>3. buffer[(getPos + (i - 1)) % Capacity] = k
    BY <1>1, <2>1 DEF Window
  <2> QED BY <2>1, <2>2, <2>3 DEF Inside
<1>2. ASSUME NEW s \in Slots, Behind(getPos, s) < num, buffer[s] = k
      PROVE  \E i \in 1 .. num : Window[i] = k
  <2> DEFINE i == Behind(getPos, s) + 1
  <2>1. i \in 1 .. num /\ i - 1 \in 0 .. Capacity /\ i - 1 < Capacity /\ getPos + i - 1 = getPos + (i - 1)
    BY <1>2, BehindStep, Integral
  <2>2. /\ (getPos + (i - 1)) % Capacity \in Slots
        /\ Behind(getPos, (getPos + (i - 1)) % Capacity) = i - 1
    BY <2>1, WindowSlot
  <2>3. i - 1 = Behind(getPos, s)
    BY BehindStep, Integral
  <2> HIDE DEF i
  <2>4. (getPos + (i - 1)) % Capacity = s
    BY <2>2, <2>3, BehindInjective
  <2>5. Window[i] = k
    BY <1>2, <2>1, <2>4 DEF Window
  <2> QED BY <2>1, <2>5
<1>3. k \in KeyframesIn <=> k \in Keyframes /\ \E i \in 1 .. num : Window[i] = k
  BY DEF KeyframesIn, Window
<1> QED BY <1>1, <1>2, <1>3 DEF Inside

\* A round of PruneStale, on a ring no Pop has raced in, loses no keyframe: the
\* one it meets is written at the tail before the cursors move on.
THEOREM DropRingPruneKeeps == Spec => PruneKeepsKeyframes
<1>1. IInv /\ IInv' /\ KeyframesInside /\ KeyframesInside' /\ [Next]_vars
        => [(gpc = "prune" /\ ~raced) => KeyframesIn \subseteq KeyframesIn']_vars
  <2> SUFFICES ASSUME IInv, IInv', KeyframesInside, KeyframesInside', Next, gpc = "prune", ~raced, NEW k, k \in KeyframesIn
               PROVE  k \in KeyframesIn'
    OBVIOUS
  <2>1. /\ Types /\ Types' /\ CountRange /\ CountRange' /\ Locks /\ Cursors
        /\ ppc = "idle" /\ backpressure /\ lock = "down"
    BY DEF IInv, Locks
  <2>2. /\ num \in 0 .. Capacity /\ num' \in 0 .. Capacity /\ getPos \in Slots /\ putPos \in Slots
        /\ getPos' \in Slots /\ buffer \in [Slots -> Stored]
    BY <2>1, Integral DEF Types, CountRange, Next
  <2>3. Filled = num
    <3>1. Uncounted = 0 /\ Overcounted = 0
      BY <2>1 DEF Uncounted, Overcounted
    <3> QED BY <2>2, <3>1 DEF Filled
  <2>4. num = Behind(getPos, putPos) \/ (num = Capacity /\ getPos = putPos)
    BY <2>1, <2>3 DEF Cursors
  <2>5. k \in Keyframes /\ Inside(k)
    BY <2>2 DEF KeyframesInside
  <2>6. PICK s \in Slots : Behind(getPos, s) < num /\ buffer[s] = k
    BY <2>5 DEF Inside
  <2>7. After(getPos) = Succ(getPos) /\ Capacity \in Nat /\ Capacity > 0
    BY <2>2, AfterWraps, Integral
  <2>8. PruneKeep \/ PruneDrop \/ PruneEnd
    BY <2>1 DEF Next, Upstream, Downstream, NewFrame, PushOrDrop, Replace, PushOverwrite, UpGetLoad, UpGetStore,
                PutOnly, Uncount, Write, AdvancePut, Count, PruneStale, PopCheck, PopMove, PopGetLoad, PopGetStore, PopCount
  <2>9. Inside(k)'
    <3>1. CASE PruneEnd
      BY <2>6, <3>1 DEF PruneEnd, slots, Inside
    <3>2. CASE PruneDrop
      <4>1. s # getPos /\ getPos' = Succ(getPos) /\ num' = num - 1 /\ buffer' = buffer
        BY <2>5, <2>6, <2>7, <3>2 DEF PruneDrop
      <4>2. Behind(getPos', s) < num'
        BY <2>2, <2>6, <4>1, BehindStep, Integral
      <4> QED BY <2>6, <4>1, <4>2 DEF Inside
    <3>3. CASE PruneKeep
      <4>1. getPos' = Succ(getPos) /\ num' = num /\ num > 0
        BY <2>7, <3>3 DEF PruneKeep, Stale
      <4>2. \A x \in Slots : buffer'[x] = IF x = putPos THEN buffer[getPos] ELSE IF x = getPos THEN NoFrame ELSE buffer[x]
        BY <2>2, <3>3 DEF PruneKeep
      <4>3. CASE s = getPos
        <5>1. Behind(getPos', putPos) < num'
          BY <2>2, <2>4, <2>7, <4>1, BehindStep, Integral
        <5> QED BY <2>2, <2>6, <4>2, <4>3, <5>1 DEF Inside
      <4>4. CASE s # getPos
        <5>1. s # putPos
          BY <2>2, <2>4, <2>6, <4>4
        <5>2. Behind(getPos', s) < num'
          BY <2>2, <2>6, <4>1, <4>4, BehindStep, Integral
        <5> QED BY <2>6, <4>2, <4>4, <5>1, <5>2 DEF Inside
      <4> QED BY <4>3, <4>4
    <3> QED BY <2>8, <3>1, <3>2, <3>3
  <2>10. k \in KeyframesIn' <=> k \in Keyframes /\ Inside(k)'
    BY <2>2 DEF KeyframesInside
  <2> QED BY <2>5, <2>9, <2>10
<1> QED BY <1>1, DropRingInvariant, KeyframeSlots, PTL DEF Spec, PruneKeepsKeyframes

=============================================================================
