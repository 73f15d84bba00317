------------------------- MODULE TriggerEventsProofs -------------------------
(***************************************************************************)
(* Theorems about a TaskScheduler and the ring its callbacks travel in.    *)
(*                                                                         *)
(* The first part is about SpscRing, the ring itself, for every capacity   *)
(* and every set of values; the second about TaskScheduler, which has a    *)
(* queue in its place; the third about TriggerEvents, the scheduler with   *)
(* the ring, which implements the second and so has its properties.        *)
(*                                                                         *)
(* The loop never sleeps on a callback, a timer or a request to stop.      *)
(* NoLostWakeup speaks of a loop in epoll_wait only; what makes it hold is *)
(* known one step at a time on the way there: the last look at the ring    *)
(* ends the "more" step, the last look at is_shutdown_ ends the "test"     *)
(* step, and from then on what arrives is announced.  Unannounced follows  *)
(* these three looks from where they are made.                             *)
(***************************************************************************)
EXTENDS TriggerEvents, TLAPS

-----------------------------------------------------------------------------
(* The ring.                                                               *)

\* Advance steps a cursor to the next slot, and from the last to the first.
LEMMA AdvanceWraps ==
  ASSUME NEW pos \in Slots
  PROVE  /\ Advance(pos) \in Slots
         /\ Advance(pos) = IF pos = Capacity - 1 THEN 0 ELSE pos + 1
<1>1. Capacity \in Nat /\ Capacity > 0 /\ pos \in Nat /\ pos < Capacity
  BY CapacityAssumption DEF Slots
<1>2. CASE pos = Capacity - 1
  <2>1. (pos + 1) % Capacity = 0
    BY <1>1, <1>2, SMT
  <2>. QED BY <1>1, <1>2, <2>1 DEF Advance, Slots
<1>3. CASE pos # Capacity - 1
  <2>1. (pos + 1) % Capacity = pos + 1
    BY <1>1, <1>3, SMT
  <2>. QED BY <1>1, <1>3, <2>1 DEF Advance, Slots
<1>. QED BY <1>2, <1>3

\* The tests at the head of Push and Pop stay true until their operation ends:
\* only the other side runs meanwhile, and it can only help.
ChecksHold ==
  /\ ppc \in {"write", "advance", "count"} => num < Capacity
  /\ gpc \in {"move", "advance", "count"} => num > 0

\* The inductive invariant.
IInv == TypeOK /\ CursorsAgree /\ ChecksHold

\* What the ring's invariants rest on holds initially ...
LEMMA InitIInv == Init => IInv
  BY CapacityAssumption
  DEF Init, IInv, TypeOK, CursorsAgree, ChecksHold, Occupied, Distance, Slots, Stored

\* ... and is preserved by every step of either thread.
LEMMA NextIInv == IInv /\ [Next]_vars => IInv'
<1> SUFFICES ASSUME IInv, [Next]_vars PROVE IInv'
  OBVIOUS
<1> USE CapacityAssumption
    DEF IInv, TypeOK, CursorsAgree, ChecksHold, Occupied, Distance, Slots, Stored,
        ring, producer, consumer
<1>1. ASSUME NEW v \in Values, PushCheck(v) PROVE IInv'
  BY <1>1 DEF PushCheck
<1>2. CASE PushWrite
  BY <1>2 DEF PushWrite
<1>3. CASE PushAdvance
  <2>1. /\ Advance(putPos) \in Slots
        /\ Advance(putPos) = IF putPos = Capacity - 1 THEN 0 ELSE putPos + 1
    BY AdvanceWraps
  <2>. QED BY <1>3, <2>1 DEF PushAdvance
<1>4. CASE PushCount
  BY <1>4 DEF PushCount
<1>5. CASE PopCheck
  BY <1>5 DEF PopCheck
<1>6. CASE PopMove
  BY <1>6 DEF PopMove
<1>7. CASE PopAdvance
  <2>1. /\ Advance(getPos) \in Slots
        /\ Advance(getPos) = IF getPos = Capacity - 1 THEN 0 ELSE getPos + 1
    BY AdvanceWraps
  <2>. QED BY <1>7, <2>1 DEF PopAdvance
<1>8. CASE PopCount
  BY <1>8 DEF PopCount
<1>9. CASE UNCHANGED vars
  BY <1>9 DEF vars
<1>. QED
  BY <1>1, <1>2, <1>3, <1>4, <1>5, <1>6, <1>7, <1>8, <1>9 DEF Next, Push, Pop

\* The inductive invariant holds throughout.
THEOREM RingInvariant == Spec => []IInv
  BY InitIInv, NextIInv, PTL DEF Spec

\* Type correctness, for every capacity: the count stays in 0 .. Capacity and
\* the cursors inside the buffer, so no access leaves buffer_.
THEOREM RingTypeOK == Spec => []TypeOK
<1>1. IInv => TypeOK
  BY DEF IInv
<1>. QED BY <1>1, RingInvariant, PTL

\* The cursors and the count never drift apart.
THEOREM RingCursorsAgree == Spec => []CursorsAgree
<1>1. IInv => CursorsAgree
  BY DEF IInv
<1>. QED BY <1>1, RingInvariant, PTL

\* Push and Pop never access the same slot at the same time: the unlocked
\* plain accesses to buffer_ are free of data races.
THEOREM RingSlotExclusive == Spec => []SlotExclusive
<1>1. IInv => SlotExclusive
  BY CapacityAssumption
  DEF IInv, TypeOK, CursorsAgree, ChecksHold, Occupied, Distance, Slots, SlotExclusive
<1>. QED BY <1>1, RingInvariant, PTL

-----------------------------------------------------------------------------
(* The ring implements the bounded FIFO queue.                             *)

\* The place of the i-th value of the ring, without a remainder.
Place(i) == IF FirstPos + i - 1 < Capacity THEN FirstPos + i - 1
                                           ELSE FirstPos + i - 1 - Capacity

\* The slot before a cursor.
Before(pos) == IF pos = 0 THEN Capacity - 1 ELSE pos - 1

\* The value being pushed stays in its slot until it is counted.
ItemStored ==
  /\ ppc # "idle" => item \in Values
  /\ ppc = "advance" => buffer[putPos] = item
  /\ ppc = "count" => buffer[Before(putPos)] = item

\* Contents, with the remainder of a cursor past the end worked out.
LEMMA ContentsPlaces ==
  ASSUME TypeOK
  PROVE  /\ FirstPos \in Slots
         /\ Contents = [i \in 1 .. Published |-> buffer[Place(i)]]
<1>0. Capacity \in Nat /\ Capacity > 0
  BY CapacityAssumption
<1>1. FirstPos \in Slots
  BY AdvanceWraps DEF FirstPos, TypeOK
<1>2. Published \in Int /\ Published <= Capacity
  BY <1>0 DEF Published, TypeOK
<1>3. ASSUME NEW i \in 1 .. Published PROVE (FirstPos + i - 1) % Capacity = Place(i)
  <2> DEFINE x == FirstPos + i - 1
  <2>1. x \in Nat /\ x < 2 * Capacity
    BY <1>0, <1>1, <1>2 DEF Slots
  <2>2. CASE x < Capacity
    <3>1. x % Capacity = x
      BY <1>0, <2>1, <2>2, SMT
    <3>. QED BY <2>2, <3>1 DEF Place
  <2>3. CASE ~ (x < Capacity)
    <3>1. x % Capacity = x - Capacity
      BY <1>0, <2>1, <2>3, SMT
    <3>2. Place(i) = x - Capacity
      BY <1>0, <1>1, <2>1, <2>3, SMT DEF Place, Slots
    <3>. QED BY <3>1, <3>2
  <2>. QED BY <2>2, <2>3
<1>. QED BY <1>1, <1>3 DEF Contents

\* The values' slots hold their values while the producer is at work.
LEMMA ItemKept == IInv /\ ItemStored /\ [Next]_vars => ItemStored'
<1> SUFFICES ASSUME IInv, ItemStored, [Next]_vars PROVE ItemStored'
  OBVIOUS
<1> USE CapacityAssumption
    DEF ItemStored, IInv, TypeOK, Slots, ring, producer, consumer
<1>1. ASSUME NEW v \in Values, PushCheck(v) PROVE ItemStored'
  BY <1>1 DEF PushCheck
<1>2. CASE PushWrite
  BY <1>2 DEF PushWrite
<1>3. CASE PushAdvance
  <2>1. Before(Advance(putPos)) = putPos
    <3>1. putPos \in Nat /\ putPos < Capacity /\ Capacity \in Nat
      OBVIOUS
    <3>2. Advance(putPos) = IF putPos = Capacity - 1 THEN 0 ELSE putPos + 1
      BY AdvanceWraps
    <3>. QED BY ONLY <3>1, <3>2 DEF Before
  <2>2. ppc = "advance" /\ ppc' = "count" /\ putPos' = Advance(putPos) /\ UNCHANGED <<buffer, item>>
    BY <1>3 DEF PushAdvance
  <2>3. Before(putPos)' = putPos
    BY <2>1, <2>2 DEF Before
  <2>4. item \in Values /\ buffer[putPos] = item
    BY <2>2
  <2>. QED BY <2>2, <2>3, <2>4
<1>4. CASE PushCount
  BY <1>4 DEF PushCount
<1>5. CASE PopCheck
  BY <1>5 DEF PopCheck
<1>6. CASE PopMove
  <2>1. ppc = "advance" => putPos # getPos
    BY <1>6 DEF PopMove, CursorsAgree, Occupied, Distance, ChecksHold
  <2>2. ppc = "count" => Before(putPos) # getPos
    BY <1>6 DEF PopMove, CursorsAgree, Occupied, Distance, ChecksHold, Before
  <2>. QED BY <1>6, <2>1, <2>2 DEF PopMove
<1>7. CASE PopAdvance
  BY <1>7 DEF PopAdvance
<1>8. CASE PopCount
  BY <1>8 DEF PopCount
<1>9. CASE UNCHANGED vars
  BY <1>9 DEF vars
<1>. QED
  BY <1>1, <1>2, <1>3, <1>4, <1>5, <1>6, <1>7, <1>8, <1>9 DEF Next, Push, Pop

\* They do in every reachable state of the ring.
LEMMA ItemInvariant == Spec => []ItemStored
<1>1. Init => ItemStored
  BY DEF Init, ItemStored
<1>. QED BY <1>1, ItemKept, RingInvariant, PTL DEF Spec

\* A step that moves no value and leaves the ring's first place alone changes
\* the contents only where it changes a slot of them.
LEMMA ContentsUnchanged ==
  ASSUME TypeOK, TypeOK', FirstPos' = FirstPos, Published' = Published,
         \A i \in 1 .. Published : buffer'[Place(i)] = buffer[Place(i)]
  PROVE  Contents' = Contents
<1>1. Contents = [i \in 1 .. Published |-> buffer[Place(i)]]
  BY ContentsPlaces
<1>2. Contents' = [i \in 1 .. Published |-> buffer'[Place(i)]]
  <2>1. Contents' = [i \in 1 .. Published' |-> buffer'[Place(i)']]
    <3>1. TypeOK => Contents = [i \in 1 .. Published |-> buffer[Place(i)]]
      BY ContentsPlaces
    <3>2. (TypeOK => Contents = [i \in 1 .. Published |-> buffer[Place(i)]])'
      BY ContentsPlaces, PTL
    <3>. QED BY <3>2
  <2>. QED BY <2>1 DEF Place
<1>. QED BY <1>1, <1>2

\* The producer's step that counts a value appends it to the contents ...
LEMMA CountAppends ==
  ASSUME IInv, IInv', ItemStored, PushCount
  PROVE  /\ Contents' = Append(Contents, item) /\ Len(Contents) < Capacity
         /\ item \in Values /\ data' = data
<1> USE CapacityAssumption DEF IInv, TypeOK, Slots, PushCount
<1>1. /\ FirstPos \in Slots /\ FirstPos' = FirstPos
      /\ Published \in 0 .. Capacity - 1 /\ Published' = Published + 1
  BY ContentsPlaces DEF FirstPos, Published, ChecksHold, consumer
<1>2. Place(Published + 1) = Before(putPos)
  <2>1. Advance(getPos) = IF getPos = Capacity - 1 THEN 0 ELSE getPos + 1
    BY AdvanceWraps
  <2>2. CASE gpc = "advance"
    BY <2>1, <2>2
    DEF Place, Before, FirstPos, Published, CursorsAgree, Occupied, Distance, ChecksHold
  <2>3. CASE gpc # "advance"
    BY <2>3
    DEF Place, Before, FirstPos, Published, CursorsAgree, Occupied, Distance, ChecksHold
  <2>. QED BY <2>2, <2>3
<1>3. Contents = [i \in 1 .. Published |-> buffer[Place(i)]]
  BY ContentsPlaces
<1>4. Contents' = [i \in 1 .. Published + 1 |-> buffer[Place(i)]]
  <2>1. Contents' = [i \in 1 .. Published' |-> buffer'[Place(i)']]
    <3>1. (TypeOK => Contents = [i \in 1 .. Published |-> buffer[Place(i)]])'
      BY ContentsPlaces, PTL
    <3>. QED BY <3>1
  <2>. QED BY <2>1, <1>1 DEF Place
<1>5. Contents' = Append(Contents, item)
  <2>1. Contents'[Published + 1] = item
    BY <1>1, <1>2, <1>4 DEF ItemStored
  <2>2. Len(Contents) = Published
    BY <1>1, <1>3
  <2>3. Contents \in Seq(Stored)
    BY <1>1, <1>3 DEF Place
  <2>. QED BY <1>1, <1>3, <1>4, <2>1, <2>2, <2>3
<1>6. Len(Contents) < Capacity
  BY <1>1, <1>3
<1>7. item \in Values /\ data' = data
  BY DEF ItemStored, consumer
<1>. QED BY <1>5, <1>6, <1>7

\* ... which is a Put.
LEMMA CountIsPut ==
  ASSUME IInv, IInv', ItemStored, PushCount
  PROVE  \E v \in Values : Fifo!Put(v)
BY CountAppends DEF Fifo!Put

\* The consumer's step that moves a value out takes the first of the contents.
LEMMA MoveIsTake ==
  ASSUME IInv, IInv', PopMove
  PROVE  Fifo!Take
<1> USE CapacityAssumption DEF IInv, TypeOK, Slots, PopMove
<1>1. Advance(getPos) = IF getPos = Capacity - 1 THEN 0 ELSE getPos + 1
  BY AdvanceWraps
<1>2. /\ FirstPos = getPos /\ FirstPos' = Advance(getPos)
      /\ Published \in 1 .. Capacity /\ Published' = Published - 1
  BY <1>1 DEF FirstPos, Published, ChecksHold, producer
<1>3. Contents = [i \in 1 .. Published |-> buffer[Place(i)]]
  BY ContentsPlaces
<1>4. Contents' = [i \in 1 .. Published - 1 |-> buffer'[Place(i)']]
  <2>1. (TypeOK => Contents = [i \in 1 .. Published |-> buffer[Place(i)]])'
    BY ContentsPlaces, PTL
  <2>. QED BY <2>1, <1>2
<1>5. ASSUME NEW i \in 1 .. Published - 1
      PROVE  Place(i)' = Place(i + 1) /\ Place(i + 1) \in Slots /\ Place(i + 1) # getPos
  BY <1>1, <1>2 DEF Place
<1>6. Contents' = [i \in 1 .. Published - 1 |-> buffer[Place(i + 1)]]
  BY <1>4, <1>5
<1>7. Contents # <<>> /\ Head(Contents) = buffer[getPos]
  <2>1. Place(1) = getPos
    BY <1>2 DEF Place
  <2>2. Contents \in Seq(Stored) /\ Len(Contents) = Published
    BY <1>2, <1>3 DEF Place
  <2>. QED BY <1>2, <1>3, <2>1, <2>2
<1>8. Contents' = Tail(Contents)
  <2>1. Contents \in Seq(Stored) /\ Len(Contents) = Published
    BY <1>2, <1>3 DEF Place
  <2>2. Tail(Contents) = [i \in 1 .. Published - 1 |-> Contents[i + 1]]
    BY <1>2, <2>1
  <2>. QED BY <1>2, <1>3, <1>6, <2>2
<1>. QED BY <1>7, <1>8 DEF Fifo!Take

\* Every other step leaves the contents alone.
LEMMA OtherStepsStutter ==
  ASSUME IInv, IInv',
         \/ \E v \in Values : PushCheck(v)
         \/ PushWrite \/ PushAdvance
         \/ PopCheck \/ PopAdvance \/ PopCount
         \/ UNCHANGED vars
  PROVE  UNCHANGED <<Contents, data>>
<1> USE CapacityAssumption DEF IInv, TypeOK, Slots, ring, producer, consumer, vars
<1>1. FirstPos' = FirstPos /\ Published' = Published /\ data' = data
  <2>1. CASE (\E v \in Values : PushCheck(v)) \/ PushWrite \/ PushAdvance \/ UNCHANGED vars
    BY <2>1 DEF FirstPos, Published, Advance, PushCheck, PushWrite, PushAdvance
  <2>2. CASE PopCheck
    BY <2>2 DEF FirstPos, Published, PopCheck
  <2>3. CASE PopAdvance
    BY <2>3 DEF FirstPos, Published, PopAdvance
  <2>4. CASE PopCount
    BY <2>4 DEF FirstPos, Published, PopCount
  <2>. QED BY <2>1, <2>2, <2>3, <2>4
<1>2. ASSUME NEW i \in 1 .. Published PROVE buffer'[Place(i)] = buffer[Place(i)]
  <2>1. CASE PushWrite
    <3>1. Advance(getPos) = IF getPos = Capacity - 1 THEN 0 ELSE getPos + 1
      BY AdvanceWraps
    <3>2. Place(i) \in Slots /\ Place(i) # putPos
      <4>1. CASE gpc = "advance"
        BY <2>1, <3>1, <4>1
        DEF PushWrite, Place, FirstPos, Published, CursorsAgree, Occupied, Distance, ChecksHold
      <4>2. CASE gpc # "advance"
        BY <2>1, <4>2
        DEF PushWrite, Place, FirstPos, Published, CursorsAgree, Occupied, Distance, ChecksHold
      <4>. QED BY <4>1, <4>2
    <3>. QED BY <2>1, <3>2 DEF PushWrite
  <2>2. CASE ~ PushWrite
    <3>1. buffer' = buffer
      BY <2>2 DEF PushCheck, PushAdvance, PopCheck, PopAdvance, PopCount
    <3>. QED BY <3>1
  <2>. QED BY <2>1, <2>2
<1>. QED BY <1>1, <1>2, ContentsUnchanged

\* For every capacity and every set of values, Push and Pop interleaved step by
\* step without a lock implement a bounded FIFO queue: the value counted by
\* Push is appended, the value moved out by Pop is the oldest, and no other
\* step changes what the queue holds.
THEOREM RingImplementsFifo == Spec => ImplementsFifo
<1>1. Init => Fifo!Init
  <2> SUFFICES ASSUME Init PROVE Fifo!Init
    OBVIOUS
  <2>1. TypeOK
    BY InitIInv DEF IInv
  <2>2. Contents = <<>>
    <3>1. num = 0 /\ gpc = "idle"
      BY DEF Init
    <3>2. Published = num - 0
      BY <3>1, Zenon DEF Published
    <3>3. 1 .. Published = {}
      BY <3>1, <3>2
    <3>4. Contents = [i \in {} |-> buffer[Place(i)]]
      BY <2>1, <3>3, ContentsPlaces
    <3>5. Contents \in Seq(Stored) /\ Len(Contents) = 0
      BY <3>4
    <3>. QED BY <3>5
  <2>3. data = NoValue
    BY DEF Init
  <2>. QED BY <2>2, <2>3 DEF Fifo!Init
<1>2. IInv /\ IInv' /\ ItemStored /\ [Next]_vars => [Fifo!Next]_(Fifo!vars)
  <2> SUFFICES ASSUME IInv, IInv', ItemStored, [Next]_vars
               PROVE  [Fifo!Next]_(Fifo!vars)
    OBVIOUS
  <2>1. CASE PushCount
    BY <2>1, CountIsPut DEF Fifo!Next
  <2>2. CASE PopMove
    BY <2>2, MoveIsTake DEF Fifo!Next
  <2>3. CASE ~ PushCount /\ ~ PopMove
    BY <2>3, OtherStepsStutter DEF Next, Push, Pop, Fifo!vars
  <2>. QED BY <2>1, <2>2, <2>3
<1>. QED
  BY <1>1, <1>2, RingInvariant, ItemInvariant, PTL
  DEF Spec, ImplementsFifo, Fifo!Spec

-----------------------------------------------------------------------------
(* The scheduler with a queue.                                             *)

\* The thread inside AddTriggerEvent's critical section is the one that holds
\* mutex_.
MutexHeld == \A t \in Values : pc[t] \in {"push", "write"} <=> mutex = t

\* The ring has a place for each callback it is given.
RingFits == Len(Queue) <= Capacity

\* Since its last look at the ring, the timers and is_shutdown_, the loop has
\* missed nothing that is not announced.
Unannounced ==
  /\ (loop \in {"timers", "remaining", "wait"} /\ Queue # <<>>)
       => Sched!Announced("write")
  /\ (loop = "wait" /\ timeout = "forever" /\ timers > 0)
       => Sched!Announced("announce")
  /\ (loop \in {"pop", "more", "timers", "remaining", "wait"} /\ shutdown)
       => (pipe \/ stopper = "write")

SchedulerIInv == Sched!TypeOK /\ MutexHeld /\ RingFits /\ Unannounced

-----------------------------------------------------------------------------
\* The loop's own steps keep the invariant.
LEMMA LoopKeepsScheduler ==
  ASSUME SchedulerIInv, Sched!Loop \/ Sched!SocketReady
  PROVE  SchedulerIInv'
<1> USE TriggersAssumption DEF Sched!SchedulerConstants, SchedulerIInv, Sched!TypeOK, MutexHeld,
        RingFits, Unannounced, Sched!Announced, Sched!scheduler, Sched!clients
<1>1. CASE Sched!Start BY <1>1 DEF Sched!Start
<1>2. CASE Sched!LoopTest BY <1>2 DEF Sched!LoopTest
<1>3. CASE Sched!PopTrigger BY <1>3 DEF Sched!PopTrigger
<1>4. CASE Sched!MoreTriggers BY <1>4 DEF Sched!MoreTriggers
<1>5. CASE Sched!HandleTimers BY <1>5 DEF Sched!HandleTimers
<1>6. CASE Sched!GetTimeRemaining BY <1>6 DEF Sched!GetTimeRemaining
<1>7. CASE Sched!Wake BY <1>7 DEF Sched!Wake
<1>8. CASE Sched!TimerDue BY <1>8 DEF Sched!TimerDue
<1>9. CASE Sched!SocketReady BY <1>9 DEF Sched!SocketReady
<1> QED BY <1>1, <1>2, <1>3, <1>4, <1>5, <1>6, <1>7, <1>8, <1>9 DEF Sched!Loop

\* So do the steps of a thread that posts a callback or adds a timer.
LEMMA ClientKeepsScheduler ==
  ASSUME SchedulerIInv, NEW t \in Values,
         Sched!Begin(t) \/ Sched!Finish(t)
  PROVE  SchedulerIInv'
<1> USE TriggersAssumption DEF Sched!SchedulerConstants, SchedulerIInv, Sched!TypeOK, MutexHeld,
        RingFits, Unannounced, Sched!Announced, Sched!scheduler, Sched!clients
<1>1. CASE Sched!CheckSize(t) BY <1>1 DEF Sched!CheckSize
<1>2. CASE Sched!LockMutex(t) BY <1>2 DEF Sched!LockMutex
<1>3. CASE Sched!PushTrigger(t) BY <1>3 DEF Sched!PushTrigger
<1>4. CASE Sched!WritePipe(t) BY <1>4 DEF Sched!WritePipe
<1>5. CASE Sched!AddTimer(t) BY <1>5 DEF Sched!AddTimer
<1>6. CASE Sched!AnnounceTimer(t) BY <1>6 DEF Sched!AnnounceTimer
<1> QED BY <1>1, <1>2, <1>3, <1>4, <1>5, <1>6 DEF Sched!Begin, Sched!Finish

\* So do the steps of the stopping thread.
LEMMA StopperKeepsScheduler ==
  ASSUME SchedulerIInv,
         Sched!StopFlag \/ Sched!StopWrite \/ Sched!Join
  PROVE  SchedulerIInv'
<1> USE TriggersAssumption DEF Sched!SchedulerConstants, SchedulerIInv, Sched!TypeOK, MutexHeld,
        RingFits, Unannounced, Sched!Announced, Sched!scheduler, Sched!clients
<1>1. CASE Sched!StopFlag BY <1>1 DEF Sched!StopFlag
<1>2. CASE Sched!StopWrite BY <1>2 DEF Sched!StopWrite
<1>3. CASE Sched!Join BY <1>3 DEF Sched!Join
<1> QED BY <1>1, <1>2, <1>3

\* The invariant holds at the start ...
LEMMA SchedulerInit == Sched!Init => SchedulerIInv
<1> SUFFICES ASSUME Sched!Init PROVE SchedulerIInv
  OBVIOUS
<1>1. Sched!TypeOK
  <2>1. Queue \in Seq(Values) BY DEF Sched!Init
  <2>2. pc \in [Values -> {"idle", "lock", "push", "write", "announce"}]
    BY DEF Sched!Init
  <2>3. calls \in [Values -> Nat] BY DEF Sched!Init
  <2> QED BY <2>1, <2>2, <2>3 DEF Sched!Init, Sched!TypeOK
<1>2. MutexHeld
  <2> SUFFICES ASSUME NEW t \in Values
               PROVE  pc[t] \in {"push", "write"} <=> mutex = t
    BY DEF MutexHeld
  <2>1. pc[t] = "idle" BY DEF Sched!Init
  <2>2. mutex = "none" /\ mutex # t BY TriggersAssumption DEF Sched!SchedulerConstants, Sched!Init
  <2> QED BY <2>1, <2>2
<1>3. RingFits BY TriggersAssumption DEF Sched!SchedulerConstants, Sched!Init, RingFits
<1>4. Unannounced BY DEF Sched!Init, Unannounced
<1> QED BY <1>1, <1>2, <1>3, <1>4 DEF SchedulerIInv

\* ... and is kept by every step.
LEMMA SchedulerNext == SchedulerIInv /\ [Sched!Next]_(Sched!vars) => SchedulerIInv'
<1> SUFFICES ASSUME SchedulerIInv, [Sched!Next]_(Sched!vars) PROVE SchedulerIInv'
  OBVIOUS
<1>1. CASE Sched!Loop \/ Sched!SocketReady BY <1>1, LoopKeepsScheduler
<1>2. CASE \E t \in Values : Sched!Begin(t) \/ Sched!Finish(t)
  BY <1>2, ClientKeepsScheduler
<1>3. CASE Sched!StopFlag \/ Sched!StopWrite \/ Sched!Join
  BY <1>3, StopperKeepsScheduler
<1>4. CASE UNCHANGED Sched!vars
  BY <1>4 DEF Sched!vars, Sched!scheduler, Sched!clients, SchedulerIInv,
              Sched!TypeOK, MutexHeld, RingFits, Unannounced, Sched!Announced
<1> QED BY <1>1, <1>2, <1>3, <1>4 DEF Sched!Next

-----------------------------------------------------------------------------
(* The scheduler with the ring.                                            *)

\* Who asks for the ring's size gets the length of the queue.
LEMMA QueueLength ==
  ASSUME IInv
  PROVE  /\ Contents \in Seq(Stored) /\ Len(Contents) = Published /\ data \in Stored
         /\ Queue \in Seq(Stored) /\ Len(Queue) = num /\ num \in 0 .. Capacity
<1>1. TypeOK /\ num \in 0 .. Capacity /\ Capacity \in Nat /\ data \in Stored
  BY CapacityAssumption DEF IInv, TypeOK
<1>2. Published \in Nat
  BY <1>1 DEF IInv, ChecksHold, Published
<1>3. Contents \in Seq(Stored) /\ Len(Contents) = Published
  <2>1. FirstPos \in Slots /\ Contents = [i \in 1 .. Published |-> buffer[Place(i)]]
    BY <1>1, ContentsPlaces
  <2>2. Published <= Capacity
    BY <1>1 DEF Published
  <2>3. \A i \in 1 .. Published : Place(i) \in Slots
    BY <1>1, <1>2, <2>1, <2>2 DEF Place, Slots
  <2>4. \A i \in 1 .. Published : buffer[Place(i)] \in Stored
    BY <1>1, <2>3 DEF TypeOK
  <2> QED BY <1>2, <2>1, <2>4
<1>4. Queue \in Seq(Stored) /\ Len(Queue) = num
  <2>1. CASE gpc \in {"advance", "count"}
    <3>1. Queue = <<data>> \o Contents /\ Published = num - 1
      BY <2>1, <1>1 DEF Queue, Published
    <3>2. <<data>> \in Seq(Stored) /\ Len(<<data>>) = 1
      BY <1>1
    <3> QED BY <1>1, <1>2, <1>3, <3>1, <3>2
  <2>2. CASE gpc \notin {"advance", "count"}
    BY <1>1, <1>3, <2>2 DEF Queue, Published
  <2> QED BY <2>1, <2>2
<1> QED BY <1>1, <1>3, <1>4

\* A Push changes the queue in the step that counts its callback, a Pop in the
\* one that counts it out, and the other steps leave it alone.
LEMMA QueueUnchanged ==
  ASSUME IInv, IInv',
         \/ \E v \in Values : PushCheck(v)
         \/ PushWrite \/ PushAdvance \/ PopCheck \/ PopMove \/ PopAdvance \/ UNCHANGED vars
  PROVE  Queue' = Queue
<1>1. CASE PopMove
  <2>1. Contents # <<>> /\ data' = Head(Contents) /\ Contents' = Tail(Contents)
    BY <1>1, MoveIsTake DEF Fifo!Take
  <2>2. Queue = Contents /\ Queue' = <<data'>> \o Contents'
    BY <1>1 DEF PopMove, Queue
  <2>3. Contents \in Seq(Stored)
    BY QueueLength
  <2>4. <<Head(Contents)>> \o Tail(Contents) = Contents
    BY <2>1, <2>3
  <2> QED BY <2>1, <2>2, <2>4
<1>2. CASE ~PopMove
  <2>1. Contents' = Contents /\ data' = data
    BY <1>2, OtherStepsStutter
  <2>2. gpc' \in {"advance", "count"} <=> gpc \in {"advance", "count"}
    BY <1>2 DEF PushCheck, PushWrite, PushAdvance, PopCheck, PopAdvance, vars, consumer
  <2> QED BY <2>1, <2>2 DEF Queue
<1> QED BY <1>1, <1>2

\* The step that counts a callback appends it ...
LEMMA QueuePushed ==
  ASSUME IInv, IInv', ItemStored, PushCount
  PROVE  Queue' = Append(Queue, item) /\ Len(Queue) < Capacity
<1>1. /\ Contents' = Append(Contents, item) /\ data' = data /\ item \in Stored
      /\ Contents \in Seq(Stored) /\ data \in Stored /\ Len(Queue) = num /\ num \in 0 .. Capacity
  BY CountAppends, QueueLength DEF Stored
<1>2. Len(Queue) < Capacity
  BY <1>1 DEF IInv, ChecksHold, PushCount
<1>3. gpc' = gpc
  BY DEF PushCount, consumer
<1>4. <<data>> \o Append(Contents, item) = Append(<<data>> \o Contents, item)
  BY <1>1
<1> QED BY <1>1, <1>2, <1>3, <1>4 DEF Queue

\* ... and the one that counts it out takes it from the head.
LEMMA QueuePopped ==
  ASSUME IInv, IInv', PopCount
  PROVE  Queue # <<>> /\ Queue' = Tail(Queue)
<1>1. Contents' = Contents /\ Contents \in Seq(Stored) /\ data \in Stored
  BY OtherStepsStutter, QueueLength
<1>2. Queue = <<data>> \o Contents /\ Queue' = Contents'
  BY DEF PopCount, Queue
<1>3. <<data>> \o Contents # <<>> /\ Tail(<<data>> \o Contents) = Contents
  BY <1>1
<1> QED BY <1>1, <1>2, <1>3

\* What the scheduler does to the ring are steps of the ring.
LEMMA RingSteps == [NextTriggers]_allVars => [Next]_vars
<1> SUFFICES ASSUME [NextTriggers]_allVars PROVE [Next]_vars
  OBVIOUS
<1>1. CASE Loop
  BY <1>1 DEF Loop, PopStep, PopReturns, MoreTriggers, Next, Pop
<1>2. ASSUME NEW t \in Values, Begin(t) \/ Finish(t) PROVE [Next]_vars
  BY <1>2 DEF Begin, Finish, CheckSize, PushStep, PushReturns, Next, Push
<1>3. CASE SocketReady \/ (UNCHANGED vars /\ Sched!StopFlag) \/ StopWrite \/ Join \/ UNCHANGED allVars
  BY <1>3 DEF SocketReady, StopWrite, Join, allVars
<1> QED BY <1>1, <1>2, <1>3 DEF NextTriggers

\* Each step of the scheduler with the ring is one of the scheduler with the
\* queue, or changes nothing there.
LEMMA SchedulerSteps ==
  ASSUME IInv, IInv', ItemStored, [NextTriggers]_allVars
  PROVE  [Sched!Next]_(Sched!vars)
<1>1. Len(Queue) = num /\ num \in 0 .. Capacity /\ Capacity \in Nat /\ Queue \in Seq(Stored)
  BY QueueLength, CapacityAssumption
<1>2. UNCHANGED vars => Queue' = Queue
  BY QueueUnchanged
<1>3. CASE Loop
  <2>1. CASE PopStep
    <3>1. Queue' = Queue
      BY <2>1, QueueUnchanged DEF PopStep
    <3> QED BY <2>1, <3>1 DEF PopStep, scheduler, clients, Sched!vars
  <2>2. CASE PopReturns
    <3>1. Queue' = IF Queue # <<>> THEN Tail(Queue) ELSE Queue
      <4>1. CASE gpc = "idle" /\ num <= 0 /\ UNCHANGED vars
        BY <1>1, <1>2, <4>1
      <4>2. CASE PopCount
        BY <4>2, QueuePopped
      <4> QED BY <2>2, <4>1, <4>2 DEF PopReturns
    <3>2. Sched!PopTrigger
      BY <2>2, <3>1 DEF PopReturns, Sched!PopTrigger, clients, Sched!clients
    <3> QED BY <3>2 DEF Sched!Next, Sched!Loop
  <2>3. CASE MoreTriggers
    <3>1. Queue' = Queue /\ (num > 0 <=> Queue # <<>>)
      BY <1>1, <1>2, <2>3 DEF MoreTriggers
    <3>2. Sched!MoreTriggers
      BY <2>3, <3>1 DEF MoreTriggers, Sched!MoreTriggers, clients, Sched!clients
    <3> QED BY <3>2 DEF Sched!Next, Sched!Loop
  <2> QED BY <1>3, <2>1, <2>2, <2>3 DEF Loop, Sched!Next, Sched!Loop
<1>4. ASSUME NEW t \in Values, Begin(t) \/ Finish(t) PROVE [Sched!Next]_(Sched!vars)
  <2>1. CASE CheckSize(t)
    <3>1. Queue' = Queue
      BY <1>2, <2>1 DEF CheckSize
    <3>2. Sched!CheckSize(t)
      BY <1>1, <2>1, <3>1 DEF CheckSize, Sched!CheckSize, scheduler, Sched!scheduler
    <3> QED BY <3>2 DEF Sched!Next, Sched!Begin
  <2>2. CASE PushStep(t)
    <3>1. Queue' = Queue
      BY <2>2, QueueUnchanged DEF PushStep
    <3> QED BY <2>2, <3>1 DEF PushStep, scheduler, clients, Sched!vars
  <2>3. CASE PushReturns(t)
    <3>1. Queue' = IF Len(Queue) < Capacity THEN Append(Queue, t) ELSE Queue
      <4>1. CASE ppc = "idle" /\ num >= Capacity /\ UNCHANGED vars
        BY <1>1, <1>2, <4>1
      <4>2. CASE item = t /\ PushCount
        BY <4>2, QueuePushed
      <4> QED BY <2>3, <4>1, <4>2 DEF PushReturns
    <3>2. Sched!PushTrigger(t)
      BY <2>3, <3>1 DEF PushReturns, Sched!PushTrigger, scheduler, Sched!scheduler
    <3> QED BY <3>2 DEF Sched!Next, Sched!Finish
  <2> QED BY <1>4, <2>1, <2>2, <2>3 DEF Begin, Finish, Sched!Next, Sched!Begin, Sched!Finish
<1>5. CASE SocketReady \/ (UNCHANGED vars /\ Sched!StopFlag) \/ StopWrite \/ Join
  BY <1>5 DEF SocketReady, StopWrite, Join, Sched!Next
<1>6. CASE UNCHANGED allVars
  BY <1>2, <1>6 DEF allVars, scheduler, clients, Sched!vars
<1> QED BY <1>3, <1>4, <1>5, <1>6 DEF NextTriggers

\* The inductive invariant of the scheduler with the ring.
TriggersInv == IInv /\ ItemStored /\ SchedulerIInv

\* It holds at the start ...
LEMMA TriggersInit == InitTriggers => TriggersInv
<1>1. Init => ItemStored
  BY DEF Init, ItemStored
<1> QED BY <1>1, InitIInv, SchedulerInit DEF InitTriggers, TriggersInv

\* ... and is kept by every step, which the scheduler with the queue can take.
LEMMA TriggersNext == TriggersInv /\ [NextTriggers]_allVars => TriggersInv' /\ [Sched!Next]_(Sched!vars)
<1> SUFFICES ASSUME TriggersInv, [NextTriggers]_allVars
             PROVE  TriggersInv' /\ [Sched!Next]_(Sched!vars)
  OBVIOUS
<1>1. IInv /\ ItemStored /\ SchedulerIInv
  BY DEF TriggersInv
<1>2. IInv' /\ ItemStored'
  BY <1>1, RingSteps, NextIInv, ItemKept
<1>3. [Sched!Next]_(Sched!vars)
  BY <1>1, <1>2, SchedulerSteps
<1>4. SchedulerIInv'
  BY <1>1, <1>3, SchedulerNext
<1> QED BY <1>2, <1>3, <1>4 DEF TriggersInv

\* The inductive invariant holds in every reachable state of a scheduler and its
\* ring.
THEOREM TriggersInvariant == SpecTriggers => []TriggersInv
BY TriggersInit, TriggersNext, PTL DEF SpecTriggers

\* For every capacity and any number of threads, a scheduler with the ring that
\* RingBuffer.h makes, one access at a time, is one with a queue: Push appends,
\* Pop takes the oldest, and the size that is tested is the queue's length.
THEOREM TriggersImplementScheduler == SpecTriggers => ImplementsScheduler
<1>1. InitTriggers => Sched!Init
  BY DEF InitTriggers
<1> QED
  BY <1>1, TriggersInvariant, TriggersNext, PTL DEF SpecTriggers, ImplementsScheduler

\* Every variable of a scheduler and of its ring keeps its type, timer_queue_'s
\* size among them, whatever the threads do.
THEOREM TriggersTypesOK == SpecTriggers => []TypesOK
<1>1. TriggersInv => TypesOK
  BY DEF TriggersInv, IInv, SchedulerIInv, TypesOK
<1> QED BY <1>1, TriggersInvariant, PTL

\* The size test of AddTriggerEvent is made outside mutex_, and yet the ring is
\* never filled past its capacity, its producers are one at a time, and no two
\* accesses to its slots meet.
THEOREM TriggersOneProducer == SpecTriggers => []OneProducer
<1>1. IInv => SlotExclusive
  BY CapacityAssumption
  DEF IInv, TypeOK, CursorsAgree, ChecksHold, Occupied, Distance, Slots, SlotExclusive
<1>2. SchedulerIInv => Sched!OneProducer
  BY DEF SchedulerIInv, MutexHeld, RingFits, Sched!OneProducer
<1>3. TriggersInv => OneProducer
  BY <1>1, <1>2 DEF TriggersInv, OneProducer
<1> QED BY <1>3, TriggersInvariant, PTL

\* The loop never sleeps in epoll_wait on a callback, a timer or a request to
\* stop that nobody is about to announce in wakeup_pipe_.
THEOREM TriggersNoLostWakeup == SpecTriggers => []NoLostWakeup
<1>1. SchedulerIInv => Sched!NoLostWakeup
  BY DEF SchedulerIInv, Unannounced, Sched!NoLostWakeup
<1>2. TriggersInv => NoLostWakeup
  BY <1>1 DEF TriggersInv, NoLostWakeup
<1> QED BY <1>2, TriggersInvariant, PTL
=============================================================================
