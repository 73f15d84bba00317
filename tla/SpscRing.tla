------------------------------ MODULE SpscRing ------------------------------
(***************************************************************************)
(* RingBuffer<T>::Push run by one thread against RingBuffer<T>::Pop run by *)
(* another, without a lock: how a TaskScheduler's trigger_events_ is used  *)
(* (AddTriggerEvent serialises the producers with mutex_; only the         *)
(* scheduler's own thread pops).                                           *)
(*                                                                         *)
(* One step per access to shared state.  put_pos_, get_pos_ and num_datas_ *)
(* are atomics whose increments are sequentially consistent, so the steps  *)
(* interleave; buffer_ is plain memory, and two threads inside the same    *)
(* slot at once are a data race.  Advance is one step: each cursor is      *)
(* written by one thread only here.  A Push on a full ring and a Pop on an *)
(* empty one return false and change nothing: they are stuttering steps.   *)
(***************************************************************************)
EXTENDS Integers, Sequences

CONSTANTS Capacity,  \* capacity_
          Values,    \* the T's pushed
          NoValue    \* a moved-from or default-constructed T

ASSUME CapacityAssumption == Capacity \in Nat \ {0}
ASSUME NoValueAssumption == NoValue \notin Values

VARIABLES buffer,    \* buffer_: slots 0 .. Capacity-1
          putPos,    \* put_pos_
          getPos,    \* get_pos_
          num,       \* num_datas_
          ppc,       \* where the producer is inside Push
          item,      \* Push's argument
          gpc,       \* where the consumer is inside Pop
          data       \* Pop's out parameter

ring     == <<buffer, putPos, getPos, num>>
producer == <<ppc, item>>
consumer == <<gpc, data>>
vars     == <<buffer, putPos, getPos, num, ppc, item, gpc, data>>

Slots == 0 .. Capacity - 1
Stored == Values \cup {NoValue}

Init ==
  /\ buffer = [i \in Slots |-> NoValue]
  /\ putPos = 0
  /\ getPos = 0
  /\ num = 0
  /\ ppc = "idle" /\ item = NoValue
  /\ gpc = "idle" /\ data = NoValue

\* Mutant: the cursor is not wrapped at the last slot but one slot early.
AdvanceEarlyWrap(pos) == IF pos + 2 >= Capacity THEN 0 ELSE pos + 1

\* Advance: the cursor steps to the next slot, cyclically.
Advance(pos) == (pos + 1) % Capacity

-----------------------------------------------------------------------------
(* The producer: Push(v).                                                  *)

\* Mutant: the fullness test is off by one.
PushCheckOffByOne(v) ==
  /\ ppc = "idle" /\ num <= Capacity
  /\ item' = v
  /\ ppc' = "write"
  /\ UNCHANGED <<ring, consumer>>

\* if (num_datas_ < capacity_)
PushCheck(v) ==
  /\ ppc = "idle" /\ num < Capacity
  /\ item' = v
  /\ ppc' = "write"
  /\ UNCHANGED <<ring, consumer>>

\* buffer_[put_pos_] = data: a plain write.
PushWrite ==
  /\ ppc = "write"
  /\ buffer' = [buffer EXCEPT ![putPos] = item]
  /\ ppc' = "advance"
  /\ UNCHANGED <<putPos, getPos, num, item, consumer>>

\* Advance(put_pos_)
PushAdvance ==
  /\ ppc = "advance"
  /\ putPos' = Advance(putPos)
  /\ ppc' = "count"
  /\ UNCHANGED <<buffer, getPos, num, item, consumer>>

\* num_datas_++: the value becomes visible to Pop.
PushCount ==
  /\ ppc = "count"
  /\ num' = num + 1
  /\ ppc' = "idle"
  /\ UNCHANGED <<buffer, putPos, getPos, item, consumer>>

Push == (\E v \in Values : PushCheck(v)) \/ PushWrite \/ PushAdvance \/ PushCount

-----------------------------------------------------------------------------
(* The consumer: Pop(data).                                                *)

\* Mutant: the place is given back before the slot has been emptied.
PopCheckReleasesEarly ==
  /\ gpc = "idle" /\ num > 0
  /\ num' = num - 1
  /\ gpc' = "move"
  /\ UNCHANGED <<buffer, putPos, getPos, producer, data>>

\* if (num_datas_ > 0)
PopCheck ==
  /\ gpc = "idle" /\ num > 0
  /\ gpc' = "move"
  /\ UNCHANGED <<ring, producer, data>>

\* data = std::move(buffer_[get_pos_]): a plain read and write of the slot.
PopMove ==
  /\ gpc = "move"
  /\ data' = buffer[getPos]
  /\ buffer' = [buffer EXCEPT ![getPos] = NoValue]
  /\ gpc' = "advance"
  /\ UNCHANGED <<putPos, getPos, num, producer>>

\* Advance(get_pos_)
PopAdvance ==
  /\ gpc = "advance"
  /\ getPos' = Advance(getPos)
  /\ gpc' = "count"
  /\ UNCHANGED <<buffer, putPos, num, producer, data>>

\* num_datas_--: the slot becomes available to Push.
PopCount ==
  /\ gpc = "count"
  /\ num' = num - 1
  /\ gpc' = "idle"
  /\ UNCHANGED <<buffer, putPos, getPos, producer, data>>

Pop == PopCheck \/ PopMove \/ PopAdvance \/ PopCount

Next == Push \/ Pop

Spec == Init /\ [][Next]_vars

-----------------------------------------------------------------------------
(* Properties.                                                             *)

\* Every variable has its type; the count stays between empty and full.
TypeOK ==
  /\ buffer \in [Slots -> Stored]
  /\ putPos \in Slots
  /\ getPos \in Slots
  /\ num \in 0 .. Capacity
  /\ ppc \in {"idle", "write", "advance", "count"}
  /\ item \in Stored
  /\ gpc \in {"idle", "move", "advance", "count"}
  /\ data \in Stored

\* The slots between the cursors hold values: written and not yet given back.
\* (Push counts a value after its cursor moved, Pop after its own did.)
Occupied == num + (IF ppc = "count" THEN 1 ELSE 0)
                - (IF gpc = "count" THEN 1 ELSE 0)

\* The distance from the get cursor forward to the put cursor.
Distance == IF putPos >= getPos THEN putPos - getPos
                                ELSE putPos - getPos + Capacity

\* The two cursors and the count, three variables that no single step of Push
\* or Pop updates together, never drift apart: the cursors are as far apart as
\* there are values between them (equal cursors mean empty or full).
CursorsAgree == Occupied = Distance \/ (Occupied = Capacity /\ Distance = 0)

\* Push's assignment to a slot and Pop's move out of a slot never meet in the
\* same slot: the unlocked accesses to buffer_ are free of data races.
SlotExclusive == ~ (ppc = "write" /\ gpc = "move" /\ putPos = getPos)

\* The values in the ring, oldest first: a value is in from the step that
\* counts it to the step that moves it out.
FirstPos  == IF gpc = "advance" THEN Advance(getPos) ELSE getPos
Published == num - (IF gpc \in {"advance", "count"} THEN 1 ELSE 0)
Contents  == [i \in 1 .. Published |-> buffer[(FirstPos + i - 1) % Capacity]]

Fifo == INSTANCE BoundedFifo WITH queue <- Contents

\* Push and Pop, interleaved step by step without a lock, are a bounded FIFO
\* queue: nothing is lost, duplicated, reordered or read before it is written.
ImplementsFifo == Fifo!Spec
=============================================================================
