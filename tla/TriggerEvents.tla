---------------------------- MODULE TriggerEvents ----------------------------
(***************************************************************************)
(* A TaskScheduler with the ring that its callbacks travel in: the loop    *)
(* and the threads of TaskScheduler, with the steps of SpscRing where the  *)
(* code calls trigger_events_->Push, Pop and Size.  A callback is known by *)
(* the thread that posts it, so the Values are the threads.                *)
(*                                                                         *)
(* TaskScheduler has a queue in the place of the ring, which each Push and *)
(* each Pop changes in one step, and looks at its length.  This module is  *)
(* to show that it may: the scheduler with the ring implements it.         *)
(***************************************************************************)
EXTENDS SpscRing

CONSTANT MaxCalls   \* bound: calls made by each thread

VARIABLES timers, pipe, shutdown, mutex, loop, timeout, pc, calls, stopper   \* as in TaskScheduler

\* The callbacks that are in the ring for those who ask for its size: a Pop
\* that has moved its callback out has still to count it.
Queue == IF gpc \in {"advance", "count"} THEN <<data>> \o Contents ELSE Contents

Sched == INSTANCE TaskScheduler
           WITH Threads <- Values, MaxTriggerEvents <- Capacity, ring <- Queue

ASSUME TriggersAssumption == Sched!SchedulerConstants

scheduler == <<loop, timeout>>
clients   == <<pc, calls>>
allVars   == <<vars, timers, pipe, shutdown, mutex, scheduler, clients, stopper>>

InitTriggers == Init /\ Sched!Init

-----------------------------------------------------------------------------
(* AddTriggerEvent.                                                        *)

\* if (trigger_events_->Size() < kMaxTriggetEvents)
CheckSize(t) ==
  /\ pc[t] = "idle" /\ calls[t] < MaxCalls
  /\ calls' = [calls EXCEPT ![t] = @ + 1]
  /\ IF num < Capacity THEN pc' = [pc EXCEPT ![t] = "lock"] ELSE UNCHANGED pc
  /\ UNCHANGED <<vars, timers, pipe, shutdown, mutex, scheduler, stopper>>

\* The steps of Push(callback) before the last.
PushStep(t) ==
  /\ pc[t] = "push"
  /\ PushCheck(t) \/ (item = t /\ (PushWrite \/ PushAdvance))
  /\ UNCHANGED <<timers, pipe, shutdown, mutex, scheduler, clients, stopper>>

\* The last one, or the only one when the ring is full; the result is not
\* looked at.
PushReturns(t) ==
  /\ pc[t] = "push"
  /\ \/ ppc = "idle" /\ num >= Capacity /\ UNCHANGED vars
     \/ item = t /\ PushCount
  /\ pc' = [pc EXCEPT ![t] = "write"]
  /\ UNCHANGED <<timers, pipe, shutdown, mutex, scheduler, calls, stopper>>

-----------------------------------------------------------------------------
(* HandleTriggerEvent.                                                     *)

\* The steps of Pop(callback) before the last.
PopStep ==
  /\ loop = "pop"
  /\ PopCheck \/ PopMove \/ PopAdvance
  /\ UNCHANGED <<timers, pipe, shutdown, mutex, scheduler, clients, stopper>>

\* Mutant: one callback per turn of the loop, the rest left in the ring.
PopReturnsOnce ==
  /\ loop = "pop"
  /\ \/ gpc = "idle" /\ num <= 0 /\ UNCHANGED vars
     \/ PopCount
  /\ loop' = "timers"
  /\ UNCHANGED <<timers, pipe, shutdown, mutex, timeout, clients, stopper>>

\* The last one, with the call of the callback, or the only one when the ring
\* is empty.
PopReturns ==
  /\ loop = "pop"
  /\ \/ gpc = "idle" /\ num <= 0 /\ UNCHANGED vars
     \/ PopCount
  /\ loop' = "more"
  /\ UNCHANGED <<timers, pipe, shutdown, mutex, timeout, clients, stopper>>

\* while (trigger_events_->Size() > 0)
MoreTriggers ==
  /\ loop = "more"
  /\ loop' = IF num > 0 THEN "pop" ELSE "timers"
  /\ UNCHANGED <<vars, timers, pipe, shutdown, mutex, timeout, clients, stopper>>

-----------------------------------------------------------------------------
(* What does not touch the ring is as in TaskScheduler.                    *)

Loop ==
  \/ PopStep \/ PopReturns \/ MoreTriggers
  \/ /\ UNCHANGED vars
     /\ \/ Sched!Start \/ Sched!LoopTest \/ Sched!HandleTimers \/ Sched!GetTimeRemaining
        \/ Sched!Wake \/ Sched!TimerDue

Begin(t) == CheckSize(t) \/ (UNCHANGED vars /\ Sched!AddTimer(t))
Finish(t) ==
  \/ PushStep(t) \/ PushReturns(t)
  \/ UNCHANGED vars /\ (Sched!LockMutex(t) \/ Sched!WritePipe(t) \/ Sched!AnnounceTimer(t))

SocketReady == UNCHANGED vars /\ Sched!SocketReady
StopWrite   == UNCHANGED vars /\ Sched!StopWrite
Join        == UNCHANGED vars /\ Sched!Join

NextTriggers ==
  \/ Loop \/ SocketReady
  \/ \E t \in Values : Begin(t) \/ Finish(t)
  \/ (UNCHANGED vars /\ Sched!StopFlag) \/ StopWrite \/ Join

\* As in TaskScheduler: a thread that can run is run.
SpecTriggers ==
  /\ InitTriggers /\ [][NextTriggers]_allVars
  /\ WF_allVars(Loop)
  /\ \A t \in Values : WF_allVars(Finish(t))
  /\ WF_allVars(StopWrite) /\ WF_allVars(Join)

-----------------------------------------------------------------------------
(* Properties.                                                             *)

\* The variables of the ring and of the scheduler have their types.
TypesOK == TypeOK /\ Sched!TypeOK

\* The threads push one at a time, which SpscRing takes for granted: no two
\* accesses to buffer_ meet in a slot, and the size is never above capacity_
\* although it is tested before mutex_ is taken (TaskScheduler.cpp:76-86,
\* RingBuffer.h:30-38).
OneProducer == SlotExclusive /\ Sched!OneProducer

\* The loop never sleeps in epoll_wait on a callback, a timer or a request to
\* stop that nobody is about to announce in wakeup_pipe_
\* (TaskScheduler.cpp:44-91).
NoLostWakeup == Sched!NoLostWakeup

\* A callback in the ring of a running loop is run, unless the loop is stopped
\* (TaskScheduler.cpp:94-101).
CallbacksRun == Sched!CallbacksRun

\* A stop requested once the loop runs ends the loop, and the join returns
\* (TaskScheduler.cpp:57-61, EventLoop.cpp:57-70).
StopEndsLoop == Sched!StopEndsLoop

\* The scheduler with the ring is one of TaskScheduler's, which has a queue:
\* Push appends and Pop takes, whole, and the size is the queue's length
\* (TaskScheduler.cpp:76-101, RingBuffer.h:22-38, 146-160).
ImplementsScheduler == Sched!Init /\ [][Sched!Next]_(Sched!vars)
=============================================================================
