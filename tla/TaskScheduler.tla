---------------------------- MODULE TaskScheduler ----------------------------
(***************************************************************************)
(* One TaskScheduler: the loop thread, the threads that hand it trigger    *)
(* events and timers, and the thread that stops and joins it.              *)
(*                                                                         *)
(* The loop blocks in epoll_wait, without a timeout when it has no timer,  *)
(* and everything handed to it is announced by a byte in wakeup_pipe_.     *)
(* trigger_events_ is a bounded FIFO queue here: SpscRing shows that the   *)
(* ring is one, given that mutex_ serialises its producers.                *)
(***************************************************************************)
EXTENDS Integers, Sequences, FiniteSets

CONSTANTS Threads,           \* the threads that call AddTriggerEvent and AddTimer
          MaxTriggerEvents,  \* kMaxTriggetEvents, also the ring's capacity
          MaxCalls           \* bound: calls made by each thread

\* What the constants are.
SchedulerConstants ==
  /\ "none" \notin Threads
  /\ MaxTriggerEvents \in Nat \ {0}
  /\ MaxCalls \in Nat

VARIABLES ring,      \* trigger_events_: who posted each callback, oldest first
          timers,    \* timer_queue_: how many timers there are
          pipe,      \* wakeup_pipe_ has a byte to read
          shutdown,  \* is_shutdown_
          mutex,     \* who holds mutex_, or "none"
          loop,      \* where the loop thread is
          timeout,   \* what epoll_wait is given: "forever" (-1) or "bounded"
          pc, calls, \* where each thread is, and how many calls it has begun
          stopper    \* where the stopping thread is

scheduler == <<loop, timeout>>
clients   == <<pc, calls>>
vars == <<ring, timers, pipe, shutdown, mutex, loop, timeout, pc, calls,
          stopper>>

Init ==
  /\ ring = <<>> /\ timers = 0 /\ pipe = FALSE
  /\ shutdown = FALSE
  /\ mutex = "none"
  /\ loop = "unstarted" /\ timeout = "forever"
  /\ pc = [t \in Threads |-> "idle"]
  /\ calls = [t \in Threads |-> 0]
  /\ stopper = "idle"

-----------------------------------------------------------------------------
(* The loop thread: TaskScheduler::Start.                                  *)

\* Start: is_shutdown_ = false, even if Stop has already set it.
Start ==
  /\ loop = "unstarted"
  /\ shutdown' = FALSE
  /\ loop' = "test"
  /\ UNCHANGED <<ring, timers, pipe, mutex, timeout, clients, stopper>>

\* while (!is_shutdown_)
LoopTest ==
  /\ loop = "test"
  /\ loop' = IF shutdown THEN "done" ELSE "pop"
  /\ UNCHANGED <<ring, timers, pipe, shutdown, mutex, timeout, clients, stopper>>

\* HandleTriggerEvent: pop a callback, if there is one, and run it ...
PopTrigger ==
  /\ loop = "pop"
  /\ ring' = IF ring # <<>> THEN Tail(ring) ELSE ring
  /\ loop' = "more"
  /\ UNCHANGED <<timers, pipe, shutdown, mutex, timeout, clients, stopper>>

\* ... while (trigger_events_->Size() > 0).
MoreTriggers ==
  /\ loop = "more"
  /\ loop' = IF ring # <<>> THEN "pop" ELSE "timers"
  /\ UNCHANGED <<ring, timers, pipe, shutdown, mutex, timeout, clients, stopper>>

\* Mutant: an expired timer is taken off the queue twice.
ExpireTwice ==
  /\ loop = "timers"
  /\ \E n \in 0 .. timers : timers' = timers - 2 * n
  /\ loop' = "remaining"
  /\ UNCHANGED <<ring, pipe, shutdown, mutex, timeout, clients, stopper>>

\* timer_queue_.HandleTimerEvent: some timers expire and do not repeat.
HandleTimers ==
  /\ loop = "timers"
  /\ timers' \in 0 .. timers
  /\ loop' = "remaining"
  /\ UNCHANGED <<ring, pipe, shutdown, mutex, timeout, clients, stopper>>

\* timer_queue_.GetTimeRemaining: -1 when there is no timer.
GetTimeRemaining ==
  /\ loop = "remaining"
  /\ timeout' = IF timers = 0 THEN "forever" ELSE "bounded"
  /\ loop' = "wait"
  /\ UNCHANGED <<ring, timers, pipe, shutdown, mutex, clients, stopper>>

\* HandleEvent: epoll_wait returns because the pipe is readable, and Wake
\* drains it.
Wake ==
  /\ loop = "wait" /\ pipe
  /\ pipe' = FALSE
  /\ loop' = "test"
  /\ UNCHANGED <<ring, timers, shutdown, mutex, timeout, clients, stopper>>

\* epoll_wait returns because the next timer is due ...
TimerDue ==
  /\ loop = "wait" /\ timeout = "bounded"
  /\ loop' = "test"
  /\ UNCHANGED <<ring, timers, pipe, shutdown, mutex, timeout, clients, stopper>>

\* ... or because a socket is ready.
SocketReady ==
  /\ loop = "wait"
  /\ loop' = "test"
  /\ UNCHANGED <<ring, timers, pipe, shutdown, mutex, timeout, clients, stopper>>

-----------------------------------------------------------------------------
(* The other threads.                                                      *)

\* AddTriggerEvent: if (trigger_events_->Size() < kMaxTriggetEvents), tested
\* before mutex_ is taken; otherwise it returns false.
CheckSize(t) ==
  /\ pc[t] = "idle" /\ calls[t] < MaxCalls
  /\ calls' = [calls EXCEPT ![t] = @ + 1]
  /\ IF Len(ring) < MaxTriggerEvents THEN pc' = [pc EXCEPT ![t] = "lock"]
                                     ELSE UNCHANGED pc
  /\ UNCHANGED <<ring, timers, pipe, shutdown, mutex, scheduler, stopper>>

\* Mutant: the mutex is not taken.
NoLock(t) ==
  /\ pc[t] = "lock"
  /\ pc' = [pc EXCEPT ![t] = "push"]
  /\ UNCHANGED <<ring, timers, pipe, shutdown, mutex, scheduler, calls, stopper>>

\* std::lock_guard<std::mutex> lock(mutex_)
LockMutex(t) ==
  /\ pc[t] = "lock" /\ mutex = "none"
  /\ mutex' = t
  /\ pc' = [pc EXCEPT ![t] = "push"]
  /\ UNCHANGED <<ring, timers, pipe, shutdown, scheduler, calls, stopper>>

\* trigger_events_->Push, whose result is not looked at.
PushTrigger(t) ==
  /\ pc[t] = "push"
  /\ ring' = IF Len(ring) < MaxTriggerEvents THEN Append(ring, t) ELSE ring
  /\ pc' = [pc EXCEPT ![t] = "write"]
  /\ UNCHANGED <<timers, pipe, shutdown, mutex, scheduler, calls, stopper>>

\* Mutant: AddTriggerEvent does not wake the loop.
WriteNothing(t) ==
  /\ pc[t] = "write"
  /\ mutex' = "none"
  /\ pc' = [pc EXCEPT ![t] = "idle"]
  /\ UNCHANGED <<ring, timers, pipe, shutdown, scheduler, calls, stopper>>

\* wakeup_pipe_->Write, unlock, return true.  (The pipe does not block; when
\* it is full the write fails and the pipe is readable all the same.)
WritePipe(t) ==
  /\ pc[t] = "write"
  /\ pipe' = TRUE
  /\ mutex' = "none"
  /\ pc' = [pc EXCEPT ![t] = "idle"]
  /\ UNCHANGED <<ring, timers, shutdown, scheduler, calls, stopper>>

\* AddTimer: into the queue, which has a mutex of its own ...
AddTimer(t) ==
  /\ pc[t] = "idle" /\ calls[t] < MaxCalls
  /\ calls' = [calls EXCEPT ![t] = @ + 1]
  /\ timers' = timers + 1
  /\ pc' = [pc EXCEPT ![t] = "announce"]
  /\ UNCHANGED <<ring, pipe, shutdown, mutex, scheduler, stopper>>

\* ... and then wakeup_pipe_->Write.
AnnounceTimer(t) ==
  /\ pc[t] = "announce"
  /\ pipe' = TRUE
  /\ pc' = [pc EXCEPT ![t] = "idle"]
  /\ UNCHANGED <<ring, timers, shutdown, mutex, scheduler, calls, stopper>>

\* Stop, called once by EventLoop::Quit: is_shutdown_ = true ...
StopFlag ==
  /\ stopper = "idle"
  /\ shutdown' = TRUE
  /\ stopper' = "write"
  /\ UNCHANGED <<ring, timers, pipe, mutex, scheduler, clients>>

\* Mutant: Stop only sets the flag.
StopSilently ==
  /\ stopper = "write"
  /\ stopper' = "join"
  /\ UNCHANGED <<ring, timers, pipe, shutdown, mutex, scheduler, clients>>

\* ... wakeup_pipe_->Write ...
StopWrite ==
  /\ stopper = "write"
  /\ pipe' = TRUE
  /\ stopper' = "join"
  /\ UNCHANGED <<ring, timers, shutdown, mutex, scheduler, clients>>

\* ... and Quit joins the loop thread.
Join ==
  /\ stopper = "join" /\ loop = "done"
  /\ stopper' = "joined"
  /\ UNCHANGED <<ring, timers, pipe, shutdown, mutex, scheduler, clients>>

-----------------------------------------------------------------------------
Loop == Start \/ LoopTest \/ PopTrigger \/ MoreTriggers \/ HandleTimers
          \/ GetTimeRemaining \/ Wake \/ TimerDue
Begin(t) == CheckSize(t) \/ AddTimer(t)
Finish(t) == LockMutex(t) \/ PushTrigger(t) \/ WritePipe(t) \/ AnnounceTimer(t)

Next ==
  \/ Loop \/ SocketReady
  \/ \E t \in Threads : Begin(t) \/ Finish(t)
  \/ StopFlag \/ StopWrite \/ Join

\* The operating system keeps running a thread that can run.  No thread has to
\* begin a call, no socket has to become ready and nobody has to call Stop.
Spec == /\ Init /\ [][Next]_vars
        /\ WF_vars(Loop)
        /\ \A t \in Threads : WF_vars(Finish(t))
        /\ WF_vars(StopWrite) /\ WF_vars(Join)

-----------------------------------------------------------------------------
(* Properties.                                                             *)

\* Every variable has its type.
TypeOK ==
  /\ ring \in Seq(Threads)
  /\ timers \in Nat
  /\ pipe \in BOOLEAN /\ shutdown \in BOOLEAN
  /\ mutex \in Threads \cup {"none"}
  /\ loop \in {"unstarted", "test", "pop", "more", "timers", "remaining", "wait", "done"}
  /\ timeout \in {"forever", "bounded"}
  /\ pc \in [Threads -> {"idle", "lock", "push", "write", "announce"}]
  /\ calls \in [Threads -> Nat]
  /\ stopper \in {"idle", "write", "join", "joined"}

\* Between the loop's last look at what it was handed and its return from
\* epoll_wait, ...
Announced(at) == pipe \/ \E t \in Threads : pc[t] = at

\* ... whatever it has not seen is announced in the pipe, or about to be: the
\* loop never sleeps on a callback, a timer or a request to stop.
NoLostWakeup ==
  loop = "wait" =>
    /\ ring # <<>> => Announced("write")
    /\ (timers > 0 /\ timeout = "forever") => Announced("announce")
    /\ shutdown => (pipe \/ stopper = "write")

\* The ring never exceeds its capacity although the test for room is made
\* before the mutex is taken, and the threads push under mutex_ one at a time.
OneProducer ==
  /\ Len(ring) <= MaxTriggerEvents
  /\ \A t, u \in Threads : (pc[t] \in {"push", "write"} /\ pc[u] \in {"push", "write"}) => t = u

\* A callback in the ring of a running loop is run, unless the loop is stopped.
CallbacksRun ==
  (ring # <<>> /\ loop # "unstarted") ~> (ring = <<>> \/ loop = "done")

\* A stop requested once the loop runs ends the loop, and the join returns.
StopEndsLoop == (shutdown /\ loop # "unstarted") ~> (stopper = "joined")

=============================================================================
