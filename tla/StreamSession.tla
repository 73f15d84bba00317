---------------------------- MODULE StreamSession ----------------------------
(***************************************************************************)
(* One StreamSession in serial mode: the thread that starts and stops it,  *)
(* its run thread (RunSerial), and the RTSP clients whose connections and  *)
(* disconnections gate the run thread through client_count_ and client_cv_.*)
(*                                                                         *)
(* The notify_all calls are made without client_mutex_, so the mutex never *)
(* excludes anybody and is not modelled; what remains of                   *)
(* condition_variable::wait is that the test of the predicate and the      *)
(* blocking are two steps, and that only a blocked thread is notified.     *)
(***************************************************************************)
EXTENDS Integers, FiniteSets

CONSTANTS Clients,       \* RTSP connections that may ask for the stream
          MaxReconnect,  \* cfg_.max_reconnect
          MaxEarly,      \* bound: clients that come before Start has returned
          MaxGone        \* bound: clients that go without their callback

ASSUME SessionAssumption ==
  /\ IsFiniteSet(Clients) /\ "none" \notin Clients
  /\ {MaxReconnect, MaxEarly, MaxGone} \subseteq Nat

VARIABLES gating,         \* cfg_.enable_client_gating
          reconnect,      \* cfg_.reconnect_on_eof
          running, stop,  \* running_, stop_
          registered,     \* the MediaSession is in the RtspServer
          notified,       \* which of its callbacks have been added
          count,          \* client_count_
          clients,        \* MediaSession::clients_, a socket for each entry
          expired,        \* the entries whose RtpConnection is destroyed
          mapMutex,       \* the client inside AddClient, or "none"
          cpc,            \* where each client's connection is
          owner,          \* where the starting and stopping thread is
          run, ret,       \* where the run thread is; where a wait returns to
          tries,          \* reconnect attempts made
          opened,         \* streamer.IsOpened()
          early,          \* clients that found the session half registered (history)
          gone,           \* clients in the map that went without a callback (history)
          seen            \* a client was there since the last frame (history)

entries == <<clients, expired, gone>>
media   == <<registered, notified, entries, mapMutex, cpc, early>>
runner  == <<run, ret, tries, opened>>
cfg     == <<gating, reconnect>>
vars    == <<gating, reconnect, running, stop, registered, notified, count, clients, expired,
             mapMutex, cpc, owner, run, ret, tries, opened, early, gone, seen>>

Init ==
  /\ gating \in BOOLEAN /\ reconnect \in BOOLEAN
  /\ running = FALSE /\ stop = FALSE
  /\ registered = FALSE /\ notified = {}
  /\ count = 0 /\ clients = {} /\ expired = {} /\ mapMutex = "none"
  /\ cpc = [c \in Clients |-> "out"]
  /\ owner = "new"
  /\ run = "none" /\ ret = "check" /\ tries = 0 /\ opened = FALSE
  /\ early = 0 /\ gone = 0 /\ seen = FALSE

-----------------------------------------------------------------------------
(* Start.                                                                  *)

\* rtsp_server_->AddSession(session): from now on clients find the session.
\* It returns 0 when the suffix is taken, and then Start fails.
StartRegister ==
  /\ owner = "new"
  /\ \/ registered' = TRUE /\ owner' = "registered"
     \/ owner' = "failed" /\ UNCHANGED registered
  /\ UNCHANGED <<running, stop, notified, count, entries, mapMutex, cpc, early, runner>>

\* Mutant: the session starts without its disconnect callback.
AddCallbacksForgotten ==
  /\ owner = "registered"
  /\ notified' = {"connected"}
  /\ owner' = "spawn"
  /\ UNCHANGED <<running, stop, registered, count, entries, mapMutex, cpc, early, runner>>

\* AddNotifyConnectedCallback, then AddNotifyDisconnectedCallback.
AddCallbacks ==
  /\ owner = "registered"
  /\ \/ notified = {} /\ notified' = {"connected"} /\ UNCHANGED owner
     \/ notified = {"connected"} /\ notified' = {"connected", "disconnected"}
        /\ owner' = "spawn"
  /\ UNCHANGED <<running, stop, registered, count, entries, mapMutex, cpc, early, runner>>

\* running_ = true, stop_ = false, and the run thread is created.
StartRun ==
  /\ owner = "spawn"
  /\ running' = TRUE /\ stop' = FALSE
  /\ run' = "open"
  /\ owner' = "up"
  /\ UNCHANGED <<media, count, ret, tries, opened>>

Start == StartRegister \/ AddCallbacks \/ StartRun

-----------------------------------------------------------------------------
(* Stop.                                                                   *)

\* Mutant: stop_ is not set.
StopFlagForgotten ==
  /\ owner = "up"
  /\ owner' = IF running THEN "unset" ELSE "join"
  /\ UNCHANGED <<running, stop, media, count, runner>>

\* if (running_) { stop_ = true; ...: a session that ended by itself is only
\* joined and unregistered.
StopFlag ==
  /\ owner = "up"
  /\ IF running THEN stop' = TRUE /\ owner' = "unset"
                ELSE owner' = "join" /\ UNCHANGED stop
  /\ UNCHANGED <<running, media, count, runner>>

\* running_ = false
StopUnset ==
  /\ owner = "unset"
  /\ running' = FALSE
  /\ owner' = "notify"
  /\ UNCHANGED <<stop, media, count, runner>>

\* client_cv_.notify_all(): wakes the run thread if it is blocked.
NotifyAll == run' = IF run = "blocked" THEN "wait" ELSE run

StopNotify ==
  /\ owner = "notify"
  /\ NotifyAll
  /\ owner' = "join"
  /\ UNCHANGED <<running, stop, media, count, ret, tries, opened>>

\* Mutant: the run thread is not waited for.
StopJoinSkipped ==
  /\ owner = "join"
  /\ owner' = "unregister"
  /\ UNCHANGED <<running, stop, media, count, runner>>

\* run_thread_.join()
StopJoin ==
  /\ owner = "join" /\ run = "done"
  /\ owner' = "unregister"
  /\ UNCHANGED <<running, stop, media, count, runner>>

\* rtsp_server_->RemoveSession; a later Stop finds nothing left to do.
StopUnregister ==
  /\ owner = "unregister"
  /\ registered' = FALSE
  /\ owner' = "stopped"
  /\ UNCHANGED <<running, stop, notified, count, entries, mapMutex, cpc, early, runner>>

Stop == StopUnset \/ StopNotify \/ StopJoin \/ StopUnregister

-----------------------------------------------------------------------------
(* The clients.                                                            *)

\* HandleCmdDescribe: LookMediaSession finds the session in the server, which
\* may be before Start has added the callbacks ...
Look(c) ==
  /\ cpc[c] = "out" /\ registered
  /\ IF owner = "registered" THEN early < MaxEarly /\ early' = early + 1
                             ELSE UNCHANGED early
  /\ cpc' = [cpc EXCEPT ![c] = "found"]
  /\ UNCHANGED <<running, stop, registered, notified, count, entries, mapMutex, owner, runner>>

\* The clients that are in the map and still there.
Live == clients \ expired

\* ... and AddClient, under map_mutex_, enters the client and calls
\* OnClientConnected if that callback is there: client_count_.fetch_add ...  The
\* entry of an earlier connection with this socket is left as it is.
AddClient(c) ==
  /\ cpc[c] = "found" /\ mapMutex = "none"
  /\ clients' = clients \cup {c}
  /\ IF c \notin clients /\ "connected" \in notified
       THEN /\ count' = count + 1
            /\ mapMutex' = c
            /\ cpc' = [cpc EXCEPT ![c] = IF count = 0 THEN "notify" ELSE "leave"]
       ELSE cpc' = [cpc EXCEPT ![c] = "in"] /\ UNCHANGED <<count, mapMutex>>
  /\ UNCHANGED <<running, stop, registered, notified, expired, gone, early, owner, runner>>

\* ... and notify_all if the count was 0.
OnClientConnected(c) ==
  /\ cpc[c] \in {"notify", "leave"}
  /\ IF cpc[c] = "notify" THEN NotifyAll ELSE UNCHANGED run
  /\ cpc' = [cpc EXCEPT ![c] = "in"]
  /\ mapMutex' = "none"
  /\ UNCHANGED <<running, stop, registered, notified, count, entries, early, owner, ret, tries, opened>>

\* OnClose, when session_id_ is this session's and the session is in the server:
\* RemoveClient, which calls OnClientDisconnected for an entry that is alive.
RemoveClient(c) ==
  /\ cpc[c] = "in" /\ mapMutex = "none" /\ registered
  /\ cpc' = [cpc EXCEPT ![c] = "out"]
  /\ clients' = clients \ {c} /\ expired' = expired \ {c}
  /\ count' = IF c \in Live /\ "disconnected" \in notified THEN count - 1 ELSE count
  /\ UNCHANGED <<running, stop, registered, notified, gone, mapMutex, early, owner, runner>>

\* OnClose, when a DESCRIBE of another stream has overwritten session_id_, or the
\* session is no longer in the server: the entry stays, and expires with the
\* connection.
LeaveUnnoticed(c) ==
  /\ cpc[c] = "in"
  /\ cpc' = [cpc EXCEPT ![c] = "out"]
  /\ expired' = expired \cup ({c} \cap clients)
  /\ IF c \in Live THEN gone < MaxGone /\ gone' = gone + 1 ELSE UNCHANGED gone
  /\ UNCHANGED <<running, stop, registered, notified, count, clients, mapMutex, early, owner, runner>>

-----------------------------------------------------------------------------
(* The run thread: RunSerial.                                              *)

\* streamer.Open() at the start; when it fails the session ends at once.
OpenFirst ==
  /\ run = "open"
  /\ \/ run' = "loop" /\ opened' = TRUE /\ UNCHANGED running
     \/ run' = "done" /\ running' = FALSE /\ UNCHANGED opened
  /\ UNCHANGED <<stop, media, count, owner, ret, tries>>

\* while (!stop_), and WaitForClients if gated.
Loop ==
  /\ run = "loop"
  /\ run' = IF stop THEN "close" ELSE IF gating THEN "wait" ELSE "check"
  /\ ret' = "check"
  /\ UNCHANGED <<running, stop, media, count, owner, tries, opened>>

\* Mutant: the wait does not look at the count.
WaitForNobody ==
  /\ run = "wait"
  /\ run' = ret
  /\ UNCHANGED <<running, stop, media, count, owner, ret, tries, opened>>

\* WaitForClients: client_count_.load() > 0 || stop_.load()
WaitForClients ==
  /\ run = "wait"
  /\ run' = IF count > 0 \/ stop THEN ret ELSE "block"
  /\ UNCHANGED <<running, stop, media, count, owner, ret, tries, opened>>

\* The predicate was false: the thread blocks.
Block ==
  /\ run = "block"
  /\ run' = "blocked"
  /\ UNCHANGED <<running, stop, media, count, owner, ret, tries, opened>>

\* A condition variable may wake a thread for no reason.
SpuriousWakeup ==
  /\ run = "blocked"
  /\ run' = "wait"
  /\ UNCHANGED <<running, stop, media, count, owner, ret, tries, opened>>

\* if (stop_) break, or if (!streamer.IsOpened()) break, after the wait.
Check ==
  /\ run = "check"
  /\ run' = IF stop \/ ~opened THEN "close" ELSE "process"
  /\ UNCHANGED <<running, stop, media, count, owner, ret, tries, opened>>

\* streamer.ProcessNextFrame() delivers a frame; if there is a packet, pushing it
\* to the clients erases the expired entries, without a callback ...
ProcessFrame ==
  /\ run = "process"
  /\ run' = "loop"
  /\ \/ UNCHANGED <<clients, expired>>
     \/ mapMutex = "none" /\ clients' = Live /\ expired' = {}
  /\ UNCHANGED <<running, stop, registered, notified, mapMutex, cpc, early, gone, count, owner, ret, tries, opened>>

\* ... or fails: the session ends, or closes the stream to open it again.
ProcessFails ==
  /\ run = "process"
  /\ IF reconnect THEN run' = "retry" /\ opened' = FALSE /\ tries' = 0
                  ELSE run' = "close" /\ UNCHANGED <<opened, tries>>
  /\ UNCHANGED <<running, stop, media, count, owner, ret>>

\* i < max_reconnect && !stop_, the delay, and WaitForClients if gated.
Retry ==
  /\ run = "retry"
  /\ run' = IF tries >= MaxReconnect \/ stop THEN "close"
            ELSE IF gating THEN "wait" ELSE "reopen"
  /\ ret' = "reopen"
  /\ UNCHANGED <<running, stop, media, count, owner, tries, opened>>

\* Mutant: a failed attempt is not counted.
ReopenForever ==
  /\ run = "reopen"
  /\ IF stop
       THEN run' = "close" /\ UNCHANGED <<opened, tries>>
       ELSE \/ run' = "loop" /\ opened' = TRUE /\ UNCHANGED tries
            \/ run' = "retry" /\ UNCHANGED <<opened, tries>>
  /\ UNCHANGED <<running, stop, media, count, owner, ret>>

\* if (stop_) break; streamer.Open(), which succeeds or uses up an attempt.
Reopen ==
  /\ run = "reopen"
  /\ IF stop
       THEN run' = "close" /\ UNCHANGED <<opened, tries>>
       ELSE \/ run' = "loop" /\ opened' = TRUE /\ UNCHANGED tries
            \/ run' = "retry" /\ tries' = tries + 1 /\ UNCHANGED opened
  /\ UNCHANGED <<running, stop, media, count, owner, ret>>

\* streamer.Close()
Close ==
  /\ run = "close"
  /\ opened' = FALSE
  /\ run' = "end"
  /\ UNCHANGED <<running, stop, media, count, owner, ret, tries>>

\* running_ = false, and the thread ends.
End ==
  /\ run = "end"
  /\ running' = FALSE
  /\ run' = "done"
  /\ UNCHANGED <<stop, media, count, owner, ret, tries, opened>>

RunSerial == OpenFirst \/ Loop \/ WaitForClients \/ Block \/ Check \/ ProcessFrame
               \/ ProcessFails \/ Retry \/ Reopen \/ Close \/ End

-----------------------------------------------------------------------------
Client(c) == AddClient(c) \/ OnClientConnected(c)

\* With every step: the configuration stays, and seen is brought up to date.
Always == /\ UNCHANGED cfg
          /\ seen' = IF run = "process" /\ run' # "process" THEN FALSE
                     ELSE seen \/ Live' # {} \/ stop'

Next ==
  /\ \/ Start \/ StopFlag \/ Stop
     \/ RunSerial \/ SpuriousWakeup
     \/ \E c \in Clients : Look(c) \/ Client(c) \/ RemoveClient(c) \/ LeaveUnnoticed(c)
  /\ Always

\* Every thread that can run does; opening and reading the input returns, with
\* one outcome or the other.  Nobody has to come, to leave or to call Stop, and
\* no wakeup is spurious by right.
Spec == /\ Init /\ [][Next]_vars
        /\ WF_vars((Start \/ Stop) /\ Always)
        /\ WF_vars(RunSerial /\ Always)
        /\ \A c \in Clients : WF_vars(Client(c) /\ Always)

-----------------------------------------------------------------------------
(* Properties.                                                             *)

\* Every variable has its type.
TypeOK ==
  /\ {gating, reconnect, running, stop, registered, opened, seen} \subseteq BOOLEAN
  /\ notified \in {{}, {"connected"}, {"connected", "disconnected"}}
  /\ count \in -MaxEarly .. Cardinality(Clients) + MaxEarly + MaxGone
  /\ expired \subseteq clients /\ clients \subseteq Clients /\ mapMutex \in Clients \cup {"none"}
  /\ cpc \in [Clients -> {"out", "found", "notify", "leave", "in"}]
  /\ owner \in {"new", "failed", "registered", "spawn", "up", "unset", "notify",
                "join", "unregister", "stopped"}
  /\ run \in {"none", "open", "loop", "wait", "block", "blocked", "check", "process",
              "retry", "reopen", "close", "end", "done"}
  /\ ret \in {"check", "reopen"}
  /\ tries \in 0 .. MaxReconnect /\ early \in 0 .. MaxEarly /\ gone \in 0 .. MaxGone

\* The step that ends a frame of a gated session, delivered or not.
GatedFrame == gating /\ early = 0 /\ run = "process" /\ run' # "process"

\* With gating, a frame is produced only if some client has been there since
\* the frame before it, or the session is being stopped: once the last client
\* has left, at most the frame already begun is still produced.  (Unless a
\* client came before the callbacks were in place: it is not counted; or went
\* without its callback: it is counted for ever.)
FramesGated == [][GatedFrame /\ gone = 0 => seen]_vars

\* The counter that the callbacks keep without a lock is, whatever the order in
\* which clients come and go, the number of those that are in the session's map
\* and there, and of those that went without a callback: these and no others are
\* never counted down.  (As long as no client came before both callbacks were in
\* place.)
CountExact ==
  (early = 0 /\ registered) => count = Cardinality(Live) + gone

\* When Stop has returned, the run thread has ended, the input is closed and
\* nobody finds the session in the server any more.
StopQuiesces ==
  owner = "stopped" => run = "done" /\ ~running /\ ~opened /\ ~registered

\* Without gating, Stop returns: the run thread ends once stop_ is set, be it
\* processing frames or trying to reconnect.
StopReturns == (owner = "unset" /\ ~gating) ~> (owner = "stopped")

\* Without gating, an input that was lost is opened again or the session ends.
ReconnectEnds == (run = "retry" /\ ~gating) ~> (opened \/ run = "done")

\* Without gating, neither Stop nor the loss of the input leaves the run thread
\* going round (StreamSession.cpp:126-158, 302-351).
RunEnds == StopReturns /\ ReconnectEnds

\* The comment in Stop, "Wake pipeline thread from WaitForClients() so it can
\* check stop_ and exit": a blocked run thread goes on when stop_ is set.
StopWakes == (run = "blocked" /\ stop) ~> (run # "blocked")
=============================================================================
