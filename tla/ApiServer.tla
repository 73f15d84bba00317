----------------------------- MODULE ApiServer -----------------------------
(***************************************************************************)
(* The HTTP API of the program: main, which registers its own session and  *)
(* at the end takes everything down in order; the two threads of the HTTP  *)
(* server, which create, remove and reconfigure sessions and use the face  *)
(* components of main's session; and the run threads of the sessions with  *)
(* their effect plugins and main's subscription to the frames.             *)
(*                                                                         *)
(* Sessions and plugins are numbered in the order in which they are made;  *)
(* both are shared_ptrs, so that the last holder destroys them.  All       *)
(* sessions wait for clients, as they do by default.  HTTP parsing and     *)
(* JSON are external; so are the RtspServer and the EventLoop, but for     *)
(* when they are used and destroyed.                                       *)
(***************************************************************************)
EXTENDS Integers, FiniteSets

CONSTANTS Handlers,     \* threads of the HTTP server's pool
          MaxSessions,  \* sessions created, main's included (model bound)
          MaxPlugins    \* plugins created (model bound)

\* What the constants are.
ApiConstants ==
  /\ IsFiniteSet(Handlers) /\ "none" \notin Handlers
  /\ MaxSessions \in Nat \ {0} /\ MaxPlugins \in Nat \ {0}

VARIABLES mainPc,      \* where main is
          listen,      \* the server thread: "starting", "listening", "ended", "joined"
          apiRunning,  \* running_ of the StreamApiServer
          stopSeen,    \* svr.stop() found the server listening
          mutex,       \* holder of mutex_, or "none"
          subscribed,  \* main's subscriber is in the bus
          lastId,      \* next_id_ - 1
          sessions,    \* ids in sessions_
          state,       \* "none", "refused" by Start, "up", "gone"
          stop,        \* stop_ of each session
          run,         \* its run thread: "none", "loop", "gate", "block", "sleep", "frame",
                       \* "publish", "push", "done"
          missed,      \* sessions whose run thread Stop's notify_all has missed (history)
          chain,       \* plugins in its effect_chain_
          plugin,      \* its face_plugin_, 0 for none
          plugins,     \* plugins created
          apiPlugin,   \* the plugin whose database and recognizer the server uses, or 0
          mainPlugin,  \* main's own reference to it
          pc, hold, fresh \* per handler: where it is, the session and plugin it holds

Ids == 1 .. MaxSessions

registry == <<mutex, lastId, sessions>>
session  == <<state, stop, run, missed, chain, plugin, plugins>>
main     == <<mainPc, listen, apiRunning, stopSeen, subscribed, apiPlugin, mainPlugin>>
handler  == <<pc, hold, fresh>>
vars     == <<registry, session, main, handler>>

\* main up to the loop that waits for the end; without a plugin, or if it
\* cannot be opened, the API has no database.
Init ==
  /\ mainPc = "wait" /\ listen = "starting" /\ apiRunning = TRUE /\ stopSeen = FALSE
  /\ mutex = "none" /\ subscribed = TRUE
  /\ lastId = 1 /\ sessions = {1}
  /\ state = [s \in Ids |-> IF s = 1 THEN "up" ELSE "none"]
  /\ stop = [s \in Ids |-> FALSE]
  /\ run = [s \in Ids |-> IF s = 1 THEN "loop" ELSE "none"]
  /\ missed = {}
  /\ plugins \in 0 .. 1
  /\ chain = [s \in Ids |-> IF s = 1 THEN 1 .. plugins ELSE {}]
  /\ plugin = [s \in Ids |-> IF s = 1 THEN plugins ELSE 0]
  /\ apiPlugin = plugins /\ mainPlugin = plugins
  /\ pc = [h \in Handlers |-> "idle"] /\ hold = [h \in Handlers |-> 0] /\ fresh = [h \in Handlers |-> 0]

\* Who keeps plugin p.
PluginAlive(p) ==
  \/ mainPlugin = p
  \/ \E s \in Ids : state[s] # "gone" /\ (p \in chain[s] \/ plugin[s] = p)
  \/ \E h \in Handlers : fresh[h] = p

-----------------------------------------------------------------------------
(* The run thread of a session.                                            *)

Runs(s, to) ==
  /\ run' = [run EXCEPT ![s] = to]
  /\ UNCHANGED <<registry, state, stop, missed, chain, plugin, plugins, main, handler>>

\* The input cannot be opened, or the loop begins again.
RunLoop(s) ==
  /\ run[s] = "loop"
  /\ \/ Runs(s, "done")
     \/ ~stop[s] /\ Runs(s, "gate")

\* Without a plugin main's session has no frame callback, and what those of
\* other sessions do with a frame changes nothing here.
NextFrame(s) == IF s = 1 /\ apiPlugin # 0 THEN "frame" ELSE "push"

\* WaitForClients tests its predicate, then blocks; without a client and not
\* told to stop.  Afterwards the input may have ended.
WaitForClients(s) ==
  \/ /\ run[s] = "gate"
     /\ IF stop[s] THEN Runs(s, "done")
        ELSE \E to \in {"block", "done", NextFrame(s)} : Runs(s, to)
  \/ run[s] = "block" /\ Runs(s, "sleep")

\* WritePacket pushes the frame through rtsp_server_.
WritePacket(s) == run[s] = "push" /\ Runs(s, "loop")

\* mutex_ of the EventBus of main's session: a Publish has it while it calls
\* main's subscriber.
BusMutex == run[1] = "publish"

\* ProcessFrame has gone through the chain; Publish finds main's subscriber if
\* it is still there.
ProcessFrame ==
  /\ run[1] = "frame"
  /\ Runs(1, IF subscribed THEN "publish" ELSE "push")

\* UpdateResult, and AddEvent, which returns at once because main's subscriber
\* gives it no faces; the mutex of the bus is given back.
UpdateResult ==
  /\ run[1] = "publish"
  /\ Runs(1, "push")

Runner(s) ==
  RunLoop(s) \/ WaitForClients(s) \/ WritePacket(s) \/ (s = 1 /\ (ProcessFrame \/ UpdateResult))

\* The RtspServer and the EventLoop are gone.
ServersGone == mainPc \in {"destroy", "done", "terminated"}

\* OnClientConnected, of the first client, notifies.
ClientComes(s) == run[s] = "sleep" /\ ~ServersGone /\ Runs(s, "gate")

-----------------------------------------------------------------------------
(* The handlers.                                                           *)

\* The threads of the pool take requests as long as the server listens.
Accepts(h) == listen = "listening" /\ ~stopSeen /\ pc[h] = "idle"

\* POST and DELETE /api/faces use the pointers main has given; 503 without.
UseFaces(h) ==
  /\ \/ Accepts(h) /\ apiPlugin # 0 /\ pc' = [pc EXCEPT ![h] = "faces"]
     \/ pc[h] = "faces" /\ pc' = [pc EXCEPT ![h] = "idle"]
  /\ UNCHANGED <<registry, session, main, hold, fresh>>

\* Mutant: next_id_ is not advanced.
NumberedAgain == UNCHANGED lastId

Numbered == lastId' = lastId + 1

\* POST /api/v1/sessions: CreateSession under mutex_.  Start refuses a session
\* whose suffix is that of one that is up; it is registered like any other.
CreateSession(h) ==
  /\ Accepts(h) /\ mutex = "none" /\ lastId < MaxSessions
  /\ Numbered /\ sessions' = sessions \cup {lastId + 1}
  /\ \/ /\ \E s \in Ids : state[s] = "up"
        /\ state' = [state EXCEPT ![lastId + 1] = "refused"]
        /\ UNCHANGED <<run, chain, plugin, plugins>>
     \/ /\ state' = [state EXCEPT ![lastId + 1] = "up"]
        /\ run' = [run EXCEPT ![lastId + 1] = "loop"]
        /\ \/ UNCHANGED <<chain, plugin, plugins>>
           \/ /\ plugins < MaxPlugins
              /\ plugins' = plugins + 1
              /\ chain' = [chain EXCEPT ![lastId + 1] = {plugins + 1}]
              /\ plugin' = [plugin EXCEPT ![lastId + 1] = plugins + 1]
  /\ UNCHANGED <<mutex, stop, missed, main, handler>>

\* DELETE /api/v1/sessions/{id}: RemoveSession, under mutex_.  When it was the
\* last reference the session is destroyed before mutex_ is given back.
RemoveSession(h, s) ==
  /\ Accepts(h) /\ mutex = "none" /\ s \in sessions
  /\ sessions' = sessions \ {s}
  /\ IF (s = 1 /\ mainPc # "done") \/ \E x \in Handlers : hold[x] = s
     THEN UNCHANGED <<mutex, pc, hold>>
     ELSE mutex' = h /\ pc' = [pc EXCEPT ![h] = "destroy"] /\ hold' = [hold EXCEPT ![h] = s]
  /\ UNCHANGED <<lastId, session, main, fresh>>

\* GET /api/v1/sessions/{id}: GetSessionStatus waits for mutex_, ...
AskStatus(h) ==
  /\ Accepts(h)
  /\ pc' = [pc EXCEPT ![h] = "status"]
  /\ UNCHANGED <<registry, session, main, hold, fresh>>

\* ... looks the session up, and says so when there is none, ...
GetSessionStatus(h) ==
  /\ pc[h] = "status" /\ mutex = "none"
  /\ \E s \in Ids :
       IF s \in sessions
       THEN mutex' = h /\ pc' = [pc EXCEPT ![h] = "reading"] /\ hold' = [hold EXCEPT ![h] = s]
       ELSE pc' = [pc EXCEPT ![h] = "idle"] /\ UNCHANGED <<mutex, hold>>
  /\ UNCHANGED <<lastId, sessions, session, main, fresh>>

\* ... and has mutex_ while GetStatus reads what is pointed to by rtsp_server_
\* and event_loop_, which Stop resets.
GetStatus(h) ==
  /\ pc[h] = "reading"
  /\ mutex' = "none" /\ pc' = [pc EXCEPT ![h] = "idle"] /\ hold' = [hold EXCEPT ![h] = 0]
  /\ UNCHANGED <<lastId, sessions, session, main, fresh>>

\* GetSession, for PUT .../effects; 404 without.
GetSession(h, s) ==
  /\ Accepts(h) /\ mutex = "none" /\ s \in sessions
  /\ hold' = [hold EXCEPT ![h] = s] /\ pc' = [pc EXCEPT ![h] = "clear"]
  /\ UNCHANGED <<registry, session, main, fresh>>

\* UpdateEffects: the chain is emptied and face_plugin_ reset, without a lock;
\* a new plugin is created and opened, which may fail; it is put in.
UpdateEffects(h) ==
  LET s == hold[h]
  IN \/ /\ pc[h] = "clear"
        /\ chain' = [chain EXCEPT ![s] = {}] /\ plugin' = [plugin EXCEPT ![s] = 0]
        /\ \/ pc' = [pc EXCEPT ![h] = "release"] /\ UNCHANGED <<plugins, fresh>>
           \/ /\ plugins < MaxPlugins
              /\ plugins' = plugins + 1 /\ fresh' = [fresh EXCEPT ![h] = plugins + 1]
              /\ pc' = [pc EXCEPT ![h] = "add"]
        /\ UNCHANGED <<registry, state, stop, run, missed, main, hold>>
     \/ /\ pc[h] = "add"
        /\ plugin' = [plugin EXCEPT ![s] = fresh[h]]
        /\ chain' = [chain EXCEPT ![s] = @ \cup {fresh[h]}]
        /\ fresh' = [fresh EXCEPT ![h] = 0]
        /\ pc' = [pc EXCEPT ![h] = "release"]
        /\ UNCHANGED <<registry, state, stop, run, missed, plugins, main, hold>>

\* The handler's shared_ptr goes; it may have been the last.
Release(h) ==
  /\ pc[h] = "release"
  /\ LET s == hold[h]
     IN IF s \in sessions \/ s = 1 \/ \E x \in Handlers \ {h} : hold[x] = s
        THEN pc' = [pc EXCEPT ![h] = "idle"] /\ hold' = [hold EXCEPT ![h] = 0]
        ELSE pc' = [pc EXCEPT ![h] = "destroy"] /\ UNCHANGED hold
  /\ UNCHANGED <<registry, session, main, fresh>>

\* Mutant: the destructor of StreamSession does not call Stop before it joins.
DestroyUnstopped(s) == UNCHANGED <<stop, run, missed>>

\* ~StreamSession calls Stop: stop_, and notify_all, which does not reach a run
\* thread that has tested the predicate and not blocked yet ...
Destroy(s) ==
  /\ stop' = [stop EXCEPT ![s] = TRUE]
  /\ run' = [run EXCEPT ![s] = IF @ = "sleep" THEN "gate" ELSE @]
  /\ missed' = IF run[s] = "block" THEN missed \cup {s} ELSE missed

DestroyStart(h) ==
  /\ pc[h] = "destroy"
  /\ Destroy(hold[h])
  /\ pc' = [pc EXCEPT ![h] = "join"]
  /\ UNCHANGED <<registry, state, chain, plugin, plugins, main, hold, fresh>>

\* ... the run thread is joined, the session unregistered through rtsp_server_
\* and its plugin closed.
Gone(s) ==
  /\ run[s] \in {"none", "done"}
  /\ state' = [state EXCEPT ![s] = "gone"]
  /\ chain' = [chain EXCEPT ![s] = {}] /\ plugin' = [plugin EXCEPT ![s] = 0]

DestroyJoin(h) ==
  /\ pc[h] = "join"
  /\ Gone(hold[h])
  /\ mutex' = IF mutex = h THEN "none" ELSE mutex
  /\ pc' = [pc EXCEPT ![h] = "idle"] /\ hold' = [hold EXCEPT ![h] = 0]
  /\ UNCHANGED <<lastId, sessions, stop, run, missed, plugins, main, fresh>>

\* The steps of a request once it has begun.
Continue(h) ==
  \/ pc[h] = "faces" /\ UseFaces(h)
  \/ GetSessionStatus(h) \/ GetStatus(h)
  \/ UpdateEffects(h) \/ Release(h) \/ DestroyStart(h) \/ DestroyJoin(h)

Begin(h) ==
  \/ pc[h] = "idle" /\ UseFaces(h)
  \/ AskStatus(h)
  \/ CreateSession(h)
  \/ \E s \in Ids : RemoveSession(h, s) \/ GetSession(h, s)

-----------------------------------------------------------------------------
(* The server thread and main.                                             *)

\* listen binds the port, or returns at once when it cannot; after stop() it
\* returns when the pool has finished its requests.  Then running_ = false.
Listen ==
  /\ \/ listen = "starting" /\ listen' = "listening" /\ UNCHANGED apiRunning
     \/ listen = "starting" /\ listen' = "ended" /\ apiRunning' = FALSE
     \/ listen = "listening" /\ stopSeen /\ (\A h \in Handlers : pc[h] = "idle")
        /\ listen' = "ended" /\ apiRunning' = FALSE
  /\ UNCHANGED <<registry, session, mainPc, stopSeen, subscribed, apiPlugin, mainPlugin, handler>>

\* A signal, or the session is not running any more.
MainLeaves ==
  /\ mainPc = "wait" /\ mainPc' = "unsubscribe"
  /\ UNCHANGED <<registry, session, listen, apiRunning, stopSeen, subscribed, apiPlugin, mainPlugin, handler>>

\* Mutant: Stop does not wait for the server thread.
JoinApiAtOnce ==
  /\ mainPc = "join"
  /\ mainPc' = "session" /\ UNCHANGED listen
  /\ UNCHANGED <<registry, session, apiRunning, stopSeen, subscribed, apiPlugin, mainPlugin, handler>>

\* Mutant: Unsubscribe does not wait for a Publish.
UnsubscribeAtOnce ==
  /\ mainPc = "unsubscribe"
  /\ subscribed' = FALSE /\ mainPc' = "stop"
  /\ UNCHANGED <<registry, session, listen, apiRunning, stopSeen, apiPlugin, mainPlugin, handler>>

\* Unsubscribe, under the mutex of the bus.
Unsubscribe ==
  /\ mainPc = "unsubscribe" /\ ~BusMutex
  /\ subscribed' = FALSE /\ mainPc' = "stop"
  /\ UNCHANGED <<registry, session, listen, apiRunning, stopSeen, apiPlugin, mainPlugin, handler>>

\* StreamApiServer::Stop: nothing when not running; svr.stop() has no effect
\* on a server that does not listen yet.
StopApi ==
  /\ mainPc = "stop"
  /\ mainPc' = IF apiRunning THEN "join" ELSE "session"
  /\ stopSeen' = (apiRunning /\ listen = "listening")
  /\ UNCHANGED <<registry, session, listen, apiRunning, subscribed, apiPlugin, mainPlugin, handler>>

JoinApi ==
  /\ mainPc = "join" /\ listen = "ended"
  /\ mainPc' = "session" /\ listen' = "joined"
  /\ UNCHANGED <<registry, session, apiRunning, stopSeen, subscribed, apiPlugin, mainPlugin, handler>>

\* session->Stop.
StopSession ==
  /\ \/ /\ mainPc = "session" /\ mainPc' = "joinRun"
        /\ Destroy(1) /\ UNCHANGED <<state, chain, plugin>>
     \/ /\ mainPc = "joinRun" /\ mainPc' = "server"
        /\ Gone(1) /\ UNCHANGED <<stop, run, missed>>
  /\ UNCHANGED <<registry, plugins, listen, apiRunning, stopSeen, subscribed, apiPlugin,
                 mainPlugin, handler>>

\* server.Stop destroys the RtspServer and the EventLoop, whoever refers to them;
\* or it waits for ever for a connection, as module TcpServer shows.
StopServer ==
  /\ mainPc = "server" /\ mainPc' \in {"destroy", "stuck"}
  /\ UNCHANGED <<registry, session, listen, apiRunning, stopSeen, subscribed, apiPlugin, mainPlugin, handler>>

\* main returns: the StreamApiServer is destroyed with the sessions in its
\* registry, then main's plugin.  A server thread that was never joined ends
\* the process.
MainReturns ==
  \/ /\ mainPc = "destroy" /\ listen # "joined"
     /\ mainPc' = "terminated"
     /\ UNCHANGED <<registry, session, listen, apiRunning, stopSeen, subscribed, apiPlugin, mainPlugin, handler>>
  \/ /\ mainPc = "destroy" /\ listen = "joined"
     /\ \/ /\ sessions = {} /\ mainPc' = "done" /\ mainPlugin' = 0
           /\ UNCHANGED <<sessions, stop, run, missed, state, chain, plugin>>
        \/ \E s \in sessions :
             /\ IF s = 1 \/ (stop[s] /\ run[s] \in {"none", "done"})
                THEN /\ sessions' = sessions \ {s}
                     /\ Gone(s) /\ UNCHANGED <<stop, run, missed>>
                ELSE ~stop[s] /\ Destroy(s) /\ UNCHANGED <<sessions, state, chain, plugin>>
             /\ UNCHANGED <<mainPc, mainPlugin>>
     /\ UNCHANGED <<mutex, lastId, plugins, listen, apiRunning, stopSeen,
                    subscribed, apiPlugin, handler>>

Main == Unsubscribe \/ StopApi \/ JoinApi \/ StopSession \/ StopServer \/ MainReturns

Next ==
  \/ MainLeaves \/ Main \/ Listen
  \/ \E s \in Ids : Runner(s) \/ ClientComes(s)
  \/ \E h \in Handlers : Begin(h) \/ Continue(h)

Spec == Init /\ [][Next]_vars

-----------------------------------------------------------------------------

Plugins == 0 .. MaxPlugins

\* Every variable has its type, and a session that is up has its run thread.
TypeOK ==
  /\ sessions \subseteq 1 .. lastId /\ lastId \in Ids
  /\ state \in [Ids -> {"none", "refused", "up", "gone"}]
  /\ run \in [Ids -> {"none", "loop", "gate", "block", "sleep", "frame", "publish", "push", "done"}]
  /\ missed \subseteq Ids
  /\ chain \in [Ids -> SUBSET Plugins] /\ plugin \in [Ids -> Plugins] /\ plugins \in Plugins
  /\ pc \in [Handlers -> {"idle", "faces", "status", "reading", "clear", "add", "release", "destroy", "join"}]
  /\ hold \in [Handlers -> {0} \cup Ids] /\ fresh \in [Handlers -> Plugins]
  /\ mutex \in Handlers \cup {"none"}
  /\ \A s \in Ids : state[s] = "up" => run[s] # "none"

\* The raw pointers outlive their users, whoever replaces plugins and in
\* whatever order main takes things down: the face components while a handler
\* uses them (FaceRecognitionPlugin.h:59-63); main's subscriber, with its
\* reference to the StreamApiServer, not after Unsubscribe (EventBus.h:25-39);
\* rtsp_server_ and event_loop_ of a session while its status is read, which
\* tests and uses them without a lock (StreamSession.cpp:177, 202-205); and when
\* main has called server.Stop, whether it returns or not, no request is being
\* handled and main's session has ended (main.cpp:196-199), so that nobody but
\* the sessions made through the API is left to use the servers.
PointersOutlive ==
  /\ \A h \in Handlers : pc[h] = "faces" => PluginAlive(apiPlugin)
  /\ BusMutex => mainPc \in {"wait", "unsubscribe"}
  /\ \A h \in Handlers : pc[h] = "reading" => ~stop[hold[h]] /\ state[hold[h]] # "gone"
  /\ ServersGone \/ mainPc = "stuck" => run[1] = "done" /\ \A h \in Handlers : pc[h] = "idle"

\* Who joins the run thread of session s: the handler that destroys it, or main.
Joined(s) ==
  \/ s = 1 /\ mainPc = "joinRun"
  \/ \E h \in Handlers : pc[h] = "join" /\ hold[h] = s

\* Nobody waits in a circle, though RemoveSession joins a run thread while it has
\* mutex_ (StreamApiServer.cpp:596) and main at its end the thread of a session
\* that was gated all the while: who has mutex_ waits for nothing but a run thread;
\* and a run thread that is joined has been told to stop and does not wait for
\* clients, unless the notify_all of that Stop missed it (StreamSession.cpp:132,
\* 257), of which StopWakes in StreamSession shows that it may happen.
JoinedAreTold ==
  /\ mutex # "none" => pc[mutex] \in {"reading", "destroy", "join"}
  /\ \A s \in Ids : Joined(s) => stop[s] /\ (run[s] \in {"block", "sleep"} => s \in missed)

=============================================================================
