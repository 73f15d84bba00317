---------------------------- MODULE PartsProofs ----------------------------
(***************************************************************************)
(* Theorems about the parts of the process: main and its HTTP server, the  *)
(* streamer, the face library, the LatencyTracer and the media sources,    *)
(* each with an invariant of its own variables.  A step of the process is  *)
(* one of a single part, so that each invariant is kept by the steps of    *)
(* its part and left alone by the others (ApiSteps, StrSteps, ...).        *)
(***************************************************************************)
EXTENDS Parts, SequenceTheorems, FiniteSetTheorems, TLAPS

-----------------------------------------------------------------------------
(* The HTTP API and main.                                                  *)

\* Where a run thread is.
RunStates == {"none", "loop", "gate", "block", "sleep", "frame", "publish", "push", "done"}

\* What main and the handlers are at, and the state of each session.
ApiTypes ==
  /\ lastId \in Api!Ids /\ sessions \subseteq 1 .. lastId
  /\ state \in [Api!Ids -> {"none", "refused", "up", "gone"}]
  /\ stop \in [Api!Ids -> BOOLEAN]
  /\ run \in [Api!Ids -> RunStates] /\ missed \subseteq Api!Ids
  /\ chain \in [Api!Ids -> SUBSET Api!Plugins] /\ plugin \in [Api!Ids -> Api!Plugins]
  /\ plugins \in Api!Plugins
  /\ pc \in [Handlers -> {"idle", "faces", "status", "reading", "clear", "add", "release", "destroy", "join"}]
  /\ hold \in [Handlers -> {0} \cup Api!Ids] /\ fresh \in [Handlers -> Api!Plugins]
  /\ mutex \in Handlers \cup {"none"}
  /\ mainPc \in {"wait", "unsubscribe", "stop", "join", "session", "joinRun", "server", "stuck", "destroy",
               "terminated", "done"}
  /\ listen \in {"starting", "listening", "ended", "joined"}
  /\ apiRunning \in BOOLEAN
  /\ \A s \in Api!Ids : state[s] = "up" => run[s] # "none"
  /\ \A h \in Handlers : pc[h] \in {"clear", "add", "release", "destroy", "join"} => hold[h] \in Api!Ids

\* Requests are handled while the server listens; main takes its own session
\* down when it does not listen any more, and is done when it has joined it.
Serving ==
  /\ listen # "listening" => \A h \in Handlers : pc[h] = "idle"
  /\ ~apiRunning => listen \in {"ended", "joined"}
  /\ mainPc \in {"session", "joinRun", "server", "stuck", "destroy", "terminated", "done"}
       => listen \in {"ended", "joined"}
  /\ mainPc = "done" => listen = "joined"

\* main gives its reference to the face components back when it is done, its
\* subscriber is there for whoever publishes, and it has joined its session's
\* run thread when it stops the servers.
References ==
  /\ mainPc # "done" => mainPlugin = apiPlugin
  /\ subscribed => mainPc \in {"wait", "unsubscribe"}
  /\ run[1] = "publish" => subscribed
  /\ run[1] # "none"
  /\ mainPc \in {"server", "stuck", "destroy", "terminated", "done"} => run[1] = "done"

\* A session whose status is read is registered and mutex_ is the reader's; a
\* session leaves the registry before a handler stops it.
Registered ==
  /\ \A h \in Handlers : /\ hold[h] <= lastId
                         /\ pc[h] \in {"destroy", "join"} => hold[h] \notin sessions
                         /\ pc[h] = "reading" => mutex = h /\ hold[h] \in sessions
  /\ \A s \in Api!Ids : stop[s] => s <= lastId
  /\ \A s \in sessions : listen \in {"starting", "listening"} => ~stop[s] /\ state[s] # "gone"

\* A run thread that has been told to stop does not wait for clients unless it was
\* missed; who joins has told it; who has mutex_ reads a status or destroys.
Told ==
  /\ \A s \in Api!Ids : stop[s] /\ run[s] \in {"block", "sleep"} => s \in missed
  /\ mainPc = "joinRun" => stop[1]
  /\ \A h \in Handlers : pc[h] = "join" => stop[hold[h]]
  /\ \A h \in Handlers : mutex = h => pc[h] \in {"reading", "destroy", "join"}

ApiInv == ApiTypes /\ Serving /\ References /\ Registered /\ Told

\* The numbers of the sessions and plugins.
LEMMA ApiNumbers ==
  /\ MaxSessions \in Nat /\ MaxSessions > 0 /\ MaxPlugins \in Nat /\ MaxPlugins > 0 /\ "none" \notin Handlers
  /\ 1 \in Api!Ids
  /\ \A s : s \in Api!Ids <=> s \in Int /\ 1 <= s /\ s <= MaxSessions
  /\ \A p : p \in Api!Plugins <=> p \in Int /\ 0 <= p /\ p <= MaxPlugins
BY PartsAssumption DEF Api!ApiConstants, Api!Ids, Api!Plugins

\* At first there is main's session and no request.
LEMMA ApiInit == Init => ApiInv
<1> SUFFICES ASSUME Api!Init PROVE ApiInv
  BY DEF Init
<1>1. ApiTypes
  <2>1. plugins \in Api!Plugins /\ 1 .. plugins \in SUBSET Api!Plugins /\ {} \in SUBSET Api!Plugins /\ 0 \in Api!Plugins
    <3>1. plugins \in Int /\ 0 <= plugins /\ plugins <= 1
      BY DEF Api!Init
    <3>2. \A p \in 1 .. plugins : p \in Api!Plugins
      BY <3>1, ApiNumbers
    <3> QED BY <3>1, <3>2, ApiNumbers
  <2>2. lastId \in Api!Ids /\ sessions \subseteq 1 .. lastId
    BY ApiNumbers DEF Api!Init
  <2>3. chain \in [Api!Ids -> SUBSET Api!Plugins] /\ plugin \in [Api!Ids -> Api!Plugins]
    BY <2>1 DEF Api!Init
  <2> QED BY <2>1, <2>2, <2>3 DEF Api!Init, ApiTypes, RunStates
<1>2. Serving /\ References
  BY ApiNumbers DEF Api!Init, Serving, References
<1>3. Registered
  BY ApiNumbers DEF Api!Init, Registered
<1>4. Told
  BY ApiNumbers DEF Api!Init, Told
<1> QED BY <1>1, <1>2, <1>3, <1>4 DEF ApiInv

\* A run thread moves on and nothing else changes; it publishes only if main's
\* subscriber is there, and moves only before it has ended.
LEMMA RunsOn ==
  ASSUME NEW s \in Api!Ids, Api!Runner(s) \/ Api!ClientComes(s)
  PROVE  \E to \in RunStates \ {"none"}, x \in Api!Ids :
           Api!Runs(x, to) /\ run[x] # "done" /\ (to = "publish" => x = 1 /\ subscribed)
<1>1. CASE Api!RunLoop(s)
  BY <1>1 DEF Api!RunLoop, RunStates
<1>2. CASE Api!WaitForClients(s)
  BY <1>2 DEF Api!WaitForClients, Api!NextFrame, RunStates
<1>3. CASE Api!WritePacket(s) \/ Api!ClientComes(s)
  BY <1>3 DEF Api!WritePacket, Api!ClientComes, RunStates
<1>4. CASE s = 1 /\ Api!ProcessFrame
  BY <1>4 DEF Api!ProcessFrame, RunStates
<1>5. CASE s = 1 /\ Api!UpdateResult
  BY <1>5 DEF Api!UpdateResult, RunStates
<1> QED BY <1>1, <1>2, <1>3, <1>4, <1>5 DEF Api!Runner

\* Every variable keeps its type.
LEMMA ApiTypesKept == ApiTypes /\ Api!Next => ApiTypes'
<1> SUFFICES ASSUME ApiTypes, Api!Next PROVE ApiTypes'
  OBVIOUS
<1> USE ApiNumbers DEF ApiTypes, Api!registry, Api!session, Api!main, Api!handler
<1>1. CASE Api!MainLeaves \/ Api!Unsubscribe \/ Api!StopApi \/ Api!JoinApi \/ Api!StopServer
  BY <1>1 DEF Api!MainLeaves, Api!Unsubscribe, Api!StopApi, Api!JoinApi, Api!StopServer
<1>2. ASSUME NEW s, Api!Gone(s)
      PROVE  /\ state' \in [Api!Ids -> {"none", "refused", "up", "gone"}]
             /\ chain' \in [Api!Ids -> SUBSET Api!Plugins] /\ plugin' \in [Api!Ids -> Api!Plugins]
             /\ \A x \in Api!Ids : state'[x] = "up" => state[x] = "up"
  <2>1. 0 \in Api!Plugins /\ {} \in SUBSET Api!Plugins
    OBVIOUS
  <2>2. state' = [state EXCEPT ![s] = "gone"] /\ chain' = [chain EXCEPT ![s] = {}] /\ plugin' = [plugin EXCEPT ![s] = 0]
    BY <1>2 DEF Api!Gone
  <2>3. state' \in [Api!Ids -> {"none", "refused", "up", "gone"}] /\ \A x \in Api!Ids : state'[x] = "up" => state[x] = "up"
    BY <2>2
  <2>4. chain' \in [Api!Ids -> SUBSET Api!Plugins] /\ plugin' \in [Api!Ids -> Api!Plugins]
    BY <2>1, <2>2
  <2> QED BY <2>3, <2>4
<1>3. ASSUME NEW s \in Api!Ids, Api!Destroy(s)
      PROVE  /\ stop' \in [Api!Ids -> BOOLEAN]
             /\ run' \in [Api!Ids -> RunStates] /\ missed' \subseteq Api!Ids
             /\ \A x \in Api!Ids : run[x] # "none" => run'[x] # "none"
  BY <1>3 DEF Api!Destroy, RunStates
<1>4. CASE Api!StopSession
  BY <1>2, <1>3, <1>4 DEF Api!StopSession
<1>5. CASE Api!MainReturns
  <2>1. /\ UNCHANGED <<lastId, plugins, pc, hold, fresh, mutex, listen, apiRunning>>
        /\ mainPc' \in {mainPc, "terminated", "done"}
    BY <1>5 DEF Api!MainReturns
  <2>2. /\ sessions' \subseteq sessions
        /\ stop' \in [Api!Ids -> BOOLEAN]
        /\ run' \in [Api!Ids -> RunStates] /\ missed' \subseteq Api!Ids
        /\ \A x \in Api!Ids : run[x] # "none" => run'[x] # "none"
    <3>1. sessions \subseteq Api!Ids
      OBVIOUS
    <3>2. CASE UNCHANGED <<stop, run, missed>>
      BY <1>5, <3>2 DEF Api!MainReturns
    <3>3. CASE \E x \in sessions : Api!Destroy(x)
      BY <1>3, <1>5, <3>1, <3>3 DEF Api!MainReturns
    <3> QED BY <1>5, <3>2, <3>3 DEF Api!MainReturns
  <2>3. /\ state' \in [Api!Ids -> {"none", "refused", "up", "gone"}]
        /\ chain' \in [Api!Ids -> SUBSET Api!Plugins] /\ plugin' \in [Api!Ids -> Api!Plugins]
        /\ \A x \in Api!Ids : state'[x] = "up" => state[x] = "up"
    BY <1>2, <1>5 DEF Api!MainReturns
  <2> QED BY <2>1, <2>2, <2>3
<1>6. CASE Api!Listen
  BY <1>6 DEF Api!Listen
<1>7. ASSUME NEW s \in Api!Ids, Api!Runner(s) \/ Api!ClientComes(s) PROVE ApiTypes'
  <2>1. PICK to \in RunStates \ {"none"}, x \in Api!Ids : Api!Runs(x, to)
    BY <1>7, RunsOn
  <2>2. UNCHANGED <<lastId, sessions, state, stop, missed, chain, plugin, plugins, pc, hold, fresh, mutex,
                    mainPc, listen, apiRunning>>
    BY <2>1 DEF Api!Runs
  <2>3. /\ run' \in [Api!Ids -> RunStates]
        /\ \A y \in Api!Ids : run'[y] = "none" => run[y] = "none"
    BY <2>1 DEF Api!Runs
  <2> QED BY <2>2, <2>3
<1>8. ASSUME NEW h \in Handlers, Api!Begin(h) \/ Api!Continue(h) PROVE ApiTypes'
  <2>1. CASE Api!UseFaces(h) \/ Api!AskStatus(h) \/ Api!GetStatus(h)
    BY ZenonT(30), <2>1 DEF Api!UseFaces, Api!AskStatus, Api!GetStatus
  <2>2. CASE Api!CreateSession(h)
    <3>1. lastId + 1 \in Api!Ids /\ lastId' = lastId + 1 /\ sessions' \subseteq 1 .. lastId'
      <4>1. lastId < MaxSessions /\ lastId' = lastId + 1 /\ sessions' = sessions \cup {lastId + 1}
        BY <2>2 DEF Api!CreateSession, Api!Numbered
      <4>2. lastId \in Int /\ 1 <= lastId /\ \A s \in sessions : s \in 1 .. lastId
        OBVIOUS
      <4>3. \A s \in sessions' : s \in 1 .. lastId + 1
        BY <4>1, <4>2
      <4> QED BY <4>1, <4>2, <4>3
    <3>2. UNCHANGED <<mutex, stop, missed, mainPc, listen, apiRunning, pc, hold, fresh>>
      BY <2>2 DEF Api!CreateSession
    <3>3. CASE state' = [state EXCEPT ![lastId + 1] = "refused"] /\ UNCHANGED <<run, chain, plugin, plugins>>
      BY <3>1, <3>2, <3>3
    <3>4. CASE /\ state' = [state EXCEPT ![lastId + 1] = "up"]
               /\ run' = [run EXCEPT ![lastId + 1] = "loop"]
      <4>2. run' \in [Api!Ids -> RunStates] /\ run'[lastId + 1] = "loop"
        BY <3>1, <3>4 DEF RunStates
      <4>1. chain' \in [Api!Ids -> SUBSET Api!Plugins] /\ plugin' \in [Api!Ids -> Api!Plugins] /\ plugins' \in Api!Plugins
        BY <2>2, <3>1 DEF Api!CreateSession
      <4> QED BY <3>1, <3>2, <3>4, <4>1, <4>2
    <3> QED BY <2>2, <3>3, <3>4 DEF Api!CreateSession
  <2>3. ASSUME NEW s \in Api!Ids, Api!RemoveSession(h, s) \/ Api!GetSession(h, s) PROVE ApiTypes'
    BY ZenonT(30), <2>3 DEF Api!RemoveSession, Api!GetSession
  <2>4. CASE Api!GetSessionStatus(h)
    BY <2>4 DEF Api!GetSessionStatus
  <2>5. CASE Api!UpdateEffects(h)
    <3>1. UNCHANGED <<lastId, sessions, state, stop, run, missed, hold, mutex, mainPc, listen, apiRunning>>
      BY <2>5 DEF Api!UpdateEffects
    <3>2. /\ pc' \in [Handlers -> {"idle", "faces", "status", "reading", "clear", "add", "release", "destroy", "join"}]
          /\ plugins' \in Api!Plugins /\ fresh' \in [Handlers -> Api!Plugins]
      BY SMTT(30), <2>5 DEF Api!UpdateEffects
    <3>3. chain' \in [Api!Ids -> SUBSET Api!Plugins] /\ plugin' \in [Api!Ids -> Api!Plugins]
      BY <2>5 DEF Api!UpdateEffects
    <3>4. \A x \in Handlers :
            pc'[x] \in {"clear", "add", "release", "destroy", "join"}
              => pc[x] \in {"clear", "add", "release", "destroy", "join"}
      <4>1. \E to : pc' = [pc EXCEPT ![h] = to] /\ pc[h] \in {"clear", "add"}
        BY <2>5 DEF Api!UpdateEffects
      <4> QED BY <4>1
    <3> QED BY SMTT(30), <3>1, <3>2, <3>3, <3>4
  <2>6. CASE Api!Release(h)
    BY <2>6 DEF Api!Release
  <2>7. CASE Api!DestroyStart(h)
    <3>1. Api!Destroy(hold[h]) /\ pc[h] = "destroy"
      BY <2>7 DEF Api!DestroyStart
    <3> QED BY <1>3, <2>7, <3>1 DEF Api!DestroyStart
  <2>8. CASE Api!DestroyJoin(h)
    <3>1. Api!Gone(hold[h])
      BY <2>8 DEF Api!DestroyJoin
    <3> QED BY <1>2, <2>8, <3>1 DEF Api!DestroyJoin
  <2> QED BY <1>8, <2>1, <2>2, <2>3, <2>4, <2>5, <2>6, <2>7, <2>8 DEF Api!Begin, Api!Continue
<1> QED BY <1>1, <1>4, <1>5, <1>6, <1>7, <1>8 DEF Api!Next, Api!Main

\* The server thread and main keep their order.
LEMMA ServingKept == ApiTypes /\ Serving /\ Api!Next => Serving'
<1> SUFFICES ASSUME ApiTypes, Serving, Api!Next PROVE Serving'
  OBVIOUS
<1> USE DEF Serving, Api!registry, Api!session, Api!main, Api!handler
<1>1. pc \in [Handlers -> {"idle", "faces", "status", "reading", "clear", "add", "release", "destroy", "join"}]
  BY DEF ApiTypes
<1>2. CASE Api!MainLeaves \/ Api!Unsubscribe \/ Api!StopApi \/ Api!JoinApi \/ Api!StopServer
  BY <1>2 DEF Api!MainLeaves, Api!Unsubscribe, Api!StopApi, Api!JoinApi, Api!StopServer
<1>3. CASE Api!StopSession
  BY <1>3 DEF Api!StopSession
<1>4. CASE Api!MainReturns
  BY <1>4 DEF Api!MainReturns
<1>5. CASE Api!Listen
  BY <1>5 DEF Api!Listen
<1>6. ASSUME NEW s \in Api!Ids, Api!Runner(s) \/ Api!ClientComes(s) PROVE Serving'
  BY <1>6, RunsOn DEF Api!Runs
<1>7. ASSUME NEW h \in Handlers, Api!Begin(h) \/ Api!Continue(h) PROVE Serving'
  <2>1. UNCHANGED <<mainPc, listen, apiRunning>>
    BY <1>7 DEF Api!Begin, Api!Continue, Api!UseFaces, Api!AskStatus, Api!CreateSession, Api!RemoveSession,
                Api!GetSession, Api!GetSessionStatus, Api!GetStatus, Api!UpdateEffects, Api!Release,
                Api!DestroyStart, Api!DestroyJoin
  <2>2. listen = "listening" \/ pc' = pc
    <3>1. Api!Accepts(h) \/ pc[h] # "idle"
      BY <1>7 DEF Api!Begin, Api!Continue, Api!UseFaces, Api!AskStatus, Api!CreateSession, Api!RemoveSession,
                  Api!GetSession, Api!GetSessionStatus, Api!GetStatus, Api!UpdateEffects, Api!Release,
                  Api!DestroyStart, Api!DestroyJoin
    <3> QED BY <3>1 DEF Api!Accepts
  <2> QED BY <2>1, <2>2
<1> QED BY <1>2, <1>3, <1>4, <1>5, <1>6, <1>7 DEF Api!Next, Api!Main

\* main keeps its reference and its subscription until it takes them down.
LEMMA ReferencesKept == ApiTypes /\ References /\ Api!Next => References'
<1> SUFFICES ASSUME ApiTypes, References, Api!Next PROVE References'
  OBVIOUS
<1> USE DEF References, Api!registry, Api!session, Api!main, Api!handler
<1>1. /\ run \in [Api!Ids -> RunStates] /\ 1 \in Api!Ids
      /\ lastId \in Int /\ lastId >= 1 /\ lastId + 1 # 1
  BY ApiNumbers DEF ApiTypes
<1>2. CASE Api!MainLeaves \/ Api!StopApi \/ Api!JoinApi \/ Api!StopServer
  BY <1>2 DEF Api!MainLeaves, Api!StopApi, Api!JoinApi, Api!StopServer
<1>3. CASE Api!Unsubscribe
  BY <1>3 DEF Api!Unsubscribe, Api!BusMutex
<1>9. ASSUME NEW s, Api!Destroy(s)
      PROVE  run'[1] = run[1] \/ (run[1] = "sleep" /\ run'[1] = "gate")
  BY <1>1, <1>9 DEF Api!Destroy
<1>4. CASE Api!StopSession
  BY <1>1, <1>4, <1>9 DEF Api!StopSession, Api!Gone
<1>5. CASE Api!MainReturns
  <2>1. mainPc = "destroy" /\ UNCHANGED <<subscribed, apiPlugin>>
        /\ ((mainPc' \in {"destroy", "terminated"} /\ mainPlugin' = mainPlugin) \/ mainPc' = "done")
    BY <1>5 DEF Api!MainReturns
  <2>2. run' = run \/ \E s \in sessions : Api!Destroy(s)
    BY <1>5 DEF Api!MainReturns
  <2>3. run[1] = "done" /\ run'[1] = "done"
    BY <1>9, <2>1, <2>2
  <2> QED BY <2>1, <2>3
<1>6. CASE Api!Listen
  BY <1>6 DEF Api!Listen
<1>7. ASSUME NEW s \in Api!Ids, Api!Runner(s) \/ Api!ClientComes(s) PROVE References'
  <2>1. PICK to \in RunStates \ {"none"}, x \in Api!Ids :
          Api!Runs(x, to) /\ run[x] # "done" /\ (to = "publish" => x = 1 /\ subscribed)
    BY <1>7, RunsOn
  <2>2. UNCHANGED <<mainPc, mainPlugin, apiPlugin, subscribed>> /\ run' = [run EXCEPT ![x] = to]
    BY <2>1 DEF Api!Runs
  <2>3. run'[1] = (IF x = 1 THEN to ELSE run[1])
    BY <1>1, <2>2
  <2> QED BY <2>1, <2>2, <2>3
<1>8. ASSUME NEW h \in Handlers, Api!Begin(h) \/ Api!Continue(h) PROVE References'
  <2>1. UNCHANGED <<mainPc, subscribed, apiPlugin, mainPlugin>>
    BY <1>8 DEF Api!Begin, Api!Continue, Api!UseFaces, Api!AskStatus, Api!CreateSession, Api!RemoveSession,
                Api!GetSession, Api!GetSessionStatus, Api!GetStatus, Api!UpdateEffects, Api!Release,
                Api!DestroyStart, Api!DestroyJoin
  <2>2. run'[1] = run[1] \/ (run[1] = "sleep" /\ run'[1] = "gate")
    <3>1. CASE Api!CreateSession(h)
      BY <1>1, <3>1 DEF Api!CreateSession, Api!Numbered
    <3>2. CASE Api!DestroyStart(h)
      BY <1>9, <3>2 DEF Api!DestroyStart
    <3>3. CASE ~Api!CreateSession(h) /\ ~Api!DestroyStart(h)
      BY <1>8, <3>3 DEF Api!Begin, Api!Continue, Api!UseFaces, Api!AskStatus, Api!RemoveSession,
                Api!GetSession, Api!GetSessionStatus, Api!GetStatus, Api!UpdateEffects, Api!Release,
                Api!DestroyJoin
    <3> QED BY <3>1, <3>2, <3>3
  <2> QED BY <2>1, <2>2
<1> QED BY <1>2, <1>3, <1>4, <1>5, <1>6, <1>7, <1>8 DEF Api!Next, Api!Main

\* A session leaves the registry before it is stopped, or nobody can read it.
LEMMA RegisteredKept == ApiTypes /\ Serving /\ Registered /\ Api!Next => Registered'
<1> SUFFICES ASSUME ApiTypes, Serving, Registered, Api!Next PROVE Registered'
  OBVIOUS
<1> USE ApiNumbers DEF Api!registry, Api!session, Api!main, Api!handler
<1>1. /\ lastId \in Int /\ 1 <= lastId /\ lastId <= MaxSessions
      /\ \A s \in sessions : s \in Int /\ 1 <= s /\ s <= lastId
      /\ hold \in [Handlers -> {0} \cup Api!Ids]
      /\ \A h \in Handlers : hold[h] \in Int
      /\ stop \in [Api!Ids -> BOOLEAN]
      /\ state \in [Api!Ids -> {"none", "refused", "up", "gone"}]
      /\ pc \in [Handlers -> {"idle", "faces", "status", "reading", "clear", "add", "release", "destroy", "join"}]
      /\ \A s \in sessions : s \in Api!Ids
  BY DEF ApiTypes
<1>2. CASE Api!MainLeaves \/ Api!Unsubscribe \/ Api!StopApi \/ Api!JoinApi \/ Api!StopServer
  BY <1>2 DEF Registered, Api!MainLeaves, Api!Unsubscribe, Api!StopApi, Api!JoinApi, Api!StopServer
<1>3. CASE Api!StopSession
  BY <1>1, <1>3 DEF Registered, Serving, Api!StopSession, Api!Destroy, Api!Gone
<1>4. CASE Api!MainReturns
  BY <1>1, <1>4 DEF Registered, Serving, Api!MainReturns, Api!Destroy, Api!Gone
<1>5. CASE Api!Listen
  BY <1>1, <1>5 DEF Registered, Serving, Api!Listen
<1>6. ASSUME NEW s \in Api!Ids, Api!Runner(s) \/ Api!ClientComes(s) PROVE Registered'
  <2>1. UNCHANGED <<hold, lastId, pc, sessions, mutex, stop, listen, state>>
    BY <1>6, RunsOn DEF Api!Runs
  <2> QED BY <2>1 DEF Registered
<1>7. ASSUME NEW h \in Handlers, Api!Begin(h) \/ Api!Continue(h) PROVE Registered'
  <2>1. CASE Api!UseFaces(h) \/ Api!AskStatus(h)
    BY <1>1, <2>1 DEF Registered, Api!UseFaces, Api!AskStatus
  <2>2. CASE Api!CreateSession(h)
    BY <1>1, <2>2 DEF Registered, Api!CreateSession, Api!Numbered
  <2>3. ASSUME NEW s \in Api!Ids, Api!RemoveSession(h, s) PROVE Registered'
    BY <1>1, <2>3 DEF Registered, Api!RemoveSession, Api!Accepts
  <2>4. ASSUME NEW s \in Api!Ids, Api!GetSession(h, s) PROVE Registered'
    BY <1>1, <2>4 DEF Registered, Api!GetSession, Api!Accepts
  <2>5. CASE Api!GetSessionStatus(h)
    BY <1>1, <2>5 DEF Registered, Api!GetSessionStatus
  <2>6. CASE Api!GetStatus(h)
    BY <1>1, <2>6 DEF Registered, Api!GetStatus
  <2>7. CASE Api!UpdateEffects(h)
    BY <1>1, <2>7 DEF Registered, Api!UpdateEffects
  <2>8. CASE Api!Release(h)
    BY <1>1, <2>8 DEF Registered, Api!Release
  <2>9. CASE Api!DestroyStart(h)
    BY <1>1, <2>9 DEF Registered, Api!DestroyStart, Api!Destroy
  <2>10. CASE Api!DestroyJoin(h)
    BY <1>1, <2>10 DEF Registered, Api!DestroyJoin, Api!Gone
  <2> QED BY <1>7, <2>1, <2>2, <2>3, <2>4, <2>5, <2>6, <2>7, <2>8, <2>9, <2>10 DEF Api!Begin, Api!Continue
<1> QED BY <1>2, <1>3, <1>4, <1>5, <1>6, <1>7 DEF Api!Next, Api!Main

\* Who is told to stop, and when a run thread begins to wait for clients.
LEMMA ToldKept == ApiTypes /\ Told /\ Api!Next => Told'
<1> SUFFICES ASSUME ApiTypes, Told, Api!Next PROVE Told'
  OBVIOUS
<1> USE DEF Told, Api!registry, Api!session, Api!main, Api!handler
<1>1. /\ run \in [Api!Ids -> RunStates] /\ 1 \in Api!Ids /\ stop \in [Api!Ids -> BOOLEAN]
      /\ hold \in [Handlers -> {0} \cup Api!Ids] /\ mutex \in Handlers \cup {"none"} /\ "none" \notin Handlers
      /\ pc \in [Handlers -> {"idle", "faces", "status", "reading", "clear", "add", "release", "destroy", "join"}]
      /\ \A s \in sessions : s \in Api!Ids
  BY ApiNumbers DEF ApiTypes
<1>2. CASE Api!MainLeaves \/ Api!Unsubscribe \/ Api!StopApi \/ Api!JoinApi \/ Api!StopServer
  BY <1>2 DEF Api!MainLeaves, Api!Unsubscribe, Api!StopApi, Api!JoinApi, Api!StopServer
<1>3. ASSUME NEW s \in Api!Ids, Api!Destroy(s)
      PROVE  /\ \A x \in Api!Ids : stop'[x] /\ run'[x] \in {"block", "sleep"} => x \in missed'
             /\ stop'[s] /\ \A x \in Api!Ids : stop[x] => stop'[x]
  <2>1. /\ stop' = [stop EXCEPT ![s] = TRUE]
        /\ run' = [run EXCEPT ![s] = IF run[s] = "sleep" THEN "gate" ELSE run[s]]
        /\ missed' = IF run[s] = "block" THEN missed \cup {s} ELSE missed
    BY <1>3 DEF Api!Destroy
  <2>2. ASSUME NEW x \in Api!Ids, x # s PROVE stop'[x] = stop[x] /\ run'[x] = run[x]
    BY <1>1, <2>1, <2>2
  <2>3. stop'[s] /\ (run'[s] \in {"block", "sleep"} => run[s] = "block")
    BY <1>1, <2>1
  <2> QED BY <2>1, <2>2, <2>3
<1>4. CASE Api!StopSession
  <2>1. CASE mainPc = "session" /\ mainPc' = "joinRun" /\ Api!Destroy(1) /\ UNCHANGED <<pc, hold, mutex>>
    <3>1. \A h \in Handlers : pc[h] = "join" => hold[h] \in Api!Ids
      BY DEF ApiTypes
    <3> QED BY <1>1, <1>3, <2>1, <3>1
  <2>2. CASE mainPc' = "server" /\ UNCHANGED <<stop, run, missed, pc, hold, mutex>>
    BY <2>2
  <2> QED BY <1>4, <2>1, <2>2 DEF Api!StopSession
<1>5. CASE Api!MainReturns
  <2>1. mainPc' # "joinRun" /\ UNCHANGED <<pc, hold, mutex>>
    BY <1>5 DEF Api!MainReturns
  <2>2. UNCHANGED <<stop, run, missed>> \/ \E s \in sessions : Api!Destroy(s)
    BY <1>5 DEF Api!MainReturns
  <2>3. ASSUME NEW h \in Handlers, pc[h] = "join" PROVE hold[h] \in Api!Ids
    BY <2>3 DEF ApiTypes
  <2> QED BY <1>1, <1>3, <2>1, <2>2, <2>3
<1>6. CASE Api!Listen
  BY <1>6 DEF Api!Listen
<1>7. ASSUME NEW s \in Api!Ids, Api!Runner(s) \/ Api!ClientComes(s) PROVE Told'
  <2>1. PICK to \in RunStates \ {"none"}, x \in Api!Ids :
          Api!Runs(x, to) /\ (to = "block" => ~stop[x]) /\ (to = "sleep" => run[x] = "block")
    BY <1>7 DEF Api!Runner, Api!RunLoop, Api!WaitForClients, Api!NextFrame, Api!WritePacket,
                Api!ClientComes, Api!ProcessFrame, Api!UpdateResult, RunStates
  <2>2. UNCHANGED <<mainPc, stop, missed, pc, hold, mutex>> /\ run' = [run EXCEPT ![x] = to]
    BY <2>1 DEF Api!Runs
  <2> QED BY <1>1, <2>1, <2>2
<1>8. ASSUME NEW h \in Handlers, Api!Begin(h) \/ Api!Continue(h) PROVE Told'
  <2>1. CASE Api!UseFaces(h) \/ Api!AskStatus(h) \/ Api!GetStatus(h)
    BY <1>1, <2>1 DEF Api!UseFaces, Api!AskStatus, Api!GetStatus, Api!Accepts
  <2>2. CASE Api!CreateSession(h)
    <3>1. UNCHANGED <<mainPc, stop, missed, pc, hold, mutex>>
      BY <2>2 DEF Api!CreateSession
    <3>2. run' = run \/ run' = [run EXCEPT ![lastId + 1] = "loop"]
      BY <2>2 DEF Api!CreateSession
    <3> QED BY <1>1, <3>1, <3>2
  <2>3. ASSUME NEW s \in Api!Ids, Api!RemoveSession(h, s) \/ Api!GetSession(h, s) PROVE Told'
    BY <1>1, <2>3 DEF Api!RemoveSession, Api!GetSession, Api!Accepts
  <2>4. CASE Api!GetSessionStatus(h)
    BY <1>1, <2>4 DEF Api!GetSessionStatus
  <2>5. CASE Api!UpdateEffects(h)
    <3>1. UNCHANGED <<mainPc, stop, run, missed, hold, mutex>> /\ pc[h] \in {"clear", "add"}
      BY <2>5 DEF Api!UpdateEffects
    <3>2. \E to \in {"add", "release"} : pc' = [pc EXCEPT ![h] = to]
      BY <2>5 DEF Api!UpdateEffects
    <3> QED BY <1>1, <3>1, <3>2
  <2>6. CASE Api!Release(h)
    BY <1>1, <2>6 DEF Api!Release
  <2>7. CASE Api!DestroyStart(h)
    <3>1. /\ Api!Destroy(hold[h]) /\ pc[h] = "destroy" /\ pc' = [pc EXCEPT ![h] = "join"]
          /\ UNCHANGED <<mainPc, hold, mutex>>
      BY <2>7 DEF Api!DestroyStart
    <3>2. \A x \in Handlers : pc[x] \in {"destroy", "join"} => hold[x] \in Api!Ids
      BY DEF ApiTypes
    <3> QED BY <1>1, <1>3, <3>1, <3>2
  <2>8. CASE Api!DestroyJoin(h)
    BY <1>1, <2>8 DEF Api!DestroyJoin
  <2> QED BY <1>8, <2>1, <2>2, <2>3, <2>4, <2>5, <2>6, <2>7, <2>8 DEF Api!Begin, Api!Continue
<1> QED BY <1>2, <1>4, <1>5, <1>6, <1>7, <1>8 DEF Api!Next, Api!Main

\* Each step of the process is one of the API's, or leaves its variables alone.
LEMMA ApiSteps == [Next]_vars => Api!Next \/ UNCHANGED apiVars
BY DEF Next, vars

\* ApiInv is inductive.
LEMMA ApiKept == ApiInv /\ [Next]_vars => ApiInv'
<1> SUFFICES ASSUME ApiInv, [Next]_vars PROVE ApiInv'
  OBVIOUS
<1>1. CASE Api!Next
  BY <1>1, ApiTypesKept, ServingKept, ReferencesKept, RegisteredKept, ToldKept DEF ApiInv
<1>2. CASE UNCHANGED apiVars
  BY <1>2 DEF apiVars, ApiInv, ApiTypes, Serving, References, Registered, Told
<1> QED BY <1>1, <1>2, ApiSteps

\* The raw pointers outlive their users.
THEOREM PartsPointersOutlive == Spec => []PointersOutlive
<1>1. ApiInv => PointersOutlive
  <2> SUFFICES ASSUME ApiInv PROVE PointersOutlive
    OBVIOUS
  <2>1. ASSUME NEW h \in Handlers, pc[h] = "faces" PROVE Api!PluginAlive(apiPlugin)
    <3>1. mainPc # "done"
      BY <2>1 DEF ApiInv, Serving
    <3> QED BY <3>1 DEF ApiInv, References, Api!PluginAlive
  <2>2. Api!BusMutex => mainPc \in {"wait", "unsubscribe"}
    BY DEF ApiInv, References, Api!BusMutex
  <2>3. ASSUME NEW h \in Handlers, pc[h] = "reading" PROVE ~stop[hold[h]] /\ state[hold[h]] # "gone"
    BY <2>3 DEF ApiInv, Serving, Registered
  <2>4. ASSUME Api!ServersGone \/ mainPc = "stuck"
        PROVE  run[1] = "done" /\ \A h \in Handlers : pc[h] = "idle"
    BY <2>4 DEF ApiInv, Serving, References, Api!ServersGone
  <2> QED BY <2>1, <2>2, <2>3, <2>4 DEF PointersOutlive, Api!PointersOutlive
<1>2. Init => ApiInv
  BY ApiInit
<1>3. ApiInv /\ [Next]_vars => ApiInv'
  BY ApiKept
<1> QED BY <1>1, <1>2, <1>3, PTL DEF Spec

\* Who joins a run thread has told it to stop, and it does not wait for clients
\* unless it was missed; so nobody waits in a circle.
THEOREM PartsJoinedAreTold == Spec => []JoinedAreTold
<1>1. ApiInv => JoinedAreTold
  <2> SUFFICES ASSUME ApiInv PROVE JoinedAreTold
    OBVIOUS
  <2>1. mutex # "none" => pc[mutex] \in {"reading", "destroy", "join"}
    BY DEF ApiInv, ApiTypes, Told
  <2>2. ASSUME NEW s \in Api!Ids, Api!Joined(s) PROVE stop[s] /\ (run[s] \in {"block", "sleep"} => s \in missed)
    BY <2>2 DEF ApiInv, Told, Api!Joined
  <2> QED BY <2>1, <2>2 DEF JoinedAreTold, Api!JoinedAreTold
<1>2. Init => ApiInv
  BY ApiInit
<1>3. ApiInv /\ [Next]_vars => ApiInv'
  BY ApiKept
<1> QED BY <1>1, <1>2, <1>3, PTL DEF Spec

-----------------------------------------------------------------------------
(* The streamer of a serial session.                                       *)

\* Between an Open and the next Close what is allocated and no pointer names is
\* what failed calls of Open have left; only a streamer that is not open opens.
Owned ==
  /\ streamerPc \in {"open", "reopen", "regate", "ended"} => ~opened
  /\ ~opened /\ failed = 0 => held = {}
  /\ \A r \in Str!Resources :
       /\ heap[r] \in Int /\ heap[r] >= 0
       /\ r \in held => 1 <= heap[r]
       /\ heap[r] <= (IF r \in held THEN 1 ELSE 0) + failed
       /\ ~opened => heap[r] <= failed

\* What the run thread is at, and what it owns.
StrTypes ==
  /\ streamerPc \in {"open", "loop", "gate", "read", "frame", "close", "retry", "reopen", "regate",
                    "ended", "crashed"}
  /\ streamerStop \in BOOLEAN /\ opened \in BOOLEAN /\ rtmpOpen \in BOOLEAN
  /\ held \subseteq Str!Resources /\ heap \in [Str!Resources -> Int]
  /\ opens \in 0 .. MaxOpens /\ failed \in 0 .. opens /\ attempts \in 0 .. opens
  /\ packet \in {"none", "held", "freed"}
  /\ opened => held \in {Str!Resources, Str!Resources \ Str!Stages[3]} /\ rtmpOpen

\* Frames in the encoder are numbered in order.
Times ==
  /\ frameSeq \in 0 .. MaxFrames /\ (streamerPc = "frame" => frameSeq < MaxFrames)
  /\ inEncoder \in Seq(Int) /\ Len(inEncoder) <= MaxDelay
  /\ rtmpLast \in Int /\ -1 <= rtmpLast
  /\ Str!PtsIncrease

StrInv == StrTypes /\ Owned /\ Times

\* The stages of Open.
LEMMA StageFacts ==
  /\ Len(Str!Stages) = 6
  /\ Str!Stages[3] = {"audio_dec_ctx"}
  /\ \A i \in 1 .. 6 : Str!Stages[i] \subseteq Str!Resources
  /\ \A k \in 0 .. 5 : Str!Through(k) \subseteq Str!Resources
<1>1. Len(Str!Stages) = 6 /\ Str!Stages[3] = {"audio_dec_ctx"}
  BY DEF Str!Stages
<1>2. \A i \in 1 .. 6 : Str!Stages[i] \subseteq Str!Resources
  BY <1>1 DEF Str!Resources
<1>3. ASSUME NEW k \in 0 .. 5 PROVE Str!Through(k) \subseteq Str!Resources
  <2>1. \A i \in 1 .. k : i \in 1 .. 6
    OBVIOUS
  <2> QED BY <1>2, <2>1 DEF Str!Through
<1> QED BY <1>1, <1>2, <1>3

\* What Open allocates and what it writes its pointers over.
LEMMA Acquires ==
  ASSUME StrTypes, Owned, ~opened, NEW rs, rs \subseteq Str!Resources, Str!Acquire(rs)
  PROVE  /\ held' = held \cup rs /\ held' \subseteq Str!Resources
         /\ heap' \in [Str!Resources -> Int]
         /\ \A r \in Str!Resources :
              /\ heap'[r] \in Int /\ heap'[r] >= 0
              /\ r \in held' => 1 <= heap'[r] /\ heap'[r] <= 1 + failed
              /\ r \notin held' => heap'[r] <= failed
<1>1. /\ held' = held \cup rs
      /\ heap' = [r \in Str!Resources |-> heap[r] + (IF r \in rs THEN 1 ELSE 0)]
  BY DEF Str!Acquire
<1>2. failed \in Int
  BY DEF StrTypes
<1>3. ASSUME NEW r \in Str!Resources
      PROVE  /\ heap'[r] \in Int /\ heap'[r] >= 0
             /\ r \in held' => 1 <= heap'[r] /\ heap'[r] <= 1 + failed
             /\ r \notin held' => heap'[r] <= failed
  <2>1. heap'[r] = heap[r] + (IF r \in rs THEN 1 ELSE 0)
    BY <1>1
  <2>2. /\ heap[r] \in Int /\ heap[r] >= 0 /\ heap[r] <= failed
        /\ r \in held => 1 <= heap[r]
    BY DEF Owned
  <2> QED BY <1>1, <1>2, <2>1, <2>2
<1>4. heap' \in [Str!Resources -> Int]
  BY <1>1, <1>3
<1> QED BY <1>1, <1>3, <1>4 DEF StrTypes

\* An Open that succeeds names all that it allocates.
LEMMA OpenSucceedsKeeps ==
  ASSUME StrTypes, Owned, Times, ~opened, opens < MaxOpens, NEW next \in {"loop"}, Str!OpenSucceeds(next),
         opens' = opens + 1, UNCHANGED <<streamerStop, packet, frameSeq, inEncoder>>
  PROVE  StrInv'
<1>1. PICK audio \in SUBSET Str!Stages[3] : Str!Acquire((Str!Resources \ Str!Stages[3]) \cup audio)
  BY DEF Str!OpenSucceeds
<1>2. /\ opened' = TRUE /\ rtmpOpen' = TRUE /\ rtmpLast' = -1 /\ streamerPc' = "loop"
      /\ failed' = failed /\ attempts' = attempts
  BY DEF Str!OpenSucceeds, Str!RtmpOpens
<1> DEFINE rs == (Str!Resources \ Str!Stages[3]) \cup audio
<1>3. rs \subseteq Str!Resources
  BY StageFacts
<1> HIDE DEF rs
<1>4. /\ held' = held \cup rs /\ held' \subseteq Str!Resources
      /\ heap' \in [Str!Resources -> Int]
      /\ \A r \in Str!Resources :
           /\ heap'[r] \in Int /\ heap'[r] >= 0
           /\ r \in held' => 1 <= heap'[r] /\ heap'[r] <= 1 + failed
           /\ r \notin held' => heap'[r] <= failed
  BY <1>1, <1>3, Acquires DEF rs
<1>5. held' \in {Str!Resources, Str!Resources \ Str!Stages[3]}
  BY <1>4, StageFacts DEF rs
<1>6. opens \in Int /\ failed \in Int /\ MaxOpens \in Int
  BY PartsAssumption DEF StrTypes, Str!StreamerConstants
<1>7. StrTypes'
  BY <1>2, <1>4, <1>5, <1>6 DEF StrTypes
<1>8. Owned'
  BY <1>2, <1>4, <1>6 DEF Owned
<1>9. Times'
  BY SMTT(30), <1>2 DEF Times, Str!PtsIncrease
<1> QED BY <1>7, <1>8, <1>9 DEF StrInv

\* An Open that fails leaves what its stages had allocated.
LEMMA OpenFailsKeeps ==
  ASSUME StrTypes, Owned, Times, ~opened, opens < MaxOpens, NEW next \in {"ended", "reopen"},
         Str!OpenFails(next), opens' = opens + 1, UNCHANGED <<streamerStop, packet, frameSeq, inEncoder>>
  PROVE  StrInv'
<1>1. PICK k \in 0 .. 5 : \E some \in SUBSET Str!Stages[k + 1] : Str!Acquire(Str!Through(k) \cup some)
  <2>1. \E k \in 0 .. Len(Str!Stages) - 1 : \E some \in SUBSET Str!Stages[k + 1] : Str!Acquire(Str!Through(k) \cup some)
    BY DEF Str!OpenFails
  <2>2. 0 .. Len(Str!Stages) - 1 = 0 .. 5
    BY StageFacts
  <2> QED BY ONLY <2>1, <2>2
<1>2. PICK some \in SUBSET Str!Stages[k + 1] : Str!Acquire(Str!Through(k) \cup some)
  BY <1>1
<1>3. /\ UNCHANGED <<opened, rtmpOpen, rtmpLast>> /\ streamerPc' = next
      /\ failed' = failed + 1 /\ attempts' = attempts + 1
  BY DEF Str!OpenFails
<1> DEFINE rs == Str!Through(k) \cup some
<1>4. rs \subseteq Str!Resources
  <2>1. k + 1 \in 1 .. 6
    OBVIOUS
  <2> QED BY <2>1, StageFacts
<1> HIDE DEF rs
<1>5. /\ held' \subseteq Str!Resources
      /\ heap' \in [Str!Resources -> Int]
      /\ \A r \in Str!Resources :
           /\ heap'[r] \in Int /\ heap'[r] >= 0
           /\ r \in held' => 1 <= heap'[r] /\ heap'[r] <= 1 + failed
           /\ r \notin held' => heap'[r] <= failed
  BY <1>2, <1>4, Acquires DEF rs
<1>6. opens \in Int /\ failed \in Int /\ failed >= 0 /\ MaxOpens \in Int /\ attempts \in Int
  BY PartsAssumption DEF StrTypes, Str!StreamerConstants
<1>7. StrTypes'
  BY <1>3, <1>5, <1>6 DEF StrTypes
<1>8. Owned'
  <2>1. ~opened' /\ failed' # 0 /\ failed' = failed + 1
    BY <1>3, <1>6
  <2>2. ASSUME NEW r \in Str!Resources
        PROVE  /\ heap'[r] \in Int /\ heap'[r] >= 0
               /\ r \in held' => 1 <= heap'[r]
               /\ heap'[r] <= (IF r \in held' THEN 1 ELSE 0) + failed'
               /\ heap'[r] <= failed'
    BY <1>5, <1>6, <2>1
  <2> QED BY <2>1, <2>2 DEF Owned
<1>9. Times'
  BY <1>3 DEF Times, Str!PtsIncrease
<1> QED BY <1>7, <1>8, <1>9 DEF StrInv

\* Close frees what the pointers name, and the frames are numbered anew.
LEMMA CloseKeeps ==
  ASSUME StrTypes, Owned, Times, Str!CloseStreamer, NEW next \in {"ended", "reopen"}, streamerPc' = next,
         attempts' \in {attempts, 0}, UNCHANGED <<streamerStop, opens, failed, packet>>
  PROVE  StrInv'
<1>1. failed \in Int /\ failed >= 0 /\ opens \in Int /\ opens >= 0
  BY DEF StrTypes
<1>2. CASE ~opened
  <2>1. UNCHANGED <<opened, held, heap, rtmpOpen, frameSeq, inEncoder, rtmpLast>>
    BY <1>2 DEF Str!CloseStreamer
  <2> QED BY <1>1, <1>2, <2>1 DEF StrInv, StrTypes, Owned, Times, Str!PtsIncrease
<1>3. CASE opened
  <2>1. /\ opened' = FALSE /\ rtmpOpen' = FALSE /\ rtmpLast' = -1 /\ frameSeq' = 0 /\ inEncoder' = <<>>
        /\ held' = held \ Str!Resources
        /\ heap' = [r \in Str!Resources |-> heap[r] - (IF r \in Str!Resources \cap held THEN 1 ELSE 0)]
    BY <1>3 DEF Str!CloseStreamer, Str!Free, Str!RtmpCloses
  <2>2. held' = {}
    BY <2>1 DEF StrTypes
  <2>3. ASSUME NEW r \in Str!Resources
        PROVE  heap'[r] \in Int /\ heap'[r] >= 0 /\ heap'[r] <= failed
    <3>1. heap'[r] = heap[r] - (IF r \in held THEN 1 ELSE 0)
      BY <2>1
    <3>2. /\ heap[r] \in Int /\ heap[r] >= 0 /\ (r \in held => 1 <= heap[r])
          /\ heap[r] <= (IF r \in held THEN 1 ELSE 0) + failed
      BY DEF Owned
    <3> QED BY <1>1, <3>1, <3>2
  <2>4. heap' \in [Str!Resources -> Int]
    BY <2>1, <2>3
  <2>5. StrTypes'
    <3>1. attempts' \in 0 .. opens'
      BY <1>1 DEF StrTypes
    <3>2. failed' \in 0 .. opens' /\ opens' \in 0 .. MaxOpens
      BY DEF StrTypes
    <3>3. held' \subseteq Str!Resources
      BY <2>2
    <3> QED BY <2>1, <2>4, <3>1, <3>2, <3>3 DEF StrTypes
  <2>6. Owned'
    BY <1>1, <2>1, <2>2, <2>3 DEF Owned
  <2>7. Times'
    BY <2>1, PartsAssumption DEF Times, Str!PtsIncrease, Str!StreamerConstants
  <2> QED BY <2>5, <2>6, <2>7 DEF StrInv
<1> QED BY <1>2, <1>3 DEF StrTypes

\* What the encoder gives back is older than what it keeps, and a new frame is
\* younger than both.
LEMMA DeliverKeeps ==
  ASSUME NEW queue \in Seq(Int), NEW k \in 0 .. Len(queue), NEW n \in Int,
         \A i \in 1 .. Len(queue) : /\ rtmpLast < queue[i] /\ queue[i] < n
                                    /\ \A j \in 1 .. i - 1 : queue[j] < queue[i],
         rtmpLast \in Int, rtmpLast < n, Str!Deliver(queue, k)
  PROVE  /\ inEncoder' \in Seq(Int) /\ Len(inEncoder') = Len(queue) - k
         /\ rtmpLast' \in Int /\ rtmpLast <= rtmpLast' /\ rtmpLast' < n
         /\ \A i \in 1 .. Len(inEncoder') :
              /\ rtmpLast' < inEncoder'[i] /\ inEncoder'[i] < n
              /\ \A j \in 1 .. i - 1 : inEncoder'[j] < inEncoder'[i]
<1>1. /\ inEncoder' = SubSeq(queue, k + 1, Len(queue))
      /\ rtmpLast' = IF k > 0 /\ rtmpOpen THEN queue[k] ELSE rtmpLast
  BY DEF Str!Deliver
<1>2. /\ inEncoder' \in Seq(Int) /\ Len(inEncoder') = Len(queue) - k
      /\ \A i \in 1 .. Len(queue) - k : inEncoder'[i] = queue[i + k]
  BY <1>1
<1>3. rtmpLast' \in Int /\ rtmpLast <= rtmpLast' /\ rtmpLast' < n
  <2>1. k > 0 => k \in 1 .. Len(queue) /\ queue[k] \in Int
    OBVIOUS
  <2> QED BY <1>1, <2>1
<1>4. ASSUME NEW i \in 1 .. Len(queue) - k
      PROVE  /\ rtmpLast' < queue[i + k] /\ queue[i + k] < n
             /\ \A j \in 1 .. i - 1 : queue[j + k] < queue[i + k]
  <2>1. i + k \in 1 .. Len(queue)
    OBVIOUS
  <2>2. \A j \in 1 .. i - 1 : j + k \in 1 .. (i + k) - 1
    OBVIOUS
  <2>3. k > 0 => k \in 1 .. (i + k) - 1
    OBVIOUS
  <2> QED BY <1>1, <2>1, <2>2, <2>3
<1>5. ASSUME NEW i \in 1 .. Len(inEncoder')
      PROVE  /\ rtmpLast' < inEncoder'[i] /\ inEncoder'[i] < n
             /\ \A j \in 1 .. i - 1 : inEncoder'[j] < inEncoder'[i]
  <2>1. i \in 1 .. Len(queue) - k /\ \A j \in 1 .. i - 1 : j \in 1 .. Len(queue) - k
    BY <1>2
  <2> QED BY <1>2, <1>4, <2>1
<1> QED BY <1>2, <1>3, <1>5

\* Frames leave the encoder in the order of their numbers.
LEMMA FrameKeeps == StrTypes /\ Owned /\ Times /\ Str!ProcessFrame => StrInv'
<1> SUFFICES ASSUME StrTypes, Owned, Times, Str!ProcessFrame PROVE StrInv'
  OBVIOUS
<1>1. /\ streamerPc = "frame" /\ streamerPc' = "loop"
      /\ UNCHANGED <<streamerStop, opened, held, heap, rtmpOpen, opens, failed, attempts, packet>>
  BY DEF Str!ProcessFrame
<1>2. StrTypes' /\ Owned'
  BY <1>1 DEF StrTypes, Owned
<1>3. /\ frameSeq \in Int /\ 0 <= frameSeq /\ frameSeq < MaxFrames /\ MaxFrames \in Int /\ MaxDelay \in Int
      /\ inEncoder \in Seq(Int) /\ Len(inEncoder) <= MaxDelay
      /\ rtmpLast \in Int /\ -1 <= rtmpLast /\ rtmpLast < frameSeq
      /\ \A i \in 1 .. Len(inEncoder) :
           /\ rtmpLast < inEncoder[i] /\ inEncoder[i] < frameSeq
           /\ \A j \in 1 .. i - 1 : inEncoder[j] < inEncoder[i]
  BY <1>1, PartsAssumption DEF Times, Str!PtsIncrease, Str!StreamerConstants
<1>4. CASE UNCHANGED <<frameSeq, inEncoder, rtmpLast>>
  BY <1>1, <1>2, <1>3, <1>4 DEF StrInv, Times, Str!PtsIncrease
<1>5. CASE Str!Encode
  <2> DEFINE n == frameSeq + 1
  <2>1. frameSeq' = n /\ n \in Int
    BY <1>3, <1>5 DEF Str!Encode
  <2>2. \A i \in 1 .. Len(inEncoder) :
          /\ rtmpLast < inEncoder[i] /\ inEncoder[i] < n
          /\ \A j \in 1 .. i - 1 : inEncoder[j] < inEncoder[i]
    BY <1>3
  <2>3. CASE Str!Deliver(inEncoder, 0)
    BY SMTT(30), <1>1, <1>2, <1>3, <2>1, <2>2, <2>3, DeliverKeeps DEF StrInv, Times, Str!PtsIncrease
  <2>4. CASE \E k \in 0 .. Len(inEncoder) + 1 :
               /\ Len(inEncoder) + 1 - k <= MaxDelay
               /\ Str!Deliver(Append(inEncoder, frameSeq), k)
    <3>1. PICK k \in 0 .. Len(inEncoder) + 1 :
               /\ Len(inEncoder) + 1 - k <= MaxDelay
               /\ Str!Deliver(Append(inEncoder, frameSeq), k)
      BY <2>4
    <3> DEFINE queue == Append(inEncoder, frameSeq)
    <3>2. /\ queue \in Seq(Int) /\ Len(queue) = Len(inEncoder) + 1
          /\ \A i \in 1 .. Len(inEncoder) : queue[i] = inEncoder[i]
          /\ queue[Len(inEncoder) + 1] = frameSeq
      BY <1>3
    <3> HIDE DEF queue
    <3>3. ASSUME NEW i \in 1 .. Len(queue)
          PROVE  /\ rtmpLast < queue[i] /\ queue[i] < n
                 /\ \A j \in 1 .. i - 1 : queue[j] < queue[i]
      <4>1. CASE i = Len(inEncoder) + 1
        <5>1. queue[i] = frameSeq /\ rtmpLast < frameSeq /\ frameSeq < n
          BY <1>3, <3>2, <4>1
        <5>2. \A j \in 1 .. i - 1 : j \in 1 .. Len(inEncoder)
          BY <3>2, <4>1
        <5>3. \A j \in 1 .. i - 1 : queue[j] < frameSeq
          BY <1>3, <3>2, <5>2
        <5> QED BY <2>1, <5>1, <5>3
      <4>2. CASE i # Len(inEncoder) + 1
        <5>1. i \in 1 .. Len(inEncoder) /\ \A j \in 1 .. i - 1 : j \in 1 .. Len(inEncoder)
          BY <1>3, <3>2, <4>2
        <5> QED BY <2>2, <3>2, <5>1
      <4> QED BY <4>1, <4>2
    <3>4. Str!Deliver(queue, k) /\ k \in 0 .. Len(queue) /\ rtmpLast < n
      BY <1>3, <3>1, <3>2 DEF queue
    <3> HIDE DEF n
    <3>5. /\ inEncoder' \in Seq(Int) /\ Len(inEncoder') = Len(queue) - k
          /\ rtmpLast' \in Int /\ rtmpLast <= rtmpLast' /\ rtmpLast' < n
          /\ \A i \in 1 .. Len(inEncoder') :
               /\ rtmpLast' < inEncoder'[i] /\ inEncoder'[i] < n
               /\ \A j \in 1 .. i - 1 : inEncoder'[j] < inEncoder'[i]
      BY <1>3, <2>1, <3>2, <3>3, <3>4, DeliverKeeps
    <3>6. Str!PtsIncrease'
      BY <2>1, <3>5 DEF Str!PtsIncrease
    <3>7. Len(inEncoder') <= MaxDelay /\ -1 <= rtmpLast' /\ frameSeq' \in 0 .. MaxFrames
      BY <1>3, <2>1, <3>1, <3>2, <3>5 DEF n
    <3> QED BY <1>1, <1>2, <3>5, <3>6, <3>7 DEF StrInv, Times
  <2> QED BY <1>5, <2>3, <2>4 DEF Str!Encode, Str!EncodeAndDeliver
<1> QED BY <1>4, <1>5 DEF Str!ProcessFrame

\* Each step of the process is one of the streamer's, or leaves it alone.
LEMMA StrSteps == [Next]_vars => Str!Next \/ UNCHANGED streamerVars
BY DEF Next, vars

\* The streamer's invariant is inductive.
LEMMA StrKept == StrInv /\ [Next]_vars => StrInv'
<1> SUFFICES ASSUME StrInv, [Next]_vars PROVE StrInv'
  OBVIOUS
<1>1. StrTypes /\ Owned /\ Times
  BY DEF StrInv
<1>2. CASE UNCHANGED streamerVars
  BY <1>1, <1>2 DEF streamerVars, StrInv, StrTypes, Owned, Times, Str!PtsIncrease
<1>3. CASE Str!Stop \/ Str!Loop \/ Str!Gate \/ Str!ReadIntoNull \/ Str!Delay \/ Str!GiveUp
  <2>1. /\ UNCHANGED <<opened, held, heap, rtmpOpen, opens, failed, attempts, frameSeq, inEncoder, rtmpLast>>
        /\ streamerStop' \in BOOLEAN /\ packet' \in {"none", "held", "freed"}
        /\ \/ streamerPc' \in {streamerPc, "close", "gate", "read", "crashed"}
           \/ streamerPc = "reopen" /\ streamerPc' = "regate"
    BY <1>1, <1>3 DEF Str!Stop, Str!Loop, Str!Gate, Str!ReadIntoNull, Str!Delay, Str!GiveUp, StrTypes
  <2> QED BY <1>1, <2>1 DEF StrInv, StrTypes, Owned, Times, Str!PtsIncrease
<1>4. CASE Str!ReadPacket
  BY <1>1, <1>4 DEF Str!ReadPacket, StrInv, StrTypes, Owned, Times, Str!PtsIncrease
<1>5. CASE Str!Open
  <2>1. ~opened /\ opens < MaxOpens /\ opens' = opens + 1 /\ UNCHANGED <<streamerStop, packet, frameSeq, inEncoder>>
    BY <1>1, <1>5 DEF Str!Open, Owned
  <2>2. Str!OpenSucceeds("loop") \/ Str!OpenFails("ended")
    BY <1>5 DEF Str!Open
  <2> QED BY <1>1, <2>1, <2>2, OpenSucceedsKeeps, OpenFailsKeeps
<1>6. CASE Str!Reopen
  <2>1. ~opened /\ opens < MaxOpens /\ opens' = opens + 1 /\ UNCHANGED <<streamerStop, packet, frameSeq, inEncoder>>
    BY <1>1, <1>6 DEF Str!Reopen, Owned
  <2>2. Str!OpenSucceeds("loop") \/ Str!OpenFails("reopen")
    BY <1>6 DEF Str!Reopen
  <2> QED BY <1>1, <2>1, <2>2, OpenSucceedsKeeps, OpenFailsKeeps
<1>7. CASE Str!Close
  <2>1. Str!CloseStreamer /\ streamerPc' = "ended" /\ UNCHANGED <<streamerStop, opens, failed, attempts, packet>>
    BY <1>7 DEF Str!Close
  <2> QED BY <1>1, <2>1, CloseKeeps
<1>8. CASE Str!Retry
  <2>1. CASE ReconnectOnEof
    <3>1. Str!CloseStreamer /\ streamerPc' = "reopen" /\ attempts' = 0 /\ UNCHANGED <<streamerStop, opens, failed, packet>>
      BY <1>8, <2>1 DEF Str!Retry
    <3> QED BY <1>1, <3>1, CloseKeeps
  <2>2. CASE ~ReconnectOnEof
    BY <1>1, <1>8, <2>2 DEF Str!Retry, StrInv, StrTypes, Owned, Times, Str!PtsIncrease
  <2> QED BY <2>1, <2>2
<1>9. CASE Str!ProcessFrame
  BY <1>1, <1>9, FrameKeeps
<1> QED BY <1>2, <1>3, <1>4, <1>5, <1>6, <1>7, <1>8, <1>9, StrSteps DEF Str!Next, Str!Run

\* At first nothing is open.
LEMMA StrInit == Init => StrInv
<1> SUFFICES ASSUME Str!Init PROVE StrInv
  BY DEF Init
<1>1. {MaxOpens, MaxFrames, MaxDelay} \subseteq Nat
  BY PartsAssumption DEF Str!StreamerConstants
<1>2. StrTypes
  <2>1. heap \in [Str!Resources -> Int] /\ held = {} /\ ~opened
    BY DEF Str!Init
  <2>2. opens \in 0 .. MaxOpens /\ failed \in 0 .. opens /\ attempts \in 0 .. opens
    BY <1>1 DEF Str!Init
  <2>3. /\ streamerPc = "open" /\ packet = "none"
        /\ streamerStop \in BOOLEAN /\ opened \in BOOLEAN /\ rtmpOpen \in BOOLEAN
    BY DEF Str!Init
  <2> QED BY <2>1, <2>2, <2>3 DEF StrTypes
<1>3. Owned
  BY DEF Str!Init, Owned
<1>4. Times
  BY <1>1 DEF Str!Init, Times, Str!PtsIncrease
<1> QED BY <1>2, <1>3, <1>4 DEF StrInv

\* The streamer loses nothing but by an Open that failed, and what its outputs
\* get has presentation times that increase.
THEOREM PartsStreamerKeeps == Spec => []StreamerKeeps
<1>1. StrInv => StreamerKeeps
  <2> SUFFICES ASSUME StrInv PROVE StreamerKeeps
    OBVIOUS
  <2>1. \A r \in Str!Resources :
          /\ (IF r \in held THEN 1 ELSE 0) <= heap[r]
          /\ heap[r] <= (IF r \in held THEN 1 ELSE 0) + failed
    BY DEF StrInv, Owned
  <2>2. Str!LostOnlyByFailedOpen
    BY <2>1 DEF StrInv, Owned, Str!LostOnlyByFailedOpen
  <2> QED BY <2>2 DEF StrInv, Times, StreamerKeeps
<1>2. Init => StrInv
  BY StrInit
<1>3. StrInv /\ [Next]_vars => StrInv'
  BY StrKept
<1> QED BY <1>1, <1>2, <1>3, PTL DEF Spec

-----------------------------------------------------------------------------
(* The face library.                                                       *)

\* The libraries, the file and the requests.
FacesTypes ==
  /\ entries \in [Faces!Databases -> SUBSET Names] /\ left \in [Faces!Databases -> SUBSET Names]
  /\ file \subseteq Names /\ authors \subseteq Faces!Databases
  /\ saving \in [Faces!Databases -> Faces!Actors \cup {"none"}]
  /\ request \in [Faces!Actors -> {"none", "Save", "answer", "closed"}]
  /\ adding \in [Handlers -> SUBSET Names]
  /\ up \in BOOLEAN /\ unsaved \in BOOLEAN /\ acked \subseteq Names

\* Who saves has asked for it, saves its own database and is one of the authors
\* of the file; while nobody but main is, what main's Save has written and what it
\* has left is what is in memory.
Written ==
  /\ \A d \in Faces!Databases : saving[d] # "none" =>
       up /\ d \in authors /\ request[saving[d]] = "Save" /\ Faces!Database(saving[d]) = d
  /\ saving["main"] # "none" /\ authors = {"main"} => file \cup left["main"] = entries["main"]

\* A face that was acknowledged, or is being registered, is in memory.  When the
\* file is main's, the one that was acknowledged is in it, and so is the one whose
\* Save has ended; and it is what is in memory, but for those who have still to save.
Recorded ==
  /\ up => acked \subseteq entries["main"] /\ \A h \in Handlers : adding[h] \subseteq entries["main"]
  /\ ~up => acked \subseteq file /\ \A h \in Handlers : adding[h] = {}
  /\ Faces!MainsFile =>
       /\ acked \subseteq file
       /\ \A h \in Handlers : request[h] = "answer" => adding[h] \subseteq file
       /\ up /\ (\A a \in Handlers \cup {"main"} : request[a] # "Save") => file = entries["main"]

FacesInv == FacesTypes /\ Written /\ Recorded

\* Whose databases there are.
LEMMA WhoActs ==
  /\ "main" \in Faces!Databases /\ Faces!Databases \subseteq Faces!Actors /\ Handlers \subseteq Faces!Actors
  /\ Others \subseteq Faces!Databases /\ "none" \notin Faces!Actors
  /\ \A a \in Faces!Actors : Faces!Database(a) \in Faces!Databases
  /\ \A h \in Handlers : Faces!Database(h) = "main"
  /\ \A d \in Faces!Databases : d \notin Handlers /\ Faces!Database(d) = d
BY PartsAssumption DEF Faces!FacesConstants, Faces!Databases, Faces!Actors, Faces!Database

\* When nobody but main has written the file, nothing in it is overwritten.
LEMMA KeptOfMain == Faces!Kept({"main"}) = {file}
<1>1. Faces!Cardinality({"main"}) = Cardinality({"main"})
  BY DEF Faces!Cardinality, Cardinality
<1>2. Cardinality({"main"}) = 1
  BY FS_Singleton
<1> QED BY <1>1, <1>2 DEF Faces!Kept

\* Main's library changes in memory.
LEMMA ChangeKeeps ==
  ASSUME FacesInv, NEW h \in Handlers, NEW n \in Names, Faces!Register(h, n) \/ Faces!RemoveFace(h, n)
  PROVE  FacesInv'
<1>1. /\ UNCHANGED <<file, saving, left, up, unsaved, authors>> /\ up /\ saving["main"] = "none"
      /\ request' = [request EXCEPT ![h] = "Save"] /\ request[h] = "none"
  BY DEF Faces!Register, Faces!RemoveFace, Faces!Asks
<1>2. FacesTypes /\ Written /\ Recorded
  BY DEF FacesInv
<1>3. /\ request' \in [Faces!Actors -> {"none", "Save", "answer", "closed"}]
      /\ request'[h] = "Save" /\ \A a \in Faces!Actors : a # h => request'[a] = request[a]
  BY <1>1, <1>2, WhoActs DEF FacesTypes
<1>4. PICK set \in SUBSET Names : 
         /\ entries' = [entries EXCEPT !["main"] = set]
         /\ adding' \in [Handlers -> SUBSET Names] /\ acked' \subseteq acked /\ acked' \subseteq set
         /\ \A x \in Handlers : adding'[x] \subseteq set /\ (x # h => adding'[x] \subseteq adding[x])
  <2>1. /\ acked \subseteq entries["main"] /\ \A x \in Handlers : adding[x] \subseteq entries["main"]
        /\ adding \in [Handlers -> SUBSET Names] /\ entries["main"] \in SUBSET Names
    BY <1>1, <1>2, WhoActs DEF Recorded, FacesTypes
  <2>2. CASE Faces!Register(h, n)
    <3>1. /\ entries' = [entries EXCEPT !["main"] = entries["main"] \cup {n}]
          /\ adding' = [adding EXCEPT ![h] = {n}] /\ acked' = acked
      BY <2>2 DEF Faces!Register
    <3>2. /\ adding' \in [Handlers -> SUBSET Names]
          /\ \A x \in Handlers : adding'[x] = IF x = h THEN {n} ELSE adding[x]
      BY <2>1, <3>1
    <3> DEFINE some == entries["main"] \cup {n}
    <3>3. some \in SUBSET Names /\ entries' = [entries EXCEPT !["main"] = some]
      BY <2>1, <3>1
    <3>4. acked' \subseteq acked /\ acked' \subseteq some
      BY <2>1, <3>1
    <3>5. \A x \in Handlers : adding'[x] \subseteq some /\ (x # h => adding'[x] \subseteq adding[x])
      BY <2>1, <3>2
    <3> HIDE DEF some
    <3> QED BY <3>2, <3>3, <3>4, <3>5
  <2>3. CASE Faces!RemoveFace(h, n)
    <3>1. /\ entries' = [entries EXCEPT !["main"] = entries["main"] \ {n}]
          /\ adding' = [x \in Handlers |-> adding[x] \ {n}] /\ acked' = acked \ {n}
      BY <2>3 DEF Faces!RemoveFace
    <3> DEFINE some == entries["main"] \ {n}
    <3>2. some \in SUBSET Names /\ entries' = [entries EXCEPT !["main"] = some]
      BY <2>1, <3>1
    <3>3. acked' \subseteq acked /\ acked' \subseteq some
      BY <2>1, <3>1
    <3>4. adding' \in [Handlers -> SUBSET Names]
          /\ \A x \in Handlers : adding'[x] \subseteq some /\ adding'[x] \subseteq adding[x]
      BY <2>1, <3>1
    <3> HIDE DEF some
    <3> QED BY <3>2, <3>3, <3>4
  <2> QED BY <2>2, <2>3
<1>5. entries' \in [Faces!Databases -> SUBSET Names] /\ entries'["main"] = set
  BY <1>2, <1>4, WhoActs DEF FacesTypes
<1>6. FacesTypes'
  BY <1>1, <1>2, <1>3, <1>4, <1>5 DEF FacesTypes
<1>7. Written'
  BY <1>1, <1>2, <1>3, WhoActs DEF Written, FacesTypes
<1>8. Recorded'
  BY <1>1, <1>2, <1>3, <1>4, <1>5, WhoActs DEF Recorded, Faces!MainsFile
<1> QED BY <1>6, <1>7, <1>8 DEF FacesInv

\* A Save that begins or fails.
LEMMA SaveBegins ==
  ASSUME FacesInv, NEW a \in Faces!Actors, Faces!SaveOpen(a) \/ Faces!SaveFails(a)
  PROVE  FacesInv'
<1>1. FacesTypes /\ Written /\ Recorded
  BY DEF FacesInv
<1> DEFINE d == Faces!Database(a)
<1>2. d \in Faces!Databases /\ (d = "main" => a \in Handlers \cup {"main"}) /\ (d # "main" => a \notin Handlers \cup {"main"})
  BY WhoActs DEF Faces!Database
<1> HIDE DEF d
<1>3. CASE Faces!SaveFails(a)
  <2>1. /\ UNCHANGED <<entries, file, saving, left, adding, up, acked, authors>> /\ up /\ saving[d] = "none"
        /\ unsaved' = (unsaved \/ d = "main") /\ request' = [request EXCEPT ![a] = "answer"]
    BY <1>3 DEF Faces!SaveFails, d
  <2>2. /\ request' \in [Faces!Actors -> {"none", "Save", "answer", "closed"}]
        /\ \A x \in Faces!Actors : x # a => request'[x] = request[x]
    BY <1>1, <2>1 DEF FacesTypes
  <2>3. FacesTypes'
    <3>1. unsaved' \in BOOLEAN
      BY <2>1
    <3> QED BY <1>1, <2>1, <2>2, <3>1 DEF FacesTypes
  <2>4. Written'
    <3>1. \A x \in Faces!Databases : saving[x] # a
      BY <1>1, <2>1, WhoActs DEF Written, d
    <3>2. \A x \in Faces!Databases : saving[x] \in Faces!Actors \cup {"none"}
      BY <1>1 DEF FacesTypes
    <3> QED BY <1>1, <2>1, <2>2, <3>1, <3>2 DEF Written
  <2>5. CASE d = "main"
    <3>1. ~Faces!MainsFile'
      BY <2>1, <2>5 DEF Faces!MainsFile
    <3> QED BY <1>1, <2>1, <2>3, <2>4, <3>1 DEF FacesInv, Recorded
  <2>6. CASE d # "main"
    <3>1. \A x \in Handlers \cup {"main"} : request'[x] = request[x]
      BY <1>2, <2>2, <2>6, WhoActs
    <3>2. Faces!MainsFile' <=> Faces!MainsFile
      BY <2>1, <2>6 DEF Faces!MainsFile
    <3> QED BY <1>1, <2>1, <2>3, <2>4, <3>1, <3>2 DEF FacesInv, Recorded
  <2> QED BY <2>5, <2>6
<1>4. CASE Faces!SaveOpen(a)
  <2>1. /\ file' = {} /\ left' = [left EXCEPT ![d] = entries[d]] /\ saving' = [saving EXCEPT ![d] = a] /\ up
        /\ authors' = {d} \cup {x \in Faces!Databases : saving[x] # "none"}
        /\ request[a] = "Save"
        /\ UNCHANGED <<entries, request, adding, up, acked, unsaved>>
    BY <1>4 DEF Faces!SaveOpen, d
  <2>2. /\ saving' \in [Faces!Databases -> Faces!Actors \cup {"none"}] /\ saving'[d] = a
        /\ \A x \in Faces!Databases : x # d => saving'[x] = saving[x]
        /\ left' \in [Faces!Databases -> SUBSET Names] /\ left'[d] = entries[d]
    BY <1>1, <1>2, <2>1 DEF FacesTypes
  <2>3. FacesTypes'
    <3>1. authors' \subseteq Faces!Databases /\ file' \subseteq Names
      BY <1>2, <2>1
    <3> QED BY <1>1, <2>1, <2>2, <3>1 DEF FacesTypes
  <2>4. Written'
    <3>1. ASSUME NEW x \in Faces!Databases, saving'[x] # "none"
          PROVE  up' /\ x \in authors' /\ request'[saving'[x]] = "Save" /\ Faces!Database(saving'[x]) = x
      BY <1>1, <1>2, <2>1, <2>2, <3>1 DEF Written, d
    <3>2. ASSUME authors' = {"main"} PROVE file' \cup left'["main"] = entries'["main"]
      BY <2>1, <2>2, <3>2
    <3>3. \A x : Faces!Database(x)' = Faces!Database(x)
      BY DEF Faces!Database
    <3> QED BY <3>1, <3>2, <3>3 DEF Written
  <2>5. ~Faces!MainsFile'
    BY <1>2, <2>1, <2>2, WhoActs DEF Faces!MainsFile
  <2> QED BY <1>1, <2>1, <2>3, <2>4, <2>5 DEF FacesInv, Recorded
<1> QED BY <1>3, <1>4

\* A Save that writes an entry, or ends: if it was main's and nobody else has
\* written, the file is then what is in memory.
LEMMA SaveWrites ==
  ASSUME FacesInv, NEW a \in Faces!Actors, Faces!SaveEntry(a) \/ Faces!SaveClose(a)
  PROVE  FacesInv'
<1>1. FacesTypes /\ Written /\ Recorded
  BY DEF FacesInv
<1> DEFINE d == Faces!Database(a)
<1>2. d \in Faces!Databases /\ a # "none"
  BY WhoActs
<1>3. \A x : Faces!Database(x)' = Faces!Database(x)
  BY DEF Faces!Database
<1> HIDE DEF d
<1>4. up /\ saving[d] = a /\ d \in authors
  BY <1>1, <1>2 DEF Faces!SaveEntry, Faces!SaveClose, Written, d
<1>5. CASE Faces!SaveEntry(a)
  <2>1. PICK n \in left[d], kept \in Faces!Kept(authors) :
          file' = kept \cup {n} /\ left' = [left EXCEPT ![d] = left[d] \ {n}]
    BY <1>5 DEF Faces!SaveEntry, d
  <2>2. UNCHANGED <<entries, saving, request, adding, up, acked, unsaved, authors>>
    BY <1>5 DEF Faces!SaveEntry
  <2>3. /\ left[d] \subseteq Names /\ left' \in [Faces!Databases -> SUBSET Names]
        /\ left'[d] = left[d] \ {n} /\ \A x \in Faces!Databases : x # d => left'[x] = left[x]
    BY <1>1, <1>2, <2>1 DEF FacesTypes
  <2>4. kept \subseteq file
    BY <2>1 DEF Faces!Kept
  <2>5. FacesTypes'
    BY <1>1, <2>1, <2>2, <2>3, <2>4 DEF FacesTypes
  <2>6. authors = {"main"} => kept = file /\ d = "main"
    BY <1>4, <2>1, KeptOfMain
  <2>7. Written'
    <3>1. saving["main"] # "none" /\ authors = {"main"} => file' \cup left'["main"] = entries["main"]
      BY <1>1, <2>1, <2>3, <2>6 DEF Written
    <3> QED BY <1>1, <1>3, <2>2, <3>1 DEF Written
  <2>8. ~Faces!MainsFile'
    BY <1>2, <1>4, <2>2, <2>6 DEF Faces!MainsFile
  <2> QED BY <1>1, <1>4, <2>2, <2>5, <2>7, <2>8 DEF FacesInv, Recorded
<1>6. CASE Faces!SaveClose(a)
  <2>1. /\ left[d] = {} /\ saving' = [saving EXCEPT ![d] = "none"]
        /\ request' = [request EXCEPT ![a] = "answer"] /\ unsaved' = (unsaved /\ d # "main")
        /\ UNCHANGED <<entries, file, left, adding, up, acked, authors>>
    BY <1>6 DEF Faces!SaveClose, d
  <2>2. /\ saving' \in [Faces!Databases -> Faces!Actors \cup {"none"}] /\ saving'[d] = "none"
        /\ \A x \in Faces!Databases : x # d => saving'[x] = saving[x]
        /\ request' \in [Faces!Actors -> {"none", "Save", "answer", "closed"}]
        /\ \A x \in Faces!Actors : x # a => request'[x] = request[x]
    BY <1>1, <1>2, <2>1 DEF FacesTypes
  <2>3. FacesTypes'
    <3>1. unsaved' \in BOOLEAN
      BY <2>1
    <3> QED BY <1>1, <2>1, <2>2, <3>1 DEF FacesTypes
  <2>4. Written'
    <3>1. ASSUME NEW x \in Faces!Databases, saving'[x] # "none"
          PROVE  /\ x # d /\ saving'[x] = saving[x] /\ up /\ x \in authors
                 /\ request'[saving[x]] = "Save" /\ Faces!Database(saving[x]) = x
      <4>1. x # d /\ saving'[x] = saving[x] /\ saving[x] # "none" /\ saving[x] \in Faces!Actors
        BY <1>1, <2>2, <3>1 DEF FacesTypes
      <4>2. up /\ x \in authors /\ request[saving[x]] = "Save" /\ Faces!Database(saving[x]) = x
        BY <1>1, <4>1 DEF Written
      <4>3. saving[x] # a
        BY <4>1, <4>2 DEF d
      <4> QED BY <2>2, <4>1, <4>2, <4>3
    <3>2. "main" \in Faces!Databases
      BY WhoActs
    <3> QED BY <1>1, <1>3, <2>1, <3>1, <3>2 DEF Written
  <2>5. ASSUME authors = {"main"} PROVE d = "main" /\ file = entries["main"]
    BY <1>1, <1>2, <1>4, <2>1, <2>5 DEF Written
  <2>6. Recorded'
    BY <1>1, <1>4, <2>1, <2>5 DEF Recorded, Faces!MainsFile
  <2> QED BY <2>3, <2>4, <2>6 DEF FacesInv
<1> QED BY <1>5, <1>6

\* A request is answered, or a plugin is closed or opened.
LEMMA RequestKeeps ==
  ASSUME FacesInv, NEW a \in Faces!Actors,
         Faces!Answer(a) \/ (a \in Faces!Databases /\ Faces!ClosePlugin(a)) \/ (a \in Others /\ Faces!OpenPlugin(a))
  PROVE  FacesInv'
<1>1. FacesTypes /\ Written /\ Recorded /\ (a \in Others => a # "main")
  BY PartsAssumption DEF FacesInv, Faces!FacesConstants
<1>2. /\ up /\ request[a] # "Save" /\ UNCHANGED <<file, saving, left, up, unsaved, authors>>
  BY DEF Faces!Answer, Faces!ClosePlugin, Faces!OpenPlugin
<1>3. PICK next \in {"none", "Save", "closed"} : request' = [request EXCEPT ![a] = next]
  BY DEF Faces!Answer, Faces!ClosePlugin, Faces!OpenPlugin
<1>4. /\ request' \in [Faces!Actors -> {"none", "Save", "answer", "closed"}]
      /\ request'[a] = next /\ \A x \in Faces!Actors : x # a => request'[x] = request[x]
  BY <1>1, <1>3 DEF FacesTypes
<1>5. entries' \in [Faces!Databases -> SUBSET Names] /\ entries'["main"] = entries["main"]
  BY <1>1, WhoActs DEF FacesTypes, Faces!Answer, Faces!ClosePlugin, Faces!OpenPlugin
<1>6. /\ adding' \in [Handlers -> SUBSET Names] /\ acked' \subseteq Names
      /\ \A h \in Handlers : adding'[h] \subseteq adding[h]
      /\ acked' = acked \/ (a \in Handlers /\ request[a] = "answer" /\ acked' = acked \cup adding[a])
  <2>1. CASE UNCHANGED <<acked, adding>>
    BY <1>1, <2>1 DEF FacesTypes
  <2>2. CASE /\ a \in Handlers /\ request[a] = "answer"
             /\ acked' = acked \cup adding[a] /\ adding' = [adding EXCEPT ![a] = {}]
    BY <1>1, <2>2 DEF FacesTypes
  <2> QED BY <2>1, <2>2, WhoActs DEF Faces!Answer, Faces!ClosePlugin, Faces!OpenPlugin
<1>7. FacesTypes'
  BY <1>1, <1>2, <1>4, <1>5, <1>6 DEF FacesTypes
<1>8. Written'
  <2>1. \A x \in Faces!Databases : saving[x] # "none" => saving[x] # a /\ saving[x] \in Faces!Actors
    BY <1>1, <1>2 DEF Written, FacesTypes
  <2>2. \A x : Faces!Database(x)' = Faces!Database(x)
    BY DEF Faces!Database
  <2> QED BY <1>1, <1>2, <1>4, <1>5, <2>1, <2>2 DEF Written
<1>9. Recorded'
  <2>1. acked' \subseteq entries["main"] /\ \A h \in Handlers : adding'[h] \subseteq entries["main"]
    BY <1>1, <1>2, <1>6 DEF Recorded
  <2>2. Faces!MainsFile' <=> Faces!MainsFile
    BY <1>2 DEF Faces!MainsFile
  <2>3. ASSUME Faces!MainsFile
        PROVE  /\ acked' \subseteq file
               /\ \A h \in Handlers : request'[h] = "answer" => adding'[h] \subseteq file
               /\ (\A x \in Handlers \cup {"main"} : request'[x] # "Save") => file = entries["main"]
    <3>1. /\ acked \subseteq file
          /\ \A h \in Handlers : request[h] = "answer" => adding[h] \subseteq file
          /\ (\A x \in Handlers \cup {"main"} : request[x] # "Save") => file = entries["main"]
      BY <1>1, <1>2, <2>3 DEF Recorded
    <3>2. acked' \subseteq file
      BY <1>6, <3>1
    <3>3. \A h \in Handlers : request'[h] = "answer" => adding'[h] \subseteq file
      BY <1>3, <1>4, <1>6, <3>1, WhoActs
    <3>4. (\A x \in Handlers \cup {"main"} : request'[x] # "Save") => file = entries["main"]
      BY <1>2, <1>4, <3>1, WhoActs
    <3> QED BY <3>2, <3>3, <3>4
  <2> QED BY <1>2, <1>5, <2>1, <2>2, <2>3 DEF Recorded
<1> QED BY <1>7, <1>8, <1>9 DEF FacesInv

\* A crash and the next start.
LEMMA RestartKeeps ==
  ASSUME FacesInv, Faces!Crash \/ Faces!Load
  PROVE  FacesInv'
<1>1. FacesTypes /\ Written /\ Recorded
  BY DEF FacesInv
<1>2. CASE Faces!Load
  <2>1. /\ ~up /\ up' = TRUE /\ entries' = [entries EXCEPT !["main"] = file] /\ authors' = {"main"}
        /\ UNCHANGED <<file, saving, left, request, adding, acked, unsaved>>
    BY <1>2 DEF Faces!Load
  <2>2. entries' \in [Faces!Databases -> SUBSET Names] /\ entries'["main"] = file /\ authors' \subseteq Faces!Databases
    BY <1>1, <2>1, WhoActs DEF FacesTypes
  <2>3. FacesTypes'
    BY <1>1, <2>1, <2>2 DEF FacesTypes
  <2>4. Written'
    BY <1>1, <2>1, WhoActs DEF Written
  <2>5. Recorded'
    BY <1>1, <2>1, <2>2 DEF Recorded
  <2> QED BY <2>3, <2>4, <2>5 DEF FacesInv
<1>3. CASE Faces!Crash
  <2>1. /\ up' = FALSE /\ entries' = [d \in Faces!Databases |-> {}]
        /\ saving' = [d \in Faces!Databases |-> "none"] /\ left' = [d \in Faces!Databases |-> {}]
        /\ request' = Faces!Fresh /\ adding' = [h \in Handlers |-> {}]
        /\ unsaved' = FALSE /\ UNCHANGED <<file, authors>>
        /\ acked' = IF Faces!MainsFile THEN acked ELSE acked \cap file
    BY <1>3 DEF Faces!Crash
  <2>2. acked' \subseteq file /\ acked' \subseteq acked
    BY <1>1, <2>1 DEF Recorded
  <2>3. request' \in [Faces!Actors -> {"none", "Save", "answer", "closed"}]
    BY <2>1 DEF Faces!Fresh
  <2>4. FacesTypes'
    BY <1>1, <2>1, <2>2, <2>3 DEF FacesTypes
  <2>5. Written'
    BY <2>1, WhoActs DEF Written
  <2>6. Recorded'
    BY <2>1, <2>2 DEF Recorded
  <2> QED BY <2>4, <2>5, <2>6 DEF FacesInv
<1> QED BY <1>2, <1>3

\* Each step of the process is one of the face libraries', or leaves them alone.
LEMMA FacesSteps == [Next]_vars => Faces!Next \/ UNCHANGED facesVars
BY DEF Next, vars

\* FacesInv is inductive.
LEMMA FacesKeptOn == FacesInv /\ [Next]_vars => FacesInv'
<1> SUFFICES ASSUME FacesInv, [Next]_vars PROVE FacesInv'
  OBVIOUS
<1>1. CASE Faces!Next
  <2>1. CASE \E h \in Handlers, n \in Names : Faces!Register(h, n) \/ Faces!RemoveFace(h, n)
    BY <2>1, ChangeKeeps
  <2>2. CASE \E a \in Faces!Actors : Faces!Save(a)
    BY <2>2, SaveBegins, SaveWrites DEF Faces!Save
  <2>3. CASE \/ \E a \in Faces!Actors : Faces!Answer(a)
             \/ \E a \in Faces!Databases : Faces!ClosePlugin(a)
             \/ \E a \in Others : Faces!OpenPlugin(a)
    <3>1. Handlers \subseteq Faces!Actors /\ Faces!Databases \subseteq Faces!Actors /\ Others \subseteq Faces!Actors
      BY WhoActs
    <3>2. ASSUME NEW a \in Faces!Actors, Faces!Answer(a) PROVE FacesInv'
      BY <3>2, RequestKeeps
    <3>3. ASSUME NEW a \in Faces!Databases, Faces!ClosePlugin(a) PROVE FacesInv'
      BY <3>1, <3>3, RequestKeeps
    <3>4. ASSUME NEW a \in Others, Faces!OpenPlugin(a) PROVE FacesInv'
      BY <3>1, <3>4, RequestKeeps
    <3> QED BY <2>3, <3>2, <3>3, <3>4
  <2>4. CASE Faces!Crash \/ Faces!Load
    BY <2>4, RestartKeeps
  <2> QED BY <1>1, <2>1, <2>2, <2>3, <2>4 DEF Faces!Next
<1>2. CASE UNCHANGED facesVars
  BY <1>2 DEF facesVars, FacesInv, FacesTypes, Written, Recorded, Faces!MainsFile, Faces!Database
<1> QED BY <1>1, <1>2, FacesSteps

\* At first the libraries and the file are empty.
LEMMA FacesInit == Init => FacesInv
<1> SUFFICES ASSUME Faces!Init PROVE FacesInv
  BY DEF Init
<1>1. FacesTypes
  BY WhoActs DEF Faces!Init, FacesTypes, Faces!Fresh
<1>2. Written /\ Recorded
  BY WhoActs DEF Faces!Init, Written, Recorded
<1> QED BY <1>1, <1>2 DEF FacesInv

\* A face that was acknowledged is in main's library, and in the file when the file
\* is as main's last Save left it, whatever the plugins of other sessions load and
\* save in the meantime.
THEOREM PartsFacesKept == Spec => []FacesKept
<1>1. FacesInv => FacesKept
  BY DEF FacesInv, Recorded, FacesKept, Faces!FacesKept
<1>2. Init => FacesInv
  BY FacesInit
<1>3. FacesInv /\ [Next]_vars => FacesInv'
  BY FacesKeptOn
<1> QED BY <1>1, <1>2, <1>3, PTL DEF Spec

-----------------------------------------------------------------------------
(* The percentiles.                                                        *)

\* A permutation of 1 .. n.
Permutes(f, n) ==
  /\ f \in [1 .. n -> 1 .. n]
  /\ \A i, j \in 1 .. n : f[i] = f[j] => i = j
  /\ \A i \in 1 .. n : \E j \in 1 .. n : f[j] = i

\* It brings d in order.
Orders(f, d, n) == Permutes(f, n) /\ \A i, j \in 1 .. n : i < j => d[f[i]] <= d[f[j]]

\* A set of natural numbers has a least element.
LEMMA LeastOf ==
  ASSUME NEW T \in SUBSET Nat, T # {}
  PROVE  \E y \in T : \A x \in T : y <= x
<1> DEFINE R == {ss \in Nat \X Nat : ss[1] < ss[2]}
<1>1. IsWellFoundedOn(R, Nat)
  BY NatLessThanWellFounded DEF OpToRel
<1>2. PICK y \in T : \A x \in T : ~(<<x, y>> \in R)
  <2> HIDE DEF R
  <2> QED BY <1>1, WFMin
<1>3. \A x \in T : y <= x
  <2> TAKE x \in T
  <2>1. <<x, y>> \in Nat \X Nat /\ ~(x < y)
    BY <1>2
  <2> QED BY <2>1
<1> QED BY <1>3

\* One more number goes into the order behind those that are not greater.
LEMMA OneMoreOrdered ==
  ASSUME NEW m \in Nat, NEW n \in Nat, n = m + 1, NEW d \in [1 .. n -> Int], NEW g, Orders(g, d, m)
  PROVE  \E f : Orders(f, d, n)
<1>1. /\ g \in [1 .. m -> 1 .. m] /\ \A i, j \in 1 .. m : g[i] = g[j] => i = j
      /\ \A i \in 1 .. m : \E j \in 1 .. m : g[j] = i
      /\ \A i, j \in 1 .. m : i < j => d[g[i]] <= d[g[j]]
  BY DEF Orders, Permutes
<1>2. \A i \in 1 .. m : g[i] \in 1 .. m
  BY <1>1
<1>3. \A i \in 1 .. m : g[i] \in 1 .. n /\ g[i] # n /\ i \in 1 .. n /\ i # n
  <2> SUFFICES ASSUME NEW i \in 1 .. m PROVE g[i] \in 1 .. n /\ g[i] # n /\ i \in 1 .. n /\ i # n
    OBVIOUS
  <2>1. g[i] \in 1 .. m
    BY <1>2
  <2> QED BY <2>1
<1>4. n \in 1 .. n /\ \A i \in 1 .. n : d[i] \in Int
  OBVIOUS
<1> DEFINE T == {i \in 1 .. n : i = n \/ d[g[i]] > d[n]}
<1>12. PICK k \in T : \A x \in T : k <= x
  <2>1. T \in SUBSET Nat /\ n \in T
    OBVIOUS
  <2> HIDE DEF T
  <2> QED BY <2>1, LeastOf
<1>13. k \in 1 .. n /\ (k = n \/ d[g[k]] > d[n])
  BY <1>12
<1>14. ASSUME NEW i \in 1 .. k - 1 PROVE d[g[i]] <= d[n]
  <2>1. i \in 1 .. m /\ i < k
    BY <1>13
  <2>2. i \notin T
    BY <1>12, <2>1
  <2>3. g[i] \in 1 .. n /\ d[g[i]] \in Int /\ d[n] \in Int
    BY <1>3, <1>4, <2>1
  <2> QED BY <2>1, <2>2, <2>3
<1>15. ASSUME NEW i \in k .. m PROVE d[n] <= d[g[i]]
  <2>1. i \in 1 .. m /\ k \in 1 .. m /\ k # n
    BY <1>13
  <2>2. g[i] \in 1 .. n /\ d[g[i]] \in Int /\ g[k] \in 1 .. n /\ d[g[k]] \in Int /\ d[n] \in Int
    BY <1>3, <1>4, <2>1
  <2>3. k = i \/ (k < i /\ d[g[k]] <= d[g[i]])
    <3>1. k = i \/ k < i
      BY <2>1
    <3> QED BY ONLY <1>1, <2>1, <3>1
  <2> QED BY <1>13, <2>1, <2>2, <2>3
<1> HIDE DEF T
<1> DEFINE f == [i \in 1 .. n |-> IF i < k THEN g[i] ELSE IF i = k THEN n ELSE g[i - 1]]
<1>16. /\ \A i \in 1 .. k - 1 : f[i] = g[i] /\ i \in 1 .. m
      /\ f[k] = n
      /\ \A i \in k + 1 .. n : f[i] = g[i - 1] /\ i - 1 \in 1 .. m /\ i - 1 \in k .. m
  BY <1>13
<1>17. \A i \in 1 .. n : i \in 1 .. k - 1 \/ i = k \/ i \in k + 1 .. n
  BY <1>13
<1>18. f \in [1 .. n -> 1 .. n]
  <2> SUFFICES ASSUME NEW i \in 1 .. n PROVE (IF i < k THEN g[i] ELSE IF i = k THEN n ELSE g[i - 1]) \in 1 .. n
    OBVIOUS
  <2>1. \A j \in 1 .. m : g[j] \in 1 .. n
    BY <1>3
  <2>2. (i < k => i \in 1 .. m) /\ (i > k => i - 1 \in 1 .. m)
    BY <1>13
  <2> QED BY <1>13, <2>1, <2>2
<1> HIDE DEF f
<1>20. ASSUME NEW i \in 1 .. n, NEW j \in 1 .. n, f[i] = f[j] PROVE i = j
  <2>1. CASE i = k
    BY <1>16, <1>17, <1>3, <1>20, <2>1
  <2>2. CASE j = k
    BY <1>16, <1>17, <1>3, <1>20, <2>2
  <2>3. CASE i \in 1 .. k - 1 /\ j \in 1 .. k - 1
    BY <1>1, <1>16, <1>20, <2>3
  <2>4. CASE i \in k + 1 .. n /\ j \in k + 1 .. n
    <3>1. i - 1 = j - 1
      BY <1>1, <1>16, <1>20, <2>4
    <3> QED BY <3>1
  <2>5. CASE i \in 1 .. k - 1 /\ j \in k + 1 .. n
    <3>1. g[i] = g[j - 1] /\ i \in 1 .. m /\ j - 1 \in 1 .. m
      BY <1>16, <1>20, <2>5
    <3>2. i = j - 1
      BY ONLY <1>1, <3>1
    <3> QED BY <1>13, <2>5, <3>2
  <2>6. CASE j \in 1 .. k - 1 /\ i \in k + 1 .. n
    <3>1. g[j] = g[i - 1] /\ j \in 1 .. m /\ i - 1 \in 1 .. m
      BY <1>16, <1>20, <2>6
    <3>2. j = i - 1
      BY ONLY <1>1, <3>1
    <3> QED BY <1>13, <2>6, <3>2
  <2> QED BY <1>17, <2>1, <2>2, <2>3, <2>4, <2>5, <2>6
<1>21. ASSUME NEW i \in 1 .. n PROVE \E j \in 1 .. n : f[j] = i
  <2>1. CASE i = n
    BY <1>13, <1>16, <2>1
  <2>2. CASE i # n
    <3>1. PICK j \in 1 .. m : g[j] = i
      BY <1>1, <2>2
    <3>2. CASE j < k
      <4>1. j \in 1 .. k - 1 /\ j \in 1 .. n
        BY <1>13, <3>2
      <4> QED BY <1>16, <3>1, <4>1
    <3>3. CASE ~(j < k)
      <4>1. j + 1 \in k + 1 .. n /\ j + 1 \in 1 .. n /\ (j + 1) - 1 = j
        BY <1>13, <3>3
      <4> QED BY <1>16, <3>1, <4>1
    <3> QED BY <3>2, <3>3
  <2> QED BY <2>1, <2>2
<1>22. ASSUME NEW i \in 1 .. n, NEW j \in 1 .. n, i < j PROVE d[f[i]] <= d[f[j]]
  <2>1. CASE i = k
    <3>1. j \in k + 1 .. n
      BY <1>13, <1>22, <2>1
    <3> QED BY <1>15, <1>16, <2>1, <3>1
  <2>2. CASE j = k
    <3>1. i \in 1 .. k - 1
      BY <1>13, <1>22, <2>2
    <3> QED BY <1>14, <1>16, <2>2, <3>1
  <2>3. CASE i \in 1 .. k - 1 /\ j \in 1 .. k - 1
    BY <1>1, <1>16, <1>22, <2>3
  <2>4. CASE i \in k + 1 .. n /\ j \in k + 1 .. n
    <3>1. i - 1 < j - 1 /\ i - 1 \in 1 .. m /\ j - 1 \in 1 .. m
      BY <1>16, <1>22, <2>4
    <3>2. d[g[i - 1]] <= d[g[j - 1]]
      BY ONLY <1>1, <3>1
    <3> QED BY <1>16, <2>4, <3>2
  <2>5. CASE i \in 1 .. k - 1 /\ j \in k + 1 .. n
    <3>1. d[f[i]] <= d[n] /\ d[n] <= d[f[j]]
      BY <1>14, <1>15, <1>16, <2>5
    <3>2. f[i] \in 1 .. n /\ f[j] \in 1 .. n /\ d[f[i]] \in Int /\ d[f[j]] \in Int /\ d[n] \in Int
      BY <1>4, <1>18
    <3> QED BY <3>1, <3>2
  <2> QED BY <1>13, <1>17, <1>22, <2>1, <2>2, <2>3, <2>4, <2>5
<1> QED BY <1>18, <1>20, <1>21, <1>22 DEF Orders, Permutes

\* Numbers can be brought in order: a shortest list that cannot would be one
\* number longer than one that can.
LEMMA Ordered == \A n \in Nat : \A d \in [1 .. n -> Int] : \E f : Orders(f, d, n)
<1> DEFINE T == {n \in Nat : \E d \in [1 .. n -> Int] : ~\E f : Orders(f, d, n)}
<1> SUFFICES ASSUME T # {} PROVE FALSE
  OBVIOUS
<1>1. PICK n \in T : \A x \in T : n <= x
  <2>1. T \in SUBSET Nat
    OBVIOUS
  <2> HIDE DEF T
  <2> QED BY <2>1, LeastOf
<1>2. PICK d \in [1 .. n -> Int] : ~\E f : Orders(f, d, n)
  BY <1>1
<1>3. n \in Nat
  BY <1>1
<1>4. CASE n = 0
  <2>1. Orders([i \in 1 .. 0 |-> i], d, 0)
    BY DEF Orders, Permutes
  <2> QED BY <1>2, <1>4, <2>1
<1>5. CASE n # 0
  <2> DEFINE m == n - 1
             c == [i \in 1 .. m |-> d[i]]
  <2>1. m \in Nat /\ ~(n <= m) /\ c \in [1 .. m -> Int]
    BY <1>3, <1>5
  <2>2. m \notin T
    BY <1>1, <2>1
  <2>3. PICK g : Orders(g, c, m)
    BY <2>1, <2>2
  <2>4. Orders(g, d, m)
    BY <2>3 DEF Orders, Permutes
  <2>5. n = m + 1
    BY <1>3
  <2> HIDE DEF m
  <2> QED BY <1>2, <1>3, <2>1, <2>4, <2>5, OneMoreOrdered
<1> QED BY <1>4, <1>5

\* Sorted is what some permutation that orders the durations makes of them.
LEMMA SortedFacts ==
  ASSUME NEW d \in Seq(Int)
  PROVE  \E f : Orders(f, d, Len(d)) /\ Trc!Sorted(d) = [i \in 1 .. Len(d) |-> d[f[i]]]
<1> DEFINE N == 1 .. Len(d)
           P(f) == f \in Trc!Bijection(N, N) /\ \A i, j \in N : i < j => d[f[i]] <= d[f[j]]
           o == CHOOSE f \in Trc!Bijection(N, N) : \A i, j \in N : i < j => d[f[i]] <= d[f[j]]
<1>1. Len(d) \in Nat /\ d \in [1 .. Len(d) -> Int]
  OBVIOUS
<1>2. PICK f : Orders(f, d, Len(d))
  BY <1>1, Ordered
<1>3. ASSUME NEW g PROVE g \in Trc!Bijection(N, N) <=> Permutes(g, Len(d))
  <2>1. g \in Trc!Bijection(N, N) <=> g \in [N -> N] /\ Trc!IsInjective(g) /\ \A t \in N : \E s \in N : g[s] = t
    BY DEF Trc!Bijection, Trc!Injection, Trc!Surjection
  <2>2. g \in [N -> N] => (Trc!IsInjective(g) <=> \A i, j \in N : g[i] = g[j] => i = j)
    BY DEF Trc!IsInjective
  <2> HIDE DEF N
  <2> QED BY <2>1, <2>2 DEF Permutes, N
<1>4. \E g \in Trc!Bijection(N, N) : \A i, j \in N : i < j => d[g[i]] <= d[g[j]]
  BY <1>2, <1>3 DEF Orders
<1>5. o \in Trc!Bijection(N, N) /\ \A i, j \in N : i < j => d[o[i]] <= d[o[j]]
  <2> HIDE DEF N
  <2> QED BY Zenon, <1>4
<1>6. Trc!Sorted(d) = [i \in N |-> d[o[i]]]
  BY Zenon DEF Trc!Sorted
<1> HIDE DEF o
<1>7. Orders(o, d, Len(d))
  BY <1>3, <1>5 DEF Orders
<1> QED BY <1>6, <1>7

\* Where the percentile p of n numbers in order is.
Place(n, p) == LET index == (n * p) \div 100
               IN 1 + (IF index >= n THEN n - 1 ELSE index)

\* A percentile's place is one of the n, next after at most p percent of them;
\* a larger p has no smaller place.
LEMMA PlaceFacts ==
  ASSUME NEW n \in Nat \ {0}, NEW p \in Trc!Asked
  PROVE  /\ Place(n, p) \in 1 .. n /\ 100 * Place(n, p) >= p * n /\ 100 * (Place(n, p) - 1) <= p * n
         /\ \A q \in Trc!Asked : q < p => Place(n, q) <= Place(n, p)
<1>1. p \in {50, 90, 95, 99}
  BY DEF Trc!Asked
<1>2. ASSUME NEW q \in {50, 90, 95, 99}
      PROVE  /\ (n * q) \div 100 \in Nat /\ 100 * ((n * q) \div 100) <= q * n
             /\ q * n < 100 * ((n * q) \div 100) + 100 /\ q * n <= 100 * n
  <2>1. CASE q = 50
    BY <2>1
  <2>2. CASE q = 90
    BY <2>2
  <2>3. CASE q = 95
    BY <2>3
  <2>4. CASE q = 99
    BY <2>4
  <2> QED BY <2>1, <2>2, <2>3, <2>4
<1>3. /\ Place(n, p) \in 1 .. n /\ 100 * Place(n, p) >= p * n /\ 100 * (Place(n, p) - 1) <= p * n
  <2>1. PICK x, m : x = (n * p) \div 100 /\ m = p * n
    OBVIOUS
  <2>2. x \in Nat /\ 100 * x <= m /\ m < 100 * x + 100 /\ m <= 100 * n
    BY <1>1, <1>2, <2>1
  <2>3. m \in Nat
    BY <1>1, <2>1
  <2>4. PICK k : k = Place(n, p)
    OBVIOUS
  <2>5. k = 1 + (IF x >= n THEN n - 1 ELSE x)
    BY <2>1, <2>4 DEF Place
  <2>6. k \in 1 .. n /\ 100 * k >= m /\ 100 * (k - 1) <= m
    BY <2>2, <2>3, <2>5
  <2> QED BY <2>1, <2>4, <2>6
<1>4. ASSUME NEW q \in Trc!Asked, q < p PROVE Place(n, q) <= Place(n, p)
  <2>1. q \in {50, 90, 95, 99}
    BY DEF Trc!Asked
  <2>2. PICK x, y : x = (n * p) \div 100 /\ y = (n * q) \div 100
    OBVIOUS
  <2>3. x \in Nat /\ y \in Nat /\ 100 * y <= q * n /\ p * n < 100 * x + 100
    BY <1>1, <1>2, <2>1, <2>2
  <2>4. q * n <= p * n
    BY <1>1, <1>4, <2>1
  <2>5. q * n \in Nat /\ p * n \in Nat
    BY <1>1, <2>1
  <2>6. y <= x
    BY <2>3, <2>4, <2>5
  <2>7. Place(n, p) = 1 + (IF x >= n THEN n - 1 ELSE x) /\ Place(n, q) = 1 + (IF y >= n THEN n - 1 ELSE y)
    BY <2>2 DEF Place
  <2> QED BY <2>3, <2>6, <2>7
<1> QED BY <1>3, <1>4

\* A percentile of durations is the one at its place in some order of them.
LEMMA PercentileFacts ==
  ASSUME NEW d \in Seq(Int), d # <<>>
  PROVE  \E f : /\ Orders(f, d, Len(d))
                /\ \A p \in Trc!Asked : Trc!Percentile(d, p) = d[f[Place(Len(d), p)]]
<1>1. PICK f : Orders(f, d, Len(d)) /\ Trc!Sorted(d) = [i \in 1 .. Len(d) |-> d[f[i]]]
  BY SortedFacts
<1>2. Len(d) \in Nat \ {0}
  OBVIOUS
<1>3. PICK s : s = Trc!Sorted(d)
  OBVIOUS
<1>4. Len(s) = Len(d) /\ s # <<>> /\ \A i \in 1 .. Len(d) : s[i] = d[f[i]]
  BY <1>1, <1>2, <1>3
<1>5. ASSUME NEW p \in Trc!Asked PROVE Trc!Percentile(d, p) = d[f[Place(Len(d), p)]]
  <2>1. Trc!Percentile(d, p) = s[Place(Len(d), p)]
    BY Zenon, <1>3, <1>4 DEF Trc!Percentile, Place
  <2>2. Place(Len(d), p) \in 1 .. Len(d)
    BY <1>2, PlaceFacts
  <2> QED BY <1>4, <2>1, <2>2
<1> QED BY <1>1, <1>5

\* The module of the tracer has FiniteSets of its own.
LEMMA SameCardinality == \A S : Trc!Cardinality(S) = Cardinality(S)
BY Zenon DEF Trc!Cardinality, Cardinality

\* At least k numbers are no greater than the k-th in order, and fewer than k
\* are smaller.
LEMMA Counts ==
  ASSUME NEW n \in Nat, NEW d \in [1 .. n -> Int], NEW f, Orders(f, d, n), NEW k \in 1 .. n
  PROVE  /\ Cardinality({i \in 1 .. n : d[i] <= d[f[k]]}) \in Nat
         /\ Cardinality({i \in 1 .. n : d[i] < d[f[k]]}) \in Nat
         /\ Cardinality({i \in 1 .. n : d[i] <= d[f[k]]}) >= k
         /\ Cardinality({i \in 1 .. n : d[i] < d[f[k]]}) <= k - 1
<1> DEFINE A == {i \in 1 .. n : d[i] <= d[f[k]]}
           B == {i \in 1 .. n : d[i] < d[f[k]]}
<1>1. f \in [1 .. n -> 1 .. n] /\ \A i \in 1 .. n : \E j \in 1 .. n : f[j] = i
  BY DEF Orders, Permutes
<1>2. \A i \in 1 .. n : f[i] \in 1 .. n /\ d[f[i]] \in Int /\ d[i] \in Int
  BY <1>1
<1>7. \A i, j \in 1 .. n : f[i] = f[j] => i = j
  BY DEF Orders, Permutes
<1>8. \A i, j \in 1 .. n : i < j => d[f[i]] <= d[f[j]]
  BY DEF Orders
<1>3. IsFiniteSet(A) /\ IsFiniteSet(B)
  <2>1. IsFiniteSet(1 .. n) /\ A \in SUBSET (1 .. n) /\ B \in SUBSET (1 .. n)
    BY FS_Interval
  <2> QED BY <2>1, FS_Subset
<1>4. Cardinality(A) \in Nat /\ Cardinality(B) \in Nat
  BY <1>3, FS_CardinalityType
<1>5. Cardinality(A) >= k
  <2> DEFINE g == [i \in 1 .. k |-> f[i]]
  <2>1. ASSUME NEW i \in 1 .. k PROVE f[i] \in A
    <3>1. i \in 1 .. n /\ (i = k \/ i < k)
      OBVIOUS
    <3>2. d[f[i]] <= d[f[k]]
      <4>1. CASE i = k
        BY <1>2, <4>1
      <4>2. CASE i < k
        BY <1>8, <3>1, <4>2
      <4> QED BY <3>1, <4>1, <4>2
    <3> QED BY <1>2, <3>1, <3>2
  <2> HIDE DEF A
  <2>2. g \in Injection(1 .. k, A)
    <3>1. g \in [1 .. k -> A]
      BY <2>1
    <3>2. \A i, j \in 1 .. k : g[i] = g[j] => i = j
      <4>1. \A i \in 1 .. k : g[i] = f[i] /\ i \in 1 .. n
        OBVIOUS
      <4> HIDE DEF g
      <4> QED BY <1>7, <4>1
    <3> HIDE DEF g
    <3> QED BY <3>1, <3>2 DEF Injection, IsInjective
  <2>3. Cardinality(1 .. k) <= Cardinality(A)
    BY <1>3, <2>2, FS_Injection
  <2>4. Cardinality(1 .. k) = k
    BY FS_Interval
  <2> QED BY <2>3, <2>4
<1>6. Cardinality(B) <= k - 1
  <2> DEFINE g == [i \in B |-> CHOOSE j \in 1 .. n : f[j] = i]
  <2>1. ASSUME NEW i \in B PROVE g[i] \in 1 .. k - 1 /\ f[g[i]] = i
    <3>1. i \in 1 .. n /\ d[i] < d[f[k]] /\ i \in B
      OBVIOUS
    <3>2. g[i] \in 1 .. n /\ f[g[i]] = i
      <4> HIDE DEF B
      <4>1. g[i] = CHOOSE j \in 1 .. n : f[j] = i
        BY <3>1
      <4> QED BY <1>1, <3>1, <4>1
    <3> HIDE DEF g
    <3>3. g[i] # k /\ ~(k < g[i])
      <4>1. ~(d[f[k]] <= d[i])
        BY <1>2, <3>1
      <4>2. CASE k < g[i]
        BY <1>8, <3>2, <4>1, <4>2
      <4>3. CASE g[i] = k
        BY <1>2, <3>1, <3>2, <4>3
      <4> QED BY <4>2, <4>3
    <3> QED BY <3>2, <3>3
  <2> HIDE DEF B
  <2>2. g \in [B -> 1 .. k - 1]
    <3>1. DOMAIN g = B /\ g = [i \in B |-> g[i]]
      OBVIOUS
    <3> HIDE DEF g
    <3> QED BY <2>1, <3>1
  <2> HIDE DEF g
  <2>3. g \in Injection(B, 1 .. k - 1)
    <3>1. \A i, j \in B : g[i] = g[j] => i = j
      BY <2>1
    <3> QED BY <2>2, <3>1 DEF Injection, IsInjective
  <2>4. IsFiniteSet(1 .. k - 1) /\ Cardinality(1 .. k - 1) = k - 1
    BY FS_Interval
  <2>5. Cardinality(B) <= Cardinality(1 .. k - 1)
    BY <2>3, <2>4, FS_Injection
  <2> QED BY <2>4, <2>5
<1> QED BY <1>4, <1>5, <1>6

\* What the route gives for a percentile p, whatever durations are kept: one of
\* them, of which at least p percent are no longer and at most p percent are
\* shorter, and no less than for a smaller p.
THEOREM PercentileOfAny == \A d \in Seq(Int) \ {<<>>}, p \in Trc!Asked : Trc!PercentileRight(d, p)
<1> SUFFICES ASSUME NEW d \in Seq(Int) \ {<<>>}, NEW p \in Trc!Asked PROVE Trc!PercentileRight(d, p)
  OBVIOUS
<1>1. PICK n : n = Len(d)
  OBVIOUS
<1>2. n \in Nat \ {0} /\ d \in [1 .. n -> Int]
  BY <1>1
<1>3. PICK f : Orders(f, d, n) /\ \A q \in Trc!Asked : Trc!Percentile(d, q) = d[f[Place(n, q)]]
  BY <1>1, PercentileFacts
<1>4. PICK k : k = Place(n, p)
  OBVIOUS
<1>5. /\ k \in 1 .. n /\ 100 * k >= p * n /\ 100 * (k - 1) <= p * n
      /\ \A q \in Trc!Asked : q < p => Place(n, q) \in 1 .. n /\ Place(n, q) <= k
  BY <1>2, <1>4, PlaceFacts
<1>6. PICK v : v = d[f[k]]
  OBVIOUS
<1>7. Trc!Percentile(d, p) = v
  BY <1>3, <1>4, <1>6
<1>8. /\ f \in [1 .. n -> 1 .. n] /\ \A i, j \in 1 .. n : i < j => d[f[i]] <= d[f[j]]
  BY <1>3 DEF Orders, Permutes
<1>9. v \in Trc!Range(d)
  <2>1. f[k] \in DOMAIN d
    BY <1>2, <1>5, <1>8
  <2> QED BY <1>6, <2>1 DEF Trc!Range
<1>10. PICK a, b : a = Cardinality({i \in 1 .. n : d[i] <= v}) /\ b = Cardinality({i \in 1 .. n : d[i] < v})
  OBVIOUS
<1>11. a \in Nat /\ b \in Nat /\ a >= k /\ b <= k - 1
  <2>1. /\ a = Cardinality({i \in 1 .. n : d[i] <= d[f[k]]})
        /\ b = Cardinality({i \in 1 .. n : d[i] < d[f[k]]})
    BY Zenon, <1>6, <1>10
  <2>2. n \in Nat
    BY <1>2
  <2> QED BY Zenon, <1>2, <1>3, <1>5, <2>1, <2>2, Counts
<1>12. 100 * a >= p * n /\ 100 * b <= p * n
  <2>1. PICK m : m = p * n
    OBVIOUS
  <2>2. m \in Nat /\ 100 * k >= m /\ 100 * (k - 1) <= m
    BY <1>2, <1>5, <2>1 DEF Trc!Asked
  <2>3. 100 * a >= m /\ 100 * b <= m
    BY <1>5, <1>11, <2>2
  <2> QED BY <2>1, <2>3
<1>13. ASSUME NEW q \in Trc!Asked, q < p PROVE Trc!Percentile(d, q) <= v
  <2>1. PICK l : l = Place(n, q)
    OBVIOUS
  <2>2. l \in 1 .. n /\ l <= k
    BY <1>5, <1>13, <2>1
  <2>3. d[f[l]] \in Int
    BY <1>2, <1>8, <2>2
  <2>4. d[f[l]] <= d[f[k]]
    BY <1>5, <1>8, <2>2, <2>3
  <2> QED BY <1>3, <1>6, <2>1, <2>4
<1>14. /\ a = Trc!Cardinality({i \in 1 .. Len(d) : d[i] <= Trc!Percentile(d, p)})
       /\ b = Trc!Cardinality({i \in 1 .. Len(d) : d[i] < Trc!Percentile(d, p)})
  BY Zenon, <1>1, <1>7, <1>10, SameCardinality
<1>15. \A q \in Trc!Asked : q < p => Trc!Percentile(d, q) <= Trc!Percentile(d, p)
  BY Zenon, <1>7, <1>13
<1> QED BY Zenon, <1>1, <1>7, <1>9, <1>12, <1>14, <1>15 DEF Trc!PercentileRight
-----------------------------------------------------------------------------
(* The tracer.                                                             *)

\* Events have numbers, the queues hold events, and the ring and the durations
\* are the last of the events since the last Reset.
TrcTypes ==
  /\ enabled \in BOOLEAN /\ running \in BOOLEAN
  /\ logPc \in [Loggers -> {"idle", "ring", "queue"}] /\ logged \in 0 .. MaxEvents
  /\ event \in [Loggers -> 0 .. MaxEvents]
  /\ \A t \in Loggers : event[t] <= logged /\ (logPc[t] # "idle" => event[t] >= 1)
  /\ queued \in Seq(Trc!Events) /\ batch \in Seq(Trc!Events) /\ pendings \in Seq(Trc!Events)
  /\ writerPc \in {"none", "check", "wait", "write", "final", "flush", "done"}
  /\ exitPc \in {"no", "write", "stop", "clear", "join", "done"}

TrcInv == TrcTypes /\ since \in Seq(Trc!Events) /\ Trc!RingIsTail

\* A list that is kept bounded holds the last elements of all that were added.
LEMMA BoundedTail ==
  ASSUME NEW S, NEW s \in Seq(S), NEW n \in Nat
  PROVE  /\ Trc!Bounded(s, n) \in Seq(S) /\ Len(Trc!Bounded(s, n)) = (IF Len(s) > n THEN n ELSE Len(s))
         /\ \A i \in 1 .. Len(Trc!Bounded(s, n)) :
              Trc!Bounded(s, n)[i] = s[i + (Len(s) - Len(Trc!Bounded(s, n)))]
<1>1. Len(s) \in Nat
  OBVIOUS
<1>2. CASE Len(s) > n
  <2> DEFINE m == Len(s) - n + 1
             t == SubSeq(s, m, Len(s))
  <2>1. Trc!Bounded(s, n) = t
    BY <1>2 DEF Trc!Bounded, Trc!LastOf
  <2>2. m \in Int /\ m >= 1 /\ m \in 1 .. Len(s) + 1 /\ \A i \in m .. Len(s) : s[i] \in S
    BY <1>1, <1>2
  <2>3. /\ t \in Seq(S) /\ Len(t) = IF m <= Len(s) THEN Len(s) - m + 1 ELSE 0
        /\ \A i \in 1 .. Len(s) - m + 1 : t[i] = s[m + i - 1]
    <3> HIDE DEF m
    <3> QED BY <1>1, <2>2, SubSeqProperties
  <2> HIDE DEF t
  <2>4. Len(t) = n /\ Len(s) - m + 1 = n
    BY <1>1, <1>2, <2>3
  <2>5. \A i \in 1 .. n : m + i - 1 = i + (Len(s) - n)
    BY <1>1
  <2> QED BY <1>2, <2>1, <2>3, <2>4, <2>5
<1>3. CASE ~(Len(s) > n)
  <2>1. Trc!Bounded(s, n) = s
    BY <1>3 DEF Trc!Bounded
  <2>2. \A i \in 1 .. Len(s) : i + (Len(s) - Len(s)) = i
    BY <1>1
  <2> QED BY <1>1, <1>3, <2>1, <2>2
<1> QED BY <1>2, <1>3

\* Dropping the oldest as each comes, or once at the end, is the same.
LEMMA BoundedAppend ==
  ASSUME NEW S, NEW s \in Seq(S), NEW n \in Nat, NEW x \in S
  PROVE  Trc!Bounded(Append(Trc!Bounded(s, n), x), n) = Trc!Bounded(Append(s, x), n)
<1> DEFINE b == Trc!Bounded(s, n)
           t == Append(s, x)
           u == Append(b, x)
           v == Trc!Bounded(t, n)
           w == Trc!Bounded(u, n)
<1>1. /\ b \in Seq(S) /\ Len(b) = (IF Len(s) > n THEN n ELSE Len(s))
      /\ \A i \in 1 .. Len(b) : b[i] = s[i + (Len(s) - Len(b))]
  BY BoundedTail
<1>2. Len(s) \in Nat /\ Len(b) \in Nat
  BY <1>1
<1>3. /\ t \in Seq(S) /\ Len(t) = Len(s) + 1 /\ t[Len(s) + 1] = x
      /\ \A i \in 1 .. Len(s) : t[i] = s[i]
  BY <1>2
<1> HIDE DEF b
<1>4. /\ u \in Seq(S) /\ Len(u) = Len(b) + 1 /\ u[Len(b) + 1] = x
      /\ \A i \in 1 .. Len(b) : u[i] = b[i]
  BY <1>1, <1>2
<1> HIDE DEF t, u
<1>5. /\ v \in Seq(S) /\ Len(v) = (IF Len(t) > n THEN n ELSE Len(t))
      /\ \A i \in 1 .. Len(v) : v[i] = t[i + (Len(t) - Len(v))]
  BY <1>3, BoundedTail
<1>6. /\ w \in Seq(S) /\ Len(w) = (IF Len(u) > n THEN n ELSE Len(u))
      /\ \A i \in 1 .. Len(w) : w[i] = u[i + (Len(u) - Len(w))]
  BY <1>4, BoundedTail
<1> HIDE DEF v, w
<1>7. Len(v) = Len(w) /\ Len(v) \in Nat
  BY <1>1, <1>2, <1>3, <1>4, <1>5, <1>6
<1>8. ASSUME NEW i \in 1 .. Len(v) PROVE v[i] = w[i]
  <2> DEFINE p == i + (Len(t) - Len(v))
             q == i + (Len(u) - Len(v))
  <2>1. v[i] = t[p] /\ w[i] = u[q]
    BY <1>5, <1>6, <1>7
  <2>2. p - q = Len(s) - Len(b) /\ p \in 1 .. Len(s) + 1 /\ q \in 1 .. Len(b) + 1
    <3>1. /\ Len(t) = Len(s) + 1 /\ Len(u) = Len(b) + 1 /\ Len(v) \in Nat
          /\ Len(v) <= Len(t) /\ Len(v) <= Len(u) /\ i \in 1 .. Len(v)
      BY <1>2, <1>3, <1>4, <1>5, <1>6, <1>7
    <3> QED BY ONLY <1>2, <3>1 DEF p, q
  <2> HIDE DEF p, q
  <2>3. CASE q = Len(b) + 1
    <3>1. p = Len(s) + 1
      BY <1>2, <2>2, <2>3
    <3> QED BY <1>3, <1>4, <2>1, <2>3, <3>1
  <2>4. CASE q # Len(b) + 1
    <3>1. q \in 1 .. Len(b) /\ p \in 1 .. Len(s) /\ q + (Len(s) - Len(b)) = p
      BY <1>2, <2>2, <2>4
    <3> QED BY <1>1, <1>3, <1>4, <2>1, <3>1
  <2> QED BY <2>3, <2>4
<1>9. v = w
  BY <1>5, <1>6, <1>7, <1>8, SeqEqual
<1> QED BY <1>9 DEF b, t, u, v, w

\* An event enters the ring and the statistics together.
LEMMA RingKeeps ==
  ASSUME TrcInv, NEW t \in Loggers, Trc!LogToRing(t)
  PROVE  TrcInv'
<1> DEFINE d == event[t]
<1>1. /\ d \in Trc!Events /\ since \in Seq(Trc!Events) /\ BufferSize \in Nat /\ MaxDurations \in Nat
      /\ stats.count = Len(since) /\ ring = Trc!Bounded(since, BufferSize)
      /\ stats.durations = Trc!Bounded(since, MaxDurations)
  <2>1. BufferSize \in Nat /\ MaxDurations \in Nat /\ MaxEvents \in Nat
    BY PartsAssumption DEF Trc!TracerConstants
  <2>2. logPc[t] = "ring" /\ d \in 0 .. MaxEvents /\ d >= 1
    BY DEF Trc!LogToRing, TrcInv, TrcTypes
  <2> QED BY <2>1, <2>2 DEF TrcInv, Trc!RingIsTail, Trc!Events
<1>2. /\ ring' = Trc!Bounded(Append(ring, d), BufferSize) /\ stats' = Trc!Counted(stats, d)
      /\ since' = Append(since, d) /\ logPc' = [logPc EXCEPT ![t] = "queue"]
      /\ UNCHANGED <<enabled, event, queued, batch, writerPc, running, pendings, exitPc, logged>>
  BY DEF Trc!LogToRing
<1> HIDE DEF d
<1>3. /\ stats'.count = stats.count + 1
      /\ stats'.durations = Trc!Bounded(Append(stats.durations, d), MaxDurations)
  BY <1>2 DEF Trc!Counted
<1>4. since' \in Seq(Trc!Events) /\ Len(since') = Len(since) + 1
  BY <1>1, <1>2
<1>5. /\ ring' = Trc!Bounded(since', BufferSize)
      /\ stats'.durations = Trc!Bounded(since', MaxDurations)
  BY <1>1, <1>2, <1>3, BoundedAppend
<1>6. Trc!RingIsTail'
  BY <1>1, <1>3, <1>4, <1>5 DEF Trc!RingIsTail, Trc!Bounded, Trc!LastOf
<1>7. TrcTypes'
  BY <1>2 DEF TrcInv, TrcTypes, Trc!LogToRing
<1> QED BY <1>4, <1>6, <1>7 DEF TrcInv

\* Reset empties both.
LEMMA ResetKeeps == TrcInv /\ Trc!Reset => TrcInv'
<1> SUFFICES ASSUME TrcInv, Trc!Reset PROVE TrcInv'
  OBVIOUS
<1>1. /\ ring' = <<>> /\ stats' = Trc!NoStats /\ since' = <<>>
      /\ UNCHANGED <<enabled, logPc, event, queued, batch, writerPc, running, pendings, exitPc, logged>>
  BY DEF Trc!Reset, Trc!Cleared
<1>2. BufferSize \in Nat /\ MaxDurations \in Nat
  BY PartsAssumption DEF Trc!TracerConstants
<1>3. stats'.count = 0 /\ stats'.durations = <<>> /\ since' \in Seq(Trc!Events) /\ Len(since') = 0
  BY <1>1 DEF Trc!NoStats
<1>4. ~(Len(since') > BufferSize) /\ ~(Len(since') > MaxDurations)
  BY <1>2, <1>3
<1>5. Trc!RingIsTail'
  BY <1>1, <1>3, <1>4 DEF Trc!RingIsTail, Trc!Bounded
<1>6. TrcTypes'
  BY <1>1 DEF TrcInv, TrcTypes
<1> QED BY <1>3, <1>5, <1>6 DEF TrcInv

\* Each step of the process is one of the tracer's, or leaves it alone.
LEMMA TrcSteps == [Next]_vars => Trc!Next \/ UNCHANGED tracerVars
BY DEF Next, vars

\* The steps that leave the ring and the statistics alone.
LEMMA OtherTrcKeeps ==
  ASSUME TrcInv, UNCHANGED <<ring, stats, since>>, TrcTypes'
  PROVE  TrcInv'
BY DEF TrcInv, Trc!RingIsTail, Trc!Bounded, Trc!LastOf

\* TrcInv is inductive.
LEMMA TrcKept == TrcInv /\ [Next]_vars => TrcInv'
<1> SUFFICES ASSUME TrcInv, [Next]_vars PROVE TrcInv'
  OBVIOUS
<1>1. TrcTypes /\ MaxEvents \in Nat
  BY PartsAssumption DEF TrcInv, Trc!TracerConstants
<1>2. CASE Trc!EnableOn \/ Trc!EnableOff
  <2>1. TrcTypes' /\ UNCHANGED <<ring, stats, since>>
    BY <1>1, <1>2 DEF Trc!EnableOn, Trc!EnableOff, TrcTypes
  <2> QED BY <2>1, OtherTrcKeeps
<1>3. CASE Trc!Reset
  BY <1>3, ResetKeeps
<1>4. CASE Trc!Writer
  <2>1. UNCHANGED <<ring, stats, since, enabled, logPc, event, running, pendings, exitPc, logged>>
    BY <1>4 DEF Trc!Writer, Trc!WriterCheck, Trc!WriterTake, Trc!WriterWrite, Trc!WriterFinal
  <2>2. writerPc' \in {"none", "check", "wait", "write", "final", "flush", "done"}
    BY <1>1, <1>4 DEF Trc!Writer, Trc!WriterCheck, Trc!WriterTake, Trc!WriterWrite, Trc!WriterFinal, TrcTypes
  <2>3. queued' \in Seq(Trc!Events) /\ batch' \in Seq(Trc!Events)
    <3>1. queued \in Seq(Trc!Events) /\ batch \in Seq(Trc!Events) /\ <<>> \in Seq(Trc!Events)
      BY <1>1 DEF TrcTypes
    <3>2. CASE Trc!WriterWrite
      <4>1. batch = <<>> \/ Tail(batch) \in Seq(Trc!Events)
        BY <3>1
      <4>2. queued' = queued /\ batch' \in {batch, Tail(batch)} /\ (batch = <<>> => batch' = batch)
        BY <3>2 DEF Trc!WriterWrite, Trc!AfterWrite
      <4> QED BY <3>1, <4>1, <4>2
    <3>3. CASE Trc!WriterCheck \/ Trc!WriterTake \/ Trc!WriterFinal
      BY <3>1, <3>3 DEF Trc!WriterCheck, Trc!WriterTake, Trc!WriterFinal
    <3> QED BY <1>4, <3>2, <3>3 DEF Trc!Writer
  <2>4. TrcTypes'
    BY <1>1, <2>1, <2>2, <2>3 DEF TrcTypes
  <2> QED BY <2>1, <2>4, OtherTrcKeeps
<1>5. CASE Trc!ExitFlush \/ Trc!Leave
  <2>1. UNCHANGED <<ring, stats, since, enabled, logPc, event, batch, writerPc, logged>>
    BY <1>5 DEF Trc!ExitFlush, Trc!Leave, Trc!ExitWrite, Trc!ExitStop, Trc!ExitClear, Trc!ExitJoin
  <2>2. exitPc' \in {"no", "write", "stop", "clear", "join", "done"} /\ running' \in BOOLEAN
    BY <1>1, <1>5 DEF Trc!ExitFlush, Trc!Leave, Trc!ExitWrite, Trc!ExitStop, Trc!ExitClear, Trc!ExitJoin, TrcTypes
  <2>3. queued' \in Seq(Trc!Events) /\ pendings' \in Seq(Trc!Events)
    <3>1. queued \in Seq(Trc!Events) /\ pendings \in Seq(Trc!Events) /\ <<>> \in Seq(Trc!Events)
      BY <1>1 DEF TrcTypes
    <3>2. CASE Trc!ExitWrite
      <4>1. pendings = <<>> \/ Tail(pendings) \in Seq(Trc!Events)
        BY <3>1
      <4>2. queued' = queued /\ pendings' \in {pendings, Tail(pendings)} /\ (pendings = <<>> => pendings' = pendings)
        BY <3>2 DEF Trc!ExitWrite, Trc!AfterWrite
      <4> QED BY <3>1, <4>1, <4>2
    <3>3. CASE Trc!ExitFlush \/ Trc!ExitStop \/ Trc!ExitClear \/ Trc!ExitJoin
      BY <3>1, <3>3 DEF Trc!ExitFlush, Trc!Flushed, Trc!ExitStop, Trc!ExitClear, Trc!ExitJoin
    <3> QED BY <1>5, <3>2, <3>3 DEF Trc!Leave
  <2>4. TrcTypes'
    BY <1>1, <2>1, <2>2, <2>3 DEF TrcTypes
  <2> QED BY <2>1, <2>4, OtherTrcKeeps
<1>6. ASSUME NEW t \in Loggers, Trc!LogEvent(t) PROVE TrcInv'
  <2>1. /\ logged' = logged + 1 /\ logged < MaxEvents
        /\ event' = [event EXCEPT ![t] = logged + 1] /\ logPc' = [logPc EXCEPT ![t] = "ring"]
        /\ UNCHANGED <<enabled, ring, stats, queued, batch, writerPc, running, pendings, exitPc, since>>
    BY <1>6 DEF Trc!LogEvent
  <2>2. TrcTypes'
    BY <1>1, <2>1 DEF TrcTypes
  <2> QED BY <2>1, <2>2, OtherTrcKeeps
<1>7. ASSUME NEW t \in Loggers, Trc!LogToRing(t) PROVE TrcInv'
  BY <1>7, RingKeeps
<1>8. ASSUME NEW t \in Loggers, Trc!LogToQueue(t) PROVE TrcInv'
  <2>1. /\ logPc[t] = "queue" /\ queued' = Append(queued, event[t]) /\ logPc' = [logPc EXCEPT ![t] = "idle"]
        /\ UNCHANGED <<enabled, event, ring, stats, batch, writerPc, running, pendings, exitPc, logged, since>>
    BY <1>8 DEF Trc!LogToQueue
  <2>2. event[t] \in Trc!Events
    BY <1>1, <2>1 DEF TrcTypes, Trc!Events
  <2>3. queued' \in Seq(Trc!Events)
    BY <1>1, <2>1, <2>2 DEF TrcTypes
  <2>4. TrcTypes'
    BY <1>1, <2>1, <2>3 DEF TrcTypes
  <2> QED BY <2>1, <2>4, OtherTrcKeeps
<1>9. CASE UNCHANGED tracerVars
  <2>1. TrcTypes' /\ UNCHANGED <<ring, stats, since>>
    BY <1>1, <1>9 DEF tracerVars, TrcTypes
  <2> QED BY <2>1, OtherTrcKeeps
<1> QED BY <1>2, <1>3, <1>4, <1>5, <1>6, <1>7, <1>8, <1>9, TrcSteps DEF Trc!Next

\* At first nothing is logged.
LEMMA TrcInit == Init => TrcInv
<1> SUFFICES ASSUME Trc!Init PROVE TrcInv
  BY DEF Init
<1>1. BufferSize \in Nat /\ MaxDurations \in Nat /\ MaxEvents \in Nat
  BY PartsAssumption DEF Trc!TracerConstants
<1>2. TrcTypes
  <2>1. /\ logPc \in [Loggers -> {"idle", "ring", "queue"}] /\ event \in [Loggers -> 0 .. MaxEvents]
        /\ \A t \in Loggers : event[t] = 0 /\ logPc[t] = "idle"
    BY <1>1 DEF Trc!Init
  <2>2. queued \in Seq(Trc!Events) /\ batch \in Seq(Trc!Events) /\ pendings \in Seq(Trc!Events)
    BY DEF Trc!Init
  <2>3. logged = 0 /\ writerPc = "none" /\ exitPc = "no" /\ enabled = FALSE /\ running = FALSE
    BY DEF Trc!Init
  <2>4. logged \in 0 .. MaxEvents
    BY <1>1, <2>3
  <2>5. enabled \in BOOLEAN /\ running \in BOOLEAN
    BY <2>3, Zenon
  <2>6. \A t \in Loggers : event[t] <= logged /\ (logPc[t] # "idle" => event[t] >= 1)
    BY <2>1, <2>3
  <2> QED BY <2>1, <2>2, <2>3, <2>4, <2>5, <2>6 DEF TrcTypes
<1>3. since = <<>> /\ ring = <<>> /\ stats.count = 0 /\ stats.durations = <<>>
  BY DEF Trc!Init, Trc!NoStats
<1>4. since \in Seq(Trc!Events) /\ Len(since) = 0 /\ ~(Len(since) > BufferSize) /\ ~(Len(since) > MaxDurations)
  BY <1>1, <1>3
<1> QED BY <1>2, <1>3, <1>4 DEF TrcInv, Trc!RingIsTail, Trc!Bounded
-----------------------------------------------------------------------------
(* The log of the tracer.                                                  *)

\* No element comes twice.
Distinct(s) == \A i, j \in 1 .. Len(s) : s[i] = s[j] => i = j

\* What the log G says of an event: its text is over, its line is over, nothing; and
\* what it never says.
EndIn(e, G)   == <<e, "rest">> \in G \/ <<e, "broken">> \in G
OverIn(e, G)  == <<e, "newline">> \in G \/ <<e, "bare">> \in G
NoneIn(e, G)  == \A w \in Trc!Results : <<e, w>> \notin G
RightIn(e, G) == /\ ~(<<e, "rest">> \in G /\ <<e, "broken">> \in G)
                 /\ ~(<<e, "newline">> \in G /\ <<e, "bare">> \in G)
                 /\ OverIn(e, G) => EndIn(e, G)

\* The calls of write that the log g counts; it counts each once at most.
Calls(g)    == {call \in Trc!Events \X Trc!Results : g[call] > 0}
CountsOf(g) == g \in [Trc!Events \X Trc!Results -> 0 .. 1]

\* No line of the events in s is over in the log G, and if one has begun it is that
\* of the first.
Pending(s, G) == \A e \in Trc!ToSet(s) : ~OverIn(e, G) /\ (~NoneIn(e, G) => e = s[1])

\* Of the events 1 .. n each is in one place: with a thread that has still to
\* queue it (H), in the queue q, in one of the lists a and b of those who write,
\* or its line is over in the log g; in g no call of write comes twice.
Lines(q, a, b, g, n, H) ==
  /\ Distinct(q) /\ Distinct(a) /\ Distinct(b) /\ CountsOf(g)
  /\ Calls(g) \subseteq (1 .. n) \X Trc!Results
  /\ Trc!ToSet(q) \cup Trc!ToSet(a) \cup Trc!ToSet(b) \cup H \subseteq 1 .. n
  /\ (Trc!ToSet(q) \cup H) \cap (Trc!ToSet(a) \cup Trc!ToSet(b)) = {}
  /\ Trc!ToSet(q) \cap H = {} /\ Trc!ToSet(a) \cap Trc!ToSet(b) = {}
  /\ \A e \in Trc!ToSet(q) \cup H : NoneIn(e, Calls(g))
  /\ Pending(a, Calls(g)) /\ Pending(b, Calls(g))
  /\ \A e \in 1 .. n : RightIn(e, Calls(g))
  /\ \A e \in 1 .. n : \/ e \in Trc!ToSet(q) \cup Trc!ToSet(a) \cup Trc!ToSet(b) \cup H
                       \/ OverIn(e, Calls(g))

\* The events that threads have to queue.
Held == {event[t] : t \in {u \in Loggers : logPc[u] # "idle"}}

\* The writer has a batch while it writes, the destructor its pending events
\* while it does; when it has begun no thread logs and nothing is queued.
Once ==
  /\ \A t, u \in Loggers : logPc[t] # "idle" /\ logPc[u] # "idle" /\ event[t] = event[u] => t = u
  /\ Lines(queued, batch, pendings, log, logged, Held)
  /\ batch # <<>> => writerPc \in {"write", "flush"}
  /\ pendings # <<>> => exitPc = "write"
  /\ exitPc # "no" => queued = <<>> /\ \A t \in Loggers : logPc[t] = "idle"
  /\ exitPc = "done" => writerPc \in {"none", "done"}
  /\ exitPc = "no" /\ ~running => writerPc = "none"

\* What Append adds.
LEMMA ElementsAppend ==
  ASSUME NEW S, NEW s \in Seq(S), NEW x \in S
  PROVE  /\ Append(s, x) \in Seq(S) /\ Trc!ToSet(Append(s, x)) = Trc!ToSet(s) \cup {x}
         /\ Distinct(s) /\ x \notin Trc!ToSet(s) => Distinct(Append(s, x))
<1>1. PICK u : u = Append(s, x)
  OBVIOUS
<1>2. /\ u \in Seq(S) /\ Len(s) \in Nat /\ Len(u) = Len(s) + 1 /\ u[Len(s) + 1] = x
      /\ \A i \in 1 .. Len(s) : u[i] = s[i]
  BY <1>1
<1>3. \A i \in 1 .. Len(u) : i \in 1 .. Len(s) \/ i = Len(s) + 1
  BY <1>2
<1>4. /\ \A e : e \in Trc!ToSet(u) <=> \E i \in 1 .. Len(u) : u[i] = e
      /\ \A e : e \in Trc!ToSet(s) <=> \E i \in 1 .. Len(s) : s[i] = e
  <2>1. DOMAIN u = 1 .. Len(u) /\ DOMAIN s = 1 .. Len(s)
    BY <1>2
  <2> QED BY <2>1 DEF Trc!ToSet
<1>5. Trc!ToSet(u) = Trc!ToSet(s) \cup {x}
  <2>1. ASSUME NEW e \in Trc!ToSet(u) PROVE e \in Trc!ToSet(s) \cup {x}
    BY <1>2, <1>3, <1>4
  <2>2. ASSUME NEW e \in Trc!ToSet(s) PROVE e \in Trc!ToSet(u)
    <3>1. PICK i \in 1 .. Len(s) : s[i] = e
      BY <1>4
    <3>2. i \in 1 .. Len(u) /\ u[i] = e
      BY <1>2, <3>1
    <3> QED BY <1>4, <3>2
  <2>3. x \in Trc!ToSet(u)
    <3>1. Len(s) + 1 \in 1 .. Len(u)
      BY <1>2
    <3> QED BY <1>2, <1>4, <3>1
  <2> QED BY <2>1, <2>2, <2>3
<1>6. ASSUME Distinct(s), x \notin Trc!ToSet(s) PROVE Distinct(u)
  <2>1. \A i \in 1 .. Len(s) : s[i] # x
    BY <1>4, <1>6
  <2> SUFFICES ASSUME NEW i \in 1 .. Len(u), NEW j \in 1 .. Len(u), u[i] = u[j] PROVE i = j
    BY DEF Distinct
  <2>2. CASE i \in 1 .. Len(s) /\ j \in 1 .. Len(s)
    BY <1>2, <1>6, <2>2 DEF Distinct
  <2>3. CASE i = Len(s) + 1 \/ j = Len(s) + 1
    BY <1>2, <1>3, <2>1, <2>3
  <2> QED BY <1>3, <2>2, <2>3
<1> QED BY <1>1, <1>2, <1>5, <1>6

\* The log with a call of write that it does not count.
LEMMA LogMore ==
  ASSUME NEW g, CountsOf(g), NEW y \in Trc!Events \X Trc!Results, y \notin Calls(g),
         NEW h, h = [g EXCEPT ![y] = @ + 1]
  PROVE  CountsOf(h) /\ Calls(h) = Calls(g) \cup {y}
<1>1. PICK Z : Z = Trc!Events \X Trc!Results
  OBVIOUS
<1>2. g \in [Z -> 0 .. 1] /\ y \in Z /\ g[y] = 0
  BY <1>1 DEF CountsOf, Calls
<1>3. h \in [Z -> 0 .. 1] /\ \A x \in Z : h[x] = IF x = y THEN 1 ELSE g[x]
  BY <1>2
<1>4. {x \in Z : h[x] > 0} = {x \in Z : g[x] > 0} \cup {y}
  BY <1>2, <1>3
<1> QED BY <1>1, <1>3, <1>4 DEF CountsOf, Calls

\* What Tail takes away.
LEMMA ElementsTail ==
  ASSUME NEW S, NEW s \in Seq(S), s # <<>>, Distinct(s)
  PROVE  /\ Tail(s) \in Seq(S) /\ Head(s) = s[1] /\ Head(s) \in Trc!ToSet(s) /\ Head(s) \in S
         /\ Trc!ToSet(Tail(s)) = Trc!ToSet(s) \ {Head(s)} /\ Distinct(Tail(s))
<1>1. PICK u : u = Tail(s)
  OBVIOUS
<1>2. /\ u \in Seq(S) /\ Len(s) \in Nat /\ Len(s) >= 1 /\ Len(u) = Len(s) - 1
      /\ \A i \in 1 .. Len(s) - 1 : u[i] = s[i + 1]
  BY <1>1
<1>3. Head(s) = s[1] /\ s[1] \in S /\ 1 \in 1 .. Len(s)
  BY <1>2
<1>4. /\ \A e : e \in Trc!ToSet(u) <=> \E i \in 1 .. Len(u) : u[i] = e
      /\ \A e : e \in Trc!ToSet(s) <=> \E i \in 1 .. Len(s) : s[i] = e
  <2>1. DOMAIN u = 1 .. Len(u) /\ DOMAIN s = 1 .. Len(s)
    BY <1>2
  <2> QED BY <2>1 DEF Trc!ToSet
<1>5. \A i, j \in 1 .. Len(s) : s[i] = s[j] => i = j
  BY DEF Distinct
<1>6. ASSUME NEW e \in Trc!ToSet(u) PROVE e \in Trc!ToSet(s) /\ e # s[1]
  <2>1. PICK i \in 1 .. Len(u) : u[i] = e
    BY <1>4
  <2>2. i + 1 \in 1 .. Len(s) /\ s[i + 1] = e /\ i + 1 # 1
    BY <1>2, <2>1
  <2> QED BY <1>3, <1>4, <1>5, <2>2
<1>7. ASSUME NEW e \in Trc!ToSet(s), e # s[1] PROVE e \in Trc!ToSet(u)
  <2>1. PICK i \in 1 .. Len(s) : s[i] = e
    BY <1>4
  <2>2. i - 1 \in 1 .. Len(u) /\ i - 1 \in 1 .. Len(s) - 1 /\ (i - 1) + 1 = i
    BY <1>2, <1>7, <2>1
  <2>3. u[i - 1] = e
    BY <1>2, <2>1, <2>2
  <2> QED BY <1>4, <2>2, <2>3
<1>8. Distinct(u)
  <2> SUFFICES ASSUME NEW i \in 1 .. Len(u), NEW j \in 1 .. Len(u), u[i] = u[j] PROVE i = j
    BY DEF Distinct
  <2>1. i + 1 \in 1 .. Len(s) /\ j + 1 \in 1 .. Len(s) /\ s[i + 1] = s[j + 1]
    BY <1>2
  <2>2. i + 1 = j + 1
    BY <1>5, <2>1
  <2> QED BY <2>2
<1>9. Trc!ToSet(u) = Trc!ToSet(s) \ {s[1]}
  BY <1>6, <1>7
<1> QED BY <1>1, <1>2, <1>3, <1>4, <1>8, <1>9

\* Nothing is in an empty list.
LEMMA ElementsNone == Trc!ToSet(<<>>) = {} /\ Distinct(<<>>)
BY DEF Trc!ToSet, Distinct

\* Who of the two writers has a list does not matter.
LEMMA EitherWriter ==
  ASSUME NEW q, NEW a, NEW b, NEW g, NEW n, NEW H, Lines(q, a, b, g, n, H)
  PROVE  Lines(q, b, a, g, n, H)
<1>1. Trc!ToSet(a) \cap Trc!ToSet(b) = Trc!ToSet(b) \cap Trc!ToSet(a)
  OBVIOUS
<1>2. Trc!ToSet(q) \cup Trc!ToSet(a) \cup Trc!ToSet(b) \cup H = Trc!ToSet(q) \cup Trc!ToSet(b) \cup Trc!ToSet(a) \cup H
  OBVIOUS
<1>3. Trc!ToSet(a) \cup Trc!ToSet(b) = Trc!ToSet(b) \cup Trc!ToSet(a)
  OBVIOUS
<1> QED BY Zenon, <1>1, <1>2, <1>3 DEF Lines

\* A call of write for the first event of a list: for its text, or when that is over
\* for its newline, and the event leaves the list.
LEMMA WriteKeeps ==
  ASSUME NEW q, NEW a \in Seq(Trc!Events), NEW b, NEW g, NEW n, NEW H, Lines(q, a, b, g, n, H), a # <<>>,
         NEW w \in Trc!Results, <<Head(a), w>> \notin Calls(g), NEW c,
         \/ EndIn(Head(a), Calls(g)) /\ w \in {"newline", "bare"} /\ c = Tail(a)
         \/ ~EndIn(Head(a), Calls(g)) /\ w \notin {"newline", "bare"} /\ c = a,
         NEW h, h = [g EXCEPT ![<<Head(a), w>>] = @ + 1]
  PROVE  Lines(q, c, b, h, n, H)
<1>1. PICK Q, A, B, G, x : Q = Trc!ToSet(q) /\ A = Trc!ToSet(a) /\ B = Trc!ToSet(b) /\ G = Calls(g) /\ x = Head(a)
  OBVIOUS
<1>2. /\ Distinct(q) /\ Distinct(a) /\ Distinct(b) /\ CountsOf(g)
      /\ G \subseteq (1 .. n) \X Trc!Results /\ Q \cup A \cup B \cup H \subseteq 1 .. n
      /\ (Q \cup H) \cap (A \cup B) = {} /\ Q \cap H = {} /\ A \cap B = {}
      /\ \A e \in Q \cup H : NoneIn(e, G)
      /\ \A e \in A : ~OverIn(e, G) /\ (~NoneIn(e, G) => e = a[1])
      /\ \A e \in B : ~OverIn(e, G) /\ (~NoneIn(e, G) => e = b[1])
      /\ \A e \in 1 .. n : RightIn(e, G)
      /\ \A e \in 1 .. n : e \in Q \cup A \cup B \cup H \/ OverIn(e, G)
  BY <1>1 DEF Lines, Pending
<1>3. /\ Tail(a) \in Seq(Trc!Events) /\ x = a[1] /\ x \in A /\ x \in Trc!Events
      /\ Trc!ToSet(Tail(a)) = A \ {x} /\ Distinct(Tail(a))
  BY <1>1, <1>2, ElementsTail
<1>4. x \in 1 .. n /\ x \notin Q /\ x \notin H /\ x \notin B /\ ~OverIn(x, G) /\ RightIn(x, G)
  BY <1>2, <1>3
<1>5. PICK y, F : y = <<x, w>> /\ F = G \cup {y}
  OBVIOUS
<1>6. CountsOf(h) /\ Calls(h) = F /\ F \subseteq (1 .. n) \X Trc!Results
  <2>1. y \in Trc!Events \X Trc!Results /\ y \notin Calls(g) /\ y \in (1 .. n) \X Trc!Results
    BY <1>1, <1>3, <1>4, <1>5
  <2>2. h = [g EXCEPT ![y] = @ + 1]
    BY <1>1, <1>5
  <2>3. CountsOf(h) /\ Calls(h) = Calls(g) \cup {y}
    BY ONLY <1>2, <2>1, <2>2, LogMore
  <2> QED BY <1>1, <1>2, <1>5, <2>1, <2>3
<1>7. \A e, k : <<e, k>> \in F <=> <<e, k>> \in G \/ (e = x /\ k = w)
  BY <1>5
<1>8. \A e : e # x => /\ OverIn(e, F) <=> OverIn(e, G)
                      /\ NoneIn(e, F) <=> NoneIn(e, G)
                      /\ RightIn(e, F) <=> RightIn(e, G)
  BY <1>7 DEF EndIn, OverIn, NoneIn, RightIn
<1>9. RightIn(x, F) /\ ((c = a /\ ~OverIn(x, F)) \/ (c = Tail(a) /\ OverIn(x, F)))
  <2>1. CASE EndIn(x, G) /\ w \in {"newline", "bare"} /\ c = Tail(a)
    BY <1>4, <1>7, <2>1 DEF EndIn, OverIn, RightIn
  <2>2. CASE ~EndIn(x, G) /\ w \notin {"newline", "bare"} /\ c = a
    BY <1>4, <1>7, <2>2 DEF EndIn, OverIn, RightIn
  <2> QED BY <1>1, <2>1, <2>2
<1>10. /\ \A e \in Q \cup H : NoneIn(e, F)
       /\ \A e \in B : ~OverIn(e, F) /\ (~NoneIn(e, F) => e = b[1])
       /\ \A e \in A \ {x} : ~OverIn(e, F) /\ NoneIn(e, F)
       /\ \A e \in 1 .. n : RightIn(e, F)
  BY <1>2, <1>3, <1>4, <1>8, <1>9
<1>11. Pending(b, F)
  BY <1>1, <1>10 DEF Pending
<1>12. CASE c = a /\ ~OverIn(x, F)
  <2>1. Pending(a, F)
    BY <1>1, <1>3, <1>10, <1>12 DEF Pending
  <2>2. \A e \in 1 .. n : e \in Q \cup A \cup B \cup H \/ OverIn(e, F)
    BY <1>2, <1>3, <1>8
  <2> QED BY Zenon, <1>1, <1>2, <1>6, <1>10, <1>11, <1>12, <2>1, <2>2 DEF Lines
<1>13. CASE c = Tail(a) /\ OverIn(x, F)
  <2>1. Pending(c, F)
    BY <1>3, <1>10, <1>13 DEF Pending
  <2>2. \A e \in 1 .. n : e \in Q \cup (A \ {x}) \cup B \cup H \/ OverIn(e, F)
    BY <1>2, <1>8, <1>13
  <2>3. /\ Q \cup (A \ {x}) \cup B \cup H \subseteq 1 .. n /\ (Q \cup H) \cap ((A \ {x}) \cup B) = {}
        /\ (A \ {x}) \cap B = {}
    BY <1>2
  <2> QED BY Zenon, <1>1, <1>2, <1>3, <1>6, <1>10, <1>11, <1>13, <2>1, <2>2, <2>3 DEF Lines
<1> QED BY <1>9, <1>12, <1>13

\* So it is when WriteLine writes for a list.
LEMMA LineKeeps ==
  ASSUME NEW q, NEW a \in Seq(Trc!Events), NEW b, Lines(q, a, b, log, logged, Held), a # <<>>, Trc!WriteLine(a)
  PROVE  Lines(q, Trc!AfterWrite(a), b, log', logged, Held)
<1>1. PICK w \in Trc!NextResults(Head(a)) : log' = [log EXCEPT ![<<Head(a), w>>] = @ + 1]
  BY DEF Trc!WriteLine
<1>2. PICK x, G : x = Head(a) /\ G = Calls(log)
  OBVIOUS
<1>3. ~OverIn(x, G) /\ x \in Trc!Events
  <2>1. x \in Trc!ToSet(a) /\ x \in Trc!Events
    BY <1>2, ElementsTail DEF Lines
  <2> QED BY <1>2, <2>1 DEF Lines, Pending
<1>4. Trc!TextOver(x) <=> EndIn(x, G)
  BY <1>2, <1>3 DEF Trc!TextOver, Trc!Wrote, EndIn, Calls, Trc!Results
<1>5. Trc!Wrote(x, "part") <=> <<x, "part">> \in G
  BY <1>2, <1>3 DEF Trc!Wrote, Calls, Trc!Results
<1>6. /\ w \in Trc!Results /\ <<x, w>> \notin G
      /\ \/ EndIn(x, G) /\ w \in {"newline", "bare"} /\ Trc!AfterWrite(a) = Tail(a)
         \/ ~EndIn(x, G) /\ w \notin {"newline", "bare"} /\ Trc!AfterWrite(a) = a
  <2>1. CASE EndIn(x, G)
    <3>1. w \in {"newline", "bare"} /\ Trc!AfterWrite(a) = Tail(a)
      BY <1>1, <1>2, <1>4, <2>1 DEF Trc!NextResults, Trc!AfterWrite
    <3> QED BY <1>3, <2>1, <3>1 DEF OverIn, Trc!Results
  <2>2. CASE ~EndIn(x, G)
    <3>1. w \in {"rest", "broken", "part"} /\ (w = "part" => <<x, "part">> \notin G) /\ Trc!AfterWrite(a) = a
      BY <1>1, <1>2, <1>4, <1>5, <2>2 DEF Trc!NextResults, Trc!AfterWrite
    <3> QED BY <2>2, <3>1 DEF EndIn, Trc!Results
  <2> QED BY <2>1, <2>2
<1>7. PICK c, h : c = Trc!AfterWrite(a) /\ h = log'
  OBVIOUS
<1>8. Lines(q, c, b, h, logged, Held)
  BY <1>1, <1>2, <1>6, <1>7, WriteKeeps
<1> QED BY <1>7, <1>8

\* The queue becomes the list of one who has written all of his.
LEMMA TakeKeeps ==
  ASSUME NEW q, NEW b, NEW g, NEW n, NEW H, Lines(q, <<>>, b, g, n, H)
  PROVE  Lines(<<>>, q, b, g, n, H)
<1>1. PICK Q, B, G : Q = Trc!ToSet(q) /\ B = Trc!ToSet(b) /\ G = Calls(g)
  OBVIOUS
<1>2. /\ Distinct(q) /\ Distinct(b) /\ CountsOf(g)
      /\ G \subseteq (1 .. n) \X Trc!Results /\ Q \cup B \cup H \subseteq 1 .. n
      /\ (Q \cup H) \cap B = {} /\ Q \cap H = {}
      /\ \A e \in Q \cup H : NoneIn(e, G)
      /\ Pending(b, G)
      /\ \A e \in 1 .. n : RightIn(e, G)
      /\ \A e \in 1 .. n : e \in Q \cup B \cup H \/ OverIn(e, G)
  BY <1>1, ElementsNone DEF Lines
<1>3. Pending(q, G)
  <2>1. \A e \in Q : ~OverIn(e, G) /\ NoneIn(e, G)
    BY <1>2 DEF NoneIn, OverIn, Trc!Results
  <2> QED BY <1>1, <2>1 DEF Pending
<1>4. /\ {} \cup Q \cup B \cup H = Q \cup B \cup H /\ ({} \cup H) \cap (Q \cup B) = {} /\ {} \cap H = {}
      /\ Q \cap B = {} /\ {} \cup H = H /\ \A e \in H : NoneIn(e, G)
  BY <1>2
<1> QED BY Zenon, <1>1, <1>2, <1>3, <1>4, ElementsNone DEF Lines

\* A thread queues its event.
LEMMA QueueKeeps ==
  ASSUME NEW q \in Seq(Nat), NEW a, NEW b, NEW g, NEW n \in Nat, NEW H, Lines(q, a, b, g, n, H), NEW e \in H
  PROVE  Lines(Append(q, e), a, b, g, n, H \ {e})
<1>1. PICK Q, A, B, G : Q = Trc!ToSet(q) /\ A = Trc!ToSet(a) /\ B = Trc!ToSet(b) /\ G = Calls(g)
  OBVIOUS
<1>2. /\ Distinct(q) /\ Distinct(a) /\ Distinct(b) /\ CountsOf(g)
      /\ G \subseteq (1 .. n) \X Trc!Results /\ Q \cup A \cup B \cup H \subseteq 1 .. n
      /\ (Q \cup H) \cap (A \cup B) = {} /\ Q \cap H = {} /\ A \cap B = {}
      /\ \A i \in Q \cup H : NoneIn(i, G)
      /\ Pending(a, G) /\ Pending(b, G)
      /\ \A i \in 1 .. n : RightIn(i, G)
      /\ \A i \in 1 .. n : i \in Q \cup A \cup B \cup H \/ OverIn(i, G)
  BY <1>1 DEF Lines
<1>3. e \in Nat /\ e \notin Q
  BY <1>2
<1>4. Trc!ToSet(Append(q, e)) = Q \cup {e} /\ Distinct(Append(q, e))
  BY <1>1, <1>2, <1>3, ElementsAppend
<1>5. /\ (Q \cup {e}) \cup A \cup B \cup (H \ {e}) = Q \cup A \cup B \cup H
      /\ (Q \cup {e}) \cup (H \ {e}) = Q \cup H /\ (Q \cup {e}) \cap (H \ {e}) = {}
  BY <1>2
<1> QED BY Zenon, <1>1, <1>2, <1>4, <1>5 DEF Lines

\* A thread has the next event.
LEMMA HoldKeeps ==
  ASSUME NEW q, NEW a, NEW b, NEW g, NEW n \in Nat, NEW H, Lines(q, a, b, g, n, H)
  PROVE  Lines(q, a, b, g, n + 1, H \cup {n + 1})
<1>1. PICK Q, A, B, G : Q = Trc!ToSet(q) /\ A = Trc!ToSet(a) /\ B = Trc!ToSet(b) /\ G = Calls(g)
  OBVIOUS
<1>2. /\ Distinct(q) /\ Distinct(a) /\ Distinct(b) /\ CountsOf(g)
      /\ G \subseteq (1 .. n) \X Trc!Results /\ Q \cup A \cup B \cup H \subseteq 1 .. n
      /\ (Q \cup H) \cap (A \cup B) = {} /\ Q \cap H = {} /\ A \cap B = {}
      /\ \A i \in Q \cup H : NoneIn(i, G)
      /\ Pending(a, G) /\ Pending(b, G)
      /\ \A i \in 1 .. n : RightIn(i, G)
      /\ \A i \in 1 .. n : i \in Q \cup A \cup B \cup H \/ OverIn(i, G)
  BY <1>1 DEF Lines
<1>3. PICK m : m = n + 1
  OBVIOUS
<1>4. /\ m \in 1 .. m /\ m \notin 1 .. n /\ 1 .. n \subseteq 1 .. m /\ \A i \in 1 .. m : i \in 1 .. n \/ i = m
      /\ m \notin Q /\ m \notin A /\ m \notin B /\ m \notin H
  <2>1. m \in 1 .. m /\ m \notin 1 .. n /\ 1 .. n \subseteq 1 .. m /\ \A i \in 1 .. m : i \in 1 .. n \/ i = m
    BY <1>3
  <2> QED BY <1>2, <2>1
<1>5. NoneIn(m, G) /\ RightIn(m, G) /\ G \subseteq (1 .. m) \X Trc!Results
  <2>1. \A w : <<m, w>> \notin G
    BY <1>2, <1>4
  <2> QED BY <1>2, <1>4, <2>1 DEF NoneIn, RightIn, OverIn
<1>6. /\ Q \cup A \cup B \cup (H \cup {m}) \subseteq 1 .. m /\ (Q \cup (H \cup {m})) \cap (A \cup B) = {}
      /\ Q \cap (H \cup {m}) = {} /\ \A i \in Q \cup (H \cup {m}) : NoneIn(i, G)
      /\ \A i \in 1 .. m : RightIn(i, G)
      /\ \A i \in 1 .. m : i \in Q \cup A \cup B \cup (H \cup {m}) \/ OverIn(i, G)
  BY <1>2, <1>4, <1>5
<1>7. Lines(q, a, b, g, m, H \cup {m})
  BY Zenon, <1>1, <1>2, <1>5, <1>6 DEF Lines
<1> QED BY <1>3, <1>7

\* Events are numbers.
LEMMA EventsAreNumbers == \A s \in Seq(Trc!Events) : s \in Seq(Nat)
<1>1. Trc!Events \subseteq Nat
  BY DEF Trc!Events
<1> QED BY <1>1, SeqMonotonic

\* The steps that take an event from one to the next.
LEMMA OnceLists ==
  ASSUME Lines(queued', batch', pendings', log', logged', Held'),
         \A t, u \in Loggers : logPc'[t] # "idle" /\ logPc'[u] # "idle" /\ event'[t] = event'[u] => t = u,
         batch' # <<>> => writerPc' \in {"write", "flush"},
         pendings' # <<>> => exitPc' = "write",
         exitPc' # "no" => queued' = <<>> /\ \A t \in Loggers : logPc'[t] = "idle",
         exitPc' = "done" => writerPc' \in {"none", "done"},
         exitPc' = "no" /\ ~running' => writerPc' = "none"
  PROVE  Once'
BY DEF Once

\* A thread begins to log, or queues what it logs.
LEMMA OnceLogged ==
  ASSUME TrcTypes, Once, NEW t \in Loggers, Trc!LogEvent(t) \/ Trc!LogToQueue(t)
  PROVE  Once'
<1>1. /\ logPc \in [Loggers -> {"idle", "ring", "queue"}] /\ logged \in Nat /\ queued \in Seq(Nat)
      /\ event \in [Loggers -> Nat] /\ \A u \in Loggers : event[u] <= logged
  <2>1. MaxEvents \in Nat
    BY PartsAssumption DEF Trc!TracerConstants
  <2>2. queued \in Seq(Nat)
    BY EventsAreNumbers DEF TrcTypes
  <2> QED BY <2>1, <2>2 DEF TrcTypes
<1>2. CASE Trc!LogEvent(t)
  <2>1. /\ logPc[t] = "idle" /\ exitPc = "no" /\ logged' = logged + 1 /\ event' = [event EXCEPT ![t] = logged + 1]
        /\ logPc' = [logPc EXCEPT ![t] = "ring"] /\ UNCHANGED <<queued, batch, writerPc, running, pendings, exitPc, log>>
    BY <1>2 DEF Trc!LogEvent
  <2>2. ASSUME NEW u \in Loggers PROVE event'[u] = (IF u = t THEN logged + 1 ELSE event[u])
                                       /\ logPc'[u] = (IF u = t THEN "ring" ELSE logPc[u])
    BY <1>1, <2>1
  <2>3. Held' = Held \cup {logged + 1}
    <3>1. ASSUME NEW e \in Held' PROVE e \in Held \cup {logged + 1}
      <4>1. PICK u \in Loggers : logPc'[u] # "idle" /\ e = event'[u]
        BY DEF Held
      <4> QED BY <2>2, <4>1 DEF Held
    <3>2. ASSUME NEW e \in Held PROVE e \in Held'
      <4>1. PICK u \in Loggers : logPc[u] # "idle" /\ e = event[u]
        BY DEF Held
      <4>2. logPc'[u] # "idle" /\ e = event'[u]
        BY <2>1, <2>2, <4>1
      <4> QED BY <4>2 DEF Held
    <3>3. logged + 1 \in Held'
      <4>1. logPc'[t] # "idle" /\ logged + 1 = event'[t]
        BY <2>2
      <4> QED BY <4>1 DEF Held
    <3> QED BY <3>1, <3>2, <3>3
  <2>4. Lines(queued', batch', pendings', log', logged', Held')
    <3>1. Lines(queued, batch, pendings, log, logged, Held)
      BY DEF Once
    <3>2. Lines(queued, batch, pendings, log, logged + 1, Held \cup {logged + 1})
      BY <1>1, <3>1, HoldKeeps
    <3> QED BY <2>1, <2>3, <3>2
  <2>5. \A u, v \in Loggers : logPc'[u] # "idle" /\ logPc'[v] # "idle" /\ event'[u] = event'[v] => u = v
    <3>1. \A u \in Loggers : u # t => event[u] # logged + 1
      BY <1>1
    <3> QED BY <2>2, <3>1 DEF Once
  <2> QED BY <2>1, <2>4, <2>5, OnceLists DEF Once
<1>3. CASE Trc!LogToQueue(t)
  <2>1. /\ logPc[t] = "queue" /\ queued' = Append(queued, event[t]) /\ logPc' = [logPc EXCEPT ![t] = "idle"]
        /\ UNCHANGED <<event, logged, batch, writerPc, running, pendings, exitPc, log>>
    BY <1>3 DEF Trc!LogToQueue
  <2>2. \A u \in Loggers : logPc'[u] = (IF u = t THEN "idle" ELSE logPc[u])
    BY <1>1, <2>1
  <2>3. \A u \in Loggers : logPc[u] # "idle" /\ event[u] = event[t] => u = t
    BY <2>1 DEF Once
  <2>4. Held' = Held \ {event[t]} /\ event[t] \in Held
    <3>1. ASSUME NEW e \in Held' PROVE e \in Held \ {event[t]}
      <4>1. PICK u \in Loggers : logPc'[u] # "idle" /\ e = event[u]
        BY <2>1 DEF Held
      <4>2. u # t /\ logPc[u] # "idle"
        BY <2>2, <4>1
      <4> QED BY <2>3, <4>1, <4>2 DEF Held
    <3>2. ASSUME NEW e \in Held, e # event[t] PROVE e \in Held'
      <4>1. PICK u \in Loggers : logPc[u] # "idle" /\ e = event[u]
        BY DEF Held
      <4>2. logPc'[u] # "idle" /\ e = event'[u]
        BY <2>1, <2>2, <3>2, <4>1
      <4> QED BY <4>2 DEF Held
    <3>3. event[t] \in Held
      BY <2>1 DEF Held
    <3> QED BY <3>1, <3>2, <3>3
  <2>5. Lines(queued', batch', pendings', log', logged', Held')
    <3>1. Lines(queued, batch, pendings, log, logged, Held)
      BY DEF Once
    <3>2. Lines(Append(queued, event[t]), batch, pendings, log, logged, Held \ {event[t]})
      BY <1>1, <2>4, <3>1, QueueKeeps
    <3> QED BY <2>1, <2>4, <3>2
  <2>6. \A u, v \in Loggers : logPc'[u] # "idle" /\ logPc'[v] # "idle" /\ event'[u] = event'[v] => u = v
    BY <2>1, <2>2 DEF Once
  <2>7. exitPc = "no"
    BY <2>1 DEF Once
  <2> QED BY <2>1, <2>5, <2>6, <2>7, OnceLists DEF Once
<1> QED BY <1>2, <1>3

\* The thread that writes takes the queue, and writes it.
LEMMA OnceWriter == TrcTypes /\ Once /\ Trc!Writer => Once'
<1> SUFFICES ASSUME TrcTypes, Once, Trc!Writer PROVE Once'
  OBVIOUS
<1>1. /\ Lines(queued, batch, pendings, log, logged, Held)
      /\ \A t, u \in Loggers : logPc[t] # "idle" /\ logPc[u] # "idle" /\ event[t] = event[u] => t = u
      /\ batch # <<>> => writerPc \in {"write", "flush"}
      /\ pendings # <<>> => exitPc = "write"
      /\ exitPc # "no" => queued = <<>> /\ \A t \in Loggers : logPc[t] = "idle"
      /\ exitPc = "done" => writerPc \in {"none", "done"}
      /\ exitPc = "no" /\ ~running => writerPc = "none"
  BY DEF Once
<1>2. UNCHANGED <<logPc, event, running, pendings, exitPc, logged>> /\ Held' = Held
  <2>1. UNCHANGED <<logPc, event, running, pendings, exitPc, logged>>
    BY DEF Trc!Writer, Trc!WriterCheck, Trc!WriterTake, Trc!WriterWrite, Trc!WriterFinal
  <2> QED BY <2>1 DEF Held
<1>3. /\ writerPc \notin {"none", "done"}
      /\ batch' # <<>> => writerPc' \in {"write", "flush"}
      /\ queued' = queued \/ queued' = <<>>
  <2>1. CASE Trc!WriterWrite
    BY <1>1, <2>1 DEF Trc!WriterWrite
  <2>2. CASE Trc!WriterCheck
    BY <1>1, <2>2 DEF Trc!WriterCheck
  <2>3. CASE Trc!WriterTake
    BY <1>1, <2>3 DEF Trc!WriterTake
  <2>4. CASE Trc!WriterFinal
    BY <1>1, <2>4 DEF Trc!WriterFinal
  <2> QED BY <2>1, <2>2, <2>3, <2>4 DEF Trc!Writer
<1>4. Lines(queued', batch', pendings, log', logged, Held)
  <2>1. CASE Trc!WriterWrite
    <3>1. CASE batch = <<>>
      BY <1>1, <2>1, <3>1 DEF Trc!WriterWrite
    <3>2. CASE batch # <<>>
      <4>1. queued' = queued /\ batch' = Trc!AfterWrite(batch) /\ Trc!WriteLine(batch)
        BY <2>1, <3>2 DEF Trc!WriterWrite
      <4>2. batch \in Seq(Trc!Events)
        BY DEF TrcTypes
      <4>3. Lines(queued, Trc!AfterWrite(batch), pendings, log', logged, Held)
        BY <1>1, <3>2, <4>1, <4>2, LineKeeps
      <4> QED BY <4>1, <4>3
    <3> QED BY <3>1, <3>2
  <2>2. CASE Trc!WriterCheck
    BY <1>1, <2>2 DEF Trc!WriterCheck
  <2>3. CASE Trc!WriterTake \/ Trc!WriterFinal
    <3>1. batch = <<>> /\ log' = log
      BY <1>1, <2>3 DEF Trc!WriterTake, Trc!WriterFinal
    <3>2. CASE UNCHANGED <<queued, batch>>
      BY <1>1, <3>1, <3>2
    <3>3. CASE batch' = queued /\ queued' = <<>>
      BY <1>1, <3>1, <3>3, TakeKeeps
    <3> QED BY <2>3, <3>2, <3>3 DEF Trc!WriterTake, Trc!WriterFinal
  <2> QED BY <2>1, <2>2, <2>3 DEF Trc!Writer
<1>5. exitPc = "no" => running
  BY <1>1, <1>3
<1> QED BY <1>1, <1>2, <1>3, <1>4, <1>5, OnceLists

\* So does the destructor, while the writer has its own.
LEMMA OnceExit == TrcTypes /\ Once /\ (Trc!ExitFlush \/ Trc!Leave) => Once'
<1> SUFFICES ASSUME TrcTypes, Once, Trc!ExitFlush \/ Trc!Leave PROVE Once'
  OBVIOUS
<1>1. /\ Lines(queued, batch, pendings, log, logged, Held)
      /\ \A t, u \in Loggers : logPc[t] # "idle" /\ logPc[u] # "idle" /\ event[t] = event[u] => t = u
      /\ batch # <<>> => writerPc \in {"write", "flush"}
      /\ pendings # <<>> => exitPc = "write"
      /\ exitPc # "no" => queued = <<>> /\ \A t \in Loggers : logPc[t] = "idle"
      /\ exitPc = "done" => writerPc \in {"none", "done"}
      /\ exitPc = "no" /\ ~running => writerPc = "none"
  BY DEF Once
<1>2. UNCHANGED <<logPc, event, batch, writerPc, logged>> /\ Held' = Held
  <2>1. UNCHANGED <<logPc, event, batch, writerPc, logged>>
    BY DEF Trc!Leave, Trc!ExitFlush, Trc!ExitWrite, Trc!ExitStop, Trc!ExitClear, Trc!ExitJoin
  <2> QED BY <2>1 DEF Held
<1>3. /\ exitPc' # "no" /\ queued' = <<>> /\ \A t \in Loggers : logPc[t] = "idle"
      /\ pendings' # <<>> => exitPc' = "write"
      /\ exitPc' = "done" => writerPc \in {"none", "done"}
  <2>1. CASE Trc!ExitFlush
    BY <2>1 DEF Trc!ExitFlush, Trc!Flushed
  <2>2. CASE Trc!ExitWrite
    BY <1>1, <2>2 DEF Trc!ExitWrite
  <2>3. CASE Trc!ExitStop
    BY <1>1, <2>3 DEF Trc!ExitStop
  <2>4. CASE Trc!ExitClear
    BY <1>1, <2>4 DEF Trc!ExitClear
  <2>5. CASE Trc!ExitJoin
    BY <1>1, <2>5 DEF Trc!ExitJoin
  <2> QED BY <2>1, <2>2, <2>3, <2>4, <2>5 DEF Trc!Leave
<1>4. Lines(queued', batch, pendings', log', logged, Held)
  <2>1. CASE Trc!ExitFlush
    <3>1. pendings = <<>> /\ pendings' = queued /\ queued' = <<>> /\ log' = log
      BY <1>1, <2>1 DEF Trc!ExitFlush, Trc!Flushed
    <3>2. Lines(queued, <<>>, batch, log, logged, Held)
      BY <1>1, <3>1, EitherWriter
    <3>3. Lines(<<>>, queued, batch, log, logged, Held)
      BY <3>2, TakeKeeps
    <3>4. Lines(<<>>, batch, queued, log, logged, Held)
      BY <3>3, EitherWriter
    <3> QED BY <3>1, <3>4
  <2>2. CASE Trc!ExitWrite
    <3>1. CASE pendings = <<>>
      BY <1>1, <2>2, <3>1 DEF Trc!ExitWrite
    <3>2. CASE pendings # <<>>
      <4>1. queued' = queued /\ pendings' = Trc!AfterWrite(pendings) /\ Trc!WriteLine(pendings)
        BY <2>2, <3>2 DEF Trc!ExitWrite
      <4>2. pendings \in Seq(Trc!Events)
        BY DEF TrcTypes
      <4>3. Lines(queued, pendings, batch, log, logged, Held)
        BY <1>1, EitherWriter
      <4>4. Lines(queued, Trc!AfterWrite(pendings), batch, log', logged, Held)
        BY <3>2, <4>1, <4>2, <4>3, LineKeeps
      <4>5. Lines(queued, batch, Trc!AfterWrite(pendings), log', logged, Held)
        BY <4>4, EitherWriter
      <4> QED BY <4>1, <4>5
    <3> QED BY <3>1, <3>2
  <2>3. CASE Trc!ExitStop \/ Trc!ExitClear \/ Trc!ExitJoin
    <3>1. queued = <<>> /\ UNCHANGED <<pendings, log>>
      BY <1>1, <2>3 DEF Trc!ExitStop, Trc!ExitClear, Trc!ExitJoin
    <3> QED BY <1>1, <1>3, <3>1
  <2> QED BY <2>1, <2>2, <2>3 DEF Trc!Leave
<1> QED BY <1>1, <1>2, <1>3, <1>4, OnceLists

\* The steps that move no event.
LEMMA OnceOther ==
  ASSUME Once, UNCHANGED <<queued, batch, pendings, log, logged, event, exitPc>>,
         \A t \in Loggers : logPc'[t] = "idle" <=> logPc[t] = "idle",
         UNCHANGED <<writerPc, running>> \/ (~running /\ running' /\ exitPc = "no" /\ writerPc' = "check")
  PROVE  Once'
<1>1. Held' = Held
  BY DEF Held
<1>2. Lines(queued', batch', pendings', log', logged', Held')
  BY <1>1 DEF Once
<1> QED BY <1>2, OnceLists DEF Once

\* Once is inductive.
LEMMA OnceKept == TrcTypes /\ Once /\ [Next]_vars => Once'
<1> SUFFICES ASSUME TrcTypes, Once, [Next]_vars PROVE Once'
  OBVIOUS
<1>1. CASE Trc!EnableOn
  BY <1>1, OnceOther DEF Trc!EnableOn
<1>2. CASE Trc!EnableOff
  BY <1>2, OnceOther DEF Trc!EnableOff
<1>3. CASE Trc!Reset
  BY <1>3, OnceOther DEF Trc!Reset
<1>4. ASSUME NEW t \in Loggers, Trc!LogToRing(t) PROVE Once'
  <2>1. \A u \in Loggers : logPc'[u] = "idle" <=> logPc[u] = "idle"
    BY <1>4 DEF Trc!LogToRing, TrcTypes
  <2> QED BY <1>4, <2>1, OnceOther DEF Trc!LogToRing
<1>5. CASE UNCHANGED tracerVars
  BY <1>5, OnceOther DEF tracerVars
<1> QED BY <1>1, <1>2, <1>3, <1>4, <1>5, OnceLogged, OnceWriter, OnceExit, TrcSteps DEF Trc!Next

\* At first nobody has an event.
LEMMA OnceInit == Init => Once
<1> SUFFICES ASSUME Trc!Init PROVE Once
  BY DEF Init
<1>1. /\ \A t \in Loggers : logPc[t] = "idle"
      /\ queued = <<>> /\ batch = <<>> /\ pendings = <<>> /\ logged = 0
      /\ log = [call \in Trc!Events \X Trc!Results |-> 0]
      /\ exitPc = "no" /\ writerPc = "none"
  BY DEF Trc!Init
<1>2. Held = {}
  BY <1>1 DEF Held
<1>3. 1 .. 0 = {} /\ CountsOf(log) /\ Calls(log) = {}
  BY <1>1 DEF CountsOf, Calls
<1>4. Pending(<<>>, {})
  BY ElementsNone DEF Pending
<1>5. Lines(<<>>, <<>>, <<>>, log, 0, {})
  BY <1>3, <1>4, ElementsNone DEF Lines
<1> QED BY <1>1, <1>2, <1>5 DEF Once

\* An element of a list in which none comes twice is in it once.
LEMMA TimesOf ==
  ASSUME NEW S, NEW s \in Seq(S), Distinct(s), NEW e
  PROVE  Trc!Times(e, s) = IF e \in Trc!ToSet(s) THEN 1 ELSE 0
<1>1. DOMAIN s = 1 .. Len(s) /\ (e \in Trc!ToSet(s) <=> \E i \in 1 .. Len(s) : s[i] = e)
  <2>1. DOMAIN s = 1 .. Len(s)
    OBVIOUS
  <2> QED BY <2>1 DEF Trc!ToSet
<1>2. Trc!Times(e, s) = Cardinality({i \in 1 .. Len(s) : s[i] = e})
  BY <1>1, SameCardinality DEF Trc!Times
<1>3. CASE e \in Trc!ToSet(s)
  <2>1. PICK i \in 1 .. Len(s) : s[i] = e
    BY <1>1, <1>3
  <2>2. {j \in 1 .. Len(s) : s[j] = e} = {i}
    BY <2>1 DEF Distinct
  <2> QED BY <1>2, <1>3, <2>2, FS_Singleton
<1>4. CASE e \notin Trc!ToSet(s)
  <2>1. {j \in 1 .. Len(s) : s[j] = e} = {}
    BY <1>1, <1>4
  <2> QED BY <1>2, <1>4, <2>1, FS_EmptySet
<1> QED BY <1>3, <1>4

\* Then the log has each event once.
LEMMA OnceWritten == TrcTypes /\ Once => Trc!EachWrittenOnce
<1> SUFFICES ASSUME TrcTypes, Once PROVE Trc!EachWrittenOnce
  OBVIOUS
<1>1. PICK Q, A, B, G : Q = Trc!ToSet(queued) /\ A = Trc!ToSet(batch) /\ B = Trc!ToSet(pendings) /\ G = Calls(log)
  OBVIOUS
<1>2. /\ Distinct(queued) /\ Distinct(batch) /\ Distinct(pendings) /\ CountsOf(log)
      /\ (Q \cup Held) \cap (A \cup B) = {} /\ Q \cap Held = {} /\ A \cap B = {}
      /\ \A e \in 1 .. logged : RightIn(e, G)
      /\ \A e \in 1 .. logged : e \in Q \cup A \cup B \cup Held \/ OverIn(e, G)
      /\ batch # <<>> => writerPc \in {"write", "flush"}
      /\ pendings # <<>> => exitPc = "write"
      /\ exitPc # "no" => queued = <<>> /\ \A t \in Loggers : logPc[t] = "idle"
      /\ exitPc = "done" => writerPc \in {"none", "done"}
  BY <1>1 DEF Once, Lines
<1>3. queued \in Seq(Trc!Events) /\ batch \in Seq(Trc!Events) /\ pendings \in Seq(Trc!Events)
  BY DEF TrcTypes
<1>4. 1 .. logged \subseteq Trc!Events
  BY PartsAssumption DEF TrcTypes, Trc!Events, Trc!TracerConstants
<1>5. ASSUME NEW e \in 1 .. logged, \A t \in Loggers : logPc[t] = "idle" \/ event[t] # e, ~OverIn(e, G)
      PROVE  Trc!Times(e, queued) + Trc!Times(e, batch) + Trc!Times(e, pendings) = 1
  <2>1. e \notin Held
    BY <1>5 DEF Held
  <2>2. e \in Q \cup A \cup B
    BY <1>2, <1>5, <2>1
  <2>3. /\ Trc!Times(e, queued) = IF e \in Q THEN 1 ELSE 0
        /\ Trc!Times(e, batch) = IF e \in A THEN 1 ELSE 0
        /\ Trc!Times(e, pendings) = IF e \in B THEN 1 ELSE 0
    BY <1>1, <1>2, <1>3, TimesOf
  <2> QED BY <1>2, <2>2, <2>3
<1>6. ASSUME exitPc = "done", NEW e \in 1 .. logged PROVE OverIn(e, G)
  <2>1. queued = <<>> /\ batch = <<>> /\ pendings = <<>> /\ Held = {}
    BY <1>2, <1>6 DEF Held
  <2>2. Q = {} /\ A = {} /\ B = {}
    BY <1>1, <2>1, ElementsNone
  <2> QED BY <1>2, <2>1, <2>2
<1>7. /\ \A e \in 1 .. logged, w \in Trc!Results : Trc!Wrote(e, w) <=> <<e, w>> \in G
      /\ \A e \in 1 .. logged : Trc!LineOver(e) <=> OverIn(e, G)
  <2>1. \A e \in 1 .. logged, w \in Trc!Results : Trc!Wrote(e, w) <=> <<e, w>> \in G
    BY <1>1, <1>4 DEF Trc!Wrote, Calls
  <2> QED BY <2>1 DEF Trc!LineOver, OverIn, Trc!Results
<1>8. ASSUME NEW e \in 1 .. logged
      PROVE  /\ Trc!LineOver(e) => \/ Trc!Wrote(e, "rest") /\ Trc!Wrote(e, "newline")
                                   \/ Trc!Wrote(e, "broken") \/ Trc!Wrote(e, "bare")
             /\ ~(Trc!Wrote(e, "rest") /\ Trc!Wrote(e, "broken"))
             /\ ~(Trc!Wrote(e, "newline") /\ Trc!Wrote(e, "bare"))
  <2>1. \A w \in Trc!Results : Trc!Wrote(e, w) <=> <<e, w>> \in G
    BY <1>7
  <2> QED BY <1>2, <1>7, <2>1 DEF RightIn, OverIn, EndIn, Trc!Results
<1>9. \A e \in 1 .. logged, w \in Trc!Results : log[<<e, w>>] <= 1
  <2>1. ASSUME NEW y \in Trc!Events \X Trc!Results PROVE log[y] <= 1
    BY <1>2 DEF CountsOf
  <2>2. \A e \in 1 .. logged, w \in Trc!Results : <<e, w>> \in Trc!Events \X Trc!Results
    BY <1>4
  <2> QED BY <2>1, <2>2
<1>10. \A e \in 1 .. logged :
         (\A t \in Loggers : logPc[t] = "idle" \/ event[t] # e) =>
            Trc!LineOver(e) \/ Trc!Times(e, queued) + Trc!Times(e, batch) + Trc!Times(e, pendings) = 1
  BY <1>5, <1>7
<1>11. exitPc = "done" => \A e \in 1 .. logged : Trc!LineOver(e)
  BY <1>6, <1>7
<1> QED BY Zenon, <1>8, <1>9, <1>10, <1>11 DEF Trc!EachWrittenOnce
-----------------------------------------------------------------------------
(* The statistics of the tracer.                                           *)

\* The durations since the last Reset lie between the shortest and the longest,
\* and so does what they are on average.
Statistics ==
  /\ stats.min \in Nat /\ stats.max \in Nat /\ stats.total \in Nat
  /\ stats.count = 0 => stats.total = 0
  /\ stats.count # 0 => stats.count * stats.min <= stats.total
  /\ stats.total <= stats.count * stats.max
  /\ \A i \in 1 .. Len(since) : stats.min <= since[i] /\ since[i] <= stats.max

\* A product grows with its factor.
LEMMA TimesMore ==
  ASSUME NEW a \in Nat, NEW b \in Nat, NEW c \in Nat, b <= c
  PROVE  a * b \in Nat /\ a * c \in Nat /\ a * b <= a * c
<1>1. PICK k \in Nat : c = b + k
  <2>1. c - b \in Nat /\ c = b + (c - b)
    OBVIOUS
  <2> QED BY <2>1
<1>2. a * c = a * b + a * k
  BY <1>1
<1>3. a * b \in Nat /\ a * k \in Nat
  OBVIOUS
<1> QED BY <1>2, <1>3

\* One more duration.
LEMMA CountedKeeps ==
  ASSUME TrcInv, Statistics, NEW t \in Loggers, Trc!LogToRing(t)
  PROVE  Statistics'
<1>1. PICK n, x, y, s, d : n = stats.count /\ x = stats.min /\ y = stats.max /\ s = stats.total /\ d = event[t]
  OBVIOUS
<1>2. /\ d \in Nat /\ since \in Seq(Nat) /\ n = Len(since) /\ n \in Nat
      /\ x \in Nat /\ y \in Nat /\ s \in Nat /\ (n = 0 => s = 0)
      /\ (n # 0 => n * x <= s) /\ s <= n * y
      /\ \A i \in 1 .. n : x <= since[i] /\ since[i] <= y /\ since[i] \in Nat
  <2>1. d \in Nat
    <3>1. MaxEvents \in Nat
      BY PartsAssumption DEF Trc!TracerConstants
    <3> QED BY <1>1, <3>1 DEF TrcInv, TrcTypes
  <2>2. since \in Seq(Nat)
    BY EventsAreNumbers DEF TrcInv
  <2>3. n = Len(since)
    BY <1>1 DEF TrcInv, Trc!RingIsTail
  <2>4. \A i \in 1 .. Len(since) : since[i] \in Nat
    BY <2>2
  <2> QED BY <1>1, <2>1, <2>2, <2>3, <2>4 DEF Statistics
<1>3. PICK u, v : /\ u = (IF n = 0 \/ d < x THEN d ELSE x)
                  /\ v = (IF n = 0 \/ d > y THEN d ELSE y)
  OBVIOUS
<1>4. stats'.count = n + 1 /\ stats'.min = u /\ stats'.max = v /\ stats'.total = s + d
  BY <1>1, <1>3 DEF Trc!LogToRing, Trc!Counted
<1>5. since' = Append(since, d)
  BY <1>1 DEF Trc!LogToRing
<1>6. Len(since') = n + 1 /\ since'[n + 1] = d /\ \A i \in 1 .. n : since'[i] = since[i]
  BY <1>2, <1>5
<1>7. /\ u \in Nat /\ v \in Nat /\ u <= d /\ d <= v
      /\ n # 0 => u <= x /\ y <= v
  BY <1>2, <1>3
<1>8. (n + 1) * u <= s + d /\ s + d <= (n + 1) * v
  <2>1. CASE n = 0
    BY <1>2, <1>7, <2>1
  <2>2. CASE n # 0
    <3>1. n * u \in Nat /\ n * u <= n * x /\ n * x \in Nat /\ n * v \in Nat /\ n * y <= n * v /\ n * y \in Nat
      BY <1>2, <1>7, <2>2, TimesMore
    <3>2. PICK a, b : a = n * u /\ b = n * v
      OBVIOUS
    <3>3. a \in Nat /\ b \in Nat /\ a <= s /\ s <= b
      BY <1>2, <2>2, <3>1, <3>2
    <3>4. a + u <= s + d /\ s + d <= b + v
      BY ONLY <1>2, <1>7, <3>3
    <3>5. (n + 1) * u = n * u + u /\ (n + 1) * v = n * v + v
      BY <1>2, <1>7
    <3> QED BY <3>2, <3>4, <3>5
  <2> QED BY <2>1, <2>2
<1>9. \A i \in 1 .. n + 1 : u <= since'[i] /\ since'[i] <= v
  <2>1. ASSUME NEW i \in 1 .. n PROVE u <= since'[i] /\ since'[i] <= v
    <3>1. PICK e : e = since[i]
      OBVIOUS
    <3>2. e \in Nat /\ x <= e /\ e <= y /\ since'[i] = e /\ n # 0
      BY <1>2, <1>6, <3>1
    <3> QED BY <1>2, <1>7, <3>2
  <2>2. \A i \in 1 .. n + 1 : i \in 1 .. n \/ i = n + 1
    BY <1>2
  <2> QED BY <1>6, <1>7, <2>1, <2>2
<1>10. n + 1 # 0 /\ s + d \in Nat
  BY <1>2
<1> QED BY <1>4, <1>6, <1>7, <1>8, <1>9, <1>10 DEF Statistics

\* Statistics is inductive.
LEMMA StatisticsKept == TrcInv /\ Statistics /\ [Next]_vars => Statistics'
<1> SUFFICES ASSUME TrcInv, Statistics, [Next]_vars PROVE Statistics'
  OBVIOUS
<1>1. CASE UNCHANGED <<stats, since>>
  BY <1>1 DEF Statistics
<1>2. CASE Trc!Reset
  <2>1. since' = <<>> /\ stats' = Trc!NoStats
    BY <1>2 DEF Trc!Reset, Trc!Cleared
  <2>2. /\ stats'.count = 0 /\ stats'.min = 0 /\ stats'.max = 0 /\ stats'.total = 0
        /\ Len(since') = 0
    BY <2>1 DEF Trc!NoStats
  <2> QED BY <2>2 DEF Statistics
<1>3. ASSUME NEW t \in Loggers, Trc!LogToRing(t) PROVE Statistics'
  BY <1>3, CountedKeeps
<1>4. CASE Trc!EnableOn \/ Trc!EnableOff \/ Trc!ExitFlush \/ Trc!Leave
  <2>1. UNCHANGED <<stats, since>>
    BY <1>4 DEF Trc!EnableOn, Trc!EnableOff, Trc!ExitFlush, Trc!Leave, Trc!ExitWrite, Trc!ExitStop,
                Trc!ExitClear, Trc!ExitJoin
  <2> QED BY <1>1, <2>1
<1>5. CASE Trc!Writer
  <2>1. UNCHANGED <<stats, since>>
    BY <1>5 DEF Trc!Writer, Trc!WriterCheck, Trc!WriterTake, Trc!WriterWrite, Trc!WriterFinal
  <2> QED BY <1>1, <2>1
<1>6. ASSUME NEW t \in Loggers, Trc!LogEvent(t) \/ Trc!LogToQueue(t) PROVE Statistics'
  <2>1. UNCHANGED <<stats, since>>
    BY <1>6 DEF Trc!LogEvent, Trc!LogToQueue
  <2> QED BY <1>1, <2>1
<1>7. CASE UNCHANGED tracerVars
  BY <1>1, <1>7 DEF tracerVars
<1> QED BY <1>2, <1>3, <1>4, <1>5, <1>6, <1>7, TrcSteps DEF Trc!Next

\* At first there are none.
LEMMA StatisticsInit == Init => Statistics
<1> SUFFICES ASSUME Trc!Init PROVE Statistics
  BY DEF Init
<1>1. /\ stats.count = 0 /\ stats.min = 0 /\ stats.max = 0 /\ stats.total = 0
      /\ Len(since) = 0
  BY DEF Trc!Init, Trc!NoStats
<1> QED BY <1>1 DEF Statistics

\* The last m of the last n are the last of them all.
LEMMA BoundedTwice ==
  ASSUME NEW S, NEW s \in Seq(S), NEW n \in Nat, NEW m \in Nat
  PROVE  Trc!Bounded(Trc!Bounded(s, n), m) = Trc!Bounded(s, IF m < n THEN m ELSE n)
<1>1. PICK b, k : b = Trc!Bounded(s, n) /\ k = IF m < n THEN m ELSE n
  OBVIOUS
<1>2. PICK u, v : u = Trc!Bounded(b, m) /\ v = Trc!Bounded(s, k)
  OBVIOUS
<1>3. k \in Nat /\ Len(s) \in Nat
  BY <1>1
<1>4. /\ b \in Seq(S) /\ Len(b) = (IF Len(s) > n THEN n ELSE Len(s))
      /\ \A i \in 1 .. Len(b) : b[i] = s[i + (Len(s) - Len(b))]
  BY <1>1, BoundedTail
<1>5. /\ u \in Seq(S) /\ Len(u) = (IF Len(b) > m THEN m ELSE Len(b))
      /\ \A i \in 1 .. Len(u) : u[i] = b[i + (Len(b) - Len(u))]
  BY <1>2, <1>4, BoundedTail
<1>6. /\ v \in Seq(S) /\ Len(v) = (IF Len(s) > k THEN k ELSE Len(s))
      /\ \A i \in 1 .. Len(v) : v[i] = s[i + (Len(s) - Len(v))]
  BY <1>2, <1>3, BoundedTail
<1>7. Len(u) = Len(v) /\ Len(u) \in Nat /\ Len(b) \in Nat /\ Len(u) <= Len(b)
  BY <1>1, <1>3, <1>4, <1>5, <1>6
<1>8. ASSUME NEW i \in 1 .. Len(u) PROVE u[i] = v[i]
  <2>1. PICK j : j = i + (Len(b) - Len(u))
    OBVIOUS
  <2>2. j \in 1 .. Len(b) /\ j + (Len(s) - Len(b)) = i + (Len(s) - Len(v))
    BY <1>3, <1>7, <2>1
  <2>3. u[i] = b[j] /\ v[i] = s[i + (Len(s) - Len(v))]
    BY <1>5, <1>6, <1>7, <2>1
  <2> QED BY <1>4, <2>2, <2>3
<1>9. u = v
  BY <1>5, <1>6, <1>7, <1>8, SeqEqual
<1> QED BY <1>1, <1>2, <1>9

\* The last events that a client asks for are the last of those in the ring.
LEMMA RecentEvents ==
  ASSUME TrcInv, NEW limit \in Nat
  PROVE  Trc!GetRecentEvents(limit) = Trc!Bounded(since, IF limit < BufferSize THEN limit ELSE BufferSize)
<1>1. BufferSize \in Nat /\ since \in Seq(Trc!Events) /\ ring = Trc!Bounded(since, BufferSize)
  BY PartsAssumption DEF Trc!TracerConstants, TrcInv, Trc!RingIsTail
<1>2. ring \in Seq(Trc!Events)
  BY <1>1, BoundedTail
<1>3. Len(ring) \in Nat
  BY <1>2
<1>4. Trc!GetRecentEvents(limit) = Trc!Bounded(ring, limit)
  <2>1. CASE ring = <<>>
    <3>1. ~(Len(ring) > limit)
      BY <2>1
    <3>2. Trc!GetRecentEvents(limit) = <<>>
      BY <2>1, Zenon DEF Trc!GetRecentEvents
    <3> QED BY <2>1, <3>1, <3>2 DEF Trc!Bounded
  <2>2. CASE ring # <<>>
    <3>1. PICK from : from = IF Len(ring) > limit THEN Len(ring) - limit ELSE 0
      OBVIOUS
    <3>2. ~(from > Len(ring))
      BY <1>3, <3>1
    <3>3. Trc!GetRecentEvents(limit) = SubSeq(ring, from + 1, Len(ring))
      BY Zenon, <2>2, <3>1, <3>2 DEF Trc!GetRecentEvents
    <3>4. CASE Len(ring) > limit
      BY <3>1, <3>3, <3>4 DEF Trc!Bounded, Trc!LastOf
    <3>5. CASE ~(Len(ring) > limit)
      <4>1. SubSeq(ring, 1, Len(ring)) = ring
        BY <1>2, SubSeqFull
      <4> QED BY <3>1, <3>3, <3>5, <4>1 DEF Trc!Bounded
    <3> QED BY <3>4, <3>5
  <2> QED BY <2>1, <2>2
<1> QED BY <1>1, <1>4, BoundedTwice

\* Then the routes say what is right.
LEMMA StatisticsSaid == TrcInv /\ Statistics => Trc!StatisticsRight
<1> SUFFICES ASSUME TrcInv, Statistics PROVE Trc!StatisticsRight
  OBVIOUS
<1>1. PICK D : D = stats.durations
  OBVIOUS
<1>2. /\ since \in Seq(Nat) /\ stats.count = Len(since) /\ Len(since) \in Nat
      /\ D = Trc!Bounded(since, MaxDurations) /\ MaxDurations \in Nat \ {0} /\ BufferSize \in Nat
  BY <1>1, PartsAssumption, EventsAreNumbers DEF TrcInv, Trc!RingIsTail, Trc!TracerConstants
<1>3. /\ D \in Seq(Nat) /\ Len(D) = (IF Len(since) > MaxDurations THEN MaxDurations ELSE Len(since))
      /\ \A i \in 1 .. Len(D) : D[i] = since[i + (Len(since) - Len(D))]
  BY <1>2, BoundedTail
<1>4. ASSUME stats.count > 0, NEW p \in Trc!Asked
      PROVE  Trc!Percentile(stats.durations, p) \in stats.min .. stats.max
  <2>1. Len(D) \in Nat \ {0} /\ D # <<>> /\ D \in Seq(Int) /\ Len(D) <= Len(since)
    <3>1. Len(D) \in Nat \ {0} /\ Len(D) <= Len(since)
      BY <1>2, <1>3, <1>4
    <3>2. D \in Seq(Int)
      BY <1>3, SeqMonotonic
    <3> QED BY <3>1, <3>2
  <2>2. PICK f : Orders(f, D, Len(D)) /\ \A q \in Trc!Asked : Trc!Percentile(D, q) = D[f[Place(Len(D), q)]]
    BY <2>1, PercentileFacts
  <2>3. PICK k : k = f[Place(Len(D), p)]
    OBVIOUS
  <2>4. k \in 1 .. Len(D)
    <3>1. Place(Len(D), p) \in 1 .. Len(D)
      BY <2>1, PlaceFacts
    <3>2. f \in [1 .. Len(D) -> 1 .. Len(D)]
      BY <2>2 DEF Orders, Permutes
    <3> QED BY <2>3, <3>1, <3>2
  <2>5. PICK j : j = k + (Len(since) - Len(D))
    OBVIOUS
  <2>6. j \in 1 .. Len(since) /\ D[k] = since[j] /\ since[j] \in Nat
    <3>1. D[k] = since[j]
      BY <1>3, <2>4, <2>5
    <3>2. j \in 1 .. Len(since)
      BY <1>2, <2>1, <2>4, <2>5
    <3> QED BY <1>2, <3>1, <3>2
  <2>7. stats.min <= since[j] /\ since[j] <= stats.max /\ stats.min \in Nat /\ stats.max \in Nat
    BY <2>6 DEF Statistics
  <2>8. since[j] \in stats.min .. stats.max
    BY <2>6, <2>7
  <2> QED BY <1>1, <2>2, <2>3, <2>6, <2>8
<1>5. \A limit \in 0 .. BufferSize + 1 :
        Trc!GetRecentEvents(limit) = Trc!Bounded(since, IF limit < BufferSize THEN limit ELSE BufferSize)
  BY <1>2, RecentEvents
<1>6. /\ stats.count = 0 \/ stats.count * stats.min <= stats.total
      /\ stats.total <= stats.count * stats.max
  BY DEF Statistics
<1> QED BY Zenon, <1>4, <1>5, <1>6 DEF Trc!StatisticsRight

\* The percentiles of the durations that a run tries are those of any.
LEMMA PercentilesSaid == Trc!PercentilesRight
<1>1. ASSUME NEW d \in Trc!BoundedSeq(0 .. 2, 4) PROVE d \in Seq(Int)
  <2>1. PICK n \in 0 .. 4 : d \in [1 .. n -> 0 .. 2]
    BY DEF Trc!BoundedSeq, Trc!SeqOf
  <2>2. d \in [1 .. n -> Int]
    BY <2>1
  <2> QED BY <2>2, SeqDef
<1> QED BY <1>1, PercentileOfAny DEF Trc!PercentilesRight

\* The ring holds the last events, each event is in the log once though the
\* destructor writes while the writer does, and the routes say what is right.
THEOREM PartsTracerRight == Spec => []TracerRight
<1> DEFINE I == TrcInv /\ Once /\ Statistics
<1>1. I => TracerRight
  BY OnceWritten, StatisticsSaid, PercentilesSaid DEF TracerRight, TrcInv
<1>2. Init => I
  BY TrcInit, OnceInit, StatisticsInit
<1>3. I /\ [Next]_vars => I'
  <2>1. TrcInv => TrcTypes
    BY DEF TrcInv
  <2> QED BY <2>1, TrcKept, OnceKept, StatisticsKept
<1> QED BY <1>1, <1>2, <1>3, PTL DEF Spec
-----------------------------------------------------------------------------
(* The media sources.                                                      *)

\* The sizes and types of frames, and what a packet of the model can be.
FrameSizes == Nat \ {0}
FrameTypes == {"I", "P", "audio"}
Headers == [size : 0 .. 3] \cup [size : {Src!Au}, high : Nat, low : Nat]
Packets == [header : Headers, frame : Nat, from : Nat, to : Nat, start : BOOLEAN, end : BOOLEAN,
            last : BOOLEAN, type : FrameTypes]
Parted  == [frame : Nat, got : Nat]

\* Frames have sizes; one from the AAC encoder has its ADTS header and more.
SrcTypes ==
  /\ codec \in Src!Codecs /\ start \in BOOLEAN /\ pos \in Nat
  /\ todo \in Seq(Src!Frames) /\ pushed \in Seq(Src!Frames) /\ net \in Seq(Packets)
  /\ received \in Seq(Parted)
  /\ frame \in Src!Frames \cup {Src!NoFrame}
  /\ codec = "aac" => \A i \in 1 .. Len(todo) : todo[i].size > Src!Adts

\* The frame that is being sent is the last one accepted, with bytes left; VP8
\* has sent whole packets of it so far.
Sent ==
  frame # Src!NoFrame =>
    /\ pushed # <<>> /\ frame = pushed[Len(pushed)] /\ ~Src!Refused(frame)
    /\ pos < frame.size
    /\ codec = "vp8" => \E k \in Nat : pos = Src!MaxPayload * k

\* A packet p of a frame f that is as codec c asks.
Sound(c, p, f) ==
  LET n == p.header.size + p.to - p.from + 1
  IN /\ n <= Src!MaxPayload + (IF c = "vp8" THEN 1 ELSE 0) /\ Src!Heads + n <= Src!Buffer
     /\ p.from <= p.to /\ p.type = f.type
     /\ p.last <=> p.to = f.size /\ (c = "vp8" => f.size % Src!MaxPayload # 0)
     /\ p.end => p.last

\* The packets are of frames that were accepted, and sound.
OnWire == \A i \in 1 .. Len(net) : net[i].frame \in 1 .. Len(pushed) /\ Sound(codec, net[i], pushed[net[i].frame])

\* A receiver has the frames that were accepted, the last as far as it is in
\* packets.  Before its first packet nothing of it is sent but what that packet's
\* header holds; that there is a second one says that it is sent in fragments.
Received ==
  /\ Len(received) = IF frame # Src!NoFrame /\ start THEN Len(pushed) - 1 ELSE Len(pushed)
  /\ \A i \in 1 .. Len(received) :
       /\ received[i].frame = i
       /\ received[i].got = IF frame # Src!NoFrame /\ i = Len(pushed) THEN pos ELSE pushed[i].size
  /\ frame # Src!NoFrame /\ start => pos = Src!Skipped(frame)
  /\ frame # Src!NoFrame /\ ~start => codec = "vp8" \/ (codec \in {"h264", "h265"} /\ ~Src!Whole(frame))

SrcInv == SrcTypes /\ Sent /\ OnWire /\ Received

\* The ADTS header has seven bytes.
LEMMA AdtsSize == Src!Adts = 7
BY DEF Src!Adts

\* The sizes of frames in numbers.
LEMMA SizeFacts == \A n : n \in FrameSizes <=> n \in Int /\ 1 <= n
BY DEF FrameSizes

\* What the encoders deliver, and the marker, has bytes.
LEMMA Delivered ==
  /\ \A n \in Sizes : n \in Int /\ 1 <= n
  /\ SeiSize \in Int /\ 1 <= SeiSize
<1>1. {SeiSize} \cup Sizes \subseteq 1 .. Src!MaxSize
  BY PartsAssumption DEF Src!SourcesConstants
<1>2. Src!MaxSize \in Int
  BY SMT DEF Src!MaxSize
<1> QED BY <1>1, <1>2

\* Frames are those with a size and a type.
LEMMA FrameFacts ==
  /\ \A f \in Src!Frames : f.size \in FrameSizes /\ f.type \in FrameTypes
  /\ \A n \in FrameSizes, type \in FrameTypes : [size |-> n, type |-> type] \in Src!Frames
BY DEF Src!Frames, FrameSizes, FrameTypes

\* A packet with n bytes of the frame fits and is marked right, and when bytes
\* are left VP8 still counts in whole packets.
Fits(header, n, end, last) ==
  /\ 1 <= n /\ n <= Src!Left /\ (n < Src!Left => (codec = "vp8" => n = Src!MaxPayload))
  /\ header.size + n <= Src!MaxPayload + (IF codec = "vp8" THEN 1 ELSE 0)
  /\ last <=> n = Src!Left /\ (codec = "vp8" => frame.size % Src!MaxPayload # 0)
  /\ end => last

\* What Depacketize reads off a packet: that it begins a frame, the bytes before
\* its payload if it does, and the bytes of its payload.
Begins(p) == p.start \/ codec \in {"aac", "pcma"} \/ p.header.size = 0
Before(p) == IF codec = "aac" THEN Src!Adts
             ELSE IF codec \notin DOMAIN Src!Nal THEN 0
             ELSE IF p.header.size = 0 THEN 0 ELSE Src!Nal[codec]
Bytes(p)  == IF codec = "aac" THEN p.header.high * 32 + p.header.low ELSE p.to - p.from + 1

\* A packet that begins a frame where its payload begins is one more frame.
LEMMA Begun ==
  ASSUME NEW p, Begins(p), Before(p) + 1 = p.from
  PROVE  Src!Depacketize(received, p) = Append(received, [frame |-> p.frame, got |-> Before(p) + Bytes(p)])
BY Zenon DEF Src!Depacketize, Begins, Before, Bytes

\* A packet that goes on where the last frame ends makes that longer.
LEMMA Continued ==
  ASSUME NEW p, ~Begins(p), received # <<>>, Src!Last(received).frame = p.frame,
         Src!Last(received).got + 1 = p.from
  PROVE  Src!Depacketize(received, p)
           = Append(Src!Front(received), [frame |-> p.frame, got |-> Src!Last(received).got + Bytes(p)])
BY Zenon DEF Src!Depacketize, Begins, Before, Bytes

\* The packet p of the next n bytes says that it begins the frame if it does, and
\* a receiver sees where and how long it is.
Tells(p, n) ==
  /\ Begins(p) <=> start
  /\ start => pos = Before(p)
  /\ codec = "aac" => p.header.high * 32 + p.header.low = n

\* A packet that fits and is emitted keeps the invariant.
LEMMA EmitKeeps ==
  ASSUME SrcInv, NEW header \in Headers, NEW n \in Nat, NEW first \in BOOLEAN, NEW end \in BOOLEAN,
         NEW last \in BOOLEAN, Src!Sending, Src!Emit(header, n, first, end, last),
         Fits(header, n, end, last), Tells(Src!Packet(header, n, first, end, last), n),
         n < Src!Left => codec = "vp8" \/ (codec \in {"h264", "h265"} /\ ~Src!Whole(frame))
  PROVE  SrcInv'
<1> DEFINE p == Src!Packet(header, n, first, end, last)
<1>0. /\ 1 <= n /\ n <= Src!Left /\ (n < Src!Left => (codec = "vp8" => n = Src!MaxPayload))
      /\ header.size + n <= Src!MaxPayload + (IF codec = "vp8" THEN 1 ELSE 0)
      /\ last <=> n = Src!Left /\ (codec = "vp8" => frame.size % Src!MaxPayload # 0)
      /\ end => last
  BY DEF Fits
<1>1. /\ net' = Append(net, p) /\ received' = Src!Depacketize(received, p) /\ pos' = pos + n /\ start' = FALSE
      /\ frame' = IF n = Src!Left THEN Src!NoFrame ELSE frame
      /\ UNCHANGED <<codec, todo, pushed>> /\ frame # Src!NoFrame
  BY DEF Src!Emit, Src!Given, Src!Sending
<1>2. /\ frame \in Src!Frames /\ frame.size \in Nat /\ frame.type \in FrameTypes /\ pos \in Nat
      /\ pushed \in Seq(Src!Frames) /\ net \in Seq(Packets) /\ Len(pushed) \in Nat
  <2>1. /\ frame \in Src!Frames /\ pos \in Nat /\ pushed \in Seq(Src!Frames) /\ net \in Seq(Packets)
    BY <1>1 DEF SrcInv, SrcTypes
  <2>2. frame.size \in Nat /\ frame.type \in FrameTypes
    BY <2>1, FrameFacts, SizeFacts
  <2> QED BY <2>1, <2>2
<1>3. /\ pushed # <<>> /\ frame = pushed[Len(pushed)] /\ ~Src!Refused(frame) /\ pos < frame.size
      /\ codec = "vp8" => \E k \in Nat : pos = Src!MaxPayload * k
  BY <1>1 DEF SrcInv, Sent
<1>4. Len(pushed) >= 1
  BY <1>2, <1>3
<1>5. /\ p \in Packets /\ p.frame = Len(pushed) /\ p.from = pos + 1 /\ p.to = pos + n /\ p.type = frame.type
      /\ p.header = header /\ p.last = last /\ p.end = end
  BY <1>2 DEF Packets, Src!Packet
<1> HIDE DEF p
<1>10. received' \in Seq(Parted) /\ Received'
  <2> DEFINE m == Len(pushed)
             g == [frame |-> m, got |-> pos + n]
  <2>1. /\ received \in Seq(Parted) /\ Len(received) = (IF start THEN m - 1 ELSE m) /\ m \in Nat /\ m >= 1
        /\ \A i \in 1 .. Len(received) :
             received[i].frame = i /\ received[i].got = IF i = m THEN pos ELSE pushed[i].size
    BY <1>1, <1>2, <1>4 DEF SrcInv, SrcTypes, Received
  <2>2. (Begins(p) <=> start) /\ (start => pos = Before(p)) /\ Bytes(p) = n
    <3>1. (Begins(p) <=> start) /\ (start => pos = Before(p)) /\ (codec = "aac" => p.header.high * 32 + p.header.low = n)
      BY DEF Tells, p
    <3>2. pos + n - (pos + 1) + 1 = n
      BY <1>2
    <3>3. Bytes(p) = n
      <4>1. CASE codec = "aac"
        BY Zenon, <3>1, <4>1 DEF Bytes
      <4>2. CASE codec # "aac"
        <5>1. Bytes(p) = p.to - p.from + 1
          BY Zenon, <4>2 DEF Bytes
        <5>2. p.to = pos + n /\ p.from = pos + 1 /\ pos \in Nat
          BY <1>2, <1>5
        <5>3. PICK a, b : a = p.to /\ b = p.from
          OBVIOUS
        <5>4. a - b + 1 = n
          BY <5>2, <5>3
        <5> QED BY Zenon, <5>1, <5>3, <5>4
      <4> QED BY <4>1, <4>2
    <3> QED BY Zenon, <3>1, <3>3
  <2>3. g \in Parted /\ g.frame = m /\ g.got = pos + n
    BY <1>2 DEF Parted
  <2>4. /\ received' \in Seq(Parted) /\ Len(received') = m /\ received'[m] = g
        /\ \A i \in 1 .. m - 1 : received'[i] = received[i]
    <3> HIDE DEF g, m
    <3>1. CASE start
      <4>1. received' = Append(received, [frame |-> p.frame, got |-> Before(p) + Bytes(p)])
        BY <1>1, <1>5, <2>2, <3>1, Begun
      <4>2. received' = Append(received, g)
        BY <1>5, <2>2, <3>1, <4>1 DEF g, m
      <4> QED BY <2>1, <2>3, <3>1, <4>2
    <3>2. CASE ~start
      <4>1. m \in 1 .. Len(received) /\ received[m].frame = m /\ received[m].got = pos /\ received # <<>>
        BY <2>1, <3>2
      <4>2. Src!Last(received) = received[m]
        BY <2>1, <3>2 DEF Src!Last
      <4>3. received' = Append(Src!Front(received), [frame |-> p.frame, got |-> Src!Last(received).got + Bytes(p)])
        BY <1>1, <1>5, <2>2, <3>2, <4>1, <4>2, Continued DEF m
      <4>4. received' = Append(Src!Front(received), g)
        BY <1>5, <2>2, <4>1, <4>2, <4>3 DEF g, m
      <4>5. /\ Src!Front(received) \in Seq(Parted) /\ Len(Src!Front(received)) = m - 1
            /\ \A i \in 1 .. m - 1 : Src!Front(received)[i] = received[i]
        BY <2>1, <3>2 DEF Src!Front
      <4> QED BY <2>1, <2>3, <4>4, <4>5
    <3> QED BY <3>1, <3>2
  <2>5. n = Src!Left => pos + n = pushed[m].size
    BY <1>2, <1>3 DEF Src!Left
  <2>6. /\ frame' # Src!NoFrame => n < Src!Left /\ frame' = frame
        /\ frame' = Src!NoFrame => n = Src!Left
    BY <1>0, <1>1, <1>2 DEF Src!Left
  <2>7. \A i \in 1 .. m : /\ received'[i].frame = i
                          /\ received'[i].got = IF frame' # Src!NoFrame /\ i = m THEN pos' ELSE pushed[i].size
    <3> HIDE DEF g
    <3> SUFFICES ASSUME NEW i \in 1 .. m
                 PROVE  /\ received'[i].frame = i
                        /\ received'[i].got = IF frame' # Src!NoFrame /\ i = m THEN pos' ELSE pushed[i].size
      OBVIOUS
    <3>1. CASE i = m
      BY <1>1, <2>3, <2>4, <2>5, <2>6, <3>1
    <3>2. CASE i # m
      <4>1. i \in 1 .. m - 1 /\ i \in 1 .. Len(received)
        BY <2>1, <3>2
      <4> QED BY <2>1, <2>4, <3>2, <4>1
    <3> QED BY <3>1, <3>2
  <2>8. frame' # Src!NoFrame => codec = "vp8" \/ (codec \in {"h264", "h265"} /\ ~Src!Whole(frame))
    BY <2>6
  <2>9. frame' # Src!NoFrame => codec' = "vp8" \/ (codec' \in {"h264", "h265"} /\ ~Src!Whole(frame)')
    BY <1>1, <2>6, <2>8 DEF Src!Whole
  <2> HIDE DEF g
  <2> QED BY <1>1, <2>4, <2>7, <2>9 DEF Received
<1>6. SrcTypes'
  <2>1. net' \in Seq(Packets) /\ pos' \in Nat
    BY <1>1, <1>2, <1>5
  <2>3. start' \in BOOLEAN
    BY <1>1
  <2>2. frame' \in Src!Frames \cup {Src!NoFrame}
    BY <1>1, <1>2
  <2> QED BY <1>1, <1>10, <2>1, <2>2, <2>3 DEF SrcInv, SrcTypes
<1>7. Sent'
  <2> SUFFICES ASSUME frame' # Src!NoFrame PROVE Sent'
    BY DEF Sent
  <2>1. frame' = frame /\ n < Src!Left
    BY <1>0, <1>1, <1>2 DEF Src!Left
  <2>2. pos' < frame'.size
    BY <1>1, <1>2, <2>1 DEF Src!Left
  <2>3. ~Src!Refused(frame)'
    BY <1>1, <1>3, <2>1 DEF Src!Refused
  <2>4. codec' = "vp8" => \E k \in Nat : pos' = Src!MaxPayload * k
    <3> SUFFICES ASSUME codec = "vp8" PROVE \E k \in Nat : pos' = Src!MaxPayload * k
      BY <1>1
    <3>1. PICK k \in Nat : pos = Src!MaxPayload * k
      BY <1>3
    <3>2. k + 1 \in Nat /\ pos' = Src!MaxPayload * (k + 1)
      BY <1>0, <1>1, <2>1, <3>1 DEF Src!MaxPayload
    <3> QED BY <3>2
  <2> QED BY <1>1, <1>3, <2>1, <2>2, <2>3, <2>4 DEF Sent
<1>8. Sound(codec, p, frame)
  <2>1. header.size \in Nat
    BY DEF Headers, Src!Au
  <2>2. header.size + (pos + n) - (pos + 1) + 1 = header.size + n
    BY SMTT(30), <1>2, <2>1
  <2>3. Src!Heads + (header.size + n) <= Src!Buffer
    BY <1>0, <2>1 DEF Src!Heads, Src!Buffer, Src!MaxPayload
  <2>4. pos + 1 <= pos + n /\ (n = Src!Left <=> pos + n = frame.size)
    BY <1>0, <1>2 DEF Src!Left
  <2> QED BY <1>0, <1>5, <2>2, <2>3, <2>4 DEF Sound
<1>9. OnWire'
  <2>1. /\ Len(net) \in Nat /\ Len(net') = Len(net) + 1 /\ net'[Len(net) + 1] = p
        /\ \A i \in 1 .. Len(net) : net'[i] = net[i]
    BY <1>1, <1>2
  <2>2. p.frame = Len(pushed)
    BY <1>5
  <2> SUFFICES ASSUME NEW i \in 1 .. Len(net')
               PROVE  net'[i].frame \in 1 .. Len(pushed) /\ Sound(codec, net'[i], pushed[net'[i].frame])
    BY <1>1 DEF OnWire
  <2>3. CASE i = Len(net) + 1
    <3>1. net'[i] = p /\ p.frame \in 1 .. Len(pushed) /\ pushed[p.frame] = frame
      BY <1>2, <1>3, <1>4, <2>1, <2>2, <2>3
    <3> QED BY <1>8, <3>1
  <2>4. CASE i # Len(net) + 1
    <3>1. i \in 1 .. Len(net)
      BY <2>1, <2>4
    <3> QED BY <2>1, <3>1 DEF SrcInv, OnWire
  <2> QED BY <2>3, <2>4
<1> QED BY <1>6, <1>7, <1>9, <1>10 DEF SrcInv

\* A frame that is pushed waits for HandleFrame.
LEMMA PushKeeps ==
  ASSUME SrcInv, UNCHANGED <<codec, frame, pos, start, pushed, net, received>>,
         todo' \in Seq(Src!Frames), codec = "aac" => \A i \in 1 .. Len(todo') : todo'[i].size > Src!Adts
  PROVE  SrcInv'
<1>1. SrcTypes'
  BY DEF SrcInv, SrcTypes
<1>2. Sent'
  BY DEF SrcInv, Sent, Src!Refused
<1>3. OnWire'
  BY DEF SrcInv, OnWire
<1>4. Received'
  BY DEF SrcInv, Received, Src!Skipped, Src!Whole
<1> QED BY <1>1, <1>2, <1>3, <1>4 DEF SrcInv

\* The adapters push frames with bytes, and AAC frames with more than a header.
LEMMA AdaptersKeep ==
  ASSUME SrcInv, NEW n \in Sizes,
         \/ \E type \in {"I", "P"} : Src!WritePacket(n, type)
         \/ Src!PushAudio(n)
         \/ \E type \in Src!Types : Src!PushRaw(n, type)
  PROVE  SrcInv'
<1>1. n \in Int /\ 1 <= n
  BY Delivered
<1>2. ASSUME NEW type \in {"I", "P"}, Src!WritePacket(n, type) PROVE SrcInv'
  <2> DEFINE f == [size |-> Src!StartCode + n, type |-> type]
             m == [size |-> SeiSize, type |-> "I"]
  <2>1. /\ UNCHANGED <<codec, frame, pos, start, pushed, net, received>> /\ codec = "h264"
        /\ todo' = <<>> \o <<f>> \/ todo' = <<m>> \o <<f>>
    BY <1>2 DEF Src!WritePacket
  <2>2. f \in Src!Frames /\ m \in Src!Frames
    <3>1. Src!StartCode + n \in FrameSizes
      BY <1>1, SizeFacts DEF Src!StartCode
    <3>2. SeiSize \in FrameSizes
      BY Delivered, SizeFacts
    <3>3. type \in FrameTypes /\ "I" \in FrameTypes
      BY DEF FrameTypes
    <3> QED BY <3>1, <3>2, <3>3, FrameFacts
  <2> HIDE DEF f, m
  <2>3. todo' \in Seq(Src!Frames)
    <3>1. <<>> \in Seq(Src!Frames) /\ <<f>> \in Seq(Src!Frames) /\ <<m>> \in Seq(Src!Frames)
      BY <2>2
    <3> QED BY <2>1, <3>1, ConcatProperties
  <2> QED BY <2>1, <2>3, PushKeeps
<1>3. CASE Src!PushAudio(n)
  <2> DEFINE f == [size |-> Src!Adts + n, type |-> "audio"]
  <2>1. UNCHANGED <<codec, frame, pos, start, pushed, net, received>> /\ todo' = <<f>>
    BY <1>3 DEF Src!PushAudio
  <2>2. f \in Src!Frames /\ f.size > Src!Adts
    <3>1. Src!Adts + n \in FrameSizes /\ Src!Adts + n > Src!Adts
      BY <1>1, SizeFacts, AdtsSize
    <3>2. "audio" \in FrameTypes
      BY DEF FrameTypes
    <3> QED BY <3>1, <3>2, FrameFacts
  <2> HIDE DEF f
  <2>3. todo' \in Seq(Src!Frames) /\ \A i \in 1 .. Len(todo') : todo'[i].size > Src!Adts
    BY <2>1, <2>2
  <2> QED BY <2>1, <2>3, PushKeeps
<1>4. ASSUME NEW type \in Src!Types, Src!PushRaw(n, type) PROVE SrcInv'
  <2>1. /\ UNCHANGED <<codec, frame, pos, start, pushed, net, received>> /\ todo' = <<[size |-> n, type |-> type]>>
        /\ codec # "aac"
    BY <1>4 DEF Src!PushRaw
  <2>2. [size |-> n, type |-> type] \in Src!Frames
    <3>1. type \in FrameTypes
      BY DEF Src!Types, FrameTypes
    <3>2. n \in FrameSizes
      BY <1>1, SizeFacts
    <3> QED BY <3>1, <3>2, FrameFacts
  <2>3. todo' \in Seq(Src!Frames)
    BY <2>1, <2>2
  <2> QED BY <2>1, <2>3, PushKeeps
<1> QED BY <1>2, <1>3, <1>4

\* HandleFrame accepts a frame that has bytes after what it skips.
LEMMA HandleKeeps == SrcInv /\ Src!HandleFrame => SrcInv'
<1> SUFFICES ASSUME SrcInv, Src!HandleFrame PROVE SrcInv'
  OBVIOUS
<1> DEFINE f == Head(todo)
<1>1. /\ todo # <<>> /\ frame = Src!NoFrame /\ todo' = Tail(todo) /\ UNCHANGED <<codec, net, received>>
      /\ \/ Src!Refused(f) /\ UNCHANGED <<frame, pos, start, pushed>>
         \/ ~Src!Refused(f) /\ frame' = f /\ pos' = Src!Skipped(f) /\ start' = TRUE /\ pushed' = Append(pushed, f)
  BY DEF Src!HandleFrame
<1>2. /\ todo \in Seq(Src!Frames) /\ pushed \in Seq(Src!Frames) /\ codec \in Src!Codecs /\ pos \in Nat
      /\ start \in BOOLEAN /\ net \in Seq(Packets) /\ received \in Seq(Parted)
      /\ codec = "aac" => \A i \in 1 .. Len(todo) : todo[i].size > Src!Adts
  BY DEF SrcInv, SrcTypes
<1>3. /\ f \in Src!Frames /\ f = todo[1] /\ 1 \in 1 .. Len(todo) /\ todo' \in Seq(Src!Frames)
      /\ Len(todo') = Len(todo) - 1 /\ Len(todo) \in Nat /\ \A i \in 1 .. Len(todo) - 1 : todo'[i] = todo[i + 1]
  BY <1>1, <1>2
<1>4. /\ Append(pushed, f) \in Seq(Src!Frames) /\ Len(Append(pushed, f)) = Len(pushed) + 1
      /\ Append(pushed, f)[Len(pushed) + 1] = f /\ Len(pushed) \in Nat
      /\ \A i \in 1 .. Len(pushed) : Append(pushed, f)[i] = pushed[i]
  <2> HIDE DEF f
  <2> QED BY <1>2, <1>3
<1>5. codec = "aac" => \A i \in 1 .. Len(todo') : todo'[i].size > Src!Adts
  <2> SUFFICES ASSUME codec = "aac", NEW i \in 1 .. Len(todo') PROVE todo'[i].size > Src!Adts
    OBVIOUS
  <2>1. i \in 1 .. Len(todo) - 1 /\ i + 1 \in 1 .. Len(todo)
    BY <1>3
  <2> QED BY <1>2, <1>3, <2>1
<1>6. f.size \in Nat /\ f.size >= 1 /\ (codec = "aac" => f.size > Src!Adts)
  <2>1. codec = "aac" => f.size > Src!Adts
    BY <1>2, <1>3
  <2>2. f.size \in FrameSizes
    BY <1>3, FrameFacts
  <2>3. f.size \in Int /\ 1 <= f.size
    BY <2>2, SizeFacts
  <2> QED BY <2>1, <2>3
<1> HIDE DEF f
<1>7. CASE Src!Refused(f) /\ UNCHANGED <<frame, pos, start, pushed>>
  <2>1. SrcTypes'
    BY <1>1, <1>3, <1>5, <1>7 DEF SrcInv, SrcTypes
  <2>2. Sent' /\ OnWire' /\ Received'
    BY <1>1, <1>7 DEF SrcInv, Sent, OnWire, Received
  <2> QED BY <2>1, <2>2 DEF SrcInv
<1>8. CASE ~Src!Refused(f) /\ frame' = f /\ pos' = Src!Skipped(f) /\ start' = TRUE /\ pushed' = Append(pushed, f)
  <2>1. Src!Skipped(f) \in Nat /\ Src!Skipped(f) < f.size /\ (codec = "vp8" => Src!Skipped(f) = 0)
    <3>1. CASE codec \in {"aac", "vp8"}
      BY <1>6, <3>1, AdtsSize DEF Src!Skipped
    <3>2. CASE codec \notin {"aac", "vp8"} /\ Src!Whole(f)
      BY <1>6, <3>2 DEF Src!Skipped
    <3>3. CASE codec \notin {"aac", "vp8"} /\ ~Src!Whole(f)
      <4>1. Src!Nal[codec] \in {1, 2} /\ f.size > 1420
        BY <1>2, <1>6, <3>3 DEF Src!Whole, Src!Nal, Src!Codecs, Src!MaxPayload
      <4> QED BY <1>6, <3>3, <4>1 DEF Src!Skipped
    <3> QED BY <3>1, <3>2, <3>3
  <2>2. SrcTypes'
    <3>1. pos' \in Nat /\ start' \in BOOLEAN /\ pushed' \in Seq(Src!Frames) /\ frame' \in Src!Frames
      BY <1>3, <1>4, <1>8, <2>1
    <3> QED BY <1>1, <1>2, <1>3, <1>5, <3>1 DEF SrcTypes
  <2>3. Sent'
    <3>1. pushed' # <<>> /\ frame' = pushed'[Len(pushed')]
      BY <1>4, <1>8
    <3>2. ~Src!Refused(frame)' /\ pos' < frame'.size
      BY <1>1, <1>8, <2>1 DEF Src!Refused
    <3>3. codec' = "vp8" => pos' = Src!MaxPayload * 0
      BY <1>1, <1>8, <2>1 DEF Src!MaxPayload
    <3> QED BY <3>1, <3>2, <3>3 DEF Sent
  <2>4. OnWire'
    <3> SUFFICES ASSUME NEW i \in 1 .. Len(net)
                 PROVE  net[i].frame \in 1 .. Len(pushed') /\ Sound(codec, net[i], pushed'[net[i].frame])
      BY <1>1 DEF OnWire
    <3>1. net[i].frame \in 1 .. Len(pushed) /\ Sound(codec, net[i], pushed[net[i].frame])
      BY DEF SrcInv, OnWire
    <3> QED BY <1>4, <1>8, <3>1
  <2>5. Received'
    <3>1. /\ Len(received) = Len(pushed) /\ Len(pushed') = Len(pushed) + 1 /\ start' = TRUE
          /\ \A i \in 1 .. Len(pushed) : received[i].frame = i /\ received[i].got = pushed[i].size
      BY <1>1, <1>4, <1>8 DEF SrcInv, Received
    <3>2. frame' # Src!NoFrame
      BY <1>6, <1>8 DEF Src!NoFrame
    <3>3. pos' = Src!Skipped(frame)'
      BY <1>1, <1>8 DEF Src!Skipped, Src!Whole
    <3>4. \A i \in 1 .. Len(received) :
            /\ received[i].frame = i
            /\ received[i].got = IF frame' # Src!NoFrame /\ i = Len(pushed') THEN pos' ELSE pushed'[i].size
      BY <1>4, <1>8, <3>1
    <3> QED BY <1>1, <1>4, <3>1, <3>2, <3>3, <3>4 DEF Received
  <2> QED BY <2>2, <2>3, <2>4, <2>5 DEF SrcInv
<1> QED BY <1>1, <1>7, <1>8

\* A fragment has a header, which for the first holds the NAL header.
LEMMA FragmentTells ==
  ASSUME codec \in {"h264", "h265"}, ~Src!Whole(frame), start \in BOOLEAN,
         start => pos = Src!Skipped(frame), NEW h \in Headers, h.size # 0, NEW n, NEW end, NEW last
  PROVE  Tells(Src!Packet(h, n, start, end, last), n)
<1> DEFINE p == Src!Packet(h, n, start, end, last)
<1>1. p.start = start /\ p.header = h
  BY DEF Src!Packet
<1>2. start => pos = Src!Nal[codec]
  BY DEF Src!Skipped
<1>3. codec \in DOMAIN Src!Nal
  BY DEF Src!Nal
<1> HIDE DEF p
<1> QED BY <1>1, <1>2, <1>3 DEF Tells, Begins, Before, p

\* The passes of the loops emit packets that fit and tell what they hold.
LEMMA SendersKeep ==
  ASSUME SrcInv,
         \/ Src!SendWhole \/ Src!SendAccessUnit \/ Src!SendFragment \/ Src!SendLastFragment \/ Src!SendVp8
  PROVE  SrcInv'
<1>1. /\ Src!Sending /\ frame # Src!NoFrame /\ frame \in Src!Frames /\ pos \in Nat /\ codec \in Src!Codecs
      /\ start \in BOOLEAN /\ ~Src!Refused(frame) /\ pos < frame.size
      /\ codec = "vp8" => \E k \in Nat : pos = Src!MaxPayload * k
  <2>1. Src!Sending
    BY DEF Src!SendWhole, Src!SendAccessUnit, Src!SendFragment, Src!SendLastFragment, Src!SendVp8
  <2>2. frame # Src!NoFrame
    BY <2>1 DEF Src!Sending
  <2> QED BY <2>1, <2>2 DEF SrcInv, SrcTypes, Sent
<1>2. frame.size \in Nat /\ Src!Left \in Nat /\ 1 <= Src!Left /\ Src!Left <= frame.size
  <2>1. frame.size \in FrameSizes
    BY <1>1, FrameFacts
  <2>2. frame.size \in Nat
    BY <2>1, SizeFacts
  <2> QED BY <1>1, <2>2 DEF Src!Left
<1>3. \A c \in {"h264", "h265"} : Src!Fu[c] \in 2 .. 3 /\ [size |-> Src!Fu[c]] \in Headers
  BY DEF Src!Fu, Headers
<1>9. /\ start => pos = Src!Skipped(frame)
      /\ ~start => codec = "vp8" \/ (codec \in {"h264", "h265"} /\ ~Src!Whole(frame))
  BY <1>1 DEF SrcInv, Received
<1>4. CASE Src!SendWhole
  <2>1. Src!Emit([size |-> 0], Src!Left, FALSE, FALSE, TRUE) /\ codec # "vp8" /\ [size |-> 0] \in Headers
    <3>1. [size |-> 0] \in Headers
      BY DEF Headers
    <3> QED BY <1>4, <3>1 DEF Src!SendWhole, Src!Whole
  <2>2. 0 + Src!Left <= Src!MaxPayload
    <3>1. Src!Left <= Src!MaxPayload
      <4>1. frame.size <= Src!MaxPayload
        BY <1>1, <1>2, <1>4 DEF Src!SendWhole, Src!Whole, Src!Refused, Src!Codecs, Src!MaxPayload
      <4> QED BY <1>2, <4>1 DEF Src!MaxPayload
    <3> QED BY <1>2, <3>1
  <2>3. Fits([size |-> 0], Src!Left, FALSE, TRUE)
    BY <1>2, <2>1, <2>2 DEF Fits, Src!MaxPayload
  <2>4. Tells(Src!Packet([size |-> 0], Src!Left, FALSE, FALSE, TRUE), Src!Left)
    <3>1. Src!Whole(frame) /\ codec \notin {"aac", "vp8"} /\ start
      BY <1>4, <1>9, <2>1 DEF Src!SendWhole
    <3>2. pos = 0
      BY <1>9, <3>1 DEF Src!Skipped
    <3> QED BY <3>1, <3>2 DEF Tells, Begins, Before, Src!Packet
  <2>7. Src!Left < Src!Left => codec = "vp8" \/ (codec \in {"h264", "h265"} /\ ~Src!Whole(frame))
    BY <1>2
  <2> QED BY <1>1, <1>2, <2>1, <2>3, <2>4, <2>7, EmitKeeps
<1>5. CASE Src!SendAccessUnit
  <2>1. Src!Emit(Src!AuHeader, Src!Left, FALSE, FALSE, TRUE) /\ codec = "aac"
    BY <1>5 DEF Src!SendAccessUnit
  <2>2. Src!AuHeader \in Headers /\ Src!AuHeader.size = Src!Au
    <3>1. (Src!Left % 8192) \div 32 \in Nat /\ Src!Left % 32 \in Nat
      BY <1>2
    <3> QED BY <3>1 DEF Src!AuHeader, Headers
  <2>3. Src!Au + Src!Left <= Src!MaxPayload
    <3>1. ~(frame.size > Src!MaxPayload - Src!Au)
      BY <1>1, <2>1 DEF Src!Refused
    <3> QED BY <1>2, <3>1 DEF Src!MaxPayload, Src!Au
  <2>4. Fits(Src!AuHeader, Src!Left, FALSE, TRUE)
    BY <1>2, <2>1, <2>2, <2>3 DEF Fits, Src!MaxPayload, Src!Au
  <2>5. Src!AuHeader.high * 32 + Src!AuHeader.low = Src!Left
    <3>1. Src!Left < 8192
      BY <1>2, <2>3 DEF Src!MaxPayload, Src!Au
    <3>2. ((Src!Left % 8192) \div 32) * 32 + (Src!Left % 32) = Src!Left
      BY <1>2, <3>1
    <3> QED BY <3>2 DEF Src!AuHeader
  <2>6. Tells(Src!Packet(Src!AuHeader, Src!Left, FALSE, FALSE, TRUE), Src!Left)
    <3>1. start /\ pos = Src!Adts
      BY <1>9, <2>1 DEF Src!Skipped
    <3> QED BY <2>1, <2>5, <3>1 DEF Tells, Begins, Before, Src!Packet
  <2>7. Src!Left < Src!Left => codec = "vp8" \/ (codec \in {"h264", "h265"} /\ ~Src!Whole(frame))
    BY <1>2
  <2> QED BY <1>1, <1>2, <2>1, <2>2, <2>4, <2>6, <2>7, EmitKeeps
<1>6. CASE Src!SendFragment
  <2> DEFINE n == Src!MaxPayload - Src!Fu[codec]
             h == [size |-> Src!Fu[codec]]
  <2>1. /\ Src!Emit(h, n, start, FALSE, FALSE) /\ codec \in {"h264", "h265"} /\ ~Src!Whole(frame)
        /\ Src!Left + Src!Fu[codec] > Src!MaxPayload
    BY <1>1, <1>6 DEF Src!SendFragment, Src!Whole, Src!TooLong, Src!Codecs
  <2>2. n \in Nat /\ 1 <= n /\ n < Src!Left /\ h \in Headers /\ h.size + n = Src!MaxPayload /\ h.size # 0
    BY <1>2, <1>3, <2>1 DEF Src!MaxPayload
  <2> HIDE DEF n, h
  <2>3. Fits(h, n, FALSE, FALSE)
    BY <1>2, <2>1, <2>2 DEF Fits, Src!MaxPayload
  <2>4. Tells(Src!Packet(h, n, start, FALSE, FALSE), n)
    BY <1>1, <1>9, <2>1, <2>2, FragmentTells
  <2> QED BY <1>1, <2>1, <2>2, <2>3, <2>4, EmitKeeps
<1>7. CASE Src!SendLastFragment
  <2> DEFINE h == [size |-> Src!Fu[codec]]
  <2>1. /\ Src!Emit(h, Src!Left, start, TRUE, TRUE) /\ codec \in {"h264", "h265"} /\ ~Src!Whole(frame)
        /\ ~(Src!Left + Src!Fu[codec] > Src!MaxPayload)
    BY <1>1, <1>7 DEF Src!SendLastFragment, Src!Whole, Src!TooLong, Src!Codecs
  <2>2. h \in Headers /\ h.size \in Nat /\ h.size + Src!Left <= Src!MaxPayload /\ h.size # 0
    BY <1>2, <1>3, <2>1 DEF Src!MaxPayload
  <2> HIDE DEF h
  <2>3. Fits(h, Src!Left, TRUE, TRUE)
    BY <1>2, <2>1, <2>2 DEF Fits, Src!MaxPayload
  <2>4. Tells(Src!Packet(h, Src!Left, start, TRUE, TRUE), Src!Left)
    BY <1>1, <1>9, <2>1, <2>2, FragmentTells
  <2>7. Src!Left < Src!Left => codec = "vp8" \/ (codec \in {"h264", "h265"} /\ ~Src!Whole(frame))
    BY <1>2
  <2> QED BY <1>1, <1>2, <2>1, <2>2, <2>3, <2>4, <2>7, EmitKeeps
<1>8. CASE Src!SendVp8
  <2> DEFINE n == IF Src!Left < Src!MaxPayload THEN Src!Left ELSE Src!MaxPayload
  <2>1. Src!Emit([size |-> 1], n, start, FALSE, Src!Left < Src!MaxPayload) /\ codec = "vp8"
    BY <1>8 DEF Src!SendVp8
  <2>2. /\ n \in Nat /\ 1 <= n /\ n <= Src!Left /\ n <= Src!MaxPayload /\ (n < Src!Left => n = Src!MaxPayload)
        /\ [size |-> 1] \in Headers
    BY <1>2 DEF Src!MaxPayload, Headers
  <2>3. Src!Left < Src!MaxPayload <=> n = Src!Left /\ frame.size % Src!MaxPayload # 0
    <3>1. PICK k \in Nat : pos = Src!MaxPayload * k
      BY <1>1, <2>1
    <3>2. frame.size = Src!MaxPayload * k + Src!Left
      BY <1>1, <1>2, <3>1 DEF Src!Left
    <3>3. CASE Src!Left < Src!MaxPayload
      <4>1. frame.size % Src!MaxPayload = Src!Left
        BY <1>2, <3>2, <3>3 DEF Src!MaxPayload
      <4> QED BY <1>2, <3>3, <4>1
    <3>4. CASE Src!Left = Src!MaxPayload
      <4>1. frame.size % Src!MaxPayload = 0
        BY <1>2, <3>2, <3>4 DEF Src!MaxPayload
      <4> QED BY <3>4, <4>1 DEF Src!MaxPayload
    <3>5. CASE Src!Left > Src!MaxPayload
      BY <1>2, <3>5 DEF Src!MaxPayload
    <3> QED BY <1>2, <3>3, <3>4, <3>5 DEF Src!MaxPayload
  <2>4. (Src!Left < Src!MaxPayload) \in BOOLEAN /\ [size |-> 1].size + n <= Src!MaxPayload + 1
    BY <2>2 DEF Src!MaxPayload
  <2> HIDE DEF n
  <2>5. Fits([size |-> 1], n, FALSE, Src!Left < Src!MaxPayload)
    BY <1>2, <2>1, <2>2, <2>3, <2>4 DEF Fits
  <2>6. Tells(Src!Packet([size |-> 1], n, start, FALSE, Src!Left < Src!MaxPayload), n)
    <3>1. start => pos = 0
      BY <1>9, <2>1 DEF Src!Skipped
    <3>2. "vp8" \notin DOMAIN Src!Nal
      BY DEF Src!Nal
    <3> QED BY <2>1, <3>1, <3>2 DEF Tells, Begins, Before, Src!Packet
  <2> QED BY <1>1, <1>2, <2>1, <2>2, <2>4, <2>5, <2>6, EmitKeeps
<1> QED BY <1>4, <1>5, <1>6, <1>7, <1>8

\* Each step of the process is one of a source's, or leaves it alone.
LEMMA SrcSteps == [Next]_vars => Src!Next \/ UNCHANGED sourcesVars
BY DEF Next, vars

\* SrcInv is inductive.
LEMMA SrcKept == SrcInv /\ [Next]_vars => SrcInv'
<1> SUFFICES ASSUME SrcInv, [Next]_vars PROVE SrcInv'
  OBVIOUS
<1>1. CASE UNCHANGED sourcesVars
  BY <1>1 DEF sourcesVars, SrcInv, SrcTypes, Sent, OnWire, Received, Src!Refused, Src!Skipped, Src!Whole
<1>2. CASE Src!Next
  BY <1>2, AdaptersKeep, HandleKeeps, SendersKeep DEF Src!Next
<1> QED BY <1>1, <1>2, SrcSteps

\* At first there is no frame.
LEMMA SrcInit == Init => SrcInv
<1> SUFFICES ASSUME Src!Init PROVE SrcInv
  BY DEF Init
<1>1. /\ codec \in Src!Codecs /\ todo = <<>> /\ frame = Src!NoFrame /\ pos = 0 /\ start = FALSE
      /\ pushed = <<>> /\ net = <<>> /\ received = <<>>
  BY DEF Src!Init
<1>2. start \in BOOLEAN
  BY <1>1, Zenon
<1>3. SrcTypes
  BY <1>1, <1>2 DEF SrcTypes
<1>4. Sent /\ OnWire /\ Received
  BY <1>1 DEF Sent, OnWire, Received
<1> QED BY <1>3, <1>4 DEF SrcInv

\* What the receiver has is the frames that were accepted, as one sequence.
LEMMA AllReceived == SrcInv => Src!Reassembled
<1> SUFFICES ASSUME SrcInv PROVE Src!Reassembled
  OBVIOUS
<1> DEFINE sent == IF frame # Src!NoFrame /\ start THEN Len(pushed) - 1 ELSE Len(pushed)
           has(i) == IF frame # Src!NoFrame /\ i = Len(pushed) THEN pos ELSE pushed[i].size
<1>1. /\ received \in Seq(Parted) /\ Len(received) = sent
      /\ \A i \in 1 .. Len(received) : received[i].frame = i /\ received[i].got = has(i)
  BY DEF SrcInv, SrcTypes, Received
<1> HIDE DEF sent, has
<1>2. \A i \in 1 .. sent : received[i] = [frame |-> i, got |-> has(i)]
  <2> SUFFICES ASSUME NEW i \in 1 .. sent PROVE received[i] = [frame |-> i, got |-> has(i)]
    OBVIOUS
  <2>1. received[i] \in Parted /\ received[i].frame = i /\ received[i].got = has(i)
    BY <1>1
  <2> QED BY <2>1 DEF Parted
<1>3. received = [i \in 1 .. sent |-> [frame |-> i, got |-> has(i)]]
  BY <1>1, <1>2
<1> QED BY Zenon, <1>3 DEF Src!Reassembled, sent, has

\* Whatever their sizes, the frames that were accepted come back out of the
\* packets, in order and byte for byte, and every packet fits its buffer, has
\* the type of its frame, and has the end bit and the marker where they belong.
THEOREM PartsFramesReassembled == Spec => []FramesReassembled
<1>1. SrcInv => Src!PacketsWellFormed
  BY DEF SrcInv, OnWire, Sound, Src!PacketsWellFormed
<1>2. SrcInv => FramesReassembled
  BY <1>1, AllReceived DEF FramesReassembled, Src!FramesReassembled
<1>3. Init => SrcInv
  BY SrcInit
<1>4. SrcInv /\ [Next]_vars => SrcInv'
  BY SrcKept
<1> QED BY <1>2, <1>3, <1>4, PTL DEF Spec
-----------------------------------------------------------------------------
(* The types of all parts.                                                 *)

\* The streamer's variables have their types.
LEMMA StrTyped == StrInv => Str!TypeOK
<1> SUFFICES ASSUME StrInv PROVE Str!TypeOK
  OBVIOUS
<1>1. {streamerStop, opened, rtmpOpen} \subseteq BOOLEAN
  BY DEF StrInv, StrTypes
<1>2. /\ MaxOpens \in Nat /\ MaxFrames \in Nat /\ opens \in 0 .. MaxOpens /\ failed \in 0 .. opens
      /\ attempts \in 0 .. opens
  BY PartsAssumption DEF StrInv, StrTypes, Str!StreamerConstants
<1>3. attempts \in 0 .. MaxOpens
  BY <1>2
<1>4. /\ frameSeq \in 0 .. MaxFrames /\ Len(inEncoder) <= MaxDelay /\ rtmpLast \in Int /\ -1 <= rtmpLast
      /\ rtmpLast < frameSeq
  BY DEF StrInv, Times, Str!PtsIncrease
<1>5. rtmpLast \in -1 .. MaxFrames
  BY <1>2, <1>4
<1>6. held \subseteq Str!Resources /\ heap \in [Str!Resources -> Nat]
  <2>1. heap \in [Str!Resources -> Int] /\ held \subseteq Str!Resources
    BY DEF StrInv, StrTypes
  <2>2. \A r \in Str!Resources : heap[r] \in Nat
    BY DEF StrInv, Owned
  <2> QED BY <2>1, <2>2
<1>7. /\ streamerPc \in {"open", "loop", "gate", "read", "frame", "close", "retry", "reopen", "regate",
                        "ended", "crashed"}
      /\ packet \in {"none", "held", "freed"}
      /\ opened => held \in {Str!Resources, Str!Resources \ Str!Stages[3]} /\ rtmpOpen
  BY DEF StrInv, StrTypes
<1> QED BY <1>1, <1>2, <1>3, <1>4, <1>5, <1>6, <1>7 DEF Str!TypeOK

\* The tracer's variables have their types, and the durations are bounded.
LEMMA TrcTyped == TrcInv => Trc!TypeOK
<1> SUFFICES ASSUME TrcInv PROVE Trc!TypeOK
  OBVIOUS
<1>1. {enabled, running} \subseteq BOOLEAN
  BY DEF TrcInv, TrcTypes
<1>2. BufferSize \in Nat /\ MaxDurations \in Nat /\ MaxEvents \in Nat
  BY PartsAssumption DEF Trc!TracerConstants
<1>3. /\ since \in Seq(Trc!Events) /\ stats.count = Len(since) /\ ring = Trc!Bounded(since, BufferSize)
      /\ stats.durations = Trc!Bounded(since, MaxDurations)
  BY DEF TrcInv, Trc!RingIsTail
<1>4. ring \in Seq(Trc!Events) /\ stats.count \in Nat
  BY <1>2, <1>3, BoundedTail
<1>5. Len(stats.durations) <= MaxDurations
  <2>1. Len(stats.durations) = (IF Len(since) > MaxDurations THEN MaxDurations ELSE Len(since)) /\ Len(since) \in Nat
    BY <1>2, <1>3, BoundedTail
  <2> QED BY <1>2, <2>1
<1>6. ASSUME NEW q \in Seq(Trc!Events) PROVE Trc!Range(q) \subseteq Trc!Events
  BY DEF Trc!Range
<1>7. Trc!Range(ring) \subseteq Trc!Events /\ Trc!Range(queued) \subseteq Trc!Events /\ Trc!Range(batch) \subseteq Trc!Events
  BY <1>4, <1>6 DEF TrcInv, TrcTypes
<1>8. event \in [Loggers -> 0 .. logged]
  <2>1. event \in [Loggers -> 0 .. MaxEvents] /\ logged \in Int /\ \A t \in Loggers : event[t] <= logged
    BY <1>2 DEF TrcInv, TrcTypes
  <2>2. \A t \in Loggers : event[t] \in 0 .. logged
    BY <2>1
  <2> QED BY <2>1, <2>2
<1>9. /\ logPc \in [Loggers -> {"idle", "ring", "queue"}]
      /\ writerPc \in {"none", "check", "wait", "write", "final", "flush", "done"}
      /\ exitPc \in {"no", "write", "stop", "clear", "join", "done"}
  BY DEF TrcInv, TrcTypes
<1> QED BY <1>1, <1>4, <1>5, <1>7, <1>8, <1>9 DEF Trc!TypeOK

\* The face library's variables have their types.
LEMMA FacesTyped == FacesInv => Faces!TypeOK
BY DEF FacesInv, FacesTypes, Faces!TypeOK

\* The source's variables have their types, and HandleFrame has bytes left.
LEMMA SrcTyped == SrcInv => Src!TypeOK
BY DEF SrcInv, SrcTypes, Sent, Src!TypeOK

\* The variables of main and the HTTP server have their types.
LEMMA ApiTyped == ApiInv => Api!TypeOK
BY DEF ApiInv, ApiTypes, RunStates, Api!TypeOK

\* The variables of every part have their types.
THEOREM PartsTypeOK == Spec => []TypeOK
<1>1. StrInv /\ TrcInv /\ FacesInv /\ SrcInv /\ ApiInv => TypeOK
  BY StrTyped, TrcTyped, FacesTyped, SrcTyped, ApiTyped DEF TypeOK
<1>2. Init => StrInv /\ TrcInv /\ FacesInv /\ SrcInv /\ ApiInv
  BY StrInit, TrcInit, FacesInit, SrcInit, ApiInit
<1>3. /\ StrInv /\ [Next]_vars => StrInv'
      /\ TrcInv /\ [Next]_vars => TrcInv'
      /\ FacesInv /\ [Next]_vars => FacesInv'
      /\ SrcInv /\ [Next]_vars => SrcInv'
      /\ ApiInv /\ [Next]_vars => ApiInv'
  BY StrKept, TrcKept, FacesKeptOn, SrcKept, ApiKept
<1> QED BY <1>1, <1>2, <1>3, PTL DEF Spec

=============================================================================
