------------------------ MODULE StreamSessionProofs ------------------------
(***************************************************************************)
(* The client count of a StreamSession, its gating and its Stop, for any   *)
(* set of clients and any number of reconnect attempts.                    *)
(*                                                                         *)
(* CountExact speaks of a session in the server.  A client that came       *)
(* before the callbacks were in place counts in early, so without one      *)
(* nobody is there until they are (Quiet), and from then on every entry    *)
(* made in the map is counted once, and counted down, or in gone, when its *)
(* connection leaves.  Gating follows where nobody has gone without a      *)
(* callback: what lets the wait go on, a count above 0 or stop_, is what   *)
(* seen remembers.                                                         *)
(***************************************************************************)
EXTENDS StreamSession, FiniteSetTheorems, TLAPS

\* The types, but for the limits of count: the switches and flags ...
Flags == {gating, reconnect, running, stop, registered, opened, seen} \subseteq BOOLEAN

\* ... and the rest.
Types ==
  /\ count \in Int /\ early \in Nat /\ gone \in Nat /\ ret \in {"check", "reopen"}
  /\ notified \in {{}, {"connected"}, {"connected", "disconnected"}}
  /\ expired \subseteq clients /\ clients \subseteq Clients
  /\ cpc \in [Clients -> {"out", "found", "notify", "leave", "in"}]

\* The session is in the server from Start's first step to Stop's last.
Registration ==
  /\ owner \in {"new", "failed", "registered", "spawn", "up", "unset", "notify", "join",
                "unregister", "stopped"}
  /\ registered <=> owner \notin {"new", "failed", "stopped"}
  /\ owner \in {"new", "failed", "registered", "spawn"} <=> run = "none"
  /\ owner \in {"unregister", "stopped"} => run = "done"

\* The input is open and running_ set only while the run thread is between.
Quiescence ==
  /\ run \in {"none", "open", "end", "done"} => ~opened
  /\ run = "done" => ~running

\* Nobody is there before the session is registered, nor without an early
\* client before its callbacks are in place.
Quiet ==
  /\ owner \in {"new", "failed"} \/ (owner = "registered" /\ early = 0) =>
       clients = {} /\ gone = 0 /\ count = 0 /\ \A c \in Clients : cpc[c] = "out"
  /\ owner \notin {"new", "failed", "registered"} => notified = {"connected", "disconnected"}

\* What the gated run thread is about to deliver was let through by the wait.
LetThrough == gating /\ early = 0 /\ gone = 0 /\ run \in {"check", "process"} => seen

IInv == /\ Flags /\ Types /\ Registration /\ Quiescence /\ Quiet
        /\ CountExact /\ LetThrough

-----------------------------------------------------------------------------
\* A session that has not been started satisfies the invariant.
LEMMA InitIInv == Init => IInv
<1> SUFFICES ASSUME Init PROVE IInv
  OBVIOUS
<1>1. Cardinality({}) = 0
  BY FS_EmptySet
<1>2. Flags /\ Registration /\ Quiescence
  BY DEF Init, Flags, Registration, Quiescence
<1>3. Types /\ Quiet
  BY DEF Init, Types, Quiet
<1>4. CountExact /\ LetThrough
  BY <1>1 DEF Init, CountExact, LetThrough, Live
<1> QED BY <1>2, <1>3, <1>4 DEF IInv

\* The map is finite, and the number of those who are there changes by one with
\* each of them.
LEMMA SizeOfMap ==
  ASSUME IInv
  PROVE  /\ Cardinality(Live) \in Nat
         /\ Cardinality(Live) = 0 <=> Live = {}
         /\ \A c \in Clients \ Live : Cardinality(Live \cup {c}) = Cardinality(Live) + 1
         /\ \A c \in Live : Cardinality(Live \ {c}) = Cardinality(Live) - 1
<1>1. IsFiniteSet(Live)
  BY SessionAssumption, FS_Subset DEF IInv, Flags, Types, Live
<1> QED BY <1>1, FS_CardinalityType, FS_EmptySet, FS_AddElement, FS_RemoveElement

\* Start's steps keep the invariant.
LEMMA StartKeepsIInv ==
  ASSUME IInv, Start, Always
  PROVE  IInv'
<1> USE DEF IInv, Flags, Types, Registration, Quiescence, Quiet, CountExact, LetThrough,
        Always, media, entries, Live, runner, cfg
<1>0. Cardinality({}) = 0
  BY FS_EmptySet
<1>1. CASE StartRegister
  <2>1. Flags' BY <1>1 DEF StartRegister
  <2>2. (Registration /\ Quiescence)' BY <1>1 DEF StartRegister
  <2>3. (Types /\ Quiet)' BY <1>1 DEF StartRegister
  <2>4. (CountExact /\ LetThrough)' BY <1>0, <1>1 DEF StartRegister
  <2> QED BY <2>1, <2>2, <2>3, <2>4
<1>2. CASE AddCallbacks BY <1>0, <1>2 DEF AddCallbacks
<1>3. CASE StartRun BY <1>3 DEF StartRun
<1> QED BY <1>1, <1>2, <1>3 DEF Start

\* So do Stop's.
LEMMA StopKeepsIInv ==
  ASSUME IInv, StopFlag \/ Stop, Always
  PROVE  IInv'
<1> USE DEF IInv, Flags, Types, Registration, Quiescence, Quiet, CountExact, LetThrough,
        Always, media, entries, Live, runner, cfg
<1>1. CASE StopFlag BY <1>1 DEF StopFlag
<1>2. CASE StopUnset BY <1>2 DEF StopUnset
<1>3. CASE StopNotify BY <1>3 DEF StopNotify, NotifyAll
<1>4. CASE StopJoin BY <1>4 DEF StopJoin
<1>5. CASE StopUnregister BY <1>5 DEF StopUnregister
<1> QED BY <1>1, <1>2, <1>3, <1>4, <1>5 DEF Stop

\* What a client's connection does to those who are there.
LEMMA LiveSteps ==
  ASSUME IInv, NEW c \in Clients
  PROVE  /\ Look(c) \/ OnClientConnected(c) => Live' = Live
         /\ AddClient(c) => Live' = IF c \in clients THEN Live ELSE Live \cup {c}
         /\ RemoveClient(c) \/ LeaveUnnoticed(c) => Live' = Live \ {c}
BY DEF IInv, Types, Live, Look, OnClientConnected, AddClient, RemoveClient, LeaveUnnoticed, entries

\* So do those of a client's connection.
LEMMA ClientKeepsIInv ==
  ASSUME IInv, NEW c \in Clients,
         Look(c) \/ Client(c) \/ RemoveClient(c) \/ LeaveUnnoticed(c), Always
  PROVE  IInv'
<1> USE DEF IInv, Flags, Types, Registration, Quiescence, Quiet, LetThrough,
        Always, media, entries, runner, cfg
<1>0. Cardinality(Live) \in Nat
  BY SizeOfMap
<1>1. CASE Look(c)
  <2>1. Types' BY <1>1 DEF Look
  <2>2. (Flags /\ Registration /\ Quiescence)' BY <1>1 DEF Look
  <2>3. Quiet' BY <1>1 DEF Look
  <2>4. Live' = Live BY <1>1, LiveSteps
  <2>5. early' \in {early, early + 1} BY <1>1 DEF Look
  <2>6. CountExact' BY <1>1, <2>4, <2>5 DEF Look, CountExact
  <2>7. LetThrough' BY <1>1, <2>5 DEF Look
  <2> QED BY <2>1, <2>2, <2>3, <2>6, <2>7
<1>2. CASE AddClient(c)
  <2>1. early = 0 /\ registered => "connected" \in notified
    BY <1>2 DEF AddClient
  <2>2. Live' = IF c \in clients THEN Live ELSE Live \cup {c}
    BY <1>2, LiveSteps
  <2>3. c \notin clients => c \notin Live
    BY DEF Live
  <2>4. CountExact'
    BY <1>0, <1>2, <2>1, <2>2, <2>3, SizeOfMap DEF AddClient, CountExact
  <2>5. Types' BY <1>2 DEF AddClient
  <2>6. (Flags /\ Registration /\ Quiescence)' BY <1>2 DEF AddClient
  <2>7. Quiet' BY <1>2 DEF AddClient
  <2>8. LetThrough' BY <1>2 DEF AddClient
  <2> QED BY <2>4, <2>5, <2>6, <2>7, <2>8
<1>3. CASE OnClientConnected(c)
  <2>1. Live' = Live BY <1>3, LiveSteps
  <2>2. CountExact' BY <1>3, <2>1 DEF OnClientConnected, CountExact
  <2>3. Types' BY <1>3 DEF OnClientConnected
  <2>4. (Flags /\ Registration /\ Quiescence)' BY <1>3 DEF OnClientConnected, NotifyAll
  <2>5. Quiet' BY <1>3 DEF OnClientConnected
  <2>6. LetThrough' BY <1>3 DEF OnClientConnected, NotifyAll
  <2> QED BY <2>2, <2>3, <2>4, <2>5, <2>6
<1>4. CASE RemoveClient(c)
  <2>1. early = 0 => "disconnected" \in notified
    BY <1>4 DEF RemoveClient
  <2>2. Live' = Live \ {c} /\ (c \notin Live => Live' = Live)
    BY <1>4, LiveSteps
  <2>3. CountExact'
    BY <1>0, <1>4, <2>1, <2>2, SizeOfMap DEF RemoveClient, CountExact
  <2>4. Types' BY <1>4 DEF RemoveClient
  <2>5. (Flags /\ Registration /\ Quiescence)' BY <1>4 DEF RemoveClient
  <2>6. Quiet' BY <1>4 DEF RemoveClient
  <2>7. LetThrough' BY <1>4 DEF RemoveClient
  <2> QED BY <2>3, <2>4, <2>5, <2>6, <2>7
<1>5. CASE LeaveUnnoticed(c)
  <2>1. Live' = Live \ {c} /\ (c \notin Live => Live' = Live)
    BY <1>5, LiveSteps
  <2>2. CountExact'
    <3>1. CASE c \in Live
      <4>1. Cardinality(Live') = Cardinality(Live) - 1
        BY <2>1, <3>1, SizeOfMap
      <4> QED BY <1>0, <1>5, <3>1, <4>1 DEF LeaveUnnoticed, CountExact
    <3>2. CASE c \notin Live
      BY <1>5, <2>1, <3>2 DEF LeaveUnnoticed, CountExact
    <3> QED BY <3>1, <3>2
  <2>3. Types' BY <1>5 DEF LeaveUnnoticed
  <2>4. (Flags /\ Registration /\ Quiescence)' BY <1>5 DEF LeaveUnnoticed
  <2>5. Quiet' BY <1>5 DEF LeaveUnnoticed
  <2>6. LetThrough' BY <1>5 DEF LeaveUnnoticed
  <2> QED BY <2>2, <2>3, <2>4, <2>5, <2>6
<1> QED BY <1>1, <1>2, <1>3, <1>4, <1>5 DEF Client

\* So do those of the run thread; the wait's is where the count matters.
LEMMA RunKeepsIInv ==
  ASSUME IInv, RunSerial \/ SpuriousWakeup, Always
  PROVE  IInv'
<1> USE DEF IInv, Flags, Types, Registration, Quiescence, Quiet, LetThrough, CountExact,
        Always, media, entries, Live, runner, cfg
<1>1. CASE OpenFirst
  <2>1. Flags' BY <1>1 DEF OpenFirst
  <2>2. (Registration /\ Quiescence)' BY <1>1 DEF OpenFirst
  <2>3. (Types /\ Quiet /\ CountExact /\ LetThrough)' BY <1>1 DEF OpenFirst
  <2> QED BY <2>1, <2>2, <2>3
<1>2. CASE Loop BY <1>2 DEF Loop
<1>3. CASE WaitForClients
  <2>1. registered
    BY <1>3 DEF WaitForClients
  <2>2. early = 0 /\ gone = 0 /\ count > 0 => Live # {}
    BY <2>1, SizeOfMap
  <2> QED BY <1>3, <2>2 DEF WaitForClients
<1>4. CASE Block BY <1>4 DEF Block
<1>5. CASE SpuriousWakeup BY <1>5 DEF SpuriousWakeup
<1>6. CASE Check BY <1>6 DEF Check
<1>7. CASE ProcessFrame
  <2>1. Live' = Live BY <1>7 DEF ProcessFrame
  <2>2. CountExact'
    <3> HIDE DEF Live
    <3> QED BY <1>7, <2>1 DEF ProcessFrame
  <2>3. Types' BY <1>7 DEF ProcessFrame
  <2>4. (Flags /\ Registration /\ Quiescence)' BY <1>7 DEF ProcessFrame
  <2>5. (Quiet /\ LetThrough)' BY <1>7 DEF ProcessFrame
  <2> QED BY <2>2, <2>3, <2>4, <2>5
<1>8. CASE ProcessFails BY <1>8 DEF ProcessFails
<1>9. CASE Retry BY <1>9 DEF Retry
<1>10. CASE Reopen BY <1>10 DEF Reopen
<1>11. CASE Close BY <1>11 DEF Close
<1>12. CASE End BY <1>12 DEF End
<1> QED BY <1>1, <1>2, <1>3, <1>4, <1>5, <1>6, <1>7, <1>8, <1>9, <1>10, <1>11, <1>12
        DEF RunSerial

\* Every step keeps the invariant.
LEMMA NextKeepsIInv == IInv /\ [Next]_vars => IInv'
<1> SUFFICES ASSUME IInv, [Next]_vars PROVE IInv'
  OBVIOUS
<1>1. CASE UNCHANGED vars
  BY <1>1 DEF vars, IInv, Flags, Types, Registration, Quiescence, Quiet, LetThrough, CountExact, entries, Live
<1>2. CASE Next
  BY <1>2, StartKeepsIInv, StopKeepsIInv, ClientKeepsIInv, RunKeepsIInv DEF Next
<1> QED BY <1>1, <1>2

\* The inductive invariant holds in every state.
THEOREM SessionInvariant == Spec => []IInv
BY InitIInv, NextKeepsIInv, PTL DEF Spec

\* The number that the callbacks keep without a lock is the number of clients in
\* the session's map who are there and of those who went without a callback
\* (StreamSession.cpp:228-252, MediaSession.cpp:204-236).
THEOREM SessionCountExact == Spec => []CountExact
<1>1. IInv => CountExact
  BY DEF IInv
<1> QED BY <1>1, SessionInvariant, PTL

\* After Stop nothing runs, is open or can be found (StreamSession.cpp:126-158).
THEOREM SessionStopQuiesces == Spec => []StopQuiesces
<1>1. IInv => StopQuiesces
  BY DEF IInv, Registration, Quiescence, StopQuiesces
<1> QED BY <1>1, SessionInvariant, PTL

\* A gated session delivers a frame only for a client who has been there since
\* the last one, as long as none has gone without its callback
\* (StreamSession.cpp:254-259, 302-308).
THEOREM SessionFramesGated == Spec => FramesGated
<1>1. IInv /\ [Next]_vars => [GatedFrame /\ gone = 0 => seen]_vars
  BY DEF IInv, LetThrough, GatedFrame
<1> QED BY <1>1, SessionInvariant, PTL DEF Spec, FramesGated
-----------------------------------------------------------------------------
(* The limits of the count and of the attempts to reconnect.               *)

\* The connections between their lookup and AddClient.
Found == {c \in Clients : cpc[c] = "found"}

\* What bounds the count.  Only a client that came early moves it away from
\* the number of those who are there or gone, by entering before the connected
\* callback is there or by leaving before the disconnected one is, and by one.
Drift ==
  /\ early \in 0 .. MaxEarly
  /\ owner \in {"new", "failed"} => early = 0
  /\ owner \in {"new", "failed", "registered"} => "disconnected" \notin notified
  /\ gone \in 0 .. MaxGone
  /\ owner = "registered" =>
       /\ 0 <= count /\ count + Cardinality(Found) <= early
       /\ Cardinality(Live) + gone + Cardinality(Found) <= early
  /\ count - (Cardinality(Live) + gone) \in -early .. early

\* An attempt to open the stream again is made while some are left.
Attempts ==
  /\ run \in {"none", "open", "loop", "wait", "block", "blocked", "check", "process",
              "retry", "reopen", "close", "end", "done"}
  /\ tries \in 0 .. MaxReconnect
  /\ run = "reopen" \/ (run \in {"wait", "block", "blocked"} /\ ret = "reopen") =>
       tries < MaxReconnect
  /\ mapMutex \in Clients \cup {"none"}

\* A connection is found, or no longer, and the number of those that are
\* changes by one.
LEMMA SizeOfFound ==
  ASSUME IInv
  PROVE  /\ Cardinality(Found) \in Nat
         /\ \A c \in Clients \ Found : Cardinality(Found \cup {c}) = Cardinality(Found) + 1
         /\ \A c \in Found : Cardinality(Found \ {c}) = Cardinality(Found) - 1
<1>1. IsFiniteSet(Found)
  BY SessionAssumption, FS_Subset DEF Found
<1> QED BY <1>1, FS_CardinalityType, FS_AddElement, FS_RemoveElement DEF Found

\* The steps of Start and of a client's connection keep the bounds.
LEMMA DriftKept ==
  ASSUME IInv, Drift, Attempts, [Next]_vars
  PROVE  Drift'
<1> USE SessionAssumption
<1>0. Cardinality(Live) \in Nat /\ Cardinality(Found) \in Nat /\ count \in Int /\ early \in Nat /\ gone \in Nat
  BY SizeOfMap, SizeOfFound DEF IInv, Types
<1>1. CASE UNCHANGED <<early, gone, owner, notified, cpc, count>> /\ Live' = Live
  BY <1>1 DEF Drift, Found
<1>2. CASE UNCHANGED <<early, gone, cpc, count>> /\ Live' = Live
           /\ owner' \notin {"new", "failed", "registered"}
  BY <1>2 DEF Drift, Found
<1>3. CASE StartRegister
  <2>1. /\ UNCHANGED <<early, gone, notified, cpc, count>> /\ Live' = Live
        /\ early = 0 /\ gone = 0 /\ count = 0 /\ Live = {} /\ Found = {} /\ Found' = {}
    BY <1>3 DEF StartRegister, IInv, Quiet, Drift, Found, Live, entries
  <2>2. Cardinality({}) = 0
    BY FS_EmptySet
  <2> QED BY <1>3, <2>1, <2>2 DEF StartRegister, Drift
<1>4. CASE AddCallbacks
  BY <1>4 DEF AddCallbacks, runner, Drift, Found, Live, entries
<1>5. ASSUME NEW c \in Clients, Look(c) PROVE Drift'
  <2>1. c \notin Found /\ Found' = Found \cup {c}
    BY <1>5 DEF Look, Found, IInv, Types
  <2>2. Cardinality(Found') = Cardinality(Found) + 1
    BY <2>1, SizeOfFound
  <2>3. owner \notin {"new", "failed"}
    BY <1>5 DEF Look, IInv, Registration
  <2>4. Live' = Live /\ UNCHANGED gone
    BY <1>5, LiveSteps DEF Look, entries
  <2> QED BY <1>0, <1>5, <2>2, <2>3, <2>4 DEF Look, Drift
<1>6. ASSUME NEW c \in Clients, AddClient(c) PROVE Drift'
  <2>1. c \in Found /\ Found' = Found \ {c}
    BY <1>6 DEF AddClient, Found, IInv, Types
  <2>2. Cardinality(Found') = Cardinality(Found) - 1
    BY <2>1, SizeOfFound
  <2>3. Cardinality(Found') \in Nat
    BY <2>1, SessionAssumption, FS_Subset, FS_CardinalityType DEF Found
  <2>4. owner \notin {"new", "failed"} /\ (owner # "registered" => "connected" \in notified)
    BY <1>6 DEF AddClient, IInv, Quiet
  <2>5. UNCHANGED <<early, gone, owner, notified>>
    BY <1>6 DEF AddClient
  <2>6. CASE c \in clients
    <3>1. Live' = Live /\ count' = count
      BY <1>6, <2>6, LiveSteps DEF AddClient
    <3> QED BY <1>0, <2>2, <2>3, <2>4, <2>5, <3>1 DEF Drift
  <2>7. CASE c \notin clients
    <3>1. Live' = Live \cup {c} /\ c \notin Live
      BY <1>6, <2>7, LiveSteps DEF Live
    <3>2. Cardinality(Live') = Cardinality(Live) + 1
      BY <3>1, SizeOfMap
    <3>3. count' = IF "connected" \in notified THEN count + 1 ELSE count
      BY <1>6, <2>7 DEF AddClient
    <3>4. CASE owner = "registered"
      BY <1>0, <2>2, <2>3, <2>5, <3>2, <3>3, <3>4 DEF Drift
    <3>5. CASE owner # "registered"
      BY <1>0, <2>4, <2>5, <3>2, <3>3, <3>5 DEF Drift
    <3> QED BY <3>4, <3>5
  <2> QED BY <2>6, <2>7
<1>7. ASSUME NEW c \in Clients, OnClientConnected(c) PROVE Drift'
  <2>1. Found' = Found
    BY <1>7 DEF OnClientConnected, Found, IInv, Types
  <2>2. Live' = Live
    BY <1>7, LiveSteps
  <2> QED BY <1>7, <2>1, <2>2 DEF OnClientConnected, entries, Drift
<1>8. ASSUME NEW c \in Clients, RemoveClient(c) \/ LeaveUnnoticed(c) PROVE Drift'
  <2>1. Found' = Found
    BY <1>8 DEF RemoveClient, LeaveUnnoticed, Found, IInv, Types
  <2>2. UNCHANGED <<early, owner, notified>> /\ owner \notin {"new", "failed"}
    BY <1>8 DEF RemoveClient, LeaveUnnoticed, IInv, Quiet
  <2>3. Live' = Live \ {c}
    BY <1>8, LiveSteps
  <2>4. c \in Live => Cardinality(Live') = Cardinality(Live) - 1 /\ Cardinality(Live') \in Nat
    BY <2>3, SizeOfMap, FS_RemoveElement, FS_CardinalityType, FS_Subset DEF IInv, Types, Live
  <2>5. c \notin Live => Live' = Live
    BY <2>3
  <2>6. owner # "registered" => "disconnected" \in notified
    BY <2>2 DEF IInv, Quiet
  <2>7. owner = "registered" => "disconnected" \notin notified
    BY DEF Drift
  <2>8. \/ gone' = gone /\ count' = IF c \in Live /\ "disconnected" \in notified THEN count - 1 ELSE count
        \/ count' = count /\ IF c \in Live THEN gone < MaxGone /\ gone' = gone + 1 ELSE gone' = gone
    BY <1>8 DEF RemoveClient, LeaveUnnoticed
  <2>9. CASE owner = "registered"
    BY <1>0, <2>1, <2>2, <2>4, <2>5, <2>7, <2>8, <2>9 DEF Drift
  <2>10. CASE owner # "registered"
    BY <1>0, <2>1, <2>2, <2>4, <2>5, <2>6, <2>8, <2>10 DEF Drift
  <2> QED BY <2>9, <2>10
<1>9. CASE StartRun \/ StopFlag \/ Stop
  BY <1>2, <1>9
  DEF StartRun, StopFlag, Stop, StopUnset, StopNotify, StopJoin, StopUnregister, media, entries, runner,
      Live
<1>10. CASE RunSerial \/ SpuriousWakeup
  BY <1>1, <1>10
  DEF RunSerial, SpuriousWakeup, OpenFirst, Loop, WaitForClients, Block, Check, ProcessFrame,
      ProcessFails, Retry, Reopen, Close, End, media, entries, Live
<1>11. CASE UNCHANGED vars
  BY <1>1, <1>11 DEF vars, Live
<1> QED BY <1>3, <1>4, <1>5, <1>6, <1>7, <1>8, <1>9, <1>10, <1>11 DEF Next, Start, Client

\* Every step keeps the number of attempts within its limit.
LEMMA AttemptsKept ==
  ASSUME IInv, Attempts, [Next]_vars
  PROVE  Attempts'
<1> USE SessionAssumption DEF Attempts
<1>1. CASE UNCHANGED <<run, ret, tries, mapMutex>>
  BY <1>1
<1>2. CASE Start
  BY <1>2 DEF Start, StartRegister, AddCallbacks, StartRun, runner, media, IInv, Registration
<1>3. CASE StopFlag \/ Stop
  BY <1>3 DEF StopFlag, Stop, StopUnset, StopNotify, NotifyAll, StopJoin, StopUnregister, runner, media
<1>4. ASSUME NEW c \in Clients, Look(c) \/ Client(c) \/ RemoveClient(c) \/ LeaveUnnoticed(c) PROVE Attempts'
  BY <1>4 DEF Look, Client, AddClient, OnClientConnected, NotifyAll, RemoveClient, LeaveUnnoticed, runner
<1>5. CASE RunSerial \/ SpuriousWakeup
  BY <1>5
  DEF RunSerial, SpuriousWakeup, OpenFirst, Loop, WaitForClients, Block, Check, ProcessFrame,
      ProcessFails, Retry, Reopen, Close, End, media, IInv, Types
<1>6. CASE UNCHANGED vars
  BY <1>1, <1>6 DEF vars
<1> QED BY <1>2, <1>3, <1>4, <1>5, <1>6 DEF Next

\* For any number of clients and attempts every variable keeps its type: the
\* unlocked count is off by the clients that came early or went without their
\* callback at most (StreamSession.cpp:228-252),
\* and no more than max_reconnect attempts are made (StreamSession.cpp:319-351).
THEOREM SessionTypeOK == Spec => []TypeOK
<1>1. Init => Drift /\ Attempts
  <2>1. Cardinality({}) = 0
    BY FS_EmptySet
  <2>2. Init => Found = {} /\ Live = {}
    BY DEF Init, Found, Live
  <2> QED BY <2>1, <2>2, SessionAssumption DEF Init, Drift, Attempts
<1>2. IInv /\ Drift /\ Attempts /\ [Next]_vars => (Drift /\ Attempts)'
  BY DriftKept, AttemptsKept
<1>3. IInv /\ Drift /\ Attempts => TypeOK
  <2> SUFFICES ASSUME IInv, Drift, Attempts PROVE TypeOK
    OBVIOUS
  <2>1. Cardinality(Live) \in 0 .. Cardinality(Clients) /\ Cardinality(Clients) \in Nat
    BY SessionAssumption, SizeOfMap, FS_Subset, FS_CardinalityType DEF IInv, Types, Live
  <2>2. count \in -MaxEarly .. Cardinality(Clients) + MaxEarly + MaxGone
    BY <2>1, SessionAssumption DEF Drift, IInv, Types
  <2>3. owner \in {"new", "failed", "registered", "spawn", "up", "unset", "notify",
                   "join", "unregister", "stopped"}
    BY DEF IInv, Registration
  <2> QED BY <2>2, <2>3 DEF TypeOK, IInv, Flags, Types, Drift, Attempts
<1> QED BY <1>1, <1>2, <1>3, SessionInvariant, PTL DEF Spec

=============================================================================
