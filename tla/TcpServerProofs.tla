--------------------------- MODULE TcpServerProofs ---------------------------
(***************************************************************************)
(* Raw pointers to connections do not dangle and a closed connection's     *)
(* removal is outstanding once, for any set of connections and whether or  *)
(* not the trigger events may run out of room, as long as TcpServer::Stop  *)
(* does not return during an accept (Together is said of ~overtaken).      *)
(*                                                                         *)
(* HandlersAlive speaks of what is in epoll, in the batch and at work.     *)
(* Three facts make it inductive.  The batch and the handler are empty     *)
(* when the loop runs the removals (Batches).  What has a removal          *)
(* outstanding is closed, hence out of epoll, and still in connections_    *)
(* (RemovalsPending); this needs that a connection whose disconnect_cb_ is *)
(* set is there until it is closed (Hooked).  And nothing at all is known  *)
(* of a connection whose TcpConnection is not constructed yet (Entered).   *)
(* When Stop has waited, the map is empty and nobody is left to fill it    *)
(* (Waited), so that destroying it destroys nothing.                       *)
(***************************************************************************)
EXTENDS TcpServer, SequenceTheorems, TLAPS

Events == {"close", "remove"} \X Conns

In(q, e) == \E i \in DOMAIN q : q[i] = e

\* No two trigger events of q are the same removal.
NoRemovalTwice(q) ==
  \A i, j \in DOMAIN q : (q[i] = q[j] /\ q[i][1] = "remove") => i = j

\* The connections for which a Close, or a RemoveConnection, is among the
\* trigger events.
Closing  == {c \in Conns : Posted("close", c)}
Removing == {c \in Conns : Posted("remove", c)}

\* The acceptor's callback is for a connection from Accept to its last step.
InCallback == acc = "idle" <=> cur = "none"

\* The loop has a batch, or is in a handler, only while it handles events.
Batches == loop # "events" => batch = {} /\ handling = "none"
Handled == {handling} \ {"none"}

\* The connections that have a TcpConnection by now.
Constructed == accepted \ (IF acc = "connect" THEN {cur} ELSE {})

\* Whoever is known to epoll, to the server or to a trigger event has one.
Entered ==
  /\ UNION {channels, closed, connections, batch, Handled, todo, Closing} \subseteq Constructed
  /\ acc # "idle" => cur \in accepted

\* A closed connection is out of epoll.
ClosedLeft == closed \cap channels = {}

\* disconnect_cb_ is set at the end of the acceptor's callback, for a
\* connection that is in connections_; there it stays until it is closed.
Hooked ==
  /\ Removing \cup timers \cup lost \subseteq hooked
  /\ hooked = accepted \ {cur}
  /\ acc = "hook" => cur \in connections
  /\ hooked \ closed \subseteq connections

\* After the wait of TcpServer::Stop no accept is under way, none comes, and
\* connections_ is empty.
Listening ==
  /\ stopper \in {"wait", "destroy", "quit", "join", "joined"} => ~listening
  /\ overtaken => stopper \in {"destroy", "quit", "join", "joined"}
Waited == stopper \in {"destroy", "quit", "join", "joined"} => acc = "idle" /\ connections = {}

\* RemovalsOutstanding, in terms of sets.
Outstanding ==
  /\ Removing \cup timers \subseteq connections \cap closed
  /\ Removing \cap timers = {} /\ NoRemovalTwice(queue)

\* StuckOnly: a closed connection has a removal outstanding, or never had one.
Stuck ==
  /\ missed \cup lost \subseteq closed
  /\ closed \ hooked \subseteq missed
  /\ closed \cap connections \subseteq missed \cup lost \cup Removing \cup timers
  /\ (missed \cup lost) \cap (Removing \cup timers) = {}
  /\ missed # {} => ownLoop
  /\ lost # {} => MayBeFull

\* HandlersAlive, likewise.
Pointers ==
  channels \cup batch \cup Handled
    \subseteq connections \cup Closing \cup (IF acc \in {"add", "hook"} THEN {cur} ELSE {})

Together == Waited /\ Hooked /\ Outstanding /\ Stuck /\ Pointers

IInv == /\ TypeOK /\ InCallback /\ Batches /\ Entered /\ ClosedLeft /\ Listening
        /\ ~overtaken => Together

-----------------------------------------------------------------------------
(* The trigger events as a queue of which no removal may be a duplicate.   *)

\* Appending an event adds this one and no other.
LEMMA AppendIn ==
  ASSUME NEW q \in Seq(Events), NEW e \in Events
  PROVE  /\ Append(q, e) \in Seq(Events)
         /\ \A x : In(Append(q, e), x) <=> In(q, x) \/ x = e
         /\ NoRemovalTwice(q) /\ (e[1] = "remove" => ~In(q, e)) => NoRemovalTwice(Append(q, e))
<1> DEFINE r == Append(q, e)
<1>1. r \in Seq(Events) /\ Len(r) = Len(q) + 1
  BY AppendProperties
<1>2. \A i \in 1 .. Len(q) : r[i] = q[i]
  BY AppendProperties
<1>3. r[Len(q) + 1] = e
  BY AppendProperties
<1>4. Len(q) \in Nat /\ DOMAIN q = 1 .. Len(q) /\ DOMAIN r = 1 .. Len(q) + 1
  BY <1>1, LenProperties
<1>5. \A x : In(r, x) <=> In(q, x) \/ x = e
  <2> HIDE DEF r
  <2> QED BY <1>2, <1>3, <1>4 DEF In
<1>6. NoRemovalTwice(q) /\ (e[1] = "remove" => ~In(q, e)) => NoRemovalTwice(r)
  <2> HIDE DEF r
  <2> QED BY <1>2, <1>3, <1>4 DEF In, NoRemovalTwice
<1> QED BY <1>1, <1>5, <1>6

\* Taking the first event away takes away this one and no other, and the last
\* of its kind if it is a removal.
LEMMA TailIn ==
  ASSUME NEW q \in Seq(Events), q # <<>>
  PROVE  /\ Head(q) \in Events /\ Tail(q) \in Seq(Events)
         /\ In(q, Head(q))
         /\ \A x : In(q, x) <=> In(Tail(q), x) \/ x = Head(q)
         /\ NoRemovalTwice(q) =>
              /\ NoRemovalTwice(Tail(q))
              /\ Head(q)[1] = "remove" => ~In(Tail(q), Head(q))
<1> DEFINE r == Tail(q)
<1>1. Len(q) \in Nat \ {0} /\ DOMAIN q = 1 .. Len(q)
  BY LenProperties, EmptySeq
<1>2. Head(q) = q[1] /\ Head(q) \in Events
  BY HeadTailProperties, <1>1, ElementOfSeq
<1>3. r \in Seq(Events) /\ DOMAIN r = 1 .. Len(q) - 1
  BY HeadTailProperties, LenProperties
<1>4. \A i \in 1 .. Len(q) - 1 : r[i] = q[i + 1]
  BY HeadTailProperties
<1> HIDE DEF r
<1>5. In(q, Head(q))
  BY <1>1, <1>2 DEF In
<1>6. ASSUME NEW x PROVE In(q, x) <=> In(r, x) \/ x = Head(q)
  <2>1. ASSUME NEW i \in 1 .. Len(q), q[i] = x, i # 1 PROVE In(r, x)
    <3>1. i - 1 \in DOMAIN r /\ r[i - 1] = x
      BY <1>1, <1>3, <1>4, <2>1
    <3> QED BY <3>1 DEF In
  <2>2. ASSUME NEW i \in DOMAIN r, r[i] = x PROVE In(q, x)
    <3>1. i + 1 \in DOMAIN q /\ q[i + 1] = x
      BY <1>1, <1>3, <1>4, <2>2
    <3> QED BY <3>1 DEF In
  <2> QED BY <1>1, <1>2, <1>5, <2>1, <2>2 DEF In
<1>7. ASSUME NoRemovalTwice(q) PROVE NoRemovalTwice(r)
  <2> SUFFICES ASSUME NEW i \in DOMAIN r, NEW j \in DOMAIN r, r[i] = r[j], r[i][1] = "remove"
               PROVE  i = j
    BY DEF NoRemovalTwice
  <2>1. i + 1 \in DOMAIN q /\ j + 1 \in DOMAIN q /\ i \in Int /\ j \in Int
    BY <1>1, <1>3
  <2>2. i + 1 = j + 1
    BY <1>3, <1>4, <1>7, <2>1 DEF NoRemovalTwice
  <2> QED BY <2>1, <2>2
<1>8. ASSUME NoRemovalTwice(q), Head(q)[1] = "remove", In(r, Head(q)) PROVE FALSE
  <2>1. PICK i \in DOMAIN r : r[i] = q[1]
    BY <1>2, <1>8 DEF In
  <2>2. i + 1 \in DOMAIN q /\ 1 \in DOMAIN q /\ q[i + 1] = q[1] /\ i + 1 # 1
    BY <1>1, <1>3, <1>4, <2>1
  <2> QED BY <1>2, <1>8, <2>2 DEF NoRemovalTwice
<1> QED BY <1>2, <1>3, <1>5, <1>6, <1>7, <1>8 DEF r

\* TcpConnection::Close closes the connection and takes it out of epoll.  The
\* removal of one that was still open and is hooked is then in one place, or
\* lost; the removals of the others stay where they are.
LEMMA CloseEffect ==
  ASSUME TypeOK, ClosedLeft, NEW c \in Conns, NEW q \in Seq(Events), Close(c, q)
  PROVE  /\ queue' \in Seq(Events)
         /\ NoRemovalTwice(q) /\ (c \notin closed => ~In(q, <<"remove", c>>)) => NoRemovalTwice(queue')
         /\ closed' = closed \cup {c} /\ channels' = channels \ {c}
         /\ \A d \in Conns : In(queue', <<"close", d>>) <=> In(q, <<"close", d>>)
         /\ \A d \in Conns \ {c} : In(queue', <<"remove", d>>) <=> In(q, <<"remove", d>>)
         /\ \/ c \in closed /\ queue' = q /\ UNCHANGED <<timers, missed, lost>>
            \/ /\ c \in hooked \ closed /\ In(queue', <<"remove", c>>)
               /\ UNCHANGED <<timers, missed, lost>>
            \/ /\ c \in hooked \ closed /\ queue' = q
               /\ timers' = timers \cup {c} /\ UNCHANGED <<missed, lost>>
            \/ /\ c \in hooked \ closed /\ queue' = q /\ MayBeFull
               /\ lost' = lost \cup {c} /\ UNCHANGED <<missed, timers>>
            \/ /\ c \notin hooked \cup closed /\ queue' = q
               /\ missed' = missed \cup {c} /\ UNCHANGED <<lost, timers>>
<1>1. CASE c \in closed
  BY <1>1 DEF Close, TypeOK, ClosedLeft
<1>2. CASE c \notin closed /\ queue' = q
  BY <1>2 DEF Close, PostRemoval, TypeOK
<1>3. CASE c \notin closed /\ c \in hooked /\ queue' = Append(q, <<"remove", c>>)
           /\ UNCHANGED <<timers, missed, lost>>
  <2>1. <<"remove", c>> \in Events
    BY DEF Events
  <2>2. /\ queue' \in Seq(Events)
        /\ NoRemovalTwice(q) /\ ~In(q, <<"remove", c>>) => NoRemovalTwice(queue')
        /\ \A x : In(queue', x) <=> In(q, x) \/ x = <<"remove", c>>
    BY <1>3, <2>1, AppendIn
  <2>3. closed' = closed \cup {c} /\ channels' = channels \ {c}
    BY <1>3 DEF Close
  <2> QED BY <1>3, <2>2, <2>3
<1> QED BY <1>1, <1>2, <1>3 DEF Close, PostRemoval

-----------------------------------------------------------------------------
(* The steps.                                                              *)

\* What the queue of trigger events is to the invariant.
LEMMA QueueFacts ==
  /\ Closing = {c \in Conns : In(queue, <<"close", c>>)}
  /\ Removing = {c \in Conns : In(queue, <<"remove", c>>)}
  /\ Closing' = {c \in Conns : In(queue', <<"close", c>>)}
  /\ Removing' = {c \in Conns : In(queue', <<"remove", c>>)}
BY DEF Closing, Removing, Posted, In

\* As long as the queue stays as it is, so do the two sets.
LEMMA QueueSame == UNCHANGED queue => Closing' = Closing /\ Removing' = Removing
BY QueueFacts

\* The acceptor keeps the invariant.
LEMMA AcceptorKeepsIInv ==
  ASSUME IInv, (\E c \in Conns : Accept(c)) \/ Accepting
  PROVE  IInv'
<1> USE DEF IInv, TypeOK, InCallback, Batches, Handled, Constructed, Entered, ClosedLeft, Listening,
        Together, Waited, Hooked, Outstanding, Stuck, Pointers, worker, stopping, removals
<1>1. CASE \E c \in Conns : Accept(c)
  BY <1>1, QueueSame, ServerAssumption DEF Accept
<1>2. CASE OnConnect
  BY <1>2, QueueSame DEF OnConnect
<1>3. CASE AddConnection
  <2>1. acc = "add" /\ acc' = "hook" /\ Closing' = Closing /\ Removing' = Removing
    BY <1>3, QueueSame DEF AddConnection
  <2>2. ~overtaken => stopper \notin {"destroy", "quit", "join", "joined"}
    BY <2>1
  <2>3. ~overtaken => connections' = connections \cup {cur}
    BY <1>3, <2>2 DEF AddConnection, Gone
  <2>4. connections' = connections \/ connections' = connections \cup {cur}
    BY <1>3 DEF AddConnection
  <2>5. cur \in Constructed'
    BY <1>3, <2>1 DEF AddConnection
  <2>6. ASSUME ~overtaken PROVE Together'
    <3>1. Waited' /\ Hooked'
      BY <1>3, <2>1, <2>2, <2>3, <2>6 DEF AddConnection
    <3>2. Outstanding'
      BY <1>3, <2>1, <2>3, <2>6 DEF AddConnection
    <3>3. Stuck'
      BY <1>3, <2>1, <2>3, <2>6 DEF AddConnection
    <3>4. Pointers'
      BY <1>3, <2>1, <2>3, <2>6 DEF AddConnection
    <3> QED BY <3>1, <3>2, <3>3, <3>4
  <2> QED BY <1>3, <2>1, <2>4, <2>5, <2>6 DEF AddConnection
<1>4. CASE SetDisconnectCallback
  BY <1>4, QueueSame, ServerAssumption DEF SetDisconnectCallback
<1> QED BY <1>1, <1>2, <1>3, <1>4 DEF Accepting

\* The stopping thread keeps it.
LEMMA StopperKeepsIInv ==
  ASSUME IInv, StopBegin \/ Stopping
  PROVE  IInv'
<1> USE DEF IInv, TypeOK, InCallback, Batches, Handled, Constructed, Entered, ClosedLeft, Listening,
        Together, Waited, Hooked, Outstanding, Stuck, Pointers, worker, acceptor, removals
<1>1. CASE StopBegin
  BY <1>1, QueueSame DEF StopBegin
<1>2. ASSUME NEW c \in Conns, Disconnect(c) PROVE IInv'
  <2>1. CASE UNCHANGED queue
    BY <1>2, <2>1, QueueSame DEF Disconnect
  <2>2. CASE queue' = Append(queue, <<"close", c>>)
    <3>1. <<"close", c>> \in Events
      BY DEF Events
    <3>2. queue' \in Seq(Events)
      BY <2>2, <3>1, AppendIn DEF Events
    <3>3. \A x : In(queue', x) <=> In(queue, x) \/ x = <<"close", c>>
      BY <2>2, <3>1, AppendIn DEF Events
    <3>4. Closing' = Closing \cup {c} /\ Removing' = Removing
      <4>1. \A d \in Conns : <<"remove", d>> # <<"close", c>>
        OBVIOUS
      <4>2. \A d \in Conns : <<"close", d>> = <<"close", c>> <=> d = c
        OBVIOUS
      <4> QED BY <3>3, <4>1, <4>2, QueueFacts
    <3>5. ~overtaken => NoRemovalTwice(queue')
      BY <2>2, <3>1, AppendIn DEF Events
    <3> QED BY <1>2, <3>2, <3>4, <3>5 DEF Disconnect, Events
  <2> QED BY <1>2, <2>1, <2>2 DEF Disconnect
<1>3. CASE StopUnlock
  BY ZenonT(30), <1>3, QueueSame DEF StopUnlock
<1>4. CASE StopClose
  BY <1>4, QueueSame DEF StopClose
<1>5. CASE StopWait
  <2>1. ~overtaken /\ (~overtaken' => acc = "idle") /\ overtaken' \in BOOLEAN
    BY <1>5 DEF StopWait
  <2> QED BY <1>5, <2>1, QueueSame DEF StopWait
<1>6. CASE Quit
  BY <1>6, QueueSame DEF Quit
<1>7. CASE Join
  BY <1>7, QueueSame DEF Join
<1>8. CASE Destroy
  BY <1>8, QueueSame DEF Destroy
<1> QED BY <1>1, <1>2, <1>3, <1>4, <1>5, <1>6, <1>7, <1>8 DEF Stopping

\* The steps of the loop that run no callback of a connection keep it.
LEMMA RoundKeepsIInv ==
  ASSUME IInv, TriggersDone \/ Poll \/ EventsDone \/ RunTimer
  PROVE  IInv'
<1> USE DEF IInv, TypeOK, InCallback, Batches, Handled, Constructed, Entered, ClosedLeft, Listening,
        Together, Waited, Hooked, Outstanding, Stuck, Pointers, worker, acceptor, stopping, removals
<1>1. CASE TriggersDone
  BY <1>1, QueueSame DEF TriggersDone
<1>2. CASE Poll
  BY <1>2, QueueSame DEF Poll
<1>3. CASE EventsDone
  BY <1>3, QueueSame DEF EventsDone
<1>4. CASE RunTimer
  BY <1>4, QueueSame DEF RunTimer
<1> QED BY <1>1, <1>2, <1>3, <1>4

\* A Close in the loop keeps it: q is what the trigger events are when it
\* begins, those of the state or one Close for c less.
LEMMA CloseKeepsIInv ==
  ASSUME IInv, NEW c \in Conns, c \in Constructed, NEW q \in Seq(Events),
         ~overtaken => NoRemovalTwice(q),
         \A d \in Conns : In(q, <<"remove", d>>) <=> d \in Removing,
         \A d \in Conns : In(q, <<"close", d>>) => d \in Closing,
         \A d \in Closing : In(q, <<"close", d>>) \/ d = c,
         LoopsTurn, Close(c, q),
         UNCHANGED <<acceptor, hooked, connections, loop, stopping>>,
         batch' \subseteq batch, handling' \in {"none", handling, c},
         ~overtaken /\ handling' = c =>
            c \in connections \cup Closing' \cup (IF acc \in {"add", "hook"} THEN {cur} ELSE {}),
         loop # "events" => UNCHANGED <<batch, handling>>,
         c \in batch' \cup Handled' => loop = "events" /\ q = queue
  PROVE  IInv'
<1>1. TypeOK /\ ClosedLeft
  BY DEF IInv
<1>2. queue' \in Seq(Events) /\ closed' = closed \cup {c} /\ channels' = channels \ {c}
  BY <1>1, CloseEffect
<1>3. /\ \A d \in Conns : In(queue', <<"close", d>>) <=> In(q, <<"close", d>>)
      /\ \A d \in Conns \ {c} : In(queue', <<"remove", d>>) <=> In(q, <<"remove", d>>)
  BY <1>1, CloseEffect
<1>4. \/ c \in closed /\ queue' = q /\ UNCHANGED <<timers, missed, lost>>
      \/ /\ c \in hooked \ closed /\ In(queue', <<"remove", c>>)
         /\ UNCHANGED <<timers, missed, lost>>
      \/ /\ c \in hooked \ closed /\ queue' = q
         /\ timers' = timers \cup {c} /\ UNCHANGED <<missed, lost>>
      \/ /\ c \in hooked \ closed /\ queue' = q /\ MayBeFull
         /\ lost' = lost \cup {c} /\ UNCHANGED <<missed, timers>>
      \/ /\ c \notin hooked \cup closed /\ queue' = q
         /\ missed' = missed \cup {c} /\ UNCHANGED <<lost, timers>>
  BY <1>1, CloseEffect
<1>5. Closing' \subseteq Closing /\ Closing \subseteq Closing' \cup {c} /\ (q = queue => Closing' = Closing)
  BY <1>3, QueueFacts
<1>6. queue' = q => Removing' = Removing
  BY QueueFacts
<1>7. Removing' \ {c} = Removing \ {c} /\ (In(queue', <<"remove", c>>) => c \in Removing')
  BY <1>3, QueueFacts
<1>8. (TypeOK /\ InCallback /\ Batches)'
  BY <1>2, <1>4, ServerAssumption
  DEF IInv, TypeOK, InCallback, Batches, Entered, Constructed, Handled, acceptor, stopping, Events
<1>9. (Entered /\ ClosedLeft /\ Listening)'
  BY <1>2, <1>5, ServerAssumption
  DEF IInv, TypeOK, Entered, Constructed, Handled, ClosedLeft, Listening, acceptor, stopping
<1>10. ASSUME ~overtaken PROVE Together'
  <2>1. Together /\ NoRemovalTwice(queue')
    <3>1. c \notin closed => ~In(q, <<"remove", c>>)
      BY <1>10 DEF IInv, Together, Outstanding
    <3> QED BY <1>1, <1>10, <3>1, CloseEffect DEF IInv
  <2>2. Waited' /\ Pointers'
    BY <1>2, <1>5, <1>10, <2>1, ServerAssumption
    DEF Together, Waited, Pointers, Handled, acceptor, stopping
  <2>3. c \notin hooked => ownLoop
    <3>1. LoopsTurn /\ (ownLoop \/ acc = "idle") /\ cur \in Conns \cup {"none"}
      BY DEF LoopsTurn, IInv, TypeOK
    <3> QED BY <2>1, <3>1, ServerAssumption DEF IInv, InCallback, Together, Hooked, Constructed
  <2>4. Hooked'
    BY <1>4, <1>6, <1>7, <1>2, <2>1 DEF Together, Hooked, acceptor
  <2>5. c \in hooked \ closed => c \in connections /\ c \notin Removing \cup timers \cup lost \cup missed
    BY <2>1 DEF Together, Hooked, Outstanding, Stuck
  <2>6. c \notin hooked \cup closed => c \notin Removing \cup timers \cup lost \cup missed
    BY <2>1 DEF Together, Hooked, Outstanding, Stuck
  <2>7. Outstanding'
    BY <1>4, <1>6, <1>7, <1>2, <2>1, <2>5 DEF Together, Outstanding
  <2>8. Stuck'
    BY <1>4, <1>6, <1>7, <1>2, <2>1, <2>3, <2>5, <2>6 DEF Together, Stuck, acceptor
  <2> QED BY <2>1, <2>2, <2>4, <2>7, <2>8 DEF Together
<1> QED BY <1>8, <1>9, <1>10 DEF IInv, stopping

\* The handlers of the loop keep the invariant.
LEMMA HandlersKeepIInv ==
  ASSUME IInv, RunClose \/ RunRemove \/ (\E c \in Conns : HandleRead(c)) \/ HandleRest
  PROVE  IInv'
<1>0. queue \in Seq(Events) /\ (~overtaken => NoRemovalTwice(queue))
  BY DEF IInv, Together, TypeOK, Events, Outstanding
<1>1. CASE RunClose
  <2> DEFINE c == Head(queue)[2]
             q == Tail(queue)
  <2>1. /\ Head(queue) \in Events /\ q \in Seq(Events) /\ (~overtaken => NoRemovalTwice(q))
        /\ \A x : In(queue, x) <=> In(q, x) \/ x = Head(queue)
    BY <1>0, <1>1, TailIn DEF RunClose
  <2>2. c \in Conns /\ Head(queue) = <<"close", c>>
    BY <1>1, <2>1 DEF RunClose, Events
  <2>3. \A d \in Conns : In(q, <<"remove", d>>) <=> d \in Removing
    <3>1. \A d \in Conns : <<"remove", d>> # Head(queue)
      BY <2>2
    <3>2. \A d \in Conns : In(queue, <<"remove", d>>) <=> In(q, <<"remove", d>>)
      BY <2>1, <3>1
    <3> QED BY <3>2, QueueFacts
  <2>4. /\ \A d \in Conns : In(q, <<"close", d>>) => d \in Closing
        /\ \A d \in Closing : In(q, <<"close", d>>) \/ d = c
        /\ c \in Closing
    BY <2>1, <2>2, QueueFacts
  <2>5. c \in Constructed
    BY <2>4 DEF IInv, Entered
  <2>6. batch = {} /\ handling = "none"
    BY <1>1 DEF IInv, Batches, RunClose
  <2>7. LoopsTurn /\ Close(c, q) /\ UNCHANGED <<acceptor, hooked, connections, worker, stopping>>
    BY <1>1 DEF RunClose
  <2> HIDE DEF c, q
  <2>8. /\ loop' = loop /\ batch' = {} /\ handling' = "none"
        /\ UNCHANGED <<acceptor, hooked, connections, loop, stopping>>
    BY <2>6, <2>7 DEF worker
  <2>9. c # "none" /\ Handled' = {}
    BY <2>2, <2>8, ServerAssumption DEF Handled
  <2> QED BY <1>0, <2>1, <2>2, <2>3, <2>4, <2>5, <2>6, <2>7, <2>8, <2>9, CloseKeepsIInv
<1>2. CASE RunRemove
  <2> DEFINE c == Head(queue)[2]
  <2>1. queue # <<>> /\ queue' = Tail(queue) /\ Head(queue)[1] = "remove"
    BY <1>2 DEF RunRemove
  <2>2. /\ Head(queue) \in Events /\ queue' \in Seq(Events)
        /\ ~overtaken => NoRemovalTwice(queue') /\ ~In(queue', Head(queue))
        /\ In(queue, Head(queue))
        /\ \A x : In(queue, x) <=> In(queue', x) \/ x = Head(queue)
    BY <1>0, <2>1, TailIn
  <2>3. c \in Conns /\ Head(queue) = <<"remove", c>>
    BY <2>1, <2>2 DEF Events
  <2> HIDE DEF c
  <2>4. /\ Closing' = Closing /\ Removing' \cup {c} = Removing
        /\ ~overtaken => Removing' = Removing \ {c}
    BY <2>2, <2>3, QueueFacts
  <2>5. connections' = connections \ {c}
    BY <1>2 DEF RunRemove, c
  <2> USE DEF IInv, TypeOK, InCallback, Batches, Handled, Constructed, Entered, ClosedLeft, Listening,
          Together, Waited, Hooked, Outstanding, Stuck, Pointers, acceptor, stopping, worker, removals
  <2> QED BY <1>2, <2>2, <2>4, <2>5 DEF RunRemove, Events
<1>3. ASSUME NEW c \in Conns, HandleRead(c) PROVE IInv'
  <2>1. c \in Constructed /\ loop = "events" /\ handling = "none" /\ LoopsTurn
    BY <1>3 DEF HandleRead, IInv, Entered
  <2>2. CASE UNCHANGED <<channels, closed, removals>>
    <3> USE DEF IInv, TypeOK, InCallback, Batches, Handled, Constructed, Entered, ClosedLeft, Listening,
            Together, Waited, Hooked, Outstanding, Stuck, Pointers, acceptor, stopping, removals
    <3> QED BY <1>3, <2>2, QueueSame DEF HandleRead
  <2>3. CASE Close(c, queue)
    <3>1. /\ \A d \in Conns : In(queue, <<"remove", d>>) <=> d \in Removing
          /\ \A d \in Conns : In(queue, <<"close", d>>) => d \in Closing
          /\ \A d \in Closing : In(queue, <<"close", d>>) \/ d = c
      BY QueueFacts
    <3>2. ~overtaken => c \in connections \cup Closing \cup (IF acc \in {"add", "hook"} THEN {cur} ELSE {})
      BY <1>3 DEF IInv, Together, Pointers, HandleRead
    <3>3. Closing' = Closing
      BY <1>0, <2>3, CloseEffect, QueueFacts DEF IInv
    <3> QED BY <1>0, <1>3, <2>1, <2>3, <3>1, <3>2, <3>3, CloseKeepsIInv DEF HandleRead
  <2> QED BY <1>3, <2>2, <2>3 DEF HandleRead
<1>4. CASE HandleRest
  <2>1. handling \in Conns /\ handling \in Constructed /\ loop = "events" /\ LoopsTurn
    BY <1>4 DEF HandleRest, IInv, TypeOK, Entered, Handled
  <2>2. CASE UNCHANGED <<channels, closed, removals>>
    <3> USE DEF IInv, TypeOK, InCallback, Batches, Handled, Constructed, Entered, ClosedLeft, Listening,
            Together, Waited, Hooked, Outstanding, Stuck, Pointers, acceptor, stopping, removals
    <3> QED BY <1>4, <2>2, QueueSame DEF HandleRest
  <2>3. CASE Close(handling, queue)
    <3>1. /\ \A d \in Conns : In(queue, <<"remove", d>>) <=> d \in Removing
          /\ \A d \in Conns : In(queue, <<"close", d>>) => d \in Closing
          /\ \A d \in Closing : In(queue, <<"close", d>>) \/ d = handling
      BY QueueFacts
    <3>2. "none" # handling
      BY <2>1, ServerAssumption
    <3> QED BY <1>0, <1>4, <2>1, <2>3, <3>1, <3>2, CloseKeepsIInv DEF HandleRest
  <2> QED BY <1>4, <2>2, <2>3 DEF HandleRest
<1> QED BY <1>1, <1>2, <1>3, <1>4

-----------------------------------------------------------------------------
\* The invariant holds before the first connection ...
LEMMA InitIInv == Init => IInv
<1> SUFFICES ASSUME Init PROVE IInv
  OBVIOUS
<1>1. Closing = {} /\ Removing = {} /\ NoRemovalTwice(queue) /\ queue \in Seq({"close", "remove"} \X Conns)
  BY DEF Init, Closing, Removing, Posted, NoRemovalTwice
<1> QED BY <1>1, ServerAssumption
        DEF Init, IInv, TypeOK, InCallback, Batches, Handled, Constructed, Entered, ClosedLeft,
            Listening, Together, Waited, Hooked, Outstanding, Stuck, Pointers

\* ... and every step keeps it.
LEMMA NextKeepsIInv == IInv /\ [Next]_vars => IInv'
<1> SUFFICES ASSUME IInv, [Next]_vars PROVE IInv'
  OBVIOUS
<1>1. CASE UNCHANGED vars
  BY <1>1, QueueSame
  DEF vars, IInv, TypeOK, InCallback, Batches, Handled, Constructed, Entered, ClosedLeft,
      Listening, Together, Waited, Hooked, Outstanding, Stuck, Pointers
<1>2. CASE Next
  BY <1>2, AcceptorKeepsIInv, StopperKeepsIInv, RoundKeepsIInv, HandlersKeepIInv DEF Next, Looping
<1> QED BY <1>1, <1>2

\* The inductive invariant holds in every state.
THEOREM ServerInvariant == Spec => []IInv
BY InitIInv, NextKeepsIInv, PTL DEF Spec

\* The variables keep their types.
THEOREM ServerTypeOK == Spec => []TypeOK
<1>1. IInv => TypeOK
  BY DEF IInv
<1> QED BY <1>1, ServerInvariant, PTL

\* As long as TcpServer::Stop does not return during an accept, the raw pointers
\* in epoll, in the batch and in the handler at work point to living connections
\* (EpollTaskScheduler.cpp:87-91, TcpConnection.cpp:135-148).
THEOREM ServerHandlersAlive == Spec => []HandlersAlive
<1>1. IInv => HandlersAlive
  BY DEF IInv, Together, Pointers, Handled, TypeOK, Closing, HandlersAlive, Alive
<1> QED BY <1>1, ServerInvariant, PTL

\* As long as TcpServer::Stop does not return during an accept, the removal of a
\* closed connection in the map is outstanding, once, unless the connection was
\* closed before its callback was set (only with a loop of its own) or Push
\* dropped the removal (TcpServer.cpp:17-35, TaskScheduler.cpp:77-82).
THEOREM ServerRemovalsOutstanding == Spec => []RemovalsOutstanding
<1>1. IInv => RemovalsOutstanding
  <2> SUFFICES ASSUME IInv, ~overtaken PROVE RemovalsPending /\ RemovedOnce /\ StuckOnly
    BY DEF RemovalsOutstanding
  <2>1. TypeOK /\ Outstanding /\ Stuck
    BY DEF IInv, Together
  <2>2. \A c \in Conns : Pending(c) <=> c \in Removing \cup timers
    BY DEF Pending, Removing
  <2>3. RemovalsPending /\ RemovedOnce
    BY <2>1, <2>2 DEF Outstanding, TypeOK, Removing, NoRemovalTwice, RemovalsPending, RemovedOnce
  <2>4. StuckOnly
    BY <2>1, <2>2 DEF Outstanding, Stuck, TypeOK, StuckOnly
  <2> QED BY <2>3, <2>4
<1> QED BY <1>1, ServerInvariant, PTL

\* As long as TcpServer::Stop does not return during an accept, a connection
\* leaves connections_ closed and out of epoll (TcpServer.cpp:86-90).
THEOREM ServerLeavesClosed == Spec => LeavesClosed
<1>1. IInv /\ [Next]_vars =>
        [~overtaken => \A c \in connections \ connections' : c \in closed /\ c \notin channels]_vars
  <2> SUFFICES ASSUME IInv, Next, ~overtaken, NEW c \in connections \ connections'
               PROVE  c \in closed /\ c \notin channels
    BY DEF vars
  <2>1. c \in Removing \cup timers
    <3>1. CASE RunRemove
      <4>1. queue \in Seq(Events) /\ queue # <<>> /\ c = Head(queue)[2] /\ Head(queue)[1] = "remove"
        BY <3>1 DEF RunRemove, IInv, TypeOK, Events
      <4>2. Head(queue) \in Events /\ In(queue, Head(queue))
        BY <4>1, TailIn
      <4>3. Head(queue) = <<"remove", c>> /\ c \in Conns
        BY <4>1, <4>2 DEF Events
      <4> QED BY <4>2, <4>3, QueueFacts
    <3>2. CASE RunTimer
      BY <3>2 DEF RunTimer
    <3>3. CASE Destroy
      BY <3>3 DEF Destroy, IInv, Together, Waited
    <3>4. ~RunRemove /\ ~RunTimer /\ ~Destroy =>
            connections' = connections \/ connections' = connections \cup {cur}
      BY DEF Next, Accept, Accepting, OnConnect, AddConnection, SetDisconnectCallback,
             Looping, RunClose, TriggersDone, Poll, HandleRead, HandleRest, EventsDone,
             StopBegin, Stopping, StopUnlock, StopClose, StopWait, Quit, Join, Disconnect
    <3> QED BY <3>1, <3>2, <3>3, <3>4
  <2> QED BY <2>1 DEF IInv, Together, Outstanding, ClosedLeft
<1> QED BY <1>1, ServerInvariant, PTL DEF Spec, LeavesClosed
=============================================================================
