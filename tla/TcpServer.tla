------------------------------ MODULE TcpServer ------------------------------
(***************************************************************************)
(* The life of the connections of a TcpServer: accepted on scheduler 0,    *)
(* served by the loop of another scheduler, closed there by the peer, by   *)
(* an error or by Stop, and removed from connections_ by a callback that   *)
(* the closing posts to that loop.  Then StreamServer::Stop, from          *)
(* TcpServer::Stop to EventLoop::Quit.                                     *)
(*                                                                         *)
(* A TcpConnection lives as long as a shared_ptr to it: in connections_,   *)
(* in the acceptor's callback, or in a posted Close.  epoll and the batch  *)
(* of events that epoll_wait returns hold raw pointers.                    *)
(***************************************************************************)
EXTENDS Integers, Sequences, FiniteSets

CONSTANTS Conns,      \* the connections that clients may open
          MayBeFull   \* the loop's trigger events may run out of room

ASSUME ServerAssumption ==
  /\ IsFiniteSet(Conns) /\ "none" \notin Conns
  /\ MayBeFull \in BOOLEAN

VARIABLES ownLoop,      \* the EventLoop has a loop for connections besides the
                        \* acceptor's (eventloop_threads > 1)
          listening,    \* the acceptor's socket is open
          accepted,     \* the connections accepted so far
          acc, cur,     \* where the acceptor's callback is, and for whom
          channels,     \* the connections' channels in the loop's epoll
          hooked,       \* whose disconnect_cb_ is set
          closed,       \* whose is_closed_ is set
          connections,  \* connections_
          mutex,        \* TcpServer::mutex_ is held by Stop
          evMutex,      \* EventLoop::mutex_ is held by Quit
          queue,        \* the loop's trigger events: <<"close" or "remove", c>>
          timers,       \* RemoveConnections postponed to a timer
          missed,       \* history: closed before disconnect_cb_ was set
          lost,         \* history: whose removal Push dropped unnoticed
          loop,         \* where the connections' loop is
          batch,        \* the channels epoll_wait returned, not yet handled
          handling,     \* the connection inside Channel::HandleEvent, or "none"
          stopper, todo,\* where the stopping thread is; whom it still disconnects
          overtaken     \* history: TcpServer::Stop has returned during an accept

acceptor == <<ownLoop, listening, accepted, acc, cur>>
worker   == <<loop, batch, handling>>
stopping == <<stopper, todo, mutex, evMutex, overtaken>>
removals == <<queue, timers, missed, lost>>
vars == <<ownLoop, listening, accepted, acc, cur, channels, hooked, closed, connections, mutex, evMutex,
          queue, timers, missed, lost, loop, batch, handling, stopper, todo, overtaken>>

Init ==
  /\ ownLoop \in BOOLEAN
  /\ listening = TRUE /\ accepted = {} /\ acc = "idle" /\ cur = "none"
  /\ channels = {} /\ hooked = {} /\ closed = {} /\ connections = {}
  /\ mutex = FALSE /\ evMutex = FALSE
  /\ queue = <<>> /\ timers = {} /\ missed = {} /\ lost = {}
  /\ loop = "triggers" /\ batch = {} /\ handling = "none"
  /\ stopper = "idle" /\ todo = {} /\ overtaken = FALSE

-----------------------------------------------------------------------------
(* The acceptor: OnAccept and the callback of the TcpServer constructor.   *)

\* With a loop of its own the acceptor accepts at any time, otherwise while
\* the one loop handles events.
AcceptorsTurn == ownLoop \/ (loop = "events" /\ handling = "none")

\* tcp_socket_->Accept()
Accept(c) ==
  /\ acc = "idle" /\ listening /\ c \notin accepted /\ AcceptorsTurn
  /\ accepted' = accepted \cup {c}
  /\ cur' = c
  /\ acc' = "connect"
  /\ UNCHANGED <<ownLoop, listening, channels, hooked, closed, connections, removals, worker, stopping>>

\* OnConnect: GetTaskScheduler, for which EventLoop::mutex_ is needed, and the
\* TcpConnection constructor, which puts the channel into the loop's epoll.
OnConnect ==
  /\ acc = "connect" /\ ~evMutex
  /\ channels' = channels \cup {cur}
  /\ acc' = "add"
  /\ UNCHANGED <<ownLoop, listening, accepted, cur, hooked, closed, connections, removals, worker, stopping>>

\* Mutant: the callback's pointer is moved into connections_ and used after.
AddConnectionMoved ==
  /\ acc = "add" /\ ~mutex
  /\ connections' = connections \cup {cur}
  /\ acc' = "hook" /\ cur' = "none"
  /\ UNCHANGED <<ownLoop, listening, accepted, channels, hooked, closed, removals, worker, stopping>>

\* StreamServer::Stop has destroyed the RtspServer, connections_ with it.
Gone == stopper \in {"quit", "join", "joined"}

\* AddConnection.  (On a destroyed server it is undefined what becomes of the
\* entry.)
AddConnection ==
  /\ acc = "add" /\ ~mutex
  /\ \/ connections' = connections \cup {cur}
     \/ Gone /\ UNCHANGED connections
  /\ acc' = "hook"
  /\ UNCHANGED <<ownLoop, listening, accepted, cur, channels, hooked, closed, removals, worker, stopping>>

\* SetDisconnectCallback, the last step.  (The connection's loop may read the
\* callback meanwhile: it finds it or it does not.)  The callback's pointer to
\* the connection goes, and the connection if there is no entry: its socket is
\* closed, and thereby taken out of epoll.
SetDisconnectCallback ==
  /\ acc = "hook"
  /\ hooked' = hooked \cup {cur}
  /\ channels' = channels \ ({cur} \ connections)
  /\ acc' = "idle" /\ cur' = "none"
  /\ UNCHANGED <<ownLoop, listening, accepted, closed, connections, removals, worker, stopping>>

-----------------------------------------------------------------------------
(* The loop of the connections.                                            *)

LoopsTurn == ownLoop \/ acc = "idle"

\* Mutant: Close leaves the channel in epoll.
CloseKeepsChannel(c, q) ==
  IF c \in closed
    THEN queue' = q /\ UNCHANGED <<closed, channels, timers, missed, lost>>
    ELSE /\ closed' = closed \cup {c}
         /\ UNCHANGED <<channels, timers, lost>>
         /\ IF c \in hooked THEN queue' = Append(q, <<"remove", c>>) /\ UNCHANGED missed
                           ELSE queue' = q /\ missed' = missed \cup {c}

\* Mutant: is_closed_ is not looked at.
CloseAgain(c, q) ==
  /\ closed' = closed \cup {c}
  /\ channels' = channels \ {c}
  /\ IF c \in hooked THEN queue' = Append(q, <<"remove", c>>) /\ UNCHANGED missed
                    ELSE queue' = q /\ missed' = missed \cup {c}
  /\ UNCHANGED <<timers, lost>>

\* Mutant: when there is no room for the removal, it is forgotten.
CloseNoTimer(c, q) ==
  IF c \in closed
    THEN queue' = q /\ UNCHANGED <<closed, channels, timers, missed, lost>>
    ELSE /\ closed' = closed \cup {c}
         /\ channels' = channels \ {c}
         /\ UNCHANGED <<timers, missed, lost>>
         /\ \/ c \in hooked /\ queue' = Append(q, <<"remove", c>>)
            \/ (MayBeFull \/ c \notin hooked) /\ queue' = q

\* disconnect_cb_ posts RemoveConnection.  When AddTriggerEvent says that there
\* is no room, it starts a 100 ms timer; when the ring has become full between
\* AddTriggerEvent's test and its Push, the removal is dropped and AddTriggerEvent
\* says yes.
PostRemoval(c, q) ==
  \/ queue' = Append(q, <<"remove", c>>) /\ UNCHANGED <<timers, lost>>
  \/ MayBeFull /\ queue' = q /\ timers' = timers \cup {c} /\ UNCHANGED lost
  \/ MayBeFull /\ queue' = q /\ lost' = lost \cup {c} /\ UNCHANGED timers

\* TcpConnection::Close, with q the trigger events before it: the first time,
\* the channel leaves epoll and the disconnect callback is called, if it is set.
Close(c, q) ==
  IF c \in closed
    THEN queue' = q /\ UNCHANGED <<closed, channels, timers, missed, lost>>
    ELSE /\ closed' = closed \cup {c}
         /\ channels' = channels \ {c}
         /\ \/ c \in hooked /\ PostRemoval(c, q) /\ UNCHANGED missed
            \/ c \notin hooked /\ missed' = missed \cup {c} /\ queue' = q /\ UNCHANGED <<timers, lost>>

\* HandleTriggerEvent runs a Close posted by Disconnect ...
RunClose ==
  /\ LoopsTurn /\ loop = "triggers" /\ queue # <<>>
  /\ Head(queue)[1] = "close"
  /\ Close(Head(queue)[2], Tail(queue))
  /\ UNCHANGED <<acceptor, hooked, connections, worker, stopping>>

\* ... or a RemoveConnection: the entry goes and stop_cv_ is notified.
RunRemove ==
  /\ LoopsTurn /\ loop = "triggers" /\ queue # <<>>
  /\ Head(queue)[1] = "remove" /\ ~mutex
  /\ connections' = connections \ {Head(queue)[2]}
  /\ queue' = Tail(queue)
  /\ UNCHANGED <<acceptor, channels, hooked, closed, timers, missed, lost, worker, stopping>>

\* Mutant: a timer that is due is dropped without having run.
RunTimerNothing ==
  /\ LoopsTurn /\ loop = "timers" /\ ~mutex
  /\ \E c \in timers : timers' = timers \ {c}
  /\ UNCHANGED <<acceptor, channels, hooked, closed, connections, queue, missed, lost, worker, stopping>>

\* HandleTimerEvent runs a postponed RemoveConnection.
RunTimer ==
  /\ LoopsTurn /\ loop = "timers" /\ ~mutex
  /\ \E c \in timers : /\ connections' = connections \ {c}
                       /\ timers' = timers \ {c}
  /\ UNCHANGED <<acceptor, channels, hooked, closed, queue, missed, lost, worker, stopping>>

\* From the trigger events to the timers, and from there to epoll_wait, which
\* returns some of the channels.
TriggersDone ==
  /\ LoopsTurn /\ loop = "triggers" /\ queue = <<>>
  /\ loop' = "timers"
  /\ UNCHANGED <<acceptor, channels, hooked, closed, connections, removals, batch, handling, stopping>>

Poll ==
  /\ LoopsTurn /\ loop = "timers"
  /\ batch' \in SUBSET channels
  /\ loop' = "events"
  /\ UNCHANGED <<acceptor, channels, hooked, closed, connections, removals, handling, stopping>>

\* Channel::HandleEvent first calls HandleRead, which may find the connection
\* at its end and close it ...
HandleRead(c) ==
  /\ LoopsTurn /\ loop = "events" /\ handling = "none" /\ c \in batch
  /\ batch' = batch \ {c}
  /\ handling' = c
  /\ \/ UNCHANGED <<channels, closed, removals>>
     \/ Close(c, queue)
  /\ UNCHANGED <<acceptor, hooked, connections, loop, stopping>>

\* ... and then, on the same connection, HandleWrite, HandleClose or
\* HandleError, all of which may close it.
HandleRest ==
  /\ LoopsTurn /\ loop = "events" /\ handling # "none"
  /\ handling' = "none"
  /\ \/ UNCHANGED <<channels, closed, removals>>
     \/ Close(handling, queue)
  /\ UNCHANGED <<acceptor, hooked, connections, loop, batch, stopping>>

\* All events are handled: another round, or the end once Quit has called Stop.
EventsDone ==
  /\ LoopsTurn /\ loop = "events" /\ batch = {} /\ handling = "none"
  /\ loop' = IF evMutex THEN "done" ELSE "triggers"
  /\ UNCHANGED <<acceptor, channels, hooked, closed, connections, removals, batch, handling, stopping>>

-----------------------------------------------------------------------------
(* StreamServer::Stop.                                                     *)

\* TcpServer::Stop takes mutex_ and goes through connections_.
StopBegin ==
  /\ stopper = "idle" /\ ~mutex
  /\ mutex' = TRUE
  /\ todo' = connections
  /\ stopper' = "disconnect"
  /\ UNCHANGED <<acceptor, channels, hooked, closed, connections, evMutex, removals, worker, overtaken>>

\* Disconnect posts a Close, and does not notice when there is no room for it.
Disconnect(c) ==
  /\ stopper = "disconnect" /\ c \in todo
  /\ todo' = todo \ {c}
  /\ \/ queue' = Append(queue, <<"close", c>>)
     \/ MayBeFull /\ UNCHANGED queue
  /\ UNCHANGED <<acceptor, channels, hooked, closed, connections, mutex, evMutex, timers, missed, lost, worker, stopper, overtaken>>

\* mutex_ is released.
StopUnlock ==
  /\ stopper = "disconnect" /\ todo = {}
  /\ mutex' = FALSE
  /\ stopper' = "close"
  /\ UNCHANGED <<acceptor, channels, hooked, closed, connections, evMutex, removals, worker, todo, overtaken>>

\* acceptor_->Close()
StopClose ==
  /\ stopper = "close"
  /\ listening' = FALSE
  /\ stopper' = "wait"
  /\ UNCHANGED <<ownLoop, accepted, acc, cur, channels, hooked, closed, connections, mutex, evMutex, removals, worker, todo, overtaken>>

\* stop_cv_.wait until connections_ is empty.  (RemoveConnection notifies under
\* mutex_: no wakeup is lost.)  The acceptor's callback may still be under way.
StopWait ==
  /\ stopper = "wait" /\ connections = {}
  /\ stopper' = "destroy"
  /\ overtaken' = (acc # "idle")
  /\ UNCHANGED <<acceptor, channels, hooked, closed, connections, mutex, evMutex, removals, worker, todo>>

\* rtsp_server_.reset(): what the acceptor has added since goes with the map,
\* except for the connection that its callback still holds; the sockets are
\* closed, and thereby taken out of epoll.
Destroy ==
  /\ stopper = "destroy"
  /\ connections' = {}
  /\ channels' = channels \ (connections \ {cur})
  /\ stopper' = "quit"
  /\ UNCHANGED <<acceptor, hooked, closed, mutex, evMutex, removals, worker, todo, overtaken>>

\* EventLoop::Quit takes its mutex and stops the loops.
Quit ==
  /\ stopper = "quit"
  /\ evMutex' = TRUE
  /\ stopper' = "join"
  /\ UNCHANGED <<acceptor, channels, hooked, closed, connections, mutex, removals, worker, todo, overtaken>>

\* Quit joins the loops: that of the connections and that of the acceptor.
Join ==
  /\ stopper = "join" /\ loop = "done" /\ acc = "idle"
  /\ evMutex' = FALSE
  /\ stopper' = "joined"
  /\ UNCHANGED <<acceptor, channels, hooked, closed, connections, mutex, removals, worker, todo, overtaken>>

-----------------------------------------------------------------------------
Accepting == OnConnect \/ AddConnection \/ SetDisconnectCallback
Looping == \/ RunClose \/ RunRemove \/ TriggersDone \/ Poll \/ HandleRest \/ EventsDone
           \/ \E c \in Conns : HandleRead(c)
Stopping == \/ StopUnlock \/ StopClose \/ StopWait \/ Destroy \/ Quit \/ Join
            \/ \E c \in Conns : Disconnect(c)

Next == \/ \E c \in Conns : Accept(c)
        \/ Accepting \/ Looping \/ RunTimer
        \/ StopBegin \/ Stopping

\* Each thread goes on when it can, and a timer's turn comes.  No client has to
\* connect, no peer has to close and nobody has to call Stop.
Spec == /\ Init /\ [][Next]_vars
        /\ WF_vars(Accepting) /\ WF_vars(Looping) /\ SF_vars(RunTimer)
        /\ WF_vars(Stopping)

-----------------------------------------------------------------------------
(* Properties.  When TcpServer::Stop returns while the acceptor's callback *)
(* is under way, that callback goes on with a server that is destroyed;    *)
(* what is said of connections_ is said of the behaviours where this does  *)
(* not happen (~overtaken).                                                *)

\* Every variable has its type.
TypeOK ==
  /\ {ownLoop, listening, mutex, evMutex, overtaken} \subseteq BOOLEAN
  /\ acc \in {"idle", "connect", "add", "hook"} /\ cur \in Conns \cup {"none"}
  /\ UNION {accepted, channels, hooked, closed, connections, timers, missed, lost, batch, todo} \subseteq Conns
  /\ queue \in Seq({"close", "remove"} \X Conns)
  /\ loop \in {"triggers", "timers", "events", "done"}
  /\ handling \in Conns \cup {"none"}
  /\ stopper \in {"idle", "disconnect", "close", "wait", "destroy", "quit", "join", "joined"}

Posted(kind, c) == \E i \in DOMAIN queue : queue[i] = <<kind, c>>
Pending(c) == Posted("remove", c) \/ c \in timers

\* The connections with a shared_ptr to them.
Alive == connections \cup (IF acc \in {"add", "hook"} THEN {cur} ELSE {})
           \cup {c \in Conns : Posted("close", c)}

\* No event is delivered to a connection that is gone: the raw pointers in
\* epoll, in the batch and in the handler at work all point to living objects.
HandlersAlive ==
  ~overtaken =>
    /\ channels \cup batch \subseteq Alive
    /\ handling # "none" => handling \in Alive

\* The entries whose removal is outstanding are still in connections_, closed:
\* when TcpServer::Stop finds the map empty, no callback of a connection that
\* could touch the server is left in the loop.
RemovalsPending == \A c \in Conns : Pending(c) => c \in connections \cap closed

\* A connection is removed once at most: its removal is in one place, the
\* trigger events or the timers.
RemovedOnce ==
  /\ \A i, j \in DOMAIN queue :
       (queue[i] = queue[j] /\ queue[i][1] = "remove") => i = j
  /\ \A c \in timers : ~Posted("remove", c)

\* A closed connection that is still in the map and has no removal outstanding
\* will stay: it was closed before its callback was set, which takes a loop
\* besides the acceptor's, or its removal was dropped, which takes a full ring.
StuckOnly ==
  /\ \A c \in connections \cap closed : c \in missed \cup lost <=> ~Pending(c)
  /\ missed # {} => ownLoop
  /\ lost # {} => MayBeFull

\* The removal of a closed connection in connections_ is outstanding, and so
\* once, unless it is known why there is none (TcpServer.cpp:17-35).
RemovalsOutstanding == ~overtaken => RemovalsPending /\ RemovedOnce /\ StuckOnly

\* Closed, out of epoll, then removed, never in another order: a connection
\* leaves connections_ only after it was closed and has left epoll
\* (TcpConnection.cpp:135-148, TcpServer.cpp:86-90).
LeavesClosed ==
  [][~overtaken => \A c \in connections \ connections' : c \in closed /\ c \notin channels]_vars

\* A removal that was posted is carried out, unless Quit ends the loop before.
RemovalRuns ==
  \A c \in Conns : Pending(c) ~> (c \notin connections \/ loop = "done" \/ overtaken)

\* With one loop for everything, every connection that is closed is removed,
\* unless Push dropped its removal: the acceptor's callback has set
\* disconnect_cb_ before any event is handled.
ClosedIsRemoved ==
  \A c \in Conns : (c \in closed /\ ~ownLoop)
                      ~> (c \notin connections \/ c \in lost \/ loop = "done" \/ overtaken)

\* The removal of a closed connection comes about (TcpServer.cpp:17-35).
RemovalsHappen == RemovalRuns /\ ClosedIsRemoved

\* StreamServer.h on Stop, "Stop the RTSP server and join the event-loop
\* threads": Stop returns.  (Two things can keep it: TcpServer::Stop waits for a
\* connection that nobody removes, and Quit, holding EventLoop::mutex_, joins an
\* acceptor that waits for this mutex.)
StopReturns == (stopper # "idle") ~> (stopper = "joined")

=============================================================================
