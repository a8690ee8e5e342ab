------------------------------ MODULE TcpServer ------------------------------
(***************************************************************************)
(* TcpServer (tcp_server.cpp) with its Acceptor (acceptor.cpp) and its     *)
(* EventLoopThreadPool (event_loop_thread_pool.cpp): connections accepted  *)
(* on the base loop, each given to an I/O loop in turn, kept in            *)
(* connections_ until its close has come back to the base loop.            *)
(*                                                                         *)
(* Loop 0 is the base loop, 1..IoLoops are the pool's.  A loop's functors  *)
(* are a queue; run_in_loop calls at once on the loop's own thread.  Of a  *)
(* TcpConnection its state and its callbacks are kept (TcpConnection has   *)
(* the rest).  The pool's threads outlive the server here: whoever         *)
(* destroys the server also joins them, which drops what they have queued. *)
(***************************************************************************)
EXTENDS Naturals, Sequences, SequencesExt

CONSTANTS
  IoLoops,   \* how many threads set_thread_num() may ask for
  MaxConns   \* bound: connections

ASSUME TcpServerAssumption == IoLoops \in Nat /\ MaxConns \in Nat

Loops == 0..IoLoops
Conns == 1..MaxConns

VARIABLES
  server,        \* new, listening or destroyed
  threads,       \* num_threads_
  backlog,       \* connections in the listening socket's queue
  nextLoop,      \* next_, as a loop
  loopOf,        \* the I/O loop of each connection
  life,          \* state of each connection; "none": not accepted
  registered,    \* connections whose channel the poller has
  connections,   \* connections_
  loopQueue,     \* functors of each loop
  ups, downs,    \* history: calls of the connection callback
  releases,      \* history: calls of connect_destroyed
  stray          \* history: a close came back to a server that was destroyed

serverVars == <<server, threads, backlog, nextLoop, loopOf, life, registered, connections, loopQueue, ups,
                downs, releases, stray>>

ServerInit ==
  /\ server = "new" /\ threads = 0 /\ backlog = 0 /\ nextLoop = 1
  /\ loopOf = [c \in Conns |-> 0] /\ life = [c \in Conns |-> "none"] /\ registered = {}
  /\ connections = {} /\ loopQueue = [l \in Loops |-> << >>]
  /\ ups = [c \in Conns |-> 0] /\ downs = [c \in Conns |-> 0] /\ releases = [c \in Conns |-> 0]
  /\ stray = FALSE

Post(q, l, what, c) == [q EXCEPT ![l] = Append(@, <<what, c>>)]
FunctorAt(l, what) == loopQueue[l] # << >> /\ Head(loopQueue[l])[1] = what
Popped(l) == [loopQueue EXCEPT ![l] = Tail(@)]

-----------------------------------------------------------------------------
(* The base loop.                                                          *)

SetThreadNum ==
  /\ server = "new" /\ threads' = IoLoops
  /\ UNCHANGED <<server, backlog, nextLoop, loopOf, life, registered, connections, loopQueue, ups,
                 downs, releases, stray>>

\* start() on the base loop's thread: the pool's threads, then listen(); a second
\* start() does nothing.
StartServer ==
  /\ server = "new" /\ server' = "listening"
  /\ UNCHANGED <<threads, backlog, nextLoop, loopOf, life, registered, connections, loopQueue, ups,
                 downs, releases, stray>>

\* A peer connects.
PeerConnects ==
  /\ server = "listening"
  /\ backlog + Cardinality({c \in Conns : life[c] # "none"}) < MaxConns
  /\ backlog' = backlog + 1
  /\ UNCHANGED <<server, threads, nextLoop, loopOf, life, registered, connections, loopQueue, ups, downs,
                 releases, stray>>

\* EventLoopThreadPool::get_next_loop
ThisLoop == IF threads = 0 THEN 0 ELSE nextLoop
GetNextLoop == nextLoop' = IF threads = 0 THEN nextLoop ELSE (nextLoop % threads) + 1

\* TcpConnection::connect_established
Establish(c) ==
  /\ life' = [life EXCEPT ![c] = "connected"] /\ registered' = registered \cup {c}
  /\ ups' = [ups EXCEPT ![c] = @ + 1]

\* Acceptor::handle_read, one turn of its loop, and new_connection: a loop,
\* connections_, and connect_established on that loop.
Accept(c) ==
  /\ server = "listening" /\ backlog > 0 /\ backlog' = backlog - 1
  /\ life[c] = "none" /\ \A d \in 1..(c - 1) : life[d] # "none"
  /\ GetNextLoop /\ loopOf' = [loopOf EXCEPT ![c] = ThisLoop]
  /\ connections' = connections \cup {c}
  /\ IF ThisLoop = 0
     THEN Establish(c) /\ UNCHANGED loopQueue
     ELSE /\ life' = [life EXCEPT ![c] = "connecting"]
          /\ loopQueue' = Post(loopQueue, ThisLoop, "established", c)
          /\ UNCHANGED <<registered, ups>>
  /\ UNCHANGED <<server, threads, downs, releases, stray>>

\* Mutant: connections_ keeps the connection.
RemoveKeeping(c, queues) ==
  /\ UNCHANGED <<connections, stray>>
  /\ loopQueue' = Post(queues, loopOf[c], "destroyed", c)

\* remove_connection_in_loop: connect_destroyed is always queued.  The functor has
\* captured the server; if that is gone, this does what it did before, or nothing.
RemoveConnectionInLoop(c, queues) ==
  /\ connections' = connections \ {c}
  /\ stray' = (stray \/ server = "destroyed")
  /\ \/ loopQueue' = Post(queues, loopOf[c], "destroyed", c)
     \/ server = "destroyed" /\ loopQueue' = queues

RunRemove ==
  /\ FunctorAt(0, "remove")
  /\ RemoveConnectionInLoop(Head(loopQueue[0])[2], Popped(0))
  /\ UNCHANGED <<server, threads, backlog, nextLoop, loopOf, life, registered, ups, downs, releases>>

\* TcpConnection::connect_destroyed
Destroy(C) ==
  LET up == {c \in C : life[c] = "connected"}
  IN  /\ downs' = [c \in Conns |-> IF c \in up THEN downs[c] + 1 ELSE downs[c]]
      /\ life' = [c \in Conns |-> IF c \in up THEN "disconnected" ELSE life[c]]
      /\ registered' = registered \ C
      /\ releases' = [c \in Conns |-> IF c \in C THEN releases[c] + 1 ELSE releases[c]]

\* The connections left that belong to loop l, as functors.
LeftTo(l) == {<<"destroyed", c>> : c \in {d \in connections : loopOf[d] = l}}

\* ~TcpServer on the base loop's thread: each connection left is destroyed on its
\* loop, on the base loop at once, in the order of the map's keys, some order here.
DestroyServer ==
  /\ server \in {"new", "listening"} /\ server' = "destroyed"
  /\ backlog' = 0 /\ connections' = {}
  /\ Destroy({c \in connections : loopOf[c] = 0})
  /\ loopQueue' = [l \in Loops |->
                     IF l = 0 THEN loopQueue[l] ELSE loopQueue[l] \o SetToSeq(LeftTo(l))]
  /\ UNCHANGED <<threads, nextLoop, loopOf, ups, stray>>

-----------------------------------------------------------------------------
(* The connection's loop.                                                  *)

RunEstablished(l) ==
  /\ FunctorAt(l, "established") /\ Establish(Head(loopQueue[l])[2])
  /\ loopQueue' = Popped(l)
  /\ UNCHANGED <<server, threads, backlog, nextLoop, loopOf, connections, downs, releases, stray>>

\* Mutant: the close callback is not called.
HandleCloseQuietly(c) ==
  /\ life[c] = "connected" /\ c \in registered
  /\ life' = [life EXCEPT ![c] = "disconnected"] /\ downs' = [downs EXCEPT ![c] = @ + 1]
  /\ UNCHANGED <<server, threads, backlog, nextLoop, loopOf, registered, connections, loopQueue, ups,
                 releases, stray>>

\* TcpConnection::handle_close: down callback, then the close callback, which is
\* TcpServer::remove_connection.  On the base loop that is a call.
HandleClose(c) ==
  /\ life[c] = "connected" /\ c \in registered
  /\ life' = [life EXCEPT ![c] = "disconnected"] /\ downs' = [downs EXCEPT ![c] = @ + 1]
  /\ IF loopOf[c] = 0
     THEN RemoveConnectionInLoop(c, loopQueue)
     ELSE loopQueue' = Post(loopQueue, 0, "remove", c) /\ UNCHANGED <<connections, stray>>
  /\ UNCHANGED <<server, threads, backlog, nextLoop, loopOf, registered, ups, releases>>

RunDestroyed(l) ==
  /\ FunctorAt(l, "destroyed") /\ Destroy({Head(loopQueue[l])[2]})
  /\ loopQueue' = Popped(l)
  /\ UNCHANGED <<server, threads, backlog, nextLoop, loopOf, connections, ups, stray>>

-----------------------------------------------------------------------------
ServerNext ==
  \/ SetThreadNum \/ StartServer \/ PeerConnects \/ DestroyServer \/ RunRemove
  \/ \E c \in Conns : Accept(c) \/ HandleClose(c)
  \/ \E l \in Loops : RunEstablished(l) \/ RunDestroyed(l)

ServerSpec == ServerInit /\ [][ServerNext]_serverVars

-----------------------------------------------------------------------------
(* Properties.                                                             *)

\* The connections that loop l has been given.
GivenTo(l) == {c \in Conns : life[c] # "none" /\ loopOf[c] = l}

Queued(what, c) == \E l \in Loops : \E i \in DOMAIN loopQueue[l] : loopQueue[l][i] = <<what, c>>

\* Every accepted connection has exactly one end ahead of it: it is in connections_
\* or its connect_destroyed is queued or has run, never two of these, also when the
\* server is destroyed, until a close comes back to a server that is gone.  One that
\* has closed is on its way out of connections_; no channel stays in the poller after
\* its end, up comes before down, and the loops share the connections evenly
\* (new_connection, handle_close, remove_connection_in_loop, ~TcpServer).
ConnectionsOwned ==
  /\ \A c \in Conns : life[c] # "none" /\ ~stray =>
       /\ (IF c \in connections THEN 1 ELSE 0) + (IF Queued("destroyed", c) THEN 1 ELSE 0)
            + releases[c] = 1
       /\ life[c] = "disconnected" /\ c \in connections => Queued("remove", c)
       /\ releases[c] = 1 => c \notin registered
       /\ downs[c] <= ups[c] /\ ups[c] <= 1
  /\ \A k, l \in Loops \ {0} : Cardinality(GivenTo(k)) <= Cardinality(GivenTo(l)) + 1
=============================================================================
