------------------------------ MODULE Connector ------------------------------
(***************************************************************************)
(* Connector (connector.cpp) and the TcpClient that owns it                *)
(* (tcp_client.cpp): a non-blocking connect watched by a channel, the next *)
(* address or a retry timer when it fails, stop() and start() from any     *)
(* thread.                                                                 *)
(*                                                                         *)
(* An attempt has a socket of its own, numbered; a descriptor number that  *)
(* the kernel gives out again is not modelled.  Of a TcpConnection only    *)
(* its state is kept.  TcpClient::retry_ is never set (enable_retry sets   *)
(* the connector's), so remove_connection does not restart the connector.  *)
(*                                                                         *)
(* handle_write() reads connect_ and then makes the connection: a start()  *)
(* or stop() of another thread may come between, so they are two steps.    *)
(* start_in_loop() and retry() are one step each: when a stop() of another *)
(* thread comes behind one of their own tests of connect_, its functor     *)
(* finds the attempt they have set up, and a start functor or retry timer  *)
(* they leave behind reads connect_ itself.                                *)
(***************************************************************************)
EXTENDS Naturals, Sequences

CONSTANTS
  Addresses,    \* how many addresses the server has
  Retry,        \* Connector::retry_, as enable_retry() has left it
  MaxAttempts,  \* bound: calls of connect()
  MaxStarts, MaxStops  \* bounds: calls of TcpClient::connect, of stop or disconnect

ASSUME ConnectorAssumption ==
  /\ Addresses \in Nat \ {0} /\ Retry \in BOOLEAN
  /\ MaxAttempts \in Nat /\ MaxStarts \in Nat /\ MaxStops \in Nat

Sockets == 1..MaxAttempts
None == 0

VARIABLES
  connect,     \* connect_
  state,       \* state_
  address,     \* next_address_index_
  delay,       \* retry_delay_ms_
  channel,     \* channel_: its socket, or None
  polled,      \* sockets whose channel the poller has
  fds,         \* sockets that are open
  attempts,    \* calls of connect() so far
  queue,       \* functors posted to the loop
  timers,      \* retry timers that can fall due
  young,       \* those set before functors that are still queued
  upc,         \* what a thread has stored and not yet posted
  accepted,    \* the socket that handle_write() is making a connection of, or None
  connection,  \* TcpClient::connection_
  conns,       \* state of each TcpConnection
  settled,     \* history: the last start() has been answered: connection, failure or stop()
  starts, stops,
  overlap,     \* history: a start() came before the attempt before it was over
  wanted       \* history: the last of start() and stop() was a start()

conn == <<accepted, connection, conns>>
chan == <<channel, polled, fds>>
calls == <<upc, starts, stops, overlap, wanted>>
connectorVars == <<connect, state, address, delay, chan, attempts, queue, timers, young, calls, conn, settled>>

ConnectorInit ==
  /\ connect = FALSE /\ state = "disconnected" /\ address = 0 /\ delay = 500
  /\ channel = None /\ polled = {} /\ fds = {} /\ attempts = 0
  /\ queue = << >> /\ timers = 0 /\ young = 0 /\ upc = "idle"
  /\ accepted = None /\ connection = None /\ conns = [c \in Sockets |-> "none"] /\ settled = TRUE
  /\ starts = 0 /\ stops = 0 /\ overlap = FALSE /\ wanted = FALSE

-----------------------------------------------------------------------------
(* Pieces, as functions of the connector's members: m is a record of them. *)

Members == [connect |-> connect, state |-> state, address |-> address, delay |-> delay,
            channel |-> channel, polled |-> polled, fds |-> fds, attempts |-> attempts,
            queue |-> queue, timers |-> timers, young |-> young, settled |-> settled]

Assign(m) ==
  /\ connect' = m.connect /\ state' = m.state /\ address' = m.address /\ delay' = m.delay
  /\ channel' = m.channel /\ polled' = m.polled /\ fds' = m.fds /\ attempts' = m.attempts
  /\ queue' = m.queue /\ timers' = m.timers /\ young' = m.young /\ settled' = m.settled

\* run_after: the delay is at least 500 ms, in which the functors that are queued
\* now will have run.
RunAfter(m) == IF m.queue = << >> THEN [m EXCEPT !.timers = @ + 1] ELSE [m EXCEPT !.young = @ + 1]

Least(a, b) == IF a < b THEN a ELSE b

\* retry(), after the close of the socket.
RetryOf(m) ==
  LET d == [m EXCEPT !.state = "disconnected"]
  IN  CASE ~m.connect -> d
        [] m.connect /\ m.address + 1 < Addresses ->
             [d EXCEPT !.address = @ + 1, !.queue = Append(@, "start")]
        [] m.connect /\ m.address + 1 >= Addresses /\ Retry ->
             RunAfter([d EXCEPT !.address = 0, !.delay = Least(2 * m.delay, 30000)])
        [] OTHER -> [d EXCEPT !.settled = TRUE]  \* connect_failed_callback_

\* connect(), connecting(): the socket is watched, or is closed again at once.
Connected(m, works) ==
  LET s == m.attempts + 1
      n == [m EXCEPT !.attempts = s]
  IN  IF works
      THEN [n EXCEPT !.state = "connecting", !.channel = s, !.polled = @ \cup {s},
                     !.fds = @ \cup {s}]
      ELSE RetryOf(n)

\* Mutant: a connector that has connected once is done.
StartInLoopOnce(m, works) == IF m.connect /\ m.state # "connected" THEN Connected(m, works) ELSE m

\* Mutant: a start or a retry that is due is not given up by stop().
StartInLoopAlways(m, works) == Connected(m, works)

\* start_in_loop()
StartInLoop(m, works) == IF m.connect THEN Connected(m, works) ELSE m

\* Mutant: the channel stays registered until it is reset.
RemoveLazily(m) == [m EXCEPT !.queue = Append(@, "reset")]

\* remove_and_reset_channel()
RemoveAndResetChannel(m) ==
  [m EXCEPT !.polled = @ \ {m.channel}, !.queue = Append(@, "reset")]

Close(m, s) == [m EXCEPT !.fds = @ \ {s}]

\* Bound: as many attempts as there are sockets.
MayConnect(m) == m.connect => m.attempts < MaxAttempts

-----------------------------------------------------------------------------
(* The loop: functors in order, timers and events between them.            *)

\* The loop's thread is not inside handle_write().
LoopFree == accepted = None

Functor(f) == LoopFree /\ queue # << >> /\ Head(queue) = f
Taken ==
  IF Len(queue) = 1 THEN [Members EXCEPT !.queue = << >>, !.timers = @ + young, !.young = 0]
  ELSE [Members EXCEPT !.queue = Tail(queue)]

RunStart ==
  /\ Functor("start") /\ MayConnect(Members)
  /\ \E works \in BOOLEAN : Assign(StartInLoop(Taken, works))
  /\ UNCHANGED <<conn, calls>>

\* stop_in_loop().  If a reset has destroyed the channel of a newer attempt, the
\* program crashes here: no step.
RunStop ==
  /\ Functor("stop") /\ (state = "connecting" => channel # None)
  /\ Assign(IF state = "connecting"
            THEN [Close(RemoveAndResetChannel(Taken), channel) EXCEPT !.state = "disconnected"]
            ELSE Taken)
  /\ UNCHANGED <<conn, calls>>

\* reset_channel(): whatever channel_ is by now.
RunReset ==
  /\ Functor("reset") /\ Assign([Taken EXCEPT !.channel = None])
  /\ UNCHANGED <<conn, calls>>

RetryTimer ==
  /\ LoopFree /\ timers > 0 /\ MayConnect(Members)
  /\ \E works \in BOOLEAN : Assign(StartInLoop([Members EXCEPT !.timers = @ - 1], works))
  /\ UNCHANGED <<conn, calls>>

\* The poller reports a channel that is still there.  What happens when it reports
\* one that overlapping starts have destroyed is undefined and not modelled.
Ready == LoopFree /\ state = "connecting" /\ channel \in polled

\* handle_write() with a socket error or connected to itself, handle_error().
HandleFailure ==
  /\ Ready
  /\ Assign(RetryOf(Close(RemoveAndResetChannel(Members), channel)))
  /\ UNCHANGED <<conn, calls>>

\* handle_write() with a socket that is connected: connect_ is read again.
HandleWrite ==
  /\ Ready
  /\ LET m == [RemoveAndResetChannel(Members) EXCEPT !.state = "connected"]
     IN  IF connect
         THEN Assign(m) /\ accepted' = channel
         ELSE Assign(Close(m, channel)) /\ UNCHANGED accepted
  /\ UNCHANGED <<connection, conns, calls>>

\* ... and TcpClient::new_connection with it, whatever connect_ is by now.
NewConnection ==
  /\ accepted # None /\ accepted' = None
  /\ connection' = accepted /\ conns' = [conns EXCEPT ![accepted] = "connected"]
  /\ Assign([Members EXCEPT !.settled = TRUE]) /\ UNCHANGED calls

\* The connection is closed, TcpClient::remove_connection.
ConnectionCloses(c) ==
  /\ LoopFree /\ conns[c] \in {"connected", "disconnecting"}
  /\ conns' = [conns EXCEPT ![c] = "disconnected"]
  /\ connection' = IF connection = c THEN None ELSE connection
  /\ Assign(Close(Members, c)) /\ UNCHANGED <<accepted, calls>>

-----------------------------------------------------------------------------
(* The users: on the loop's own thread, or on another.                     *)

\* Connections that have not been closed.
Connections == {c \in Sockets : conns[c] \in {"connected", "disconnecting"}}

\* Connections that are up and that nobody has given up.
Established == {c \in Sockets : conns[c] = "connected"}

\* Nothing of an earlier attempt is left, and no connection is in use.
Over ==
  /\ state # "connecting" /\ channel = None /\ accepted = None /\ upc = "idle" /\ Established = {}
  /\ queue = << >> /\ timers = 0 /\ young = 0

Begins ==
  /\ starts < MaxStarts /\ starts' = starts + 1 /\ wanted' = TRUE
  /\ overlap' = (overlap \/ ~Over)

\* TcpClient::connect, start() on the loop's thread: run_in_loop is a call.
LoopStart ==
  /\ LoopFree /\ Begins /\ attempts < MaxAttempts
  /\ \E works \in BOOLEAN :
       Assign(StartInLoop([Members EXCEPT !.connect = TRUE, !.address = 0, !.settled = FALSE], works))
  /\ UNCHANGED <<conn, upc, stops>>

\* ... and on another: two stores, then a functor.
OtherStart ==
  /\ upc = "idle" /\ Begins /\ upc' = "start"
  /\ Assign([Members EXCEPT !.connect = TRUE, !.address = 0, !.settled = FALSE])
  /\ UNCHANGED <<conn, stops>>

\* stop(): always a functor.
LoopStop ==
  /\ LoopFree /\ starts > 0 /\ stops < MaxStops /\ stops' = stops + 1 /\ wanted' = FALSE
  /\ Assign([Members EXCEPT !.connect = FALSE, !.settled = TRUE, !.queue = Append(@, "stop")])
  /\ UNCHANGED <<conn, upc, starts, overlap>>

OtherStop ==
  /\ starts > 0 /\ stops < MaxStops /\ stops' = stops + 1 /\ wanted' = FALSE
  /\ upc = "idle" /\ upc' = "stop"
  /\ Assign([Members EXCEPT !.connect = FALSE, !.settled = TRUE])
  /\ UNCHANGED <<conn, starts, overlap>>

OtherPosts ==
  /\ upc # "idle" /\ upc' = "idle"
  /\ Assign([Members EXCEPT !.queue = Append(@, upc)])
  /\ UNCHANGED <<conn, starts, stops, overlap, wanted>>

\* TcpClient::disconnect: a connection is shut down; the connector goes on.
Disconnect ==
  /\ starts > 0 /\ stops < MaxStops /\ stops' = stops + 1
  /\ connection # None /\ conns[connection] = "connected"
  /\ conns' = [conns EXCEPT ![connection] = "disconnecting"]
  /\ UNCHANGED <<connect, state, address, delay, chan, attempts, queue, timers, young, settled,
                 accepted, connection, upc, starts, overlap, wanted>>

-----------------------------------------------------------------------------
LoopSteps == RunStart \/ RunStop \/ RunReset \/ RetryTimer
Events == HandleFailure \/ HandleWrite \/ NewConnection \/ \E c \in Sockets : ConnectionCloses(c)
Users == LoopStart \/ OtherStart \/ LoopStop \/ OtherStop \/ OtherPosts \/ Disconnect

ConnectorNext == LoopSteps \/ Events \/ Users

ConnectorSpec == ConnectorInit /\ [][ConnectorNext]_connectorVars

(* Fairness: the loop runs its functors and timers, a connect ends one way or *)
(* the other, and a thread inside start() or stop() leaves it.  Whether a     *)
(* connect succeeds, and whether a connection is ever closed, is left open.   *)
ConnectorFairness ==
  /\ WF_connectorVars(RunStart \/ RunStop \/ RunReset) /\ WF_connectorVars(RetryTimer)
  /\ WF_connectorVars(HandleFailure \/ HandleWrite \/ NewConnection) /\ WF_connectorVars(OtherPosts)

-----------------------------------------------------------------------------
(* Properties.                                                             *)

(* As long as no start() overlaps an attempt before it, the connector loses   *)
(* no socket: what the poller watches is channel_ and alive, every open       *)
(* socket is being connected, is on its way to TcpClient::new_connection or   *)
(* belongs to a connection, and the connection in use is the only one         *)
(* (connecting, remove_and_reset_channel, reset_channel, new_connection).     *)
SocketsOwned ==
  ~overlap =>
    /\ polled \subseteq {channel} \ {None}
    /\ fds = polled \cup ({accepted} \ {None}) \cup Connections
    /\ (state = "connecting") <=> (polled # {})
    /\ Established \subseteq {connection}

\* A stop() has stored FALSE in connect_ and its functor has not run.
StopUnderWay == upc = "stop" \/ \E i \in 1..Len(queue) : queue[i] = "stop"

(* Once the functor of a stop() has run, and no start() has come behind the   *)
(* stop(), the stop() is final: nothing is being connected, no connection is  *)
(* about to come up, and no socket is open that is not a connection's,        *)
(* whatever start functors, resets and retry timers are still to run (stop,   *)
(* stop_in_loop, start_in_loop, handle_write, retry).  Between the store and  *)
(* the functor a connection may still come up: one for which handle_write()   *)
(* had read connect_ before another thread's store.                           *)
StopIsFinal ==
  (~wanted /\ ~StopUnderWay) =>
    /\ state # "connecting" /\ accepted = None
    /\ ~overlap => fds = Connections

(* A start() does not fade away: it ends with a connection, with the failure  *)
(* callback or with a stop(), or goes on trying until the bound (start,       *)
(* retry, the retry timer).                                                   *)
ConnectSettles ==
  (~settled /\ ~overlap) ~> (settled \/ overlap \/ attempts = MaxAttempts)
=============================================================================
