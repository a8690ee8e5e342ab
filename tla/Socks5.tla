-------------------------------- MODULE Socks5 --------------------------------
(***************************************************************************)
(* Socks5ProxySession (examples/socks5_proxy_server.cpp) with the parsers  *)
(* of examples/socks5_protocol.h: one client's connection (downstream),    *)
(* the connection the proxy opens for it (upstream, through a TcpClient),  *)
(* and the session that joins them on the downstream connection's loop.    *)
(*                                                                         *)
(* Handlers are functions from the record of everything the session        *)
(* touches to its new value.  A message of the protocol is two elements, a *)
(* head that shows its version and kind and the rest; payload is numbered. *)
(* Of a TcpConnection its state, its output and whether it reads are kept, *)
(* without TLS; of the Connector, that it is connecting.  A connection     *)
(* that neither reads nor writes is out of the poller and notices nothing. *)
(***************************************************************************)
EXTENDS Naturals, Sequences, SequencesExt

CONSTANTS
  MaxUploads,    \* payload elements of the client
  MaxDownloads   \* payload elements of the target

ASSUME Socks5Assumption == MaxUploads \in Nat /\ MaxDownloads \in Nat

VARIABLE proxy

Offers == {"plain", "login", "both"}
Message(kind) == <<<<kind, "head">>, <<kind, "rest">>>>
Payload(n) == [i \in 1..n |-> <<"data", i>>]
Reply(code) == <<<<code, 0>>>>

\* What a client may send: nothing, or a greeting, a user and password or none, a
\* request and payload, each as it should be or not; it does not wait for the answers.
Scripts == {<< >>} \cup
  {Message(g) \o a \o Message(r) \o Payload(MaxUploads) :
     g \in Offers \cup {"garbage"}, a \in {<< >>, Message("right"), Message("wrong")},
     r \in {"target", "unknown", "bind", "novel", "garbage"}}

NoConnection == [state |-> "none", reading |-> FALSE, out |-> << >>, got |-> << >>]

\* idles: an idle timeout was asked for.  By default it is 0, which is none.
SocksInit ==
  \E script \in Scripts, auth, idles \in BOOLEAN :
    proxy = [auth |-> auth, idles |-> idles, script |-> script, arrived |-> << >>, answered |-> 0,
             buffer |-> << >>, phase |-> "greeting", preserved |-> << >>, upstream |-> FALSE, client |-> FALSE,
             connecting |-> FALSE, hold |-> FALSE, context |-> TRUE, timers |-> {"handshake"},
             cleanup |-> FALSE, functors |-> << >>, stray |-> FALSE,
             down |-> [NoConnection EXCEPT !.state = "connected", !.reading = TRUE],
             up |-> NoConnection]

-----------------------------------------------------------------------------
(* The connections.                                                        *)

Open(w, side) == w[side].state \in {"connected", "disconnecting"}

\* TcpConnection::send on its loop, shutdown() and force_close()
SendTo(w, side, what) ==
  IF w[side].state = "connected" THEN [w EXCEPT ![side].out = @ \o what] ELSE w
ShutDown(w) == IF w.down.state = "connected" THEN [w EXCEPT !.down.state = "disconnecting"] ELSE w
ForceCloseOf(w, side) ==
  IF Open(w, side)
  THEN [w EXCEPT ![side].state = "disconnecting", !.functors = Append(@, side)] ELSE w

\* The session lives by the context of its connection, by self_hold_, or by the
\* functor of schedule_upstream_cleanup; every other callback holds it weakly.
Alive(w) == w.context \/ w.hold \/ Contains(w.functors, "cleanup")

\* ~TcpClient: its connection is closed; without one the connector stops, as after
\* stop().
DestroyClient(w) ==
  LET v == [w EXCEPT !.client = FALSE, !.connecting = FALSE]
  IN  IF w.client THEN ForceCloseOf(v, "up") ELSE w

\* ~Socks5ProxySession, when the last owner is gone
Release(w) == IF Alive(w) THEN w ELSE [DestroyClient(w) EXCEPT !.upstream = FALSE]

CancelTimers(w) == [w EXCEPT !.timers = {}]
ShutdownDownstream(w) == ShutDown(CancelTimers(w))
CloseDownstreamNow(w) ==
  LET v == CancelTimers(w)
  IN  IF v.down.state = "connected" THEN ForceCloseOf(v, "down") ELSE v
Closed(w) == [w EXCEPT !.phase = "closed"]
SendAndShutdown(w, reply) == Closed(ShutdownDownstream(SendTo(w, "down", Reply(reply))))

\* Mutant: the functor is queued in front of the closes it should follow.
CleanupAtOnce(w) ==
  IF w.cleanup THEN w ELSE [w EXCEPT !.cleanup = TRUE, !.functors = <<"cleanup">> \o @]

ScheduleUpstreamCleanup(w) ==
  IF w.cleanup THEN w ELSE [w EXCEPT !.cleanup = TRUE, !.functors = Append(@, "cleanup")]

\* close()
CloseSession(w) ==
  LET v == Closed(CancelTimers(w))
  IN  CASE w.phase = "closed" -> w
        [] w.phase # "closed" /\ w.upstream ->
             ScheduleUpstreamCleanup(IF w.up.state = "connected" THEN ForceCloseOf(v, "up") ELSE v)
        [] OTHER -> [DestroyClient(v) EXCEPT !.hold = FALSE]

-----------------------------------------------------------------------------
(* The handshake.                                                          *)

ChooseAuthMethod(offer, auth) ==
  CASE auth /\ offer \in {"login", "both"} -> "user_password"
    [] ~auth /\ offer \in {"plain", "both"} -> "no_auth"
    [] OTHER -> "unacceptable"

Kind(w) == Head(w.buffer)[1]
Retrieve(w, n) == [w EXCEPT !.buffer = SubSeq(@, n + 1, Len(@))]

HandleGreeting(w) ==
  LET method == ChooseAuthMethod(Kind(w), w.auth)
      v == SendTo(Retrieve(w, 2), "down", Reply(method))
  IN  CASE Kind(w) \notin Offers -> [SendAndShutdown(w, "unacceptable") EXCEPT !.buffer = << >>]
        [] Kind(w) \in Offers /\ Len(w.buffer) < 2 -> w
        [] OTHER -> IF method = "unacceptable"
                    THEN Closed(ShutdownDownstream(v))
                    ELSE [v EXCEPT !.phase = IF w.auth THEN "user_password" ELSE "request"]

ParseUserPassword(buffer) ==
  CASE buffer[1][1] \notin {"right", "wrong"} -> "error"
    [] buffer[1][1] \in {"right", "wrong"} /\ Len(buffer) < 2 -> "need_more"
    [] OTHER -> buffer[1][1]

HandleUserPassword(w) ==
  LET result == ParseUserPassword(w.buffer)
  IN  CASE result = "need_more" -> w
        [] result = "right" -> [SendTo(Retrieve(w, 2), "down", Reply("granted")) EXCEPT !.phase = "request"]
        [] OTHER -> SendAndShutdown(Retrieve(w, IF result = "wrong" THEN 2 ELSE 1), "denied")

\* on_upstream_connect_failed
OnConnectFailed(w) ==
  IF w.phase # "connecting" THEN w ELSE ScheduleUpstreamCleanup(SendAndShutdown(w, "failure"))

\* Mutant: reading goes on while the upstream connects.
ConnectReading(w, fails) ==
  LET v == [w EXCEPT !.preserved = w.buffer, !.buffer = << >>, !.phase = "connecting",
                     !.timers = {"connect"}, !.hold = TRUE, !.client = TRUE, !.connecting = ~fails]
  IN  IF fails THEN OnConnectFailed(v) ELSE v

\* The end of handle_request and connect_upstream.  Every address may fail within
\* TcpClient::connect().
ConnectUpstream(w, fails) ==
  LET v == [w EXCEPT !.preserved = w.buffer, !.buffer = << >>, !.down.reading = FALSE,
                     !.phase = "connecting", !.timers = (@ \ {"handshake"}) \cup {"connect"},
                     !.hold = TRUE, !.client = TRUE, !.connecting = ~fails]
  IN  IF fails THEN OnConnectFailed(v) ELSE v

\* The reply to a request, of which the head shows what is wrong.
ParseConnectRequest(buffer) ==
  LET kind == buffer[1][1]
  IN  CASE kind = "bind" -> "command_not_supported"
        [] kind = "novel" -> "addr_type_not_supported"
        [] kind \in {"target", "unknown"} -> IF Len(buffer) < 2 THEN "need_more" ELSE "success"
        [] OTHER -> "failure"

\* A name that does not resolve is a failure.
HandleRequest(w, fails) ==
  LET reply == ParseConnectRequest(w.buffer)
  IN  CASE reply = "need_more" -> w
        [] reply = "success" /\ Kind(w) = "target" -> ConnectUpstream(Retrieve(w, 2), fails)
        [] reply = "success" /\ Kind(w) = "unknown" -> SendAndShutdown(Retrieve(w, 2), "failure")
        [] OTHER -> SendAndShutdown(Retrieve(w, 1), reply)

-----------------------------------------------------------------------------
(* The relay.                                                              *)

ResetIdleTimer(w) ==
  IF w.idles /\ w.phase = "relay" THEN [w EXCEPT !.timers = @ \cup {"idle"}] ELSE w

RelayDownstream(w) ==
  IF ~w.upstream \/ w.up.state # "connected"
  THEN [Closed(CloseDownstreamNow(w)) EXCEPT !.buffer = << >>]
  ELSE ResetIdleTimer([SendTo(w, "up", w.buffer) EXCEPT !.buffer = << >>])

\* One turn of on_downstream_message's loop.  Each of its three phases is left for
\* good when it makes progress, so three turns are all of it.
Turn(w, fails) ==
  CASE w.phase = "greeting" /\ w.buffer # << >> -> HandleGreeting(w)
    [] w.phase = "user_password" /\ w.buffer # << >> -> HandleUserPassword(w)
    [] w.phase = "request" /\ w.buffer # << >> -> HandleRequest(w, fails)
    [] OTHER -> w
OnDownstreamMessage(w, fails) ==
  CASE w.phase = "closed" -> [w EXCEPT !.buffer = << >>]
    [] w.phase = "relay" -> RelayDownstream(w)
    [] OTHER -> Turn(Turn(Turn(w, fails), fails), fails)

\* on_upstream_connection, up, while connecting
UpstreamEstablished(w) ==
  LET v == SendTo([w EXCEPT !.timers = @ \ {"connect", "handshake"}, !.upstream = TRUE,
                            !.phase = "relay"], "down", Reply("success"))
  IN  ResetIdleTimer([SendTo(v, "up", v.preserved) EXCEPT !.preserved = << >>, !.down.reading = TRUE])

\* on_upstream_connection
OnUpstreamConnection(w) ==
  LET up == w.up.state = "connected"
  IN  CASE up -> IF w.phase = "connecting" THEN UpstreamEstablished(w) ELSE ForceCloseOf(w, "up")
        [] ~up /\ w.phase = "closed" -> ScheduleUpstreamCleanup(w)
        [] ~up /\ w.phase = "connecting" -> ScheduleUpstreamCleanup(SendAndShutdown(w, "failure"))
        [] OTHER -> ScheduleUpstreamCleanup(Closed(CloseDownstreamNow(w)))

\* on_upstream_message of one element
OnUpstreamMessage(w, element) ==
  IF w.phase # "relay" \/ w.down.state # "connected"
  THEN CloseSession(w)
  ELSE ResetIdleTimer(SendTo(w, "down", <<element>>))

\* TcpConnection::handle_close: the down callback, then the close callback.  The
\* upstream connection's is TcpClient::remove_connection, whatever became of the client.
HandleCloseOf(w, side) ==
  LET v == [w EXCEPT ![side].state = "disconnected", ![side].reading = FALSE, ![side].out = << >>]
  IN  CASE ~Open(w, side) -> w
        [] Open(w, side) /\ side = "down" -> Release([CloseSession(v) EXCEPT !.context = FALSE])
        [] OTHER -> [IF Alive(v) THEN OnUpstreamConnection(v) ELSE v
                       EXCEPT !.stray = @ \/ ~w.client]

-----------------------------------------------------------------------------
(* What can happen.                                                        *)

DownstreamReads(n, fails) ==
  /\ Open(proxy, "down") /\ proxy.down.reading /\ n \in 1..Len(proxy.script)
  /\ LET read == SubSeq(proxy.script, 1, n)
     IN  proxy' = OnDownstreamMessage([proxy EXCEPT !.script = SubSeq(@, n + 1, Len(@)),
                                         !.arrived = @ \o read, !.buffer = @ \o read], fails)

\* The client closes or its connection fails; seen only through the poller.
DownstreamCloses ==
  /\ Open(proxy, "down") /\ (proxy.down.reading \/ proxy.down.out # << >>)
  /\ proxy' = HandleCloseOf(proxy, "down")

UpstreamConnects ==
  /\ proxy.connecting
  /\ LET v == [proxy EXCEPT !.connecting = FALSE, !.up = [NoConnection EXCEPT !.state = "connected"]]
     IN  proxy' = IF Alive(v) THEN OnUpstreamConnection(v) ELSE v

UpstreamFails ==
  /\ proxy.connecting
  /\ LET v == [proxy EXCEPT !.connecting = FALSE]
     IN  proxy' = IF Alive(v) THEN OnConnectFailed(v) ELSE v

UpstreamAnswers ==
  /\ Open(proxy, "up") /\ proxy.answered < MaxDownloads
  /\ LET v == [proxy EXCEPT !.answered = @ + 1]
     IN  proxy' = IF Alive(v) THEN Release(OnUpstreamMessage(v, <<"data", v.answered>>)) ELSE v

UpstreamCloses == Open(proxy, "up") /\ proxy' = HandleCloseOf(proxy, "up")

Writes(side) ==
  /\ Open(proxy, side) /\ proxy[side].out # << >>
  /\ proxy' = [proxy EXCEPT ![side].out = Tail(@), ![side].got = Append(@, Head(proxy[side].out))]

\* on_handshake_timeout, on_connect_timeout and on_idle_timeout
HandshakeTimeout(w) ==
  CASE w.phase \in {"greeting", "user_password"} -> [Closed(CloseDownstreamNow(w)) EXCEPT !.hold = FALSE]
    [] w.phase = "request" -> [SendAndShutdown(w, "failure") EXCEPT !.hold = FALSE]
    [] OTHER -> w
ConnectTimeout(w) ==
  IF w.phase # "connecting" THEN w
  ELSE [SendAndShutdown(DestroyClient(w), "failure") EXCEPT !.hold = FALSE]
IdleTimeout(w) ==
  IF w.phase # "relay" THEN w
  ELSE LET v == CloseDownstreamNow(Closed(w))
       IN  ScheduleUpstreamCleanup(IF v.up.state = "connected" THEN ForceCloseOf(v, "up") ELSE v)

TimerFires(timer) ==
  /\ timer \in proxy.timers
  /\ LET v == [proxy EXCEPT !.timers = @ \ {timer}]
     IN  proxy' = CASE ~Alive(v) -> v
                    [] Alive(v) /\ timer = "handshake" -> Release(HandshakeTimeout(v))
                    [] Alive(v) /\ timer = "connect" -> Release(ConnectTimeout(v))
                    [] OTHER -> Release(IdleTimeout(v))

\* A functor: force_close_in_loop of a connection, or the upstream's cleanup.
RunSocksFunctor ==
  /\ proxy.functors # << >>
  /\ LET what == Head(proxy.functors)
         v == [proxy EXCEPT !.functors = Tail(@)]
     IN  proxy' = IF what = "cleanup"
                  THEN Release([DestroyClient(v) EXCEPT !.upstream = FALSE, !.hold = FALSE])
                  ELSE HandleCloseOf(v, what)

SocksNext ==
  \/ \E n \in 1..(6 + MaxUploads), fails \in BOOLEAN : DownstreamReads(n, fails)
  \/ DownstreamCloses \/ UpstreamConnects \/ UpstreamFails \/ UpstreamAnswers \/ UpstreamCloses
  \/ \E side \in {"down", "up"} : Writes(side)
  \/ \E timer \in {"handshake", "connect", "idle"} : TimerFires(timer)
  \/ RunSocksFunctor

SocksSpec == SocksInit /\ [][SocksNext]_proxy

-----------------------------------------------------------------------------
(* Properties.                                                             *)

\* The payload among elements, in their order.
PayloadOf(q) == FlattenSeq([i \in DOMAIN q |-> IF q[i][1] = "data" THEN <<q[i]>> ELSE << >>])
ArrivedPayload == PayloadOf(proxy.arrived)
Sent(side) == proxy[side].got \o proxy[side].out
Welcome == (IF proxy.auth THEN Reply("user_password") \o Reply("granted") ELSE Reply("no_auth"))
             \o Reply("success")

\* The target gets the client's payload in order from its first element, and while the
\* session relays, all that has arrived: first what came in one read with the request,
\* then the rest.  The client gets payload only after the whole handshake, in order and
\* without a gap, and success only after the credentials asked for have come
\* (handle_request, on_upstream_connection, relay_downstream).
RelayFaithful ==
  /\ IsPrefix(Sent("up"), ArrivedPayload)
  /\ proxy.phase = "relay" /\ proxy.up.state = "connected" => Sent("up") = ArrivedPayload
  /\ \A i \in DOMAIN Sent("down") : Sent("down")[i][1] \in {"success", "data"} =>
       /\ IsPrefix(Welcome, Sent("down")) /\ IsPrefix(Sent("down"), Welcome \o Payload(proxy.answered))
       /\ proxy.auth => Contains(proxy.arrived, <<"right", "rest">>)
  /\ proxy.phase = "relay" /\ proxy.down.state = "connected" =>
       Sent("down") = Welcome \o Payload(proxy.answered)

\* Everything has an owner and an end.  A close never comes back to a TcpClient that is
\* gone.  A session that shakes hands or connects has the one timer of its phase
\* running, so no silent peer can hold it; one that relays has its timer when an idle
\* timeout is set, and by default none: two silent peers then hold it.  When nothing is
\* queued, a closed session has no upstream left, and one whose client's connection is
\* down is gone itself.  A client whose connection is not read, so that its close goes
\* unnoticed once the output is out, is one whose connect is under way, with its timer,
\* or has failed: the last is closed, without a timer, and may stay for good; no other
\* session does (close(), schedule_upstream_cleanup, cancel_timers, pause_reading).
SessionOwned ==
  /\ ~proxy.stray
  /\ proxy.timers = CASE proxy.phase = "closed" -> {}
                      [] proxy.phase = "connecting" -> {"connect"}
                      [] proxy.phase = "relay" -> IF proxy.idles THEN {"idle"} ELSE {}
                      [] OTHER -> {"handshake"}
  /\ proxy.functors = << >> =>
       /\ proxy.phase = "closed" => ~proxy.client /\ ~proxy.connecting /\ ~Open(proxy, "up")
       /\ proxy.down.state = "disconnected" => ~Alive(proxy)
  /\ Open(proxy, "down") /\ ~proxy.down.reading =>
       proxy.phase \in {"connecting", "closed"} /\ proxy.up.state = "none"

ProxyFaithful == RelayFaithful /\ SessionOwned
=============================================================================
