----------------------------- MODULE HttpClient -----------------------------
(***************************************************************************)
(* HttpClient (http_client.cpp) over one TcpClient, with its cache, and    *)
(* the HttpSyncClient that wraps one (http_sync_client.cpp).  Everything   *)
(* runs on the loop's thread; a user acts between events and inside the    *)
(* callbacks.                                                              *)
(*                                                                         *)
(* What a server sends is a sequence of units: an interim 100, a head, a   *)
(* piece of body, the parts of a chunk.  on_message is one step per unit:  *)
(* the units it finds in its buffer might as well have arrived one by one. *)
(* A unit that on_message leaves in the buffer when it returns early may   *)
(* be lost when the connection goes down.  Servers answer in order, and    *)
(* one that waits for a body takes for it what comes, whatever it is.      *)
(***************************************************************************)
EXTENDS ClientCache, FiniteSets

CONSTANTS
  Modes,        \* the callback set: buffered (cached: with a cache), streaming; or sync, syncTls
  Requests, Replies,  \* in each mode: what a user sends and a server answers
  MaxRequests,  \* in each mode, a bound
  MaxActs,      \* a bound on what a user sends and stops together
  MaxConns, MaxStops, MaxTime   \* bounds

ASSUME ClientAssumption ==
  /\ Modes \subseteq {"buffered", "cached", "streaming", "sync", "syncTls"}
  /\ MaxRequests \in [Modes -> Nat] /\ MaxActs \in Nat
  /\ MaxConns \in Nat /\ MaxStops \in Nat /\ MaxTime \in Nat

None == 0
NoBody == [st |-> "none"]
NoEntry == [id |-> 0]
Conns == 1..MaxConns

VARIABLES
  mode, now,
  h,        \* the members of HttpClient
  cs,       \* the connections: state, units to the server, units from it
  dialing,  \* the connector of client_ is at work
  stopping, \* its stop_in_loop is queued
  cache,
  cached,   \* responses of deliver_cached_response that are queued
  sent,     \* history: the requests, in the order of send()
  fate,     \* history: what became of each
  log,      \* history: the responses given to the callbacks
  stops,    \* calls of stop() and disconnect()
  result,   \* HttpSyncClient::send: result, once completed
  dirty,    \* history: connections overlapped, or a connect came to nothing
  stranded  \* history: requests whose wait for a 100 the client gave up before their
            \* answer came, and those it has sent behind one of them

vars == <<mode, now, h, cs, dialing, stopping, cache, cached, sent, fate, log, stops, result,
          dirty, stranded>>

Init ==
  /\ mode \in Modes /\ now = 0
  /\ h = [stopped |-> FALSE, connecting |-> FALSE, conn |-> None, pending |-> << >>,
          inflight |-> << >>, awaiting |-> FALSE, closing |-> FALSE, body |-> NoBody]
  /\ cs = [c \in Conns |-> [st |-> "none", up |-> << >>, down |-> << >>, ends |-> FALSE]]
  /\ dialing = FALSE /\ stopping = FALSE /\ cache = NoCache /\ cached = << >>
  /\ sent = << >> /\ fate = << >> /\ log = << >>
  /\ stops = 0 /\ result = "none" /\ dirty = FALSE /\ stranded = {}

Sync == mode \in {"sync", "syncTls"}
Streaming == mode = "streaming"

-----------------------------------------------------------------------------
(* The handlers, as functions of the state S that they find.               *)

State == [h |-> h, cs |-> cs, dialing |-> dialing, stopping |-> stopping, cache |-> cache,
          cached |-> cached, sent |-> sent, fate |-> fate, log |-> log,
          stops |-> stops, result |-> result, dirty |-> dirty, stranded |-> stranded]

Assign(S) ==
  /\ h' = S.h /\ cs' = S.cs /\ dialing' = S.dialing /\ stopping' = S.stopping
  /\ cache' = S.cache /\ cached' = S.cached /\ sent' = S.sent /\ fate' = S.fate
  /\ log' = S.log /\ stops' = S.stops /\ result' = S.result
  /\ dirty' = S.dirty /\ stranded' = S.stranded

Become(S) == \E T \in {S} : Assign(T)   \* S is evaluated once

Connected(S) == S.h.conn # None /\ S.cs[S.h.conn].st = "connected"

\* connection_->send
Write(S, units) == [S EXCEPT !.cs[S.h.conn].up = @ \o units]

\* TcpClient::disconnect, TcpClient::stop
TcpDisconnect(S) == IF Connected(S) THEN [S EXCEPT !.cs[S.h.conn].st = "disconnecting"] ELSE S
TcpStop(S) == [S EXCEPT !.dialing = FALSE, !.stopping = TRUE]

\* request_connect
RequestConnect(S) ==
  IF S.h.stopped \/ S.h.connecting \/ Connected(S) THEN S
  ELSE [S EXCEPT !.h.connecting = TRUE, !.dialing = TRUE, !.dirty = @ \/ S.dialing \/ S.stopping]

Expects(S, q) == S.sent[q.r].expect

\* HttpClientRequest::serialize: with its body or without, and with the validators
\* of the entry it was found to be stale for.
Serialized(S, q) ==
  [u |-> "request", r |-> q.r, whole |-> ~Expects(S, q), asks |-> q.entry # NoEntry, asked |-> FALSE]

Numbers(qs) == {qs[i].r : i \in DOMAIN qs}

\* flush_requests: up to and including the first that waits for a 100.
FlushRequests(S) ==
  LET stop == {i \in 1..Len(S.h.pending) : Expects(S, S.h.pending[i])}
      k    == IF stop = {} THEN Len(S.h.pending) ELSE CHOOSE i \in stop : \A j \in stop : i <= j
      out  == SubSeq(S.h.pending, 1, k)
  IN  IF ~Connected(S) \/ S.h.awaiting THEN S
      ELSE [Write(S, [i \in 1..k |-> Serialized(S, out[i])])
             EXCEPT !.h.pending = SubSeq(@, k + 1, Len(@)), !.h.inflight = @ \o out,
                    !.h.awaiting = stop # {},
                    !.stranded = @ \cup IF Numbers(S.h.inflight) \cap @ # {} THEN Numbers(out) ELSE {}]

\* send_in_loop.  A fresh response is delivered by a functor of its own.
SendInLoop(S, req) ==
  LET r     == Len(S.sent) + 1
      look  == IF mode = "cached" THEN Lookup(S.cache, req, now) ELSE [state |-> "miss", cache |-> S.cache]
      known == [S EXCEPT !.h.stopped = FALSE, !.sent = Append(@, req), !.fate = Append(@, "waiting"),
                         !.cache = look.cache]
      q     == [r |-> r, entry |-> IF look.state = "stale" THEN look.entry ELSE NoEntry]
      added == [known EXCEPT !.h.pending = Append(@, q)]
  IN  IF look.state = "fresh"
      THEN [known EXCEPT !.cached = Append(@, [r |-> r, entry |-> look.entry, at |-> now])]
      ELSE IF Connected(S) THEN FlushRequests(added) ELSE RequestConnect(added)

Fated(S, rs, what) ==
  [S EXCEPT !.fate = [r \in DOMAIN @ |-> IF r \in rs /\ @[r] = "waiting" THEN what ELSE @[r]]]

\* awaiting_continue_ is cleared; the request it stood for, the last in flight, may
\* not have been answered yet.
StopAwaiting(S) ==
  [S EXCEPT !.h.awaiting = FALSE,
            !.stranded = @ \cup IF S.h.awaiting /\ S.h.inflight # << >> THEN {Last(S.h.inflight).r} ELSE {}]

\* disconnect, stop.  What waits now waits for a new send() or connect().
Disconnect(S) ==
  [TcpDisconnect(StopAwaiting(Fated(S, DOMAIN S.fate, "stopped")))
     EXCEPT !.h.stopped = TRUE, !.h.connecting = FALSE, !.stops = @ + 1]
Stop(S) ==
  [TcpStop(StopAwaiting(Fated(S, DOMAIN S.fate, "stopped")))
     EXCEPT !.h.stopped = TRUE, !.h.connecting = FALSE, !.stops = @ + 1]

\* What a user may do, at any time or in a callback.
Acts == {[op |-> "none"], [op |-> "stop"], [op |-> "disconnect"]}
          \cup {[op |-> "send", req |-> q] : q \in Requests[mode]}
MayAct(S)  == ~Sync /\ Len(S.sent) + S.stops < MaxActs   \* bound
Act(S, a) ==
  CASE a.op = "send" /\ MayAct(S) /\ Len(S.sent) < MaxRequests[mode] -> SendInLoop(S, a.req)
    [] a.op = "stop" /\ MayAct(S) /\ S.stops < MaxStops       -> Stop(S)
    [] a.op = "disconnect" /\ MayAct(S) /\ S.stops < MaxStops -> Disconnect(S)
    [] OTHER -> S

\* The response callback.  HttpSyncClient's keeps the first response, disconnects
\* and quits the loop.
Respond(S, entry, a) ==
  LET told == Fated([S EXCEPT !.log = Append(@, entry)], {entry.r}, "answered")
  IN  IF ~Sync THEN Act(told, a)
      ELSE IF S.result # "none" THEN S
      ELSE [Disconnect(told) EXCEPT !.result = "ok"]

\* The error callback: HttpSyncClient's stops the client and quits the loop.
ErrorCallback(S) == IF Sync /\ S.result = "none" THEN [Stop(S) EXCEPT !.result = "failed"] ELSE S

-----------------------------------------------------------------------------
(* Responses.                                                              *)

InFront(S) == Head(S.h.inflight)
Popped(S) == [S EXCEPT !.h.inflight = IF @ = << >> THEN @ ELSE Tail(@)]

\* on_message, of the head of any answer: awaiting_continue_ is cleared, whichever
\* request is in front.  Only the request in front has its answer.
HeadCame(S) ==
  IF Len(S.h.inflight) > 1 THEN StopAwaiting(S) ELSE [S EXCEPT !.h.awaiting = FALSE]

\* expects_no_response_body, status_code_allows_body, and a body that is there
HasBody(S, p) ==
  /\ S.h.inflight = << >> \/ ~S.sent[InFront(S).r].head
  /\ p.status # 304 /\ p.form # "none"

\* handle_continue_response
HandleContinue(S) ==
  IF ~S.h.awaiting \/ ~Connected(S) \/ S.h.inflight = << >> THEN S
  ELSE [Write(S, <<[u |-> "body", r |-> InFront(S).r, whole |-> TRUE, asks |-> FALSE, asked |-> TRUE]>>)
         EXCEPT !.h.awaiting = FALSE]

\* The cache takes a response: a 304 renews its entry and becomes it, if it is
\* still there.
Cached(S, q, p) ==
  LET new == Updated(S.cache, q.entry.id, p, now)
  IN  IF mode # "cached" THEN [S |-> S, p |-> p]
      ELSE IF p.status = 304 /\ q.entry # NoEntry
      THEN IF Has(S.cache, q.entry.id)
           THEN [S |-> [S EXCEPT !.cache = new], p |-> new.entries[1].resp]
           ELSE [S |-> S, p |-> p]
      ELSE [S |-> [S EXCEPT !.cache = Store(@, S.sent[q.r], p, now)], p |-> p]

\* A whole response without a streaming callback.  (A server sends none that was
\* not asked for; after connections have overlapped, one may find no request.)
Complete(S, b, a) ==
  LET q == IF S.h.inflight = << >> THEN [r |-> None, entry |-> NoEntry] ELSE InFront(S)
      k == Popped([HeadCame(S) EXCEPT !.h.body = NoBody])
      t == IF q.r = None THEN [S |-> k, p |-> b.p] ELSE Cached(k, q, [b.p EXCEPT !.size = b.got])
      d == Respond(t.S, [via |-> "net", r |-> q.r, of |-> b.r, got |-> b.got, from |-> b.p, resp |-> t.p,
                         entry |-> q.entry, at |-> now], a)
  IN  IF b.p.close THEN TcpDisconnect(d) ELSE FlushRequests(d)

\* finish_streaming_response
FinishStreaming(S, b, a) ==
  LET r == IF S.h.inflight = << >> THEN None ELSE InFront(S).r
      k == Popped([S EXCEPT !.h.body = NoBody, !.h.closing = FALSE])
      d == Respond(k, [via |-> "net", r |-> r, of |-> b.r, got |-> b.got, from |-> b.p, resp |-> b.p,
                       entry |-> NoEntry, at |-> now], a)
  IN  IF S.h.closing THEN TcpDisconnect(d) ELSE IF ~d.h.stopped THEN FlushRequests(d) ELSE d

\* The streaming branch of on_message for a head.  Without a body the user acts in
\* the completion callback only.
StreamingHead(S, b, a) ==
  LET k == [HeadCame(S) EXCEPT !.h.closing = b.p.close]
  IN  IF HasBody(S, b.p) THEN Act([k EXCEPT !.h.body = b], a) ELSE FinishStreaming(k, b, a)

\* process_fixed_streaming_body and process_chunked_streaming_body; the parser's
\* own body states are the same.
BodyStates == {"fixed", "size", "data", "crlf", "trailers", "done", "error"}
NextBody(b, u) ==
  CASE b.st = "fixed" /\ u = "data" ->
         [b EXCEPT !.got = @ + 1, !.st = IF b.got + 1 = b.p.size THEN "done" ELSE "fixed"]
    [] b.st = "size" /\ u = "size"     -> [b EXCEPT !.st = "data"]
    [] b.st = "size" /\ u = "last"     -> [b EXCEPT !.st = "trailers"]
    [] b.st = "data" /\ u = "data"     -> [b EXCEPT !.got = @ + 1, !.st = "crlf"]
    [] b.st = "crlf" /\ u = "crlf"     -> [b EXCEPT !.st = "size"]
    [] b.st = "trailers" /\ u = "end"  -> [b EXCEPT !.st = "done"]
    [] OTHER                           -> [b EXCEPT !.st = "error"]

\* handle_parse_error
HandleParseError(S) ==
  TcpDisconnect(ErrorCallback(
    [Fated(S, Numbers(S.h.pending) \cup Numbers(S.h.inflight), "error")
      EXCEPT !.h.pending = << >>, !.h.inflight = << >>, !.h.awaiting = FALSE,
             !.h.closing = FALSE, !.h.body = NoBody]))

\* on_message, for one unit
OnUnit(S, u, a) ==
  LET b == [r |-> u.r, p |-> u.p, got |-> 0, st |-> IF u.p.form = "chunked" THEN "size" ELSE "fixed"]
      n == NextBody(S.h.body, u.u)
  IN  CASE S.h.body # NoBody /\ n.st = "error" -> HandleParseError(S)
        [] S.h.body # NoBody /\ n.st = "done" ->
             IF Streaming THEN FinishStreaming(S, n, a) ELSE Complete(S, n, a)
        [] S.h.body # NoBody /\ n.st \notin {"error", "done"} -> [S EXCEPT !.h.body = n]
        [] S.h.body = NoBody /\ u.u = "100" ->
             HandleContinue(S)
        [] S.h.body = NoBody /\ u.u = "head" ->
             IF Streaming THEN StreamingHead(S, b, a)
             ELSE IF HasBody(S, u.p) THEN [S EXCEPT !.h.body = b] ELSE Complete(S, b, a)
        [] OTHER -> HandleParseError(S)

-----------------------------------------------------------------------------
(* Connections.                                                            *)

\* on_connection, with a connection that is up
OnUp(S, c) ==
  FlushRequests([S EXCEPT !.h.connecting = FALSE, !.h.conn = c,
                          !.h.body = IF Streaming THEN @ ELSE NoBody])

\* Mutant: what waits for a connection is not taken up again.
OnDownQuietly(S, c) ==
  [Fated(S, Numbers(S.h.inflight), "lost")
    EXCEPT !.h.conn = IF @ = c THEN None ELSE @, !.h.connecting = FALSE, !.h.inflight = << >>,
           !.h.closing = FALSE, !.h.body = NoBody, !.h.awaiting = FALSE]

\* Mutant: what was in flight is answered by the next connection.
OnDownKeeping(S, c) ==
  RequestConnect([S EXCEPT !.h.conn = IF @ = c THEN None ELSE @, !.h.connecting = FALSE,
                           !.h.closing = FALSE, !.h.body = NoBody, !.h.awaiting = FALSE])

\* on_connection, with one that is down: any, not only connection_
OnDown(S, c) ==
  LET unfinished == \/ S.h.pending # << >> \/ S.h.inflight # << >> \/ S.h.awaiting
                    \/ Streaming /\ S.h.body # NoBody
      d == [Fated(S, Numbers(S.h.inflight), "lost")
             EXCEPT !.h.conn = IF @ = c THEN None ELSE @, !.h.connecting = FALSE, !.h.inflight = << >>,
                    !.h.closing = FALSE, !.h.body = NoBody, !.h.awaiting = FALSE]
      e == IF mode = "syncTls" /\ unfinished THEN ErrorCallback(d) ELSE d
  IN  IF ~e.h.stopped /\ e.h.pending # << >> THEN RequestConnect(e) ELSE e

Going == ~dirty   \* bound: no property speaks of what follows once it is dirty
Alive(c) == cs[c].st \in {"connected", "disconnecting"}
Running == result = "none"   \* the loop of HttpSyncClient::send has not been quit

\* TcpClient::new_connection
DialUp ==
  /\ Going /\ Running /\ dialing
  /\ \E c \in Conns :
       /\ cs[c].st = "none" /\ \A d \in 1..c - 1 : cs[d].st # "none"
       /\ Become(OnUp([State EXCEPT !.dialing = FALSE, !.cs[c].st = "connected",
                                    !.dirty = @ \/ \E d \in Conns : Alive(d)], c))
  /\ UNCHANGED <<mode, now>>

\* The connector gives up; nobody is told.
DialFails ==
  /\ Going /\ Running /\ dialing /\ dialing' = FALSE /\ dirty' = TRUE
  /\ UNCHANGED <<mode, now, h, cs, stopping, cache, cached, sent, fate, log, stops, result, stranded>>

\* Connector::stop_in_loop ends a connect, be it newer than the stop().
StopInLoop ==
  /\ Going /\ stopping /\ stopping' = FALSE /\ dialing' = FALSE
  /\ UNCHANGED <<mode, now, h, cs, cache, cached, sent, fate, log, stops, result, dirty, stranded>>

\* The peer closes or resets, TcpConnection::handle_close.
ConnectionDown(c) ==
  /\ Going /\ Running /\ Alive(c)
  /\ Become(OnDown([State EXCEPT !.cs[c] = [st |-> "down", up |-> << >>, down |-> << >>, ends |-> FALSE]], c))
  /\ UNCHANGED <<mode, now>>

Message(c) ==
  /\ Going /\ Running /\ Alive(c) /\ cs[c].down # << >>
  /\ \E a \in Acts :
       Become(OnUnit([State EXCEPT !.cs[c].down = Tail(@)], Head(cs[c].down), a))
  /\ UNCHANGED <<mode, now>>

\* The functor of deliver_cached_response
CachedResponse ==
  /\ Going /\ cached # << >>
  /\ LET q == Head(cached)
         S == [State EXCEPT !.cached = Tail(@)]
     IN  IF h.stopped THEN Become(Fated(S, {q.r}, "lost"))
         ELSE \E a \in Acts :
                Become(Respond(S, [via |-> "cache", r |-> q.r, of |-> q.r, got |-> q.entry.resp.size, from |-> q.entry.resp,
                                   resp |-> q.entry.resp, entry |-> q.entry, at |-> q.at], a))
  /\ UNCHANGED <<mode, now>>

-----------------------------------------------------------------------------
(* The users.                                                              *)

User ==
  /\ Going /\ ~Sync
  /\ \E a \in Acts : Act(State, a) # State /\ Become(Act(State, a))
  /\ UNCHANGED <<mode, now>>

\* connect()
UserConnects ==
  /\ Going /\ ~Sync /\ h.stopped /\ Become(RequestConnect([State EXCEPT !.h.stopped = FALSE]))
  /\ UNCHANGED <<mode, now>>

\* HttpSyncClient::send: one request, and a timer.
SyncSend ==
  /\ Sync /\ sent = << >> /\ \E q \in Requests[mode] : Become(SendInLoop(State, q))
  /\ UNCHANGED <<mode, now>>
SyncTimeout ==
  /\ Going /\ Sync /\ sent # << >> /\ Running
  /\ Become([Stop(State) EXCEPT !.result = "timeout"])
  /\ UNCHANGED <<mode, now>>

Tick ==
  /\ Going /\ mode = "cached" /\ now < MaxTime /\ now' = now + 1
  /\ UNCHANGED <<mode, h, cs, dialing, stopping, cache, cached, sent, fate, log, stops, result, dirty, stranded>>

-----------------------------------------------------------------------------
(* The server.                                                             *)

Asked(c) == Head(cs[c].up)

\* The body of what is asked has not come.
Waits(c) == ~Asked(c).whole /\ (Len(cs[c].up) > 1 => cs[c].up[2].u # "body")

Hears(c) == Going /\ Alive(c) /\ ~cs[c].ends /\ cs[c].up # << >>
Sends(c, ends, units, rest) ==
  /\ cs' = [cs EXCEPT ![c].up = rest, ![c].down = @ \o units, ![c].ends = ends]
  /\ UNCHANGED <<mode, now, h, dialing, stopping, cache, cached, sent, fate, log, stops, result, dirty, stranded>>

\* 100, once, for a request whose body has not come.
ServerContinues(c) ==
  /\ Hears(c) /\ Waits(c) /\ ~Asked(c).asked
  /\ Sends(c, FALSE, <<[u |-> "100", r |-> Asked(c).r, p |-> [form |-> "none"]]>>,
           <<[Asked(c) EXCEPT !.asked = TRUE]>> \o Tail(cs[c].up))

\* The units of an answer; a HEAD gets the head alone.
Units(r, p) ==
  LET part(k) == [u |-> k, r |-> r, p |-> p]
      chunk   == <<part("size"), part("data"), part("crlf")>>
  IN  IF p.form = "bad" THEN <<part("bad")>>
      ELSE <<part("head")>> \o
           (IF sent[r].head \/ p.status = 304 \/ p.form = "none" THEN << >>
            ELSE IF p.form = "fixed" THEN [i \in 1..p.size |-> part("data")]
            ELSE FlattenSeq([i \in 1..p.size |-> chunk]) \o <<part("last"), part("end")>>)

\* The answer; a 304 only to a request that names a version.  A server that does
\* not want the body closes; if a request has come in its place, that is the body,
\* and a body where a request should be is answered with the close.  Nothing but an
\* end follows what cannot be parsed.
ServerAnswers(c) ==
  /\ Hears(c)
  /\ LET q == Asked(c)
     IN \E p \in Replies[mode], refuses \in BOOLEAN :
          /\ p.status = 304 => q.asks
          /\ q.u = "body" => p.close
          /\ refuses => Waits(c) /\ p.close /\ ~q.asked
          /\ ~q.whole /\ ~refuses => Len(cs[c].up) > 1
          /\ Sends(c, p.close \/ p.form = "bad",
                   Units(q.r, [p EXCEPT !.ver = q.r, !.left = now,
                                        !.born = now - (IF p.age = Absent THEN 0 ELSE p.age)]),
                   SubSeq(cs[c].up, IF q.whole \/ refuses THEN 2 ELSE 3, Len(cs[c].up)))

-----------------------------------------------------------------------------
Server == \E c \in Conns : ServerContinues(c) \/ ServerAnswers(c)
Loop == \/ DialUp \/ DialFails \/ StopInLoop \/ CachedResponse
        \/ \E c \in Conns : Message(c) \/ ConnectionDown(c)
Users == User \/ UserConnects \/ SyncSend \/ SyncTimeout

Next == Server \/ Loop \/ Users \/ Tick

Spec == Init /\ [][Next]_vars

(* Fairness: the loop handles what it is told, a connect ends, a server      *)
(* answers or goes on, a peer closes what it or the client has ended, a timer *)
(* falls due.  Each of these steps takes away its own condition, and each     *)
(* happens a bounded number of times: weak fairness of the step amounts to    *)
(* its condition not holding for ever, and is stated so.                      *)
Unused == {c \in Conns : cs[c].st = "none"}

FairSpec ==
  /\ Spec
  /\ []<>~(Going /\ dialing /\ Running /\ Unused # {})             \* DialUp, DialFails
  /\ []<>~(Going /\ stopping)                                      \* StopInLoop
  /\ []<>~(Going /\ cached # << >>)                                \* CachedResponse
  /\ []<>~(Going /\ Sync /\ sent # << >> /\ Running)               \* SyncTimeout
  /\ \A c \in Conns :
       /\ []<>~(Going /\ Running /\ Alive(c) /\ cs[c].down # << >>)   \* Message
       /\ []<>~(Hears(c) /\ ~(Waits(c) /\ Asked(c).asked))  \* ServerContinues, ServerAnswers
       /\ []<>~(Going /\ Running /\ Alive(c) /\ (cs[c].st = "disconnecting" \/ cs[c].ends))  \* ConnectionDown

-----------------------------------------------------------------------------
(* Properties.                                                             *)

(* As long as connections do not overlap and no connect fails: what a callback *)
(* gets is the whole answer to the request at its turn, each request gets one  *)
(* at most, those over the network in the order of their requests, and a       *)
(* synchronous call that returns ok has its answer (on_message,                *)
(* finish_streaming_response, on_connection, the parser's reset).  Stranded    *)
(* requests are left out: a server may have taken one for the body of another. *)
ResponsesIntact ==
  ~dirty =>
    /\ \A i \in DOMAIN log :
         log[i].via = "net" /\ log[i].r \notin stranded =>
           /\ log[i].r = log[i].of
           /\ log[i].got = IF sent[log[i].r].head \/ log[i].from.status = 304 \/ log[i].from.form = "none"
                           THEN 0 ELSE log[i].from.size
    /\ \A i, j \in DOMAIN log :
         i < j => /\ log[i].r # log[j].r
                  /\ log[i].via = "net" /\ log[j].via = "net" => log[i].r < log[j].r
    /\ result = "ok" => Len(log) = 1

(* The age a cached answer really had at time t, and how long it, or the 304   *)
(* that renewed it, was on its way: the cache counts from its arrival.         *)
RealAge(e, t) == t - e.resp.born
OnItsWay(e) == e.at - e.resp.left

(* The cache keeps within its limits, its books agree and no request has two   *)
(* entries; what it answers was made for such a request and was younger than   *)
(* its lifetime when it was looked up, but for the time it was on its way; and *)
(* an answer that a 304 renews is the version the request named (lookup,       *)
(* store, update_from_304, insert_or_replace, enforce_limits).  A 304 whose    *)
(* entry has gone in the meantime reaches the user as it is.                   *)
CacheHonest ==
  /\ cache.total = Total(cache.entries)
  /\ Len(cache.entries) <= MaxEntries /\ cache.total <= MaxTotalBody
  /\ \A i, j \in DOMAIN cache.entries : cache.entries[i].req = cache.entries[j].req => i = j
  /\ \A i \in DOMAIN log :
       /\ log[i].via = "cache" =>
            /\ Matches(log[i].entry, sent[log[i].r]) /\ ~sent[log[i].r].revalidate
            /\ RealAge(log[i].entry, log[i].at) < log[i].resp.cc.maxAge + OnItsWay(log[i].entry)
       /\ log[i].via = "net" /\ log[i].entry # NoEntry /\ log[i].resp.status # 304 =>
            log[i].resp.ver = IF log[i].from.status = 304 THEN log[i].entry.resp.ver ELSE log[i].r

Waiting(r) == r \in DOMAIN fate /\ fate[r] = "waiting"

(* A request does not fade away: it is answered, it is lost with its           *)
(* connection or in an error, or the client is stopped (send_in_loop,          *)
(* request_connect, flush_requests, handle_continue_response, on_connection).  *)
(* Left out: overlapping connections, a connect that fails, the bound, and     *)
(* stranded requests.  An answer to an earlier request clears                  *)
(* awaiting_continue_ (http_client.cpp:345), and so does a stop() whose        *)
(* connection stays: the 100 is then ignored, the body is never sent, and the  *)
(* server and whatever is sent behind the request wait for good.               *)
RequestsAnswered ==
  \A r \in UNION {1..MaxRequests[m] : m \in Modes} :
    Waiting(r)
      ~> (~Waiting(r) \/ r \in stranded \/ dirty \/ ~Running \/ Unused = {})
=============================================================================
