---------------------------- MODULE HttpResponses ----------------------------
(***************************************************************************)
(* The responses of one HTTP connection: HttpServer::on_plain_message with *)
(* an asynchronous callback, HttpContext::make_response_writer and         *)
(* HttpResponseWriter.  Each request gets a writer with the next sequence  *)
(* number, and its handler, on a thread of its own, answers when it likes; *)
(* enqueue() files the bytes under the number and posts                    *)
(* flush_ready_responses to the connection's loop.  Each writer has one    *)
(* handler, so its compare-and-swap and its enqueue are one step.          *)
(*                                                                         *)
(* The loop is FunctorQueue's: flushes is how many of its functors are     *)
(* flushes.  The connection is TcpConnection's: send() on the loop thread  *)
(* keeps the order and does nothing unless connected.  What is sent is a   *)
(* piece: its request and the part of the response it is.                  *)
(***************************************************************************)
EXTENDS Naturals, Sequences, SequencesExt

CONSTANTS
  MaxWriters,   \* bound: requests that get a writer
  MaxDirect,    \* bound: requests that are answered past the writers
  MaxPieces     \* bound: pieces the handlers give their writers

ASSUME ResponsesAssumption == MaxWriters \in Nat /\ MaxDirect \in Nat /\ MaxPieces \in Nat

Slots == 1..MaxWriters
Numbers == 1..MaxWriters + MaxDirect

VARIABLES
  conn,        \* "connected", "disconnecting", "disconnected", "gone" (freed)
  requests,    \* the requests parsed so far: kind and should_close()
  writers,     \* writers[s]: the request whose writer has sequence_ s
  writeState,  \* write_state_ of each writer
  given,       \* pieces the handlers have given their writers
  posting,     \* writers between enqueue's unlock and its queue_in_loop
  pending,     \* State::pending
  next,        \* State::next_to_send
  closed,      \* State::closed
  flushes,     \* flush_ready_responses functors queued in the loop
  wire,        \* pieces send() has taken
  early        \* history: requests answered past the writers while a writer's
               \* response to a request before them was still to be sent

shared == <<pending, next, closed>>
handlers == <<writeState, given, posting>>
vars == <<conn, requests, writers, handlers, shared, flushes, wire, early>>

Kinds == {"get", "head", "star", "bad"}
Piece == [r : Numbers, part : {"full", "head", "chunk", "end"}, close : BOOLEAN]
Response == [chunks : Seq(Piece), close : BOOLEAN, finished : BOOLEAN]

\* The map has no entry: for enqueue and flush_ready_responses the same as one
\* with nothing in it.
None == [chunks |-> << >>, close |-> FALSE, finished |-> FALSE]

TypeOK ==
  /\ conn \in {"connected", "disconnecting", "disconnected", "gone"}
  /\ requests \in Seq([kind : Kinds, close : BOOLEAN])
  /\ writers \in Seq(Numbers) /\ Len(writers) <= MaxWriters
  /\ writeState \in [Slots -> {0, 1, 2}] /\ given \in 0..MaxPieces
  /\ posting \subseteq Slots
  /\ pending \in [Slots -> Response]
  /\ next \in 1..Len(writers) + 1 /\ closed \in BOOLEAN
  /\ flushes \in Nat /\ wire \in Seq(Piece) /\ early \subseteq Numbers

RestOfInit ==
  /\ requests = << >> /\ writers = << >>
  /\ writeState = [s \in Slots |-> 0] /\ given = 0 /\ posting = {}
  /\ pending = [s \in Slots |-> None] /\ next = 1 /\ closed = FALSE
  /\ flushes = 0 /\ wire = << >> /\ early = {}

Init == conn = "connected" /\ RestOfInit

-----------------------------------------------------------------------------
(* The connection, as far as it matters here.                              *)

\* TcpConnection::send, pieces in order.
Send(ps) == wire' = IF conn = "connected" THEN wire \o ps ELSE wire

\* TcpConnection::shutdown, if `close`.
ShutdownIf(close) ==
  conn' = IF close /\ conn = "connected" THEN "disconnecting" ELSE conn

\* handle_close, then the owner's release of the last reference.
ConnectionEnds ==
  /\ \/ conn \in {"connected", "disconnecting"} /\ conn' = "disconnected"
     \/ conn = "disconnected" /\ conn' = "gone"
  /\ UNCHANGED <<requests, writers, handlers, shared, flushes, wire, early>>

-----------------------------------------------------------------------------
(* on_plain_message: one turn of its loop per request, while connected.    *)
(* After a closing request the turn is the last of its message, but the    *)
(* next message goes on, for the connection is open until the response is  *)
(* flushed.                                                                *)

Arrives(kind, close) ==
  /\ conn = "connected"
  /\ requests' = Append(requests, [kind |-> kind, close |-> close])

\* on_async_request
AsyncRequest ==
  /\ Len(writers) < MaxWriters
  /\ \E kind \in {"get", "head"}, close \in BOOLEAN : Arrives(kind, close)
  /\ writers' = Append(writers, Len(requests) + 1)
  /\ UNCHANGED <<conn, handlers, shared, flushes, wire, early>>

Directly == Len(requests) - Len(writers) < MaxDirect

\* An answer past the writers is sent at once, whatever they still have to send.
AnswersAtOnce(kind, close) ==
  /\ Directly /\ Arrives(kind, close)
  /\ Send(<<[r |-> Len(requests) + 1, part |-> "full", close |-> close]>>)
  /\ ShutdownIf(close)
  /\ early' = IF next <= Len(writers) THEN early \cup {Len(requests) + 1} ELSE early
  /\ UNCHANGED <<writers, handlers, shared, flushes>>

\* on_options_star
OptionsStar == \E close \in BOOLEAN : AnswersAtOnce("star", close)

\* send_bad_request_and_close
BadRequest == AnswersAtOnce("bad", TRUE)

-----------------------------------------------------------------------------
(* The handlers' calls.                                                    *)

Request(s) == requests[writers[s]]
IncludeBody(s) == Request(s).kind # "head"

\* enqueue, up to its unlock: nothing once closed, else the piece is filed (in a
\* new entry where there is none) and a flush is to be posted.
Enqueue(s, part, finished, close) ==
  /\ given < MaxPieces /\ given' = given + 1
  /\ IF closed
     THEN UNCHANGED <<pending, posting>>
     ELSE /\ pending' = [pending EXCEPT ![s] =
                [chunks |-> Append(@.chunks, [r |-> writers[s], part |-> part,
                                              close |-> close /\ part \in {"full", "head"}]),
                 close |-> @.close \/ close,
                 finished |-> @.finished \/ finished]]
          /\ posting' = posting \cup {s}

\* send
WriterSend(s) ==
  /\ writeState[s] = 0 /\ writeState' = [writeState EXCEPT ![s] = 2]
  /\ \E close \in {Request(s).close, TRUE} : Enqueue(s, "full", TRUE, close)

\* start_chunked; a response without a body is complete with its head, but
\* write_state_ says that chunks may follow.
WriterStartChunked(s) ==
  /\ writeState[s] = 0 /\ writeState' = [writeState EXCEPT ![s] = 1]
  /\ \E close \in {Request(s).close, TRUE} : Enqueue(s, "head", ~IncludeBody(s), close)

\* write_chunk, of some data
WriterWriteChunk(s) ==
  /\ writeState[s] = 1 /\ UNCHANGED writeState
  /\ Enqueue(s, "chunk", FALSE, Request(s).close)

\* finish
WriterFinish(s) ==
  /\ writeState[s] = 1 /\ writeState' = [writeState EXCEPT ![s] = 2]
  /\ Enqueue(s, "end", TRUE, Request(s).close)

HandlerCalls(s) ==
  /\ s \notin posting
  /\ WriterSend(s) \/ WriterStartChunked(s) \/ WriterWriteChunk(s) \/ WriterFinish(s)
  /\ UNCHANGED <<conn, requests, writers, next, closed, flushes, wire, early>>

\* The rest of enqueue: the flush is posted if the connection still exists.
HandlerPosts(s) ==
  /\ s \in posting /\ posting' = posting \ {s}
  /\ flushes' = IF conn = "gone" THEN flushes ELSE flushes + 1
  /\ UNCHANGED <<conn, requests, writers, writeState, given, shared, wire, early>>

-----------------------------------------------------------------------------
(* flush_ready_responses                                                   *)

\* Mutant: a response that is not finished does not stop the flush.
CompletedUnfinished ==
  {s \in next..Len(writers) :
     \A j \in next..s : pending[j] # None /\ (j < s => ~pending[j].close)}

\* Mutant: a closing response does not stop the flush.
CompletedPastClose ==
  {s \in next..Len(writers) : \A j \in next..s : pending[j].finished}

\* Mutant: one response a flush.
CompletedFirst == {s \in next..Len(writers) : s = next /\ pending[s].finished}

\* The responses this flush completes: those that are finished, from next_to_send
\* on, up to the first that closes the connection.
Completed ==
  {s \in next..Len(writers) :
     \A j \in next..s : pending[j].finished /\ (j < s => ~pending[j].close)}

\* What it takes out of the entries: all of the completed ones, and what there is of
\* the one after them unless the last one closes.
FlushReadyResponses ==
  LET after   == next + Cardinality(Completed)
      closing == \E s \in Completed : pending[s].close
      taken   == IF closing \/ after > MaxWriters THEN Completed ELSE Completed \cup {after}
  IN  /\ pending' = [s \in Slots |->
                       IF s \in Completed THEN None
                       ELSE IF s \in taken THEN [pending[s] EXCEPT !.chunks = << >>]
                       ELSE pending[s]]
      /\ next' = after /\ closed' = closing
      /\ Send(FlattenSeq([i \in 1..Cardinality(taken) |-> pending[next + i - 1].chunks]))
      /\ ShutdownIf(closing)

Flush ==
  /\ flushes > 0 /\ flushes' = flushes - 1
  /\ IF conn = "gone" \/ closed THEN UNCHANGED <<conn, shared, wire>>
                                ELSE FlushReadyResponses
  /\ UNCHANGED <<requests, writers, handlers, early>>

-----------------------------------------------------------------------------
Next == \/ AsyncRequest \/ OptionsStar \/ BadRequest \/ Flush \/ ConnectionEnds
        \/ \E s \in 1..Len(writers) : HandlerCalls(s) \/ HandlerPosts(s)

Spec == Init /\ [][Next]_vars

(* Fairness: a handler inside enqueue() leaves it, and the loop runs its      *)
(* functors.  Handlers need not answer.                                       *)
Fairness == /\ WF_vars(Flush)
            /\ \A s \in Slots : WF_vars(s \in DOMAIN writers /\ HandlerPosts(s))
FairSpec == Spec /\ Fairness

-----------------------------------------------------------------------------
(* Properties.                                                             *)

FromWriter(p) == requests[p.r].kind \in {"get", "head"}

(* Where a response begins, what is not its end, and where it ends: one to a  *)
(* HEAD request ends with its head.                                           *)
Opens(p) == p.part \in {"full", "head"}
GoesOn(p) == p.part \in {"head", "chunk"}
Ends(p) == p.part = "full" \/ (IF requests[p.r].kind = "head" THEN Opens(p) ELSE p.part = "end")

(* Body bytes behind the head of a HEAD's response: start_chunked leaves      *)
(* write_state_ open for them, and those the handler gives before the head is *)
(* flushed are sent (http_response_writer.cpp:85-98).  They are no part of    *)
(* any response, and a client takes them for the next one.                    *)
Surplus(p) == requests[p.r].kind = "head" /\ ~Opens(p)

Done(p) == Ends(p) \/ Surplus(p)

(* May q be the writers' next piece after p?                                  *)
Follows(p, q) ==
  \/ q.r = p.r /\ GoesOn(p) /\ ~Opens(q)
  \/ Opens(q) /\ Done(p) /\ \E s \in 1..Len(writers) - 1 : p.r = writers[s] /\ q.r = writers[s + 1]

(* The writers' responses leave in the order of their requests, none skipped  *)
(* and none begun before the one before it is whole, whatever order the       *)
(* handlers answer in (enqueue, flush_ready_responses).                       *)
Ordered(w) ==
  \A j \in 1..Len(w) : FromWriter(w[j]) =>
    \/ Opens(w[j]) /\ w[j].r = writers[1] /\ \A i \in 1..j - 1 : ~FromWriter(w[i])
    \/ \E i \in 1..j - 1 : /\ FromWriter(w[i]) /\ Follows(w[i], w[j])
                           /\ \A k \in i + 1..j - 1 : ~FromWriter(w[k])

OrderedAndWhole == Ordered(wire)

(* An answer past the writers, to a request all earlier responses to which    *)
(* had been sent, stands in its place: behind every earlier response, whole,  *)
(* and before everything that answers a later request.  One in `early` does   *)
(* not: it is sent ahead of the responses still due, or between two chunks of *)
(* the one being sent.                                                        *)
InPlace(w) ==
  \A j \in 1..Len(w) : ~FromWriter(w[j]) /\ w[j].r \notin early =>
    /\ \A k \in j + 1..Len(w) : w[j].r < w[k].r
    /\ \A s \in 1..Len(writers) : writers[s] < w[j].r =>
         \E i \in 1..j - 1 : w[i].r = writers[s] /\ Done(w[i])

(* A response that announces the close is the last one a writer sends, and    *)
(* the flush that completes it has shut the connection down                   *)
(* (flush_ready_responses).                                                   *)
ClosesLast(w) ==
  \A i \in 1..Len(w) : \A j \in 1..i :
    FromWriter(w[i]) /\ FromWriter(w[j]) /\ w[j].close => w[i].r = w[j].r

CloseIsLast == (closed => conn # "connected") /\ ClosesLast(wire)

(* What HttpServer does to let a client match responses with its requests     *)
(* (enqueue, flush_ready_responses, on_options_star,                          *)
(* send_bad_request_and_close).  Two things are excepted, and a client that   *)
(* meets them cannot: the place of an answer in `early`, and Surplus pieces   *)
(* at the end of a HEAD's response.                                           *)
ResponsesInOrder == OrderedAndWhole /\ InPlace(wire) /\ CloseIsLast

(* A response that is complete, as are all before it, is sent while the       *)
(* connection is open: no flush is lost between enqueue's unlock and its      *)
(* queue_in_loop, and one flush sends all that have become ready.             *)
ResponsesDelivered ==
  \A k \in Slots :
    (k <= Len(writers) /\ \A s \in next..k : pending[s].finished)
      ~> (next > k \/ conn # "connected")
=============================================================================
