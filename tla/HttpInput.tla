----------------------------- MODULE HttpInput -----------------------------
(***************************************************************************)
(* The requests of one HTTP connection: HttpServer::on_plain_message over  *)
(* HttpParser (the whole request, or its head only when a streaming        *)
(* callback is set), HttpContext's streaming of the body and the           *)
(* HttpRequestBodyStream the handler pauses and another thread resumes.    *)
(*                                                                         *)
(* What the peer sends is a sequence of elements, lines or runs of body    *)
(* bytes, each with its size; a read brings any number of bytes, so it may *)
(* end inside an element, between a line's CR and its LF too.  A body byte *)
(* is known by its element and its place in it.                            *)
(***************************************************************************)
EXTENDS Naturals, Sequences, FiniteSets, SequencesExt

CONSTANTS
  Streams,      \* what the peer may send: sequences of elements
  MaxStartLine, \* options_.max_start_line
  MaxHeaders,   \* options_.max_headers
  MaxBody,      \* options_.max_body and k_max_streaming_body
  MaxTrailers,  \* k_max_streaming_trailers
  MaxPauses     \* bound: times the handler pauses

ASSUME InputAssumption ==
  /\ MaxStartLine \in Nat /\ MaxHeaders \in Nat /\ MaxBody \in Nat
  /\ MaxTrailers \in Nat /\ MaxPauses \in Nat

VARIABLES
  streaming,  \* streaming_http_callback_ is set
  sent,       \* the elements the peer sends
  cur,        \* the element the buffer's first byte belongs to
  used,       \* bytes of it already retrieved
  arrived,    \* bytes that have arrived and are not retrieved
  parser,     \* HttpParser
  body,       \* HttpContext's streaming state
  reqs,       \* the requests given to the handler, with their body streams
  link,       \* the connection: up, reading_, shut down or gone
  turn,       \* where on_plain_message is, "idle" when it is not running
  resumer,    \* the thread in resume_reading: 0, or the request it resumes
  starts,     \* start_read functors queued in the loop
  pauses,     \* pauses so far
  upset       \* history: a body ended while the connection did not read, or reading
              \* began under a paused stream

peer == <<streaming, sent>>
buffer == <<cur, used, arrived>>
app == <<reqs, pauses, upset>>
others == <<resumer, starts>>
inputVars == <<peer, buffer, parser, body, app, link, turn, others>>

Size(e) ==
  CASE e.k \in {"start", "data"} -> e.n + 2
    [] e.k = "body"              -> e.n
    [] e.k = "end"               -> 2
    [] OTHER                     -> 3

\* Bytes from element `cur` on that are still to arrive or to be retrieved.
Ahead == FoldLeft(LAMBDA n, e : n + Size(e), 0, SubSeq(sent, cur, Len(sent))) - used

Element == sent[cur]
\* find_crlf() has a line; readable_bytes() has the rest of a run.
Whole == cur <= Len(sent) /\ arrived >= Size(Element) - used

Retrieve ==
  /\ cur' = cur + 1 /\ used' = 0 /\ arrived' = arrived - (Size(Element) - used)

FreshParser ==
  [st |-> "start_line", bytes |-> 0, lengths |-> {}, badLength |-> FALSE, te |-> "none",
   host |-> FALSE, close |-> FALSE, first |-> 0, decoded |-> 0, body |-> << >>]

NoBody == [active |-> FALSE, chunked |-> FALSE, st |-> "size", left |-> 0, decoded |-> 0,
           trailers |-> 0, close |-> FALSE]

RestOfInput ==
  /\ cur = 1 /\ used = 0 /\ arrived = 0
  /\ parser = FreshParser /\ body = NoBody /\ reqs = << >>
  /\ turn = "idle" /\ resumer = 0 /\ starts = 0 /\ pauses = 0 /\ upset = FALSE

InputInit ==
  /\ streaming \in BOOLEAN
  /\ sent \in Streams
  /\ link = [up |-> TRUE, reading |-> TRUE, refused |-> FALSE, shut |-> FALSE]
  /\ RestOfInput

Connected == link.up /\ ~link.shut
Run(e, n) == [i \in 1..n |-> <<e, i>>]

-----------------------------------------------------------------------------
(* The connection.                                                         *)

\* handle_read, then on_plain_message.
ReadBytes ==
  /\ turn = "idle" /\ link.up /\ link.reading
  /\ arrived < Ahead
  /\ \E n \in (arrived + 1)..Ahead : arrived' = n
  /\ turn' = "enter"
  /\ UNCHANGED <<peer, cur, used, parser, body, app, link, others>>

\* on_connection of a connection that ended: cancel_streaming_body, which tells
\* the stream unless it completed.
Canceled ==
  IF body.active
  THEN [reqs EXCEPT ![Len(reqs)].canceled = TRUE, ![Len(reqs)].hears = FALSE]
  ELSE reqs

ConnectionGone ==
  /\ turn = "idle" /\ link.up
  /\ link' = [link EXCEPT !.up = FALSE]
  /\ reqs' = Canceled /\ body' = NoBody
  /\ UNCHANGED <<peer, buffer, parser, turn, others, pauses, upset>>

\* Mutant: what is already in the buffer is not dispatched on resuming.
StartReadSilently ==
  /\ turn = "idle" /\ starts > 0 /\ starts' = starts - 1
  /\ link' = [link EXCEPT !.reading = TRUE]
  /\ upset' = (upset \/ (reqs # << >> /\ reqs[Len(reqs)].paused))
  /\ UNCHANGED <<peer, buffer, parser, body, reqs, turn, pauses, resumer>>

\* start_read_in_loop: only the step from not reading dispatches what waits.
StartRead ==
  /\ turn = "idle" /\ starts > 0 /\ starts' = starts - 1
  /\ link' = [link EXCEPT !.reading = TRUE]
  /\ turn' = IF ~link.reading /\ Connected /\ arrived > 0 THEN "enter" ELSE "idle"
  /\ upset' = (upset \/ (reqs # << >> /\ reqs[Len(reqs)].paused))
  /\ UNCHANGED <<peer, buffer, parser, body, reqs, pauses, resumer>>

-----------------------------------------------------------------------------
(* on_plain_message.  Its turns: "enter" starts one, "parse" is HttpParser *)
(* at work, "body" process_streaming_body.                                 *)

\* on_plain_message's close is a local variable: it is lost when it returns.
Enter ==
  /\ turn = "enter"
  /\ body' = [body EXCEPT !.close = FALSE]
  /\ turn' = CASE ~Connected -> "idle"
               [] Connected /\ body.active -> (IF reqs[Len(reqs)].paused THEN "idle" ELSE "body")
               [] OTHER -> "parse"
  /\ UNCHANGED <<peer, buffer, parser, app, link, others>>

\* send_bad_request_and_close; in a body the stream is canceled first.
Refuse ==
  /\ link' = [link EXCEPT !.refused = TRUE, !.shut = TRUE]
  /\ reqs' = Canceled /\ body' = NoBody
  /\ turn' = "idle"
  /\ UNCHANGED <<peer, others, pauses, upset>>

RefuseHere == Refuse /\ UNCHANGED <<buffer, parser>>

\* incomplete: on_plain_message returns and what is in the buffer stays there.
Incomplete ==
  /\ turn' = "idle"
  /\ UNCHANGED <<peer, buffer, parser, body, app, link, others>>

\* A start line with no end in sight is too long by its bytes so far; a header
\* line by those and the ones before it.
AwaitLine ==
  /\ turn = "parse" /\ ~Whole /\ parser.st \in {"start_line", "headers"}
  /\ IF \/ parser.st = "start_line" /\ arrived > MaxStartLine
        \/ parser.st = "headers" /\ parser.bytes + arrived > MaxHeaders
     THEN RefuseHere
     ELSE Incomplete

StartLine ==
  /\ turn = "parse" /\ Whole /\ parser.st = "start_line"
  /\ IF Element.n > MaxStartLine \/ Element.v = "bad"
     THEN RefuseHere
     ELSE /\ Retrieve
          /\ parser' = [parser EXCEPT !.st = "headers", !.first = cur]
          /\ UNCHANGED <<peer, body, app, link, turn, others>>

\* parse_header_line
HeaderLine ==
  /\ turn = "parse" /\ Whole /\ parser.st = "headers" /\ Element.k # "end"
  /\ LET counted == parser.bytes + Size(Element) IN
     IF counted > MaxHeaders \/ Element.k = "badheader"
     THEN RefuseHere
     ELSE /\ Retrieve
          /\ parser' = [parser EXCEPT
                !.bytes = counted,
                !.lengths = IF Element.k = "length" THEN @ \cup {Element.n} ELSE @,
                !.badLength = @ \/ Element.k = "badlength",
                !.te = IF Element.k \in {"chunked", "othercoding"} THEN Element.k ELSE @,
                !.host = @ \/ Element.k = "host",
                !.close = @ \/ Element.k = "close"]
          /\ UNCHANGED <<peer, body, app, link, turn, others>>

\* The checks of finish_headers, in its order; head_only_ leaves the length be.
BadFraming ==
  \/ parser.badLength \/ Cardinality(parser.lengths) > 1
  \/ parser.te = "othercoding"
  \/ parser.te # "none" /\ parser.lengths # {}
  \/ ~parser.host

Length == IF parser.lengths = {} THEN 0 ELSE CHOOSE n \in parser.lengths : TRUE

\* The state finish_headers leaves the parser in.
BodyState ==
  IF parser.te = "chunked" THEN "chunk_size"
  ELSE IF Length = 0 THEN "complete" ELSE "fixed_body"

EndOfHeaders ==
  /\ turn = "parse" /\ Whole /\ parser.st = "headers" /\ Element.k = "end"
  /\ IF \/ parser.bytes + 2 > MaxHeaders \/ BadFraming
        \/ ~streaming /\ BodyState = "fixed_body" /\ Length > MaxBody
     THEN RefuseHere
     ELSE /\ Retrieve
          /\ parser' = [parser EXCEPT !.st = BodyState]
          /\ turn' = IF streaming \/ BodyState = "complete" THEN "dispatch" ELSE "parse"
          /\ UNCHANGED <<peer, body, app, link, others>>

FixedBody ==
  /\ turn = "parse" /\ parser.st = "fixed_body"
  /\ IF Whole
     THEN /\ Retrieve
          /\ parser' = [parser EXCEPT !.st = "complete", !.body = Run(cur, Element.n)]
          /\ turn' = "dispatch"
          /\ UNCHANGED <<peer, body, app, link, others>>
     ELSE Incomplete

\* parse_chunk_size
ChunkSize ==
  /\ turn = "parse" /\ parser.st = "chunk_size"
  /\ CASE ~Whole -> Incomplete
       [] Whole /\ (Element.v # "good" \/ Element.n > MaxBody - parser.decoded) -> RefuseHere
       [] OTHER ->
            /\ Retrieve
            /\ parser' = [parser EXCEPT !.st = IF Element.n = 0 THEN "trailers" ELSE "chunk_data"]
            /\ UNCHANGED <<peer, body, app, link, turn, others>>

\* parse_chunk_data waits for the chunk and its CRLF.
ChunkData ==
  /\ turn = "parse" /\ parser.st = "chunk_data"
  /\ CASE ~Whole -> Incomplete
       [] Whole /\ Element.v # "good" -> RefuseHere
       [] OTHER ->
            /\ Retrieve
            /\ parser' = [parser EXCEPT !.st = "chunk_size", !.decoded = @ + Element.n,
                                        !.body = @ \o Run(cur, Element.n)]
            /\ UNCHANGED <<peer, body, app, link, turn, others>>

\* parse_trailers
Trailers ==
  /\ turn = "parse" /\ parser.st = "trailers"
  /\ CASE ~Whole -> Incomplete
       [] Whole /\ Element.k # "end" /\ Element.v # "good" -> RefuseHere
       [] OTHER ->
            /\ Retrieve
            /\ parser' = [parser EXCEPT !.st = IF Element.k = "end" THEN "complete" ELSE @]
            /\ turn' = IF Element.k = "end" THEN "dispatch" ELSE turn
            /\ UNCHANGED <<peer, body, app, link, others>>

-----------------------------------------------------------------------------
(* The handler.                                                            *)

\* HttpRequestBodyStream::pause_reading in a callback on the loop, or not.
MayPause(p) == IF p THEN pauses < MaxPauses /\ pauses' = pauses + 1 ELSE pauses' = pauses
PauseIf(p, l) == IF p THEN [l EXCEPT !.reading = FALSE] ELSE l

\* Back to the loop of on_plain_message, or out of it: a request that closes
\* ends it, and so does an empty buffer.
Onward(close, left) == IF close \/ left = 0 THEN "idle" ELSE "enter"

\* Mutant: the parser is not reset for the next request.
DispatchWholeKeeping ==
  /\ turn = "dispatch" /\ ~streaming
  /\ reqs' = Append(reqs, [first |-> parser.first, body |-> parser.body, done |-> TRUE,
                           canceled |-> FALSE, paused |-> FALSE, hears |-> FALSE])
  /\ link' = [link EXCEPT !.shut = @ \/ parser.close]
  /\ parser' = [parser EXCEPT !.st = "start_line"]
  /\ turn' = Onward(parser.close, arrived)
  /\ UNCHANGED <<peer, buffer, body, others, pauses, upset>>

\* on_request: the request has its body; a closing one shuts down.
DispatchWhole ==
  /\ turn = "dispatch" /\ ~streaming
  /\ reqs' = Append(reqs, [first |-> parser.first, body |-> parser.body, done |-> TRUE,
                           canceled |-> FALSE, paused |-> FALSE, hears |-> FALSE])
  /\ link' = [link EXCEPT !.shut = @ \/ parser.close]
  /\ parser' = FreshParser
  /\ turn' = Onward(parser.close, arrived)
  /\ UNCHANGED <<peer, buffer, body, others, pauses, upset>>

\* on_streaming_request: the handler gets the stream, and the body begins.  A
\* connection that will close after the response is read on for its body.
DispatchHead ==
  /\ turn = "dispatch" /\ streaming
  /\ \E p \in BOOLEAN :
       /\ MayPause(p)
       /\ reqs' = Append(reqs, [first |-> parser.first, body |-> << >>, done |-> FALSE,
                                canceled |-> FALSE, paused |-> p, hears |-> TRUE])
       /\ link' = PauseIf(p, link)
       /\ turn' = IF p THEN "idle" ELSE "body"
  /\ body' = [NoBody EXCEPT !.active = TRUE, !.chunked = parser.te = "chunked", !.left = Length,
                      !.close = parser.close]
  /\ UNCHANGED <<peer, buffer, parser, others, upset>>

-----------------------------------------------------------------------------
(* HttpContext::process_streaming_body.                                    *)

Now == reqs[Len(reqs)]

\* on_data with n bytes of the front element; the handler may pause in it.
OnData(n, p) ==
  /\ MayPause(p)
  /\ reqs' = [reqs EXCEPT ![Len(reqs)].body = @ \o [i \in 1..n |-> <<cur, used + i>>],
                          ![Len(reqs)].paused = @ \/ p]
  /\ link' = PauseIf(p, link)
  /\ arrived' = arrived - n

\* on_complete: the stream drops its callbacks, resume's among them.
OnComplete ==
  /\ reqs' = [reqs EXCEPT ![Len(reqs)].done = TRUE, ![Len(reqs)].hears = FALSE]
  /\ upset' = (upset \/ ~link.reading)
  /\ body' = NoBody /\ parser' = FreshParser

Least(a, b) == IF a < b THEN a ELSE b

\* One turn of process_fixed_streaming_body.
StreamFixed ==
  /\ turn = "body" /\ ~body.chunked /\ body.left > 0
  /\ IF arrived = 0 \/ Now.paused
     THEN Incomplete
     ELSE LET n == Least(body.left, arrived) IN
          /\ \E p \in BOOLEAN : OnData(n, p)
          /\ body' = [body EXCEPT !.left = @ - n]
          /\ cur' = IF n = body.left THEN cur + 1 ELSE cur
          /\ used' = IF n = body.left THEN 0 ELSE used + n
          /\ UNCHANGED <<peer, parser, upset, turn, others>>

StreamFixedEnds ==
  /\ turn = "body" /\ ~body.chunked /\ body.left = 0
  /\ OnComplete
  /\ turn' = Onward(body.close, arrived)
  /\ UNCHANGED <<peer, buffer, link, others, pauses>>

\* The chunk's size line: extensions are not looked at here.
StreamSize ==
  /\ turn = "body" /\ body.chunked /\ body.st = "size"
  /\ CASE ~Whole -> Incomplete
       [] Whole /\ (Element.v = "badhex" \/ Element.n > MaxBody
                    \/ body.decoded > MaxBody - Element.n) -> RefuseHere
       [] OTHER ->
            /\ Retrieve
            /\ body' = [body EXCEPT !.left = Element.n,
                                    !.st = IF Element.n = 0 THEN "trailers" ELSE "data"]
            /\ UNCHANGED <<peer, parser, app, link, turn, others>>

\* Whatever part of the chunk is there goes to the handler.
StreamData ==
  /\ turn = "body" /\ body.chunked /\ body.st = "data"
  /\ IF Now.paused \/ arrived = 0
     THEN Incomplete
     ELSE LET n == Least(body.left, arrived) IN
          /\ \E p \in BOOLEAN : OnData(n, p)
          /\ body' = [body EXCEPT !.left = @ - n, !.decoded = @ + n,
                                  !.st = IF n = body.left THEN "data_crlf" ELSE @]
          /\ used' = used + n
          /\ UNCHANGED <<peer, cur, parser, upset, turn, others>>

StreamDataEnd ==
  /\ turn = "body" /\ body.chunked /\ body.st = "data_crlf"
  /\ CASE arrived < 2 -> Incomplete
       [] arrived >= 2 /\ Element.v # "good" -> RefuseHere
       [] OTHER ->
            /\ Retrieve
            /\ body' = [body EXCEPT !.st = "size"]
            /\ UNCHANGED <<peer, parser, app, link, turn, others>>

\* A forbidden field is not looked for here; the blank line ends the body.
StreamTrailers ==
  /\ turn = "body" /\ body.chunked /\ body.st = "trailers"
  /\ LET counted == body.trailers + Size(Element) IN
     CASE ~Whole -> Incomplete
       [] Whole /\ (counted > MaxTrailers \/ (Element.k # "end" /\ Element.v = "bad")) -> RefuseHere
       [] Whole /\ Element.k # "end" ->
            /\ Retrieve
            /\ body' = [body EXCEPT !.trailers = counted]
            /\ UNCHANGED <<peer, parser, app, link, turn, others>>
       [] OTHER ->
            /\ Retrieve
            /\ OnComplete
            /\ turn' = Onward(body.close, arrived - 2)
            /\ UNCHANGED <<peer, link, others, pauses>>

-----------------------------------------------------------------------------
(* resume_reading on another thread: the compare-and-swap, then the resume *)
(* callback if the stream still has one, which queues start_read.          *)

ResumeBegins ==
  /\ resumer = 0
  /\ \E i \in 1..Len(reqs) :
       /\ reqs[i].paused
       /\ reqs' = [reqs EXCEPT ![i].paused = FALSE]
       /\ resumer' = i
  /\ UNCHANGED <<peer, buffer, parser, body, pauses, upset, link, turn, starts>>

ResumeCalls ==
  /\ resumer # 0 /\ resumer' = 0
  /\ starts' = IF reqs[resumer].hears THEN starts + 1 ELSE starts
  /\ UNCHANGED <<peer, buffer, parser, body, app, link, turn>>

-----------------------------------------------------------------------------
InputNext ==
  \/ ReadBytes \/ ConnectionGone \/ StartRead
  \/ Enter \/ AwaitLine \/ StartLine \/ HeaderLine \/ EndOfHeaders
  \/ FixedBody \/ ChunkSize \/ ChunkData \/ Trailers
  \/ DispatchWhole \/ DispatchHead
  \/ StreamFixed \/ StreamFixedEnds
  \/ StreamSize \/ StreamData \/ StreamDataEnd \/ StreamTrailers
  \/ ResumeBegins \/ ResumeCalls

InputSpec == InputInit /\ [][InputNext]_inputVars

-----------------------------------------------------------------------------
(* Properties                                                              *)

\* The reference: where each request begins, its elements, its body's bytes.
Begins == {i \in 1..Len(sent) : sent[i].k = "start"}
Elements(i) == {j \in i..Len(sent) : \A k \in (i + 1)..j : sent[k].k # "start"}
BodyElements(i) == {j \in Elements(i) : sent[j].k \in {"body", "data"}}
BodyOf(i) == FoldLeft(LAMBDA bytes, j : bytes \o Run(j, sent[j].n), << >>,
                      SetToSortSeq(BodyElements(i), <))
With(i, k) == {j \in Elements(i) : sent[j].k = k}
Total(js) == FoldLeft(LAMBDA n, j : n + sent[j].n, 0, SetToSortSeq(js, <))
HeadOf(i) == {j \in Elements(i) : j > i /\ \A k \in With(i, "end") : j <= k \/
                                         \E l \in With(i, "end") : l < k /\ j <= l}
HeadBytes(i) == FoldLeft(LAMBDA n, j : n + Size(sent[j]), 0, SetToSortSeq(HeadOf(i), <))

\* Elements a server refuses whatever comes before them; reading as it goes, the
\* streaming server looks at neither chunk extensions nor trailer names.
BadElement(j) ==
  \/ sent[j].v \in {"bad", "badhex"} \/ sent[j].k \in {"badheader", "badlength", "othercoding"}
  \/ ~streaming /\ sent[j].v \in {"badext", "forbidden"}

Unfit(i) ==
  \/ sent[i].n > MaxStartLine \/ \E j \in Elements(i) : BadElement(j)
  \/ HeadBytes(i) > MaxHeaders \/ With(i, "host") = {}
  \/ Cardinality({sent[j].n : j \in With(i, "length")}) > 1
  \/ With(i, "length") # {} /\ With(i, "chunked") # {}
  \/ Total(With(i, "size")) > MaxBody
  \/ ~streaming /\ Total(With(i, "length")) > MaxBody

\* A start line of just the limit is taken when its CRLF is there and refused
\* when the CR is: the only request whose fate depends on the reads.
OnTheEdge(i) == sent[i].n = MaxStartLine

\* However the bytes are cut into reads, the handler gets the requests in order,
\* none twice and none left out, each with the bytes of its own body in order;
\* a body said to be complete is whole and its request in order; a stream is
\* told of its end once; and a refusal answers a request that deserves it.
\* (HttpParser::parse, process_streaming_body, on_plain_message)
RequestsFaithful ==
  /\ \A r \in 1..Len(reqs) :
       LET i == reqs[r].first IN
       /\ Cardinality({j \in Begins : j <= i}) = r
       /\ IsPrefix(reqs[r].body, BodyOf(i))
       /\ reqs[r].done => reqs[r].body = BodyOf(i) /\ ~Unfit(i) /\ ~reqs[r].canceled
  /\ link.refused => \E i \in Begins : i <= cur /\ (Unfit(i) \/ OnTheEdge(i))

\* What the loop owes the peer when it has nothing left to do: it reads, and no
\* element that is wholly there waits.  Requests after one that closes are not
\* owed.
Owes == (cur <= Len(sent) /\ arrived > 0 /\
           (Whole \/ (body.active /\ Element.k \in {"body", "data"} /\ body.left > 0)))
        \/ ~link.reading

Settled ==
  /\ turn = "idle" /\ Connected /\ resumer = 0 /\ starts = 0
  /\ \A r \in 1..Len(reqs) : ~reqs[r].paused /\ With(reqs[r].first, "close") = {}

\* A handler that has resumed what it paused finds the connection reading and
\* the buffered body handed over, unless it paused in the body's last bytes or
\* paused again while its resume was on the way.
\* (start_read_in_loop, HttpRequestBodyStream)
NothingHeldBack == Settled /\ ~upset => ~Owes
=============================================================================
