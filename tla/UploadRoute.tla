----------------------------- MODULE UploadRoute -----------------------------
(***************************************************************************)
(* The upload routes "/upload-file" and "/upload-file-worker"              *)
(* (examples/http_demo_routes.h).  A multipart body goes from the body     *)
(* stream's callbacks through the streaming parser, whose callbacks feed a *)
(* session of the UploadFileWriterPool; any other body goes to a session   *)
(* as it is.  The response is sent once, by the route or by the session's  *)
(* completion.                                                             *)
(*                                                                         *)
(* The route runs on the connection's loop, the completion on a thread of  *)
(* the pool.  Of a session only what the route sees is kept: it may be     *)
(* refused, may refuse data, may fail, and completes some time after       *)
(* finish(), cancel() or the failure; UploadWriter has the rest.           *)
(***************************************************************************)
EXTENDS Multipart

CONSTANTS
  Bodies,    \* bound: the multipart bodies that are uploaded
  RawBodies  \* bound: the other bodies

VARIABLES
  raw,        \* the body is not multipart/form-data
  whole,      \* the body
  fed,        \* how much of it the stream has delivered
  parser,     \* the parser's members
  call,       \* the parser's call under way: "out", "append" or "finish"
  todo,       \* what the route's callback still has to do
  session,    \* none, open, finished, failed or canceled
  accepting,  \* *accepting_file
  saved,      \* data the session has taken
  completion, \* of the session: "none", "due" or "done"
  response,   \* the status sent, or "none"
  responded,  \* *response_sent
  stopped,    \* the route has paused body_stream
  bodyEnd,    \* "no", "complete", "canceled"
  streamed,   \* history: the parts and data the parser has given out
  refusals,   \* history: the parser has returned false
  overtaken   \* history: a canceled completion came before the route's error

input == <<raw, whole, fed, bodyEnd>>
upload == <<session, accepting, saved, completion, stopped>>
answer == <<responded, response, overtaken>>
history == <<streamed, refusals>>
routeVars == <<input, parser, call, todo, upload, answer, history>>

RouteInit ==
  /\ raw \in BOOLEAN /\ whole \in (IF raw THEN RawBodies ELSE Bodies) /\ fed = 0 /\ bodyEnd = "no"
  /\ parser = NewParser /\ call = "out"
  \* A raw body has its session, or its refusal, before it begins.
  /\ IF raw
     THEN \/ session = "open" /\ accepting = TRUE /\ todo = << >> /\ stopped = FALSE
          \/ session = "none" /\ accepting = FALSE /\ todo = <<"503">> /\ stopped = TRUE
     ELSE session = "none" /\ accepting = FALSE /\ todo = << >> /\ stopped = FALSE
  /\ saved = << >> /\ completion = "none"
  /\ responded = FALSE /\ response = "none" /\ overtaken = FALSE
  /\ streamed = << >> /\ refusals = FALSE

Quiet == call = "out" /\ todo = << >>

-----------------------------------------------------------------------------
(* The parser's callbacks.                                                 *)

\* The part callback: the first file part gets a session, or 503 when the pool is busy.
PartBegins(kind) ==
  /\ streamed' = Append(streamed, [kind |-> kind, body |-> << >>])
  /\ IF session # "none" \/ kind = "field"
     THEN accepting' = FALSE /\ UNCHANGED <<session, todo, stopped>>
     ELSE \/ accepting' = TRUE /\ session' = "open" /\ UNCHANGED <<todo, stopped>>
          \/ accepting' = FALSE /\ todo' = <<"503">> /\ stopped' = TRUE /\ UNCHANGED session
  /\ UNCHANGED <<saved, completion>>

\* Mutant: later file parts go to the first one's session.
TakesAny == session # "none"

\* The data callback's first test.
Takes == accepting /\ session # "none"

\* session->append, and what follows a refusal.  A session that is full fails; one
\* that has failed or is over refuses.
AppendToSession(data) ==
  \/ /\ session = "open" /\ saved' = saved \o data
     /\ UNCHANGED <<session, completion, todo, stopped>>
  \/ /\ todo' = <<"cancel", "413">> /\ stopped' = TRUE /\ UNCHANGED saved
     /\ IF session = "open" THEN session' = "failed" /\ completion' = "due"
        ELSE UNCHANGED <<session, completion>>

\* The data callback.
DataComes(data) ==
  /\ streamed' = [streamed EXCEPT ![Len(streamed)].body = @ \o data]
  /\ IF Takes THEN AppendToSession(data) ELSE UNCHANGED <<session, completion, saved, todo, stopped>>
  /\ UNCHANGED accepting

-----------------------------------------------------------------------------
(* The stream's callbacks.                                                 *)

Delivers(n) ==
  /\ Quiet /\ bodyEnd = "no" /\ ~stopped /\ fed + n <= Len(whole) /\ fed' = fed + n
  /\ UNCHANGED <<raw, whole, bodyEnd>>

Chunk(n) == SubSeq(whole, fed + 1, fed + n)

\* The data callback of a raw body.
RawData(n) ==
  /\ raw /\ Delivers(n) /\ AppendToSession(Chunk(n))
  /\ UNCHANGED <<parser, call, accepting, answer, history>>

\* The data callback of a multipart body: parser->append(chunk).
MultipartData(n) ==
  /\ ~raw /\ Delivers(n)
  /\ IF parser.at \in {"done", "error"}
     THEN /\ todo' = <<"cancel", "400">> /\ refusals' = TRUE
          /\ UNCHANGED <<parser, call>>
     ELSE /\ call' = "append" /\ parser' = [parser EXCEPT !.buffer = @ \o Chunk(n)]
          /\ UNCHANGED <<todo, refusals>>
  /\ UNCHANGED <<upload, answer, streamed>>

\* The complete callback: parser->finish(), or the session's.  A stream that was
\* paused in its last data callback completes all the same; after a refused raw
\* session there is no callback.
BodyCompletes ==
  /\ Quiet /\ bodyEnd = "no" /\ fed = Len(whole) /\ bodyEnd' = "complete"
  /\ call' = IF raw THEN "out" ELSE "finish"
  /\ todo' = IF raw /\ session # "none" THEN <<"finish">> ELSE << >>
  /\ UNCHANGED <<raw, whole, fed, parser, upload, answer, history>>

\* The cancel callback: the connection is gone.
BodyCanceled ==
  /\ Quiet /\ bodyEnd = "no" /\ bodyEnd' = "canceled" /\ todo' = <<"cancel">>
  /\ UNCHANGED <<raw, whole, fed, parser, call, upload, answer, history>>

\* A turn of process() that goes on or calls back.
ParserSteps ==
  LET s == ProcessStep(parser)
  IN  /\ call # "out" /\ todo = << >> /\ (s.goesOn \/ s.call.what # "none")
      /\ parser' = s.parser
      /\ CASE s.call.what = "none" -> UNCHANGED <<streamed, upload, todo>>
           [] s.call.what = "data" -> DataComes(s.call.data)
           [] OTHER -> PartBegins(s.call.what)
      /\ UNCHANGED <<input, call, answer, refusals>>

\* The turn that ends it, and what the route does with the answer.
ParserReturns ==
  LET s == ProcessStep(parser)
      refused == s.parser.at = "error" \/ (call = "finish" /\ s.parser.at # "done")
  IN  /\ call # "out" /\ todo = << >> /\ ~s.goesOn /\ s.call.what = "none"
      /\ parser' = IF refused THEN [s.parser EXCEPT !.at = "error"] ELSE s.parser
      /\ call' = "out" /\ refusals' = (refusals \/ refused)
      /\ todo' = CASE refused -> <<"cancel", "400">>
                   [] ~refused /\ call = "append" -> << >>
                   [] ~refused /\ call = "finish" /\ session = "none" -> <<"400">>
                   [] OTHER -> <<"finish">>
      /\ UNCHANGED <<input, upload, answer, streamed>>

-----------------------------------------------------------------------------
(* What the callbacks do, one call after the other, and the pool's thread. *)

\* session->finish()
FinishSession ==
  /\ todo # << >> /\ Head(todo) = "finish" /\ todo' = Tail(todo)
  /\ IF session = "open" THEN session' = "finished" /\ completion' = "due"
     ELSE UNCHANGED <<session, completion>>
  /\ UNCHANGED <<input, parser, call, accepting, saved, stopped, answer, history>>

\* session->cancel(): too late for an upload that has failed and is decided.
CancelSession ==
  /\ todo # << >> /\ Head(todo) = "cancel" /\ todo' = Tail(todo)
  /\ \/ /\ session = "open" \/ (session = "failed" /\ completion = "due")
        /\ session' = "canceled" /\ completion' = "due"
     \/ session # "open" /\ UNCHANGED <<session, completion>>
  /\ UNCHANGED <<input, parser, call, accepting, saved, stopped, answer, history>>

\* The worker cannot open or write the file.  (When it could not be opened, append
\* takes data for a while: the failure is then noticed later.)
SessionFails ==
  /\ session = "open" /\ session' = "failed" /\ completion' = "due"
  /\ UNCHANGED <<input, parser, call, todo, accepting, saved, stopped, answer, history>>

\* The worker's low-watermark callback, which knows nothing of the route's pause.
WorkerResumesStream ==
  /\ stopped /\ session # "none" /\ completion # "done" /\ stopped' = FALSE
  /\ UNCHANGED <<input, parser, call, todo, session, accepting, saved, completion, answer, history>>

\* The exchange of response_sent.
FirstAnswer == ~responded

\* send_error_once
SendErrorOnce ==
  /\ todo # << >> /\ Head(todo) \notin {"cancel", "finish"} /\ todo' = Tail(todo)
  /\ response' = IF FirstAnswer THEN Head(todo) ELSE response
  /\ responded' = TRUE
  /\ UNCHANGED <<input, parser, call, upload, overtaken, history>>

\* make_completion on the pool's thread; a canceled upload takes the exchange too
\* and sends nothing.
Complete(ok) ==
  /\ completion = "due" /\ completion' = "done" /\ (ok => session = "finished")
  /\ responded' = TRUE
  /\ response' = IF ~FirstAnswer \/ session = "canceled" THEN response
                 ELSE IF ok THEN "200" ELSE "500"
  /\ overtaken' = (overtaken \/ (~responded /\ session = "canceled"))
  /\ UNCHANGED <<input, parser, call, todo, session, accepting, saved, stopped, history>>

-----------------------------------------------------------------------------
RouteNext ==
  \/ \E n \in 1..Len(whole) : RawData(n) \/ MultipartData(n)
  \/ BodyCompletes \/ BodyCanceled \/ ParserSteps \/ ParserReturns
  \/ FinishSession \/ CancelSession \/ SessionFails \/ WorkerResumesStream \/ SendErrorOnce
  \/ \E ok \in BOOLEAN : Complete(ok)

RouteSpec == RouteInit /\ [][RouteNext]_routeVars

-----------------------------------------------------------------------------
(* Properties.                                                             *)

Reference == ParseBuffered(whole)

\* The parts and data given out, against the parts of the reference: each part but
\* the last is whole, the last may be cut short; a field's data is not given out.
Agrees(given, parts) ==
  /\ Len(given) <= Len(parts)
  /\ \A i \in DOMAIN given :
       /\ given[i].kind = parts[i].kind
       /\ given[i].kind = "file" => StartsWith(parts[i].body, given[i].body)
       /\ given[i].kind = "file" /\ i < Len(given) => given[i].body = parts[i].body

\* Data came after the final boundary, or the body is at a limit of the streaming
\* parser: of a field, or of headers whose last line end is still to come.
Excused ==
  \/ parser.at = "done"
  \/ \E i \in DOMAIN Reference.parts :
       \/ Reference.parts[i].kind = "field" /\ Len(Reference.parts[i].body) > MaxField
       \/ Reference.parts[i].head + 3 > MaxHeader

\* However the body is cut, the streaming parser gives out the parts the buffered
\* parser finds, accepts no body that the other refuses, and refuses one that the
\* other accepts only at a limit or for data that comes after its end (append,
\* finish, process, against parse_multipart_form_data).
MultipartFaithful ==
  ~raw =>
    /\ Reference.ok => Agrees(streamed, Reference.parts)
    /\ bodyEnd = "complete" /\ Quiet /\ ~refusals =>
         /\ Reference.ok /\ Len(streamed) = Len(Reference.parts)
         /\ \A i \in DOMAIN streamed : streamed[i].kind = "file" =>
              streamed[i].body = Reference.parts[i].body
    /\ Reference.ok /\ refusals => Excused

\* An upload is reported only when it is there: 200 means that the body was complete
\* and well formed and that the session has the file, whole and nothing else.  And
\* there is an answer, unless the canceled session's completion took the exchange
\* before the route's error (send_error_once, make_completion, the callbacks).
UploadAnswered ==
  /\ response = "200" =>
       /\ bodyEnd = "complete"
       /\ IF raw THEN saved = whole
          ELSE /\ ~refusals /\ Reference.ok
               /\ \E i \in DOMAIN Reference.parts :
                    /\ Reference.parts[i].kind = "file" /\ saved = Reference.parts[i].body
                    /\ \A j \in 1..(i - 1) : Reference.parts[j].kind = "field"
  /\ bodyEnd = "complete" /\ Quiet /\ completion # "due" => response # "none" \/ overtaken

\* tests/http/streaming_multipart_parser_test.cpp:47: "chunk append accepted", for a
\* body that the test cuts every seven bytes and ends with a line end after the final
\* boundary: no cut of a good body makes append() refuse.
CutsAccepted == ~raw /\ Reference.ok => ~refusals
=============================================================================
