---------------------------- MODULE MCHttpServer ----------------------------
(* The two sides of an HTTP connection, each on its own: its requests       *)
(* (HttpInput), or its responses (HttpResponses) to requests already        *)
(* parsed.  The side that is not looked at starts with its connection gone, *)
(* and takes no step.                                                       *)
EXTENDS HttpInput, HttpResponses

E(k) == [k |-> k, n |-> 0, v |-> "good"]
N(k, n) == [k |-> k, n |-> n, v |-> "good"]
V(k, n, v) == [k |-> k, n |-> n, v |-> v]

Headed(hs) == <<N("start", 1), E("host")>> \o hs \o <<E("end")>>

Accepted ==
  { Headed(<< >>),
    Headed(<<N("length", 2)>>) \o <<N("body", 2)>>,
    Headed(<<E("chunked")>>) \o <<N("size", 1), N("data", 1), N("size", 1), N("data", 1),
                                  N("size", 0), E("end")>>,
    Headed(<<E("close")>>) }

\* At a limit, or right for one of the two ways to read a body only.
Doubtful ==
  { <<N("start", 2), E("host"), E("end")>>,
    Headed(<<E("chunked")>>) \o <<V("size", 2, "badext"), N("data", 2), N("size", 0),
                                  V("trailer", 0, "forbidden"), E("end")>>,
    Headed(<<N("length", 3)>>) \o <<N("body", 3)>> }

Refused ==
  { <<N("start", 3), E("host"), E("end")>>,
    <<V("start", 1, "bad")>>,
    <<N("start", 1), E("end")>>,
    Headed(<<E("badheader")>>),
    Headed(<<E("badlength")>>),
    Headed(<<E("othercoding")>>),
    Headed(<<N("length", 1), N("length", 2)>>),
    Headed(<<N("length", 1), E("chunked")>>),
    Headed(<<E("host"), E("host")>>),
    Headed(<<E("chunked")>>) \o <<N("size", 2), N("data", 2), N("size", 1)>>,
    Headed(<<E("chunked")>>) \o <<N("size", 1), V("data", 1, "bad")>>,
    Headed(<<E("chunked")>>) \o <<V("size", 1, "badhex")>>,
    Headed(<<E("chunked")>>) \o <<N("size", 0), V("trailer", 0, "bad")>> }

MCStreams ==
  Refused \cup {a \o b : a \in Accepted \cup Doubtful, b \in Accepted}
          \cup {Headed(<< >>) \o b : b \in Refused}

MCInit ==
  \/ InputInit /\ conn = "gone" /\ RestOfInit
  \/ Init /\ link = [up |-> FALSE, reading |-> FALSE, refused |-> FALSE, shut |-> FALSE]
          /\ streaming = FALSE /\ sent = << >> /\ RestOfInput

Requests == UNCHANGED vars
Responses == UNCHANGED inputVars

MCNext ==
  \/ ReadBytes /\ Requests
  \/ ConnectionGone /\ Requests
  \/ StartRead /\ Requests
  \/ Enter /\ Requests
  \/ AwaitLine /\ Requests
  \/ StartLine /\ Requests
  \/ HeaderLine /\ Requests
  \/ EndOfHeaders /\ Requests
  \/ FixedBody /\ Requests
  \/ ChunkSize /\ Requests
  \/ ChunkData /\ Requests
  \/ Trailers /\ Requests
  \/ DispatchWhole /\ Requests
  \/ DispatchHead /\ Requests
  \/ StreamFixed /\ Requests
  \/ StreamFixedEnds /\ Requests
  \/ StreamSize /\ Requests
  \/ StreamData /\ Requests
  \/ StreamDataEnd /\ Requests
  \/ StreamTrailers /\ Requests
  \/ ResumeBegins /\ Requests
  \/ ResumeCalls /\ Requests
  \/ AsyncRequest /\ Responses
  \/ OptionsStar /\ Responses
  \/ BadRequest /\ Responses
  \/ Flush /\ Responses
  \/ ConnectionEnds /\ Responses
  \/ \E s \in 1..Len(writers) : HandlerCalls(s) /\ Responses
  \/ \E s \in 1..Len(writers) : HandlerPosts(s) /\ Responses

MCSpec == MCInit /\ [][MCNext]_<<vars, inputVars>> /\ Fairness
=============================================================================
