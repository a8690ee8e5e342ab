---------------------------- MODULE MCHttpClient ----------------------------
(* HttpClient with small sets of requests and replies.                     *)
EXTENDS HttpClient

Get(k, header) == [key |-> k, header |-> header, cacheable |-> TRUE, revalidate |-> FALSE,
                   head |-> FALSE, expect |-> FALSE]
MCHead == [Get("head", 1) EXCEPT !.head = TRUE]
MCPost == [Get("post", 1) EXCEPT !.cacheable = FALSE, !.expect = TRUE]

NoCC == [given |-> FALSE, maxAge |-> Absent, flags |-> {}]
Reply(form, close) ==
  [status |-> 200, ver |-> 0, size |-> 1, born |-> 0, left |-> 0, age |-> Absent, form |-> form, close |-> close,
   cc |-> [given |-> TRUE, maxAge |-> 2, flags |-> {}], validator |-> TRUE, vary |-> FALSE, varyAny |-> FALSE]

MCModes == {"buffered", "cached", "streaming", "sync", "syncTls"}
MCRequests ==
  [m \in MCModes |-> IF m = "cached" THEN {Get("a", 1), Get("a", 2), Get("b", 1)} ELSE {Get("a", 1), MCHead, MCPost}]
MCReplies ==
  [m \in MCModes |->
     IF m = "cached"
     THEN {[Reply("fixed", FALSE) EXCEPT !.age = 1, !.vary = TRUE],
           [Reply("fixed", FALSE) EXCEPT !.size = 2],
           [Reply("none", FALSE) EXCEPT !.status = 304, !.cc = NoCC]}
     ELSE {Reply("chunked", FALSE), Reply("fixed", TRUE), Reply("none", FALSE), Reply("bad", FALSE)}]
MCMaxRequests == [m \in Modes |-> IF m = "cached" THEN 3 ELSE 2]
=============================================================================
