----------------------------- MODULE ClientCache -----------------------------
(***************************************************************************)
(* HttpClientCache (http_client_cache.cpp) with the freshness rules of     *)
(* http_cache.cpp.  A cache is a record: its entries, most recently used   *)
(* first, the id of the next one and the total of the body sizes.          *)
(*                                                                         *)
(* A request is a record with its primary key (scheme, host, method and    *)
(* target), the header a response may vary on, and what its headers ask of *)
(* the cache.  A response is its status, version (body and ETag) and size, *)
(* and its headers: Age, max-age (each possibly Absent), whether Cache-    *)
(* Control is given and its directives, whether there is a validator and   *)
(* what it varies on.  Two histories, in seconds: born is when it was made *)
(* and left when its server sent it; the Age it has then is the truth.     *)
(***************************************************************************)
EXTENDS Integers, Sequences, SequencesExt

CONSTANTS MaxEntries, MaxBody, MaxTotalBody   \* HttpClientCacheOptions

NoCache == [entries |-> << >>, nextId |-> 1, total |-> 0]

\* request_allows_cache_read and _write: GET or HEAD, no body, no Authorization,
\* no Cache-Control: no-store.
RequestAllowed(req) == req.cacheable

Absent == -1

\* cache_freshness_lifetime: max-age, which stands for Expires against Date too.
Lifetime(resp) == resp.cc.maxAge

\* A directive of Cache-Control.
Says(resp, d) == d \in resp.cc.flags

\* cache_current_age: the Age header and the time since it was stored.
CurrentAge(e, now) ==
  (IF e.resp.age = Absent THEN 0 ELSE e.resp.age) + (IF now > e.at THEN now - e.at ELSE 0)

\* Mutant: the age at which a response was received is forgotten.
FreshByClock(e, now) ==
  /\ ~Says(e.resp, "no-store") /\ ~Says(e.resp, "no-cache") /\ Lifetime(e.resp) # Absent
  /\ now - e.at < Lifetime(e.resp)

\* evaluate_cache_freshness
Fresh(e, now) ==
  /\ ~Says(e.resp, "no-store") /\ ~Says(e.resp, "no-cache") /\ Lifetime(e.resp) # Absent
  /\ CurrentAge(e, now) < Lifetime(e.resp)

\* vary_matches_request_headers: an entry that varies is for equal headers only.
VaryMatches(e, req) == e.resp.vary => e.req.header = req.header

Matches(e, req) == e.req.key = req.key /\ VaryMatches(e, req)

\* std::list::splice to the front
Touch(c, i) == [c EXCEPT !.entries = <<@[i]>> \o RemoveAt(@, i)]

\* lookup: the first entry that matches decides.
Lookup(c, req, now) ==
  LET hits == {i \in 1..Len(c.entries) : Matches(c.entries[i], req)}
      i    == CHOOSE j \in hits : \A k \in hits : j <= k
      e    == c.entries[i]
  IN  IF ~RequestAllowed(req) \/ hits = {} THEN [state |-> "miss", cache |-> c]
      ELSE IF ~req.revalidate /\ Fresh(e, now)
      THEN [state |-> "fresh", cache |-> Touch(c, i), entry |-> e]
      ELSE IF e.resp.validator
      THEN [state |-> "stale", cache |-> Touch(c, i), entry |-> e]
      ELSE [state |-> "miss", cache |-> Touch(c, i)]

Total(es) == FoldSeq(LAMBDA e, n : e.resp.size + n, 0, es)

\* Mutant: the size of what is evicted stays in the total.
EnforceLeaking(c) ==
  LET fits == {n \in 0..Len(c.entries) : n <= MaxEntries /\ Total(SubSeq(c.entries, 1, n)) <= MaxTotalBody}
  IN  [c EXCEPT !.entries = SubSeq(@, 1, CHOOSE n \in fits : \A k \in fits : k <= n)]

\* enforce_limits: from the back, until both limits hold.
EnforceLimits(c) ==
  LET over(n) == n > MaxEntries \/ c.total - Total(SubSeq(c.entries, n + 1, Len(c.entries))) > MaxTotalBody
      keep    == CHOOSE n \in 0..Len(c.entries) :
                   /\ n = 0 \/ ~over(n)
                   /\ \A k \in n + 1..Len(c.entries) : over(k)
  IN  [c EXCEPT !.entries = SubSeq(@, 1, keep),
                !.total = @ - Total(SubSeq(c.entries, keep + 1, Len(c.entries)))]

\* insert_or_replace
InsertOrReplace(c, e) ==
  LET same(x) == x.req.key = e.req.key /\ VaryMatches(x, e.req)
      left    == SelectSeq(c.entries, LAMBDA x : ~same(x))
  IN  EnforceLimits([c EXCEPT !.entries = <<e>> \o left,
                              !.total = (@ - Total(SelectSeq(c.entries, same))) + e.resp.size])

\* store: response_allows_cache_write, and Vary: * stores nothing.
Store(c, req, resp, now) ==
  IF /\ RequestAllowed(req) /\ resp.status = 200
     /\ resp.size <= MaxBody /\ resp.size <= MaxTotalBody
     /\ ~Says(resp, "no-store") /\ (Lifetime(resp) # Absent \/ resp.validator)
  THEN IF resp.varyAny THEN [c EXCEPT !.nextId = @ + 1]
       ELSE InsertOrReplace([c EXCEPT !.nextId = @ + 1],
                            [id |-> c.nextId, req |-> req, resp |-> resp, at |-> now])
  ELSE c

\* update_from_304: the headers the answer has are set, the others and the body stay.
Has(c, id) == \E i \in 1..Len(c.entries) : c.entries[i].id = id
Updated(c, id, resp, now) ==
  LET i == CHOOSE j \in 1..Len(c.entries) : c.entries[j].id = id
  IN  Touch([c EXCEPT !.entries[i].at = now,
                      !.entries[i].resp.age = IF resp.age = Absent THEN @ ELSE resp.age,
                      !.entries[i].resp.cc = IF resp.cc.given THEN resp.cc ELSE @,
                      !.entries[i].resp.born = resp.born,
                      !.entries[i].resp.left = resp.left], i)
=============================================================================
