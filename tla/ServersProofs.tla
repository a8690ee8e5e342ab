---------------------------- MODULE ServersProofs ----------------------------
(***************************************************************************)
(* Theorems about what two servers send.  HttpResponses, for any numbers   *)
(* of requests and pieces: the responses of one connection leave whole and *)
(* in the order of their requests, and one that closes is the last.        *)
(* Socks5, for any amounts of data in either direction: a session hands    *)
(* each side a prefix of what the other sent, after its own answers.       *)
(***************************************************************************)
EXTENDS HttpResponses, Socks5, FoldLemmas, FiniteSetTheorems, SequenceTheorems, TLAPS

-----------------------------------------------------------------------------
(* HttpResponses.  The invariant.                                          *)

Known(w) == \A i \in 1..Len(w) : w[i].r \in 1..Len(requests)

\* Each writer has a request of its own, and what was sent answers a request.
NumberInv ==
  /\ Len(requests) <= Len(writers) + MaxDirect
  /\ \A s \in 1..Len(writers) :
       writers[s] \in 1..Len(requests) /\ Request(s).kind \in {"get", "head"}
  /\ \A s, t \in 1..Len(writers) : writers[s] = writers[t] => s = t
  /\ Known(wire)

\* Some of writer n's response is in w.
Begun(w, n) == n <= Len(writers) /\ \E i \in 1..Len(w) : w[i].r = writers[n]

\* Position i has the last piece of a writer.
LastOf(w, i) ==
  i \in 1..Len(w) /\ FromWriter(w[i]) /\ \A k \in i + 1..Len(w) : ~FromWriter(w[k])

\* In w the responses before writer n's are whole, and if b is set n's has begun and goes on.
Stage(w, n, b) ==
  /\ \A i \in 1..Len(w) : FromWriter(w[i]) =>
       \E s \in 1..Len(writers) : w[i].r = writers[s] /\ (s < n \/ (s = n /\ b))
  /\ b => \E i \in 1..Len(w) : LastOf(w, i) /\ w[i].r = writers[n] /\ GoesOn(w[i])
  /\ ~b /\ n = 1 => \A i \in 1..Len(w) : ~FromWriter(w[i])
  /\ ~b /\ n > 1 => \E i \in 1..Len(w) : LastOf(w, i) /\ w[i].r = writers[n - 1] /\ Done(w[i])

\* Only writer n may have announced the close, and then its entry says so.
Closing(w, n) ==
  \A i \in 1..Len(w) : FromWriter(w[i]) /\ w[i].close =>
    n <= Len(writers) /\ w[i].r = writers[n] /\ pending[n].close

\* The responses before writer n's are whole, and an answer that stands in its place is
\* behind no later one.
Due(w, n) ==
  /\ \A j \in 1..Len(w) : ~FromWriter(w[j]) /\ w[j].r \notin early =>
       \A s \in n..Len(writers) : w[j].r < writers[s]
  /\ \A s \in 1..n - 1 : \E i \in 1..Len(w) : w[i].r = writers[s] /\ Done(w[i])

\* c is a stretch of writer s's response; b: its beginning is not in it.
Stretch(c, s, b) ==
  /\ \A i \in 1..Len(c) : c[i].r = writers[s]
  /\ \A i \in 1..Len(c) : Opens(c[i]) <=> (i = 1 /\ ~b)
  /\ \A i \in 1..Len(c) - 1 : GoesOn(c[i])

\* What waits in an entry, as far as its writer has come; ws: its write_state_.
Shaped(e, s, b, ws) ==
  /\ Stretch(e.chunks, s, b)
  /\ ws = 0 => e = None /\ ~b
  /\ ws # 0 => b \/ e.chunks # << >>
  /\ ws = 1 /\ e.chunks # << >> => GoesOn(e.chunks[Len(e.chunks)])
  /\ e.finished => e.chunks # << >> /\ Done(e.chunks[Len(e.chunks)])
  /\ ~e.finished /\ e.chunks # << >> => GoesOn(e.chunks[Len(e.chunks)])
  /\ \A i \in 1..Len(e.chunks) : e.chunks[i].close => e.close

Entry(e, s, b) == Shaped(e, s, b, writeState[s])

\* While the connection is open.
OpenInv ==
  /\ Stage(wire, next, Begun(wire, next)) /\ Closing(wire, next) /\ Due(wire, next)
  /\ \A s \in next..Len(writers) : Entry(pending[s], s, s = next /\ Begun(wire, next))

\* Writers that are not there yet have done nothing.
FreshInv == \A s \in Slots : s > Len(writers) => pending[s] = None /\ writeState[s] = 0

ResponsesInv ==
  /\ TypeOK /\ NumberInv /\ FreshInv
  /\ ResponsesInOrder
  /\ conn = "connected" => OpenInv

-----------------------------------------------------------------------------
(* A stretch of the next writer's response is sent.                        *)

\* Joining two sequences of pieces, as send() does.
LEMMA ConcatIs ==
  ASSUME NEW w \in Seq(Piece), NEW c \in Seq(Piece)
  PROVE  /\ w \o c \in Seq(Piece) /\ Len(w) \in Nat /\ Len(c) \in Nat
         /\ Len(w \o c) = Len(w) + Len(c)
         /\ \A i \in 1..Len(w) : (w \o c)[i] = w[i]
         /\ \A i \in 1..Len(c) : (w \o c)[Len(w) + i] = c[i]
<1>1. Len(w) \in Nat /\ Len(c) \in Nat
  BY LenProperties
<1>2. /\ w \o c \in Seq(Piece) /\ Len(w \o c) = Len(w) + Len(c)
      /\ \A i \in 1..Len(w) + Len(c) : (w \o c)[i] = IF i <= Len(w) THEN w[i] ELSE c[i - Len(w)]
  BY ConcatProperties
<1>3. ASSUME NEW i \in 1..Len(w) PROVE (w \o c)[i] = w[i]
  BY <1>1, <1>2
<1>4. ASSUME NEW i \in 1..Len(c) PROVE (w \o c)[Len(w) + i] = c[i]
  <2>1. Len(w) + i \in 1..Len(w) + Len(c) /\ ~(Len(w) + i <= Len(w)) /\ Len(w) + i - Len(w) = i
    BY <1>1
  <2> QED BY <1>2, <2>1
<1> QED BY <1>1, <1>2, <1>3, <1>4

\* The pieces of a writer's response are from a writer.
LEMMA StretchIsFromWriter ==
  ASSUME NumberInv, NEW n \in 1..Len(writers), NEW p, p.r = writers[n]
  PROVE  FromWriter(p) /\ p.r \in 1..Len(requests)
BY DEF NumberInv, FromWriter, Request

\* A stretch of the next response, sent behind the others, keeps the order.
LEMMA OrderedExtends ==
  ASSUME NumberInv, NEW w \in Seq(Piece), NEW c \in Seq(Piece), NEW n \in 1..Len(writers),
         Len(writers) \in Nat, NEW b \in BOOLEAN, Stage(w, n, b), Stretch(c, n, b), Ordered(w)
  PROVE  Ordered(w \o c)
<1> DEFINE v == w \o c
           m == Len(w)
<1>1. /\ v \in Seq(Piece) /\ m \in Nat /\ Len(c) \in Nat /\ Len(v) = m + Len(c)
      /\ \A i \in 1..m : v[i] = w[i]
      /\ \A i \in 1..Len(c) : v[m + i] = c[i]
  BY ConcatIs
<1>2. \A i \in 1..Len(c) : c[i].r = writers[n] /\ FromWriter(c[i])
  BY StretchIsFromWriter DEF Stretch
<1> DEFINE l == Len(c)
<1> DEFINE Placed(u, j) ==
             \/ Opens(u[j]) /\ u[j].r = writers[1] /\ \A i \in 1..j - 1 : ~FromWriter(u[i])
             \/ \E i \in 1..j - 1 : /\ FromWriter(u[i]) /\ Follows(u[i], u[j])
                                    /\ \A k \in i + 1..j - 1 : ~FromWriter(u[k])
<1>3. SUFFICES ASSUME NEW j \in 1..Len(v), FromWriter(v[j]) PROVE Placed(v, j)
  BY Zenon DEF Ordered
<1>4. CASE j <= m
  <2>1. j \in 1..m /\ v[j] = w[j] /\ \A i \in 1..j - 1 : i \in 1..m /\ v[i] = w[i]
    BY <1>1, <1>4
  <2>2. Placed(w, j)
    BY <1>3, <2>1 DEF Ordered
  <2>3. CASE Opens(w[j]) /\ w[j].r = writers[1] /\ \A i \in 1..j - 1 : ~FromWriter(w[i])
    BY <2>1, <2>3
  <2>4. ASSUME NEW i \in 1..j - 1, FromWriter(w[i]), Follows(w[i], w[j]),
               \A k \in i + 1..j - 1 : ~FromWriter(w[k])
        PROVE  Placed(v, j)
    <3>1. \A k \in i + 1..j - 1 : k \in 1..j - 1
      BY <1>1, <2>1
    <3>2. FromWriter(v[i]) /\ Follows(v[i], v[j]) /\ \A k \in i + 1..j - 1 : ~FromWriter(v[k])
      BY <2>1, <2>4, <3>1
    <3> QED BY <3>2
  <2> QED BY <2>2, <2>3, <2>4
<1>5. CASE j = m + 1
  <2>1. 1 \in 1..Len(c) /\ v[j] = c[1] /\ j - 1 = m
    BY <1>1, <1>5
  <2>2. c[1].r = writers[n] /\ (Opens(c[1]) <=> ~b)
    BY <2>1 DEF Stretch
  <2>3. ASSUME NEW i, LastOf(w, i), Follows(w[i], c[1]) PROVE Placed(v, j)
    <3>1. i \in 1..j - 1 /\ v[i] = w[i] /\ \A k \in i + 1..j - 1 : k \in 1..m /\ v[k] = w[k]
      BY <1>1, <2>1, <2>3 DEF LastOf
    <3>2. FromWriter(v[i]) /\ Follows(v[i], v[j]) /\ \A k \in i + 1..j - 1 : ~FromWriter(v[k])
      BY <2>1, <2>3, <3>1 DEF LastOf
    <3> QED BY <3>1, <3>2
  <2>4. CASE b
    <3>1. PICK i \in 1..Len(w) : LastOf(w, i) /\ w[i].r = writers[n] /\ GoesOn(w[i])
      BY <2>4 DEF Stage
    <3>2. Follows(w[i], c[1])
      BY <2>2, <2>4, <3>1 DEF Follows
    <3> QED BY <2>3, <3>1, <3>2
  <2>5. CASE ~b /\ n = 1
    <3>1. \A i \in 1..Len(w) : ~FromWriter(w[i])
      BY <2>5 DEF Stage
    <3>2. \A i \in 1..j - 1 : ~FromWriter(v[i])
      BY <1>1, <2>1, <3>1
    <3> QED BY <2>1, <2>2, <2>5, <3>2
  <2>6. CASE ~b /\ n > 1
    <3>1. PICK i \in 1..Len(w) : LastOf(w, i) /\ w[i].r = writers[n - 1] /\ Done(w[i])
      BY <2>6 DEF Stage
    <3>2. n - 1 \in 1..Len(writers) - 1 /\ n - 1 + 1 = n
      BY <2>6
    <3>3. Follows(w[i], c[1])
      BY <2>2, <2>6, <3>1, <3>2 DEF Follows
    <3> QED BY <2>3, <3>1, <3>3
  <2>7. n = 1 \/ n > 1
    OBVIOUS
  <2> QED BY <2>4, <2>5, <2>6, <2>7
<1>6. CASE j > m + 1
  <2> DEFINE i == j - 1
  <2>1. /\ i \in 1..j - 1 /\ i - m \in 1..Len(c) /\ j - m \in 1..Len(c) /\ j - m # 1
        /\ i - m \in 1..Len(c) - 1 /\ m + (i - m) = i /\ m + (j - m) = j
    <3>1. m \in Nat /\ l \in Nat /\ j \in 1..m + l /\ j > m + 1
      BY <1>1, <1>3, <1>6
    <3> HIDE DEF m, l
    <3>2. /\ i \in 1..j - 1 /\ i - m \in 1..l /\ j - m \in 1..l /\ j - m # 1
          /\ i - m \in 1..l - 1 /\ m + (i - m) = i /\ m + (j - m) = j
      BY <3>1
    <3> QED BY <3>2, Zenon DEF l
  <2>2. v[i] = c[i - m] /\ v[j] = c[j - m]
    <3>1. v[m + (i - m)] = c[i - m] /\ v[m + (j - m)] = c[j - m]
      BY <1>1, <2>1, Zenon
    <3> QED BY <2>1, <3>1
  <2>3. GoesOn(c[i - m]) /\ ~Opens(c[j - m])
    BY <2>1 DEF Stretch
  <2>4. Follows(v[i], v[j]) /\ FromWriter(v[i])
    <3>1. c[j - m].r = c[i - m].r /\ FromWriter(c[i - m])
      BY <1>2, <2>1
    <3> QED BY <2>2, <2>3, <3>1 DEF Follows
  <2>5. \A k \in i + 1..j - 1 : ~FromWriter(v[k])
    BY <1>1
  <2> QED BY <2>1, <2>4, <2>5
<1>7. j <= m \/ j = m + 1 \/ j > m + 1
  <2>1. m \in Nat /\ l \in Nat /\ j \in 1..m + l
    BY <1>1, <1>3
  <2> HIDE DEF m, l
  <2> QED BY <2>1
<1> QED BY <1>4, <1>5, <1>6, <1>7

\* Nor does anything follow a response that closes.
LEMMA ClosesExtends ==
  ASSUME NumberInv, NEW w \in Seq(Piece), NEW c \in Seq(Piece), NEW n \in 1..Len(writers),
         NEW b \in BOOLEAN, Stretch(c, n, b), Closing(w, n), ClosesLast(w)
  PROVE  ClosesLast(w \o c)
<1> DEFINE v == w \o c
           m == Len(w)
           l == Len(c)
<1>1. /\ v \in Seq(Piece) /\ m \in Nat /\ l \in Nat /\ Len(v) = m + l
      /\ \A i \in 1..m : v[i] = w[i]
      /\ \A i \in 1..l : v[m + i] = c[i]
  BY ConcatIs
<1>2. \A i \in 1..l : c[i].r = writers[n] /\ FromWriter(c[i])
  BY StretchIsFromWriter DEF Stretch
<1>3. \A i, j \in 1..m : j <= i /\ FromWriter(w[i]) /\ FromWriter(w[j]) /\ w[j].close => w[i].r = w[j].r
  BY DEF ClosesLast
<1>4. \A j \in 1..m : FromWriter(w[j]) /\ w[j].close => w[j].r = writers[n]
  BY DEF Closing
<1>5. SUFFICES ASSUME NEW i \in 1..Len(v), NEW j \in 1..i,
                      FromWriter(v[i]), FromWriter(v[j]), v[j].close
               PROVE  v[i].r = v[j].r
  BY Zenon DEF ClosesLast
<1> HIDE DEF v, m, l
<1>6. /\ j \in 1..m \/ (j > m /\ j - m \in 1..l /\ m + (j - m) = j)
      /\ i \in 1..m \/ (i > m /\ i - m \in 1..l /\ m + (i - m) = i)
  BY <1>1, <1>5
<1>7. CASE i \in 1..m
  <2>1. j \in 1..m /\ j <= i
    BY <1>1, <1>5, <1>7
  <2>2. v[i] = w[i] /\ v[j] = w[j]
    BY <1>1, <1>7, <2>1
  <2> QED BY <1>3, <1>5, <1>7, <2>1, <2>2
<1>8. CASE i > m /\ i - m \in 1..l /\ m + (i - m) = i
  <2>1. v[i].r = writers[n]
    <3>1. v[m + (i - m)] = c[i - m]
      BY <1>1, <1>8, Zenon
    <3> QED BY <1>2, <1>8, <3>1
  <2>2. CASE j \in 1..m
    BY <1>1, <1>4, <1>5, <2>1, <2>2
  <2>3. CASE j > m /\ j - m \in 1..l /\ m + (j - m) = j
    <3>1. v[m + (j - m)] = c[j - m]
      BY <1>1, <2>3, Zenon
    <3> QED BY <1>2, <2>1, <2>3, <3>1
  <2> QED BY <1>6, <2>2, <2>3
<1> QED BY <1>6, <1>7, <1>8

\* What has left when a stretch has been sent: the response goes on, or it is whole.
LEMMA StageExtends ==
  ASSUME NumberInv, NEW w \in Seq(Piece), NEW c \in Seq(Piece), NEW n \in 1..Len(writers),
         Len(writers) \in Nat, NEW b \in BOOLEAN, Stage(w, n, b), Stretch(c, n, b), c # << >>
  PROVE  /\ GoesOn(c[Len(c)]) => Stage(w \o c, n, TRUE)
         /\ Done(c[Len(c)]) => Stage(w \o c, n + 1, FALSE)
<1> DEFINE v == w \o c
           m == Len(w)
           l == Len(c)
           From(k) == \A i \in 1..Len(v) : FromWriter(v[i]) =>
                        \E s \in 1..Len(writers) : v[i].r = writers[s] /\ s <= k
<1>1. /\ v \in Seq(Piece) /\ m \in Nat /\ l \in Nat /\ Len(v) = m + l
      /\ \A i \in 1..m : v[i] = w[i]
      /\ \A i \in 1..l : v[m + i] = c[i]
  BY ConcatIs
<1>2. \A i \in 1..l : c[i].r = writers[n] /\ FromWriter(c[i])
  BY StretchIsFromWriter DEF Stretch
<1>3. l \in 1..l /\ m + l \in 1..Len(v)
  <2>1. l # 0
    BY EmptySeq
  <2> HIDE DEF l, m, v
  <2> QED BY <1>1, <2>1
<1>4. \A i \in 1..m : FromWriter(w[i]) => \E s \in 1..Len(writers) : w[i].r = writers[s] /\ s <= n
  BY DEF Stage
<1>5. From(n)
  <2>1. SUFFICES ASSUME NEW i \in 1..Len(v), FromWriter(v[i])
                 PROVE  \E s \in 1..Len(writers) : v[i].r = writers[s] /\ s <= n
    BY Zenon
  <2>2. i \in 1..m \/ (i - m \in 1..l /\ m + (i - m) = i)
    <3> HIDE DEF v, m, l
    <3> QED BY <1>1
  <2>3. CASE i \in 1..m
    BY <1>1, <1>4, <2>1, <2>3
  <2>4. CASE i - m \in 1..l /\ m + (i - m) = i
    <3>1. v[m + (i - m)] = c[i - m]
      BY <1>1, <2>4, Zenon
    <3>2. v[i].r = writers[n] /\ n <= n
      BY <1>2, <2>4, <3>1
    <3> QED BY <3>2
  <2> QED BY <2>2, <2>3, <2>4
<1>6. LastOf(v, m + l) /\ v[m + l] = c[l] /\ v[m + l].r = writers[n]
  <2>1. v[m + l] = c[l] /\ FromWriter(c[l]) /\ c[l].r = writers[n]
    BY <1>1, <1>2, <1>3, Zenon
  <2>2. \A k \in m + l + 1..Len(v) : ~FromWriter(v[k])
    <3>1. \A k \in m + l + 1..Len(v) : FALSE
      <4> HIDE DEF v, m, l
      <4> QED BY <1>1
    <3> QED BY <3>1
  <2> QED BY <1>3, <2>1, <2>2, Zenon DEF LastOf
<1>7. n \in Nat /\ n <= Len(writers) /\ n >= 1
  OBVIOUS
<1> HIDE DEF v, m, l
<1>8. ASSUME GoesOn(c[l]) PROVE Stage(v, n, TRUE)
  <2>1. \E i \in 1..Len(v) : LastOf(v, i) /\ v[i].r = writers[n] /\ GoesOn(v[i])
    BY <1>3, <1>6, <1>8, Zenon
  <2>2. \A i \in 1..Len(v) : FromWriter(v[i]) =>
          \E s \in 1..Len(writers) : v[i].r = writers[s] /\ (s < n \/ (s = n /\ TRUE))
    BY <1>5, <1>7
  <2> QED BY <2>1, <2>2, Zenon DEF Stage
<1>9. ASSUME Done(c[l]) PROVE Stage(v, n + 1, FALSE)
  <2>1. \E i \in 1..Len(v) : LastOf(v, i) /\ v[i].r = writers[n + 1 - 1] /\ Done(v[i])
    <3>1. n + 1 - 1 = n
      BY <1>7
    <3> QED BY <1>3, <1>6, <1>9, <3>1, Zenon
  <2>2. \A i \in 1..Len(v) : FromWriter(v[i]) =>
          \E s \in 1..Len(writers) : v[i].r = writers[s] /\ (s < n + 1 \/ (s = n + 1 /\ FALSE))
    <3>1. \A s \in 1..Len(writers) : s <= n => s < n + 1
      BY <1>7
    <3> QED BY <1>5, <3>1, Zenon
  <2>3. n + 1 # 1
    BY <1>7
  <2> QED BY <2>1, <2>2, <2>3 DEF Stage
<1> QED BY <1>8, <1>9 DEF v, l

\* The close is announced by the response that is being sent only.
LEMMA ClosingExtends ==
  ASSUME NumberInv, NEW w \in Seq(Piece), NEW c \in Seq(Piece), NEW n \in 1..Len(writers),
         NEW b \in BOOLEAN, Stretch(c, n, b), Closing(w, n),
         \A i \in 1..Len(c) : c[i].close => pending[n].close
  PROVE  /\ Closing(w \o c, n)
         /\ ~pending[n].close => \A k \in Nat : Closing(w \o c, k)
<1> DEFINE v == w \o c
           m == Len(w)
           l == Len(c)
<1>1. /\ v \in Seq(Piece) /\ m \in Nat /\ l \in Nat /\ Len(v) = m + l
      /\ \A i \in 1..m : v[i] = w[i]
      /\ \A i \in 1..l : v[m + i] = c[i]
  BY ConcatIs
<1>2. \A i \in 1..l : c[i].r = writers[n] /\ (c[i].close => pending[n].close)
  BY DEF Stretch
<1>3. ASSUME NEW i \in 1..Len(v), FromWriter(v[i]), v[i].close
      PROVE  n <= Len(writers) /\ v[i].r = writers[n] /\ pending[n].close
  <2>1. i \in 1..m \/ (i - m \in 1..l /\ m + (i - m) = i)
    <3> HIDE DEF v, m, l
    <3> QED BY <1>1
  <2>2. CASE i \in 1..m
    BY <1>1, <1>3, <2>2 DEF Closing
  <2>3. CASE i - m \in 1..l /\ m + (i - m) = i
    <3>1. v[m + (i - m)] = c[i - m]
      BY <1>1, <2>3, Zenon
    <3> QED BY <1>2, <1>3, <2>3, <3>1
  <2> QED BY <2>1, <2>2, <2>3
<1> QED BY <1>3, Zenon DEF Closing

\* Nor are the answers that stand in their places disturbed; a response that ends is whole.
LEMMA DueExtends ==
  ASSUME NumberInv, NEW w \in Seq(Piece), NEW c \in Seq(Piece), NEW n \in 1..Len(writers),
         Len(writers) \in Nat, NEW b \in BOOLEAN, Stretch(c, n, b), InPlace(w), Due(w, n)
  PROVE  /\ InPlace(w \o c) /\ Due(w \o c, n)
         /\ c # << >> /\ Done(c[Len(c)]) => Due(w \o c, n + 1)
<1> DEFINE v == w \o c
           m == Len(w)
           l == Len(c)
           Aside(p) == ~FromWriter(p) /\ p.r \notin early
<1>1. /\ v \in Seq(Piece) /\ m \in Nat /\ l \in Nat /\ Len(v) = m + l
      /\ \A i \in 1..m : v[i] = w[i]
      /\ \A i \in 1..l : v[m + i] = c[i]
  BY ConcatIs
<1>2. \A i \in 1..l : c[i].r = writers[n] /\ FromWriter(c[i])
  BY StretchIsFromWriter DEF Stretch
<1>3. \A j \in 1..m : Aside(w[j]) =>
        /\ \A k \in j + 1..m : w[j].r < w[k].r
        /\ \A s \in 1..Len(writers) : writers[s] < w[j].r =>
             \E i \in 1..j - 1 : w[i].r = writers[s] /\ Done(w[i])
        /\ \A s \in n..Len(writers) : w[j].r < writers[s]
  BY DEF InPlace, Due
<1>4. \A s \in 1..n - 1 : \E i \in 1..m : w[i].r = writers[s] /\ Done(w[i])
  BY DEF Due
<1>5. n \in n..Len(writers) /\ n \in Nat
  OBVIOUS
<1>6. c # << >> => l \in 1..l
  <2>1. c # << >> => l # 0
    BY EmptySeq
  <2> HIDE DEF l
  <2> QED BY <1>1, <2>1
<1>7. \A i \in 1..Len(v) : i \in 1..m \/ (i > m /\ i - m \in 1..l /\ m + (i - m) = i)
  <2> HIDE DEF v, m, l
  <2> QED BY <1>1
<1>8. \A i \in 1..Len(v) : i > m => v[i].r = writers[n] /\ FromWriter(v[i])
  <2>1. ASSUME NEW i \in 1..Len(v), i > m PROVE v[i].r = writers[n] /\ FromWriter(v[i])
    <3>1. i - m \in 1..l /\ m + (i - m) = i
      <4> HIDE DEF v, m, l
      <4> QED BY <1>1, <1>7, <2>1
    <3>2. v[m + (i - m)] = c[i - m]
      BY <1>1, <3>1, Zenon
    <3> QED BY <1>2, <3>1, <3>2
  <2> QED BY <2>1
<1>9. \A j \in 1..Len(v) : Aside(v[j]) => j \in 1..m /\ v[j] = w[j]
  BY <1>1, <1>7, <1>8
<1>10. \A i \in 1..m : i \in 1..Len(v)
  <2> HIDE DEF v, m, l
  <2> QED BY <1>1
<1> HIDE DEF v, m, l, Aside
<1>11. ASSUME NEW j \in 1..Len(v), Aside(v[j])
       PROVE  /\ \A k \in j + 1..Len(v) : v[j].r < v[k].r
              /\ \A s \in 1..Len(writers) : writers[s] < v[j].r =>
                   \E i \in 1..j - 1 : v[i].r = writers[s] /\ Done(v[i])
              /\ \A s \in n..Len(writers) : v[j].r < writers[s]
  <2>1. j \in 1..m /\ v[j] = w[j] /\ Aside(w[j])
    BY <1>9, <1>11
  <2>2. ASSUME NEW k \in j + 1..Len(v) PROVE v[j].r < v[k].r
    <3>1. k \in 1..Len(v) /\ (k \in j + 1..m \/ k > m)
      BY <1>1, <2>1, <2>2
    <3>2. CASE k \in j + 1..m
      BY <1>1, <1>3, <2>1, <3>2
    <3>3. CASE k > m
      BY <1>3, <1>5, <1>8, <2>1, <3>1, <3>3
    <3> QED BY <3>1, <3>2, <3>3
  <2>3. ASSUME NEW s \in 1..Len(writers), writers[s] < v[j].r
        PROVE  \E i \in 1..j - 1 : v[i].r = writers[s] /\ Done(v[i])
    <3>1. PICK i \in 1..j - 1 : w[i].r = writers[s] /\ Done(w[i])
      BY <1>3, <2>1, <2>3
    <3>2. v[i] = w[i]
      BY <1>1, <2>1
    <3> QED BY <3>1, <3>2
  <2>4. \A s \in n..Len(writers) : v[j].r < writers[s]
    BY <1>3, <2>1
  <2> QED BY <2>2, <2>3, <2>4
<1>12. ASSUME NEW s \in 1..n - 1 PROVE \E i \in 1..Len(v) : v[i].r = writers[s] /\ Done(v[i])
  <2>1. PICK i \in 1..m : w[i].r = writers[s] /\ Done(w[i])
    BY <1>4
  <2> QED BY <1>1, <1>10, <2>1
<1>13. InPlace(v)
  BY <1>11, Zenon DEF InPlace, Aside
<1>14. Due(v, n)
  BY <1>11, <1>12, Zenon DEF Due, Aside
<1>15. ASSUME c # << >>, Done(c[l]) PROVE Due(v, n + 1)
  <2>1. ASSUME NEW s \in 1..n + 1 - 1 PROVE \E i \in 1..Len(v) : v[i].r = writers[s] /\ Done(v[i])
    <3>1. CASE s = n
      <4>1. l \in 1..l /\ m + l \in 1..Len(v)
        BY <1>1, <1>6, <1>15
      <4>2. v[m + l] = c[l] /\ c[l].r = writers[n]
        BY <1>1, <1>2, <4>1, Zenon
      <4> QED BY <1>15, <3>1, <4>1, <4>2
    <3>2. CASE s # n
      <4>1. s \in 1..n - 1
        BY <1>5, <3>2
      <4> QED BY <1>12, <4>1
    <3> QED BY <3>1, <3>2
  <2>2. \A s \in n + 1..Len(writers) : s \in n..Len(writers)
    BY <1>5
  <2>3. \A j \in 1..Len(v) : Aside(v[j]) => \A s \in n + 1..Len(writers) : v[j].r < writers[s]
    BY <1>11, <2>2
  <2>4. n + 1 - 1 = n
    BY <1>5
  <2> HIDE DEF Aside
  <2>5. \A j \in 1..Len(v) : ~FromWriter(v[j]) /\ v[j].r \notin early =>
          \A s \in n + 1..Len(writers) : v[j].r < writers[s]
    BY <2>3, Zenon DEF Aside
  <2> QED BY <2>1, <2>5 DEF Due
<1> QED BY <1>13, <1>14, <1>15 DEF v, l

\* Whether the next response has begun.
LEMMA BegunIs ==
  ASSUME NumberInv, NEW w, NEW n \in 1..Len(writers) + 1, Len(writers) \in Nat, NEW b \in BOOLEAN,
         b => n <= Len(writers), Stage(w, n, b)
  PROVE  (Begun(w, n) <=> b) /\ Stage(w, n, Begun(w, n))
<1>1. CASE b
  <2>1. Begun(w, n)
    BY <1>1 DEF Stage, Begun
  <2> QED BY <1>1, <2>1 DEF Stage
<1>2. CASE ~b
  <2>1. ASSUME n <= Len(writers), NEW i \in 1..Len(w), w[i].r = writers[n] PROVE FALSE
    <3>1. n \in 1..Len(writers)
      BY <2>1
    <3>2. FromWriter(w[i])
      BY <2>1, <3>1 DEF NumberInv, FromWriter, Request
    <3>3. PICK s \in 1..Len(writers) : w[i].r = writers[s] /\ s < n
      BY <1>2, <3>2 DEF Stage
    <3>4. s = n
      BY <2>1, <3>1, <3>3 DEF NumberInv
    <3> QED BY <3>3, <3>4
  <2>2. ~Begun(w, n)
    BY <2>1 DEF Begun
  <2> QED BY <1>2, <2>2 DEF Stage
<1> QED BY <1>1, <1>2

-----------------------------------------------------------------------------
(* flush_ready_responses: what it completes, and what it sends.            *)

\* The flush completes the next m responses, only the last of which can close; the
\* response after them is not finished.
CompletesNext(m) ==
  /\ next + m <= Len(writers) + 1
  /\ Completed = next..next + m - 1 /\ Cardinality(Completed) = m
  /\ \A s \in next..next + m - 1 : pending[s].finished /\ (s < next + m - 1 => ~pending[s].close)
  /\ next + m <= Len(writers) /\ (\A s \in next..next + m - 1 : ~pending[s].close) =>
       ~pending[next + m].finished

\* What flush_ready_responses completes is a stretch of the numbers, from next_to_send on.
LEMMA CompletedIs ==
  ASSUME TypeOK
  PROVE  \E m \in Nat : CompletesNext(m)
<1> DEFINE L == Len(writers)
           C == Completed
           In(s) == \A j \in next..s : pending[j].finished /\ (j < s => ~pending[j].close)
<1>1. L \in Nat /\ next \in 1..L + 1
  BY LenProperties DEF TypeOK
<1>2. C = {s \in next..L : In(s)}
  BY DEF Completed
<1> HIDE DEF L, C
<1>3. PICK a \in next..L + 1 : a \notin C /\ \A v \in next..L + 1 : v \notin C => a <= v
  <2> DEFINE S == {v \in next..L + 1 : v \notin C}
  <2>1. S \in SUBSET Nat /\ S # {}
    <3>1. L + 1 \notin C /\ L + 1 \in next..L + 1
      BY <1>1, <1>2
    <3> QED BY <1>1, <3>1
  <2>2. PICK a \in S : \A v \in S : a <= v
    BY <2>1, LeastOf
  <2> QED BY <2>2
<1> DEFINE m == a - next
<1>4. m \in Nat /\ next + m = a /\ next + m - 1 = a - 1 /\ a \in Nat /\ a <= L + 1 /\ next \in Nat
  BY <1>1, <1>3
<1>5. C = next..a - 1
  <2>1. \A s \in next..a - 1 : s \in C
    BY <1>1, <1>3, <1>4
  <2>2. ASSUME NEW s \in C, ~(s \in next..a - 1) PROVE FALSE
    <3>1. s \in next..L /\ In(s) /\ s >= a
      BY <1>1, <1>2, <1>4, <2>2
    <3>2. a \in next..L /\ \A j \in next..a : j \in next..s /\ (j < a => j < s)
      BY <1>1, <1>3, <1>4, <3>1
    <3>3. In(a)
      BY <3>1, <3>2
    <3> QED BY <1>2, <1>3, <3>2, <3>3
  <2> QED BY <2>1, <2>2
<1>6. Cardinality(C) = m
  <2>1. next \in Int /\ a - 1 \in Int
    BY <1>4
  <2>2. Cardinality(next..a - 1) = IF next > a - 1 THEN 0 ELSE a - 1 - next + 1
    BY <2>1, FS_Interval
  <2> QED BY <1>3, <1>4, <1>5, <2>2
<1>7. ASSUME NEW s \in next..a - 1
      PROVE  pending[s].finished /\ (s < a - 1 => ~pending[s].close)
  <2>1. a - 1 \in next..a - 1 /\ s \in next..a - 1
    BY <1>4, <1>7
  <2>2. In(a - 1)
    BY <1>2, <1>5, <2>1
  <2> QED BY <2>1, <2>2
<1>8. ASSUME a <= L, \A s \in next..a - 1 : ~pending[s].close PROVE ~pending[a].finished
  <2>1. SUFFICES ASSUME pending[a].finished PROVE FALSE
    OBVIOUS
  <2>2. a \in next..L
    BY <1>3, <1>4, <1>8
  <2>3. ASSUME NEW j \in next..a PROVE pending[j].finished /\ (j < a => ~pending[j].close)
    <3>1. j = a \/ j \in next..a - 1
      BY <1>4, <2>3
    <3> QED BY <1>4, <1>7, <1>8, <2>1, <3>1
  <2> QED BY <1>2, <1>3, <2>2, <2>3
<1>9. CompletesNext(m)
  BY <1>3, <1>4, <1>5, <1>6, <1>7, <1>8 DEF CompletesNext, C, L
<1> QED BY <1>4, <1>9

\* What send() has taken, with the responses before n's whole.
Fine(w, n, b) ==
  /\ w \in Seq(Piece) /\ Known(w) /\ Ordered(w) /\ ClosesLast(w)
  /\ Stage(w, n, b) /\ InPlace(w) /\ Due(w, n)

\* One entry is sent: the response goes on, or it is whole and the next one is due.
LEMMA SendOne ==
  ASSUME TypeOK, NumberInv, NEW s \in 1..Len(writers), NEW w, NEW b \in BOOLEAN,
         Fine(w, s, b), Closing(w, s), Entry(pending[s], s, b)
  PROVE  LET v == w \o pending[s].chunks
         IN  /\ pending[s].finished => Fine(v, s + 1, FALSE)
             /\ pending[s].finished /\ ~pending[s].close => Closing(v, s + 1)
             /\ ~pending[s].finished => \E d \in BOOLEAN :
                  Fine(v, s, d) /\ Closing(v, s) /\ (d <=> writeState[s] # 0)
<1> DEFINE c == pending[s].chunks
           v == w \o c
<1>1. Len(writers) \in Nat /\ s \in Slots /\ s + 1 \in Nat
  BY LenProperties, ResponsesAssumption DEF TypeOK, Slots
<1>2. pending[s] \in Response /\ c \in Seq(Piece) /\ w \in Seq(Piece)
  <2>1. pending[s] \in Response
    BY <1>1 DEF TypeOK
  <2> QED BY <2>1 DEF Response, Fine
<1>3. Stretch(c, s, b)
  BY DEF Entry, Shaped
<1>4. v \in Seq(Piece) /\ Ordered(v) /\ ClosesLast(v)
  <2>1. v \in Seq(Piece)
    BY <1>2, ConcatIs
  <2>2. Ordered(v)
    BY <1>1, <1>2, <1>3, OrderedExtends DEF Fine
  <2>3. ClosesLast(v)
    BY <1>2, <1>3, ClosesExtends DEF Fine
  <2> QED BY <2>1, <2>2, <2>3
<1>5. Known(v)
  <2> DEFINE m == Len(w)
             l == Len(c)
  <2>1. /\ m \in Nat /\ l \in Nat /\ Len(v) = m + l
        /\ \A i \in 1..m : v[i] = w[i]
        /\ \A i \in 1..l : v[m + i] = c[i]
    BY <1>2, ConcatIs
  <2>2. \A i \in 1..l : c[i].r \in 1..Len(requests)
    BY <1>3 DEF Stretch, NumberInv
  <2>3. \A i \in 1..m : w[i].r \in 1..Len(requests)
    BY DEF Fine, Known
  <2>4. ASSUME NEW i \in 1..Len(v) PROVE v[i].r \in 1..Len(requests)
    <3>1. i \in 1..m \/ (i - m \in 1..l /\ m + (i - m) = i)
      <4> HIDE DEF m, l, v
      <4> QED BY <2>1, <2>4
    <3>2. CASE i \in 1..m
      BY <2>1, <2>3, <3>2
    <3>3. CASE i - m \in 1..l /\ m + (i - m) = i
      <4>1. v[m + (i - m)] = c[i - m]
        BY <2>1, <3>3, Zenon
      <4> QED BY <2>2, <3>3, <4>1
    <3> QED BY <3>1, <3>2, <3>3
  <2> QED BY <2>4 DEF Known
<1>6. \A i \in 1..Len(c) : c[i].close => pending[s].close
  BY DEF Entry, Shaped
<1>7. Closing(v, s) /\ (~pending[s].close => Closing(v, s + 1))
  BY <1>1, <1>2, <1>3, <1>6, ClosingExtends
<1>8. Stage(w, s, b) /\ InPlace(w) /\ Due(w, s)
  BY DEF Fine
<1>9. ASSUME pending[s].finished PROVE Stage(v, s + 1, FALSE) /\ Due(v, s + 1)
  <2>1. c # << >> /\ Done(c[Len(c)])
    BY <1>9 DEF Entry, Shaped
  <2>2. Stage(v, s + 1, FALSE)
    BY <1>1, <1>2, <1>3, <1>8, <2>1, StageExtends
  <2>3. Due(v, s + 1)
    BY <1>1, <1>2, <1>3, <1>8, <2>1, DueExtends
  <2> QED BY <2>2, <2>3
<1>9a. InPlace(v) /\ Due(v, s)
  BY <1>1, <1>2, <1>3, <1>8, DueExtends
<1>10. ASSUME ~pending[s].finished
       PROVE  \E d \in BOOLEAN : Stage(v, s, d) /\ (d <=> writeState[s] # 0)
  <2>1. CASE c = << >>
    <3>1. v = w
      BY <1>2, <2>1, ConcatEmptySeq
    <3>2. b <=> writeState[s] # 0
      BY <2>1 DEF Entry, Shaped
    <3> QED BY <1>8, <3>1, <3>2
  <2>2. CASE c # << >>
    <3>1. GoesOn(c[Len(c)]) /\ writeState[s] # 0
      BY <1>10, <2>2 DEF Entry, Shaped, None
    <3>2. Stage(v, s, TRUE)
      BY <1>1, <1>2, <1>3, <1>8, <2>2, <3>1, StageExtends
    <3> QED BY <3>1, <3>2
  <2> QED BY <2>1, <2>2
<1> HIDE DEF v
<1>11. pending[s].finished => Fine(v, s + 1, FALSE)
  BY <1>4, <1>5, <1>9, <1>9a DEF Fine
<1>12. ~pending[s].finished => \E d \in BOOLEAN : Fine(v, s, d) /\ Closing(v, s) /\ (d <=> writeState[s] # 0)
  BY <1>4, <1>5, <1>7, <1>9a, <1>10 DEF Fine
<1> QED BY <1>7, <1>11, <1>12 DEF v

\* w and the first k sequences that g joins.
So(w, g, k) == IF k = 0 THEN w ELSE w \o g[k]

\* How one more sequence is joined.
LEMMA JoinsStep ==
  ASSUME NEW q, NEW t, NEW g, Joins(q, t, g), NEW k \in Nat, k + 1 \in 1..t
  PROVE  /\ k = 0 => g[k + 1] = q[k + 1]
         /\ k # 0 => g[k + 1] = g[k] \o q[k + 1]
<1>1. \A i \in 1..t : g[i] = IF i = 1 THEN q[i] ELSE g[i - 1] \o q[i]
  BY Zenon DEF Joins
<1> DEFINE j == k + 1
<1>2. j - 1 = k /\ (j = 1 <=> k = 0) /\ j \in 1..t
  OBVIOUS
<1> HIDE DEF j
<1>3. g[j] = IF j = 1 THEN q[j] ELSE g[j - 1] \o q[j]
  BY <1>1, <1>2, Zenon
<1>4. (k = 0 => g[j] = q[j]) /\ (k # 0 => g[j] = g[k] \o q[j])
  BY <1>2, <1>3, Zenon
<1> QED BY <1>4 DEF j

\* The sequences of q are stretches of pieces.
Parts(q, t) == \A i \in 1..t : q[i] \in Seq(Piece)

\* The pieces are sent one entry after the other, though send() gets them joined.
LEMMA JoinedOn ==
  ASSUME NEW w \in Seq(Piece), NEW q, NEW t \in Nat, NEW g, Joins(q, t, g),
         Parts(q, t)
  PROVE  /\ \A k \in 1..t : g[k] \in Seq(Piece)
         /\ \A k \in 0..t - 1 : So(w, g, k + 1) = So(w, g, k) \o q[k + 1]
<1>1. \A k \in Nat : k + 1 \in 1..t => (k = 0 => g[k + 1] = q[k + 1])
                                       /\ (k # 0 => g[k + 1] = g[k] \o q[k + 1])
  BY JoinsStep, Zenon
<1>a. \A i \in 1..t : q[i] \in Seq(Piece)
  BY DEF Parts
<1> DEFINE T == {k \in Nat : k \in 1..t => g[k] \in Seq(Piece)}
<1>2. 0 \in T
  OBVIOUS
<1>3. ASSUME NEW k \in Nat, k \in T PROVE k + 1 \in T
  <2>1. SUFFICES ASSUME k + 1 \in 1..t PROVE g[k + 1] \in Seq(Piece)
    OBVIOUS
  <2>2. CASE k = 0
    BY <1>1, <1>a, <2>1, <2>2
  <2>3. CASE k # 0
    <3>1. k \in 1..t /\ k + 1 # 1 /\ k + 1 - 1 = k
      BY <2>1, <2>3
    <3>2. g[k + 1] = g[k] \o q[k + 1]
      BY <2>1, <2>3, <3>1, JoinsStep, Zenon
    <3>3. g[k] \in Seq(Piece) /\ q[k + 1] \in Seq(Piece)
      BY <1>3, <1>a, <2>1, <3>1
    <3>4. g[k] \o q[k + 1] \in Seq(Piece)
      BY <3>3, ConcatProperties
    <3> QED BY <3>1, <3>2, <3>4
  <2> QED BY <2>2, <2>3
<1> HIDE DEF T
<1>4. \A k \in Nat : k \in T
  BY <1>2, <1>3, Climb
<1>5. \A k \in 1..t : g[k] \in Seq(Piece)
  BY <1>4 DEF T
<1>6. ASSUME NEW k \in 0..t - 1 PROVE So(w, g, k + 1) = So(w, g, k) \o q[k + 1]
  <2>1. k + 1 \in 1..t /\ k + 1 # 0
    OBVIOUS
  <2>2. CASE k = 0
    <3>1. g[k + 1] = q[k + 1]
      BY <1>1, <2>1, <2>2
    <3> QED BY <2>1, <2>2, <3>1 DEF So
  <2>3. CASE k # 0
    <3>1. k \in 1..t /\ k \in Nat
      BY <2>3
    <3>2. g[k + 1] = g[k] \o q[k + 1]
      BY <2>1, <2>3, <3>1, JoinsStep, Zenon
    <3>3. g[k] \in Seq(Piece) /\ q[k + 1] \in Seq(Piece)
      BY <1>5, <1>a, <2>1, <3>1
    <3> DEFINE e == g[k]
               f == q[k + 1]
    <3> HIDE DEF e, f
    <3>a. e \in Seq(Piece) /\ f \in Seq(Piece)
      BY <3>3, Zenon DEF e, f
    <3>b. (w \o e) \o f = w \o (e \o f)
      BY <3>a, ConcatAssociative
    <3>4. (w \o g[k]) \o q[k + 1] = w \o (g[k] \o q[k + 1])
      BY <3>b, Zenon DEF e, f
    <3> QED BY <2>1, <2>3, <3>1, <3>2, <3>4, Zenon DEF So
  <2> QED BY <2>2, <2>3
<1> QED BY <1>5, <1>6

\* The first k of the m responses that are completed have been sent.
Upto(w, k, m) ==
  \E d \in BOOLEAN :
    /\ d <=> (k = 0 /\ Begun(wire, next))
    /\ Fine(w, next + k, d)
    /\ k < m \/ (\A s \in next..next + m - 1 : ~pending[s].close) => Closing(w, next + k)

\* flush_ready_responses sends what it completes in order.
LEMMA Sending ==
  ASSUME TypeOK, NumberInv, ResponsesInOrder, OpenInv, NEW m \in Nat, CompletesNext(m),
         NEW q, NEW t \in Nat, m <= t, NEW g, Joins(q, t, g),
         Parts(q, t),
         \A i \in 1..m : q[i] = pending[next + i - 1].chunks
  PROVE  Upto(So(wire, g, m), m, m)
<1> DEFINE L == Len(writers)
           KeepsOn == \A s \in next..next + m - 1 : ~pending[s].close
<1>1. L \in Nat /\ next \in 1..L + 1 /\ wire \in Seq(Piece) /\ next \in Nat
  <2>1. L \in Nat /\ next \in 1..L + 1 /\ wire \in Seq(Piece)
    BY LenProperties DEF TypeOK
  <2> QED BY <2>1
<1>2. /\ next + m <= L + 1
      /\ \A s \in next..next + m - 1 : pending[s].finished /\ (s < next + m - 1 => ~pending[s].close)
  BY DEF CompletesNext
<1>3. \A k \in 0..t - 1 : So(wire, g, k + 1) = So(wire, g, k) \o q[k + 1]
  <2>1. wire \in Seq(Piece) /\ t \in Nat /\ Parts(q, t) /\ Joins(q, t, g)
    BY <1>1
  <2>2. /\ \A k \in 1..t : g[k] \in Seq(Piece)
        /\ \A k \in 0..t - 1 : So(wire, g, k + 1) = So(wire, g, k) \o q[k + 1]
    BY ONLY <2>1, JoinedOn, Zenon
  <2> QED BY <2>2
<1> DEFINE T == {k \in Nat : k <= m => Upto(So(wire, g, k), k, m)}
<1>4. 0 \in T
  <2> DEFINE d == Begun(wire, next)
  <2>1. d \in BOOLEAN /\ So(wire, g, 0) = wire /\ next + 0 = next
    BY <1>1 DEF Begun, So
  <2>2. Fine(wire, next, d) /\ Closing(wire, next)
    BY <1>1 DEF Fine, OpenInv, NumberInv, ResponsesInOrder, OrderedAndWhole, CloseIsLast
  <2> HIDE DEF d
  <2>3. Upto(wire, 0, m)
    BY <2>1, <2>2 DEF Upto, d
  <2> QED BY <2>1, <2>3
<1>5. ASSUME NEW k \in Nat, k \in T PROVE k + 1 \in T
  <2>1. SUFFICES ASSUME k + 1 <= m PROVE Upto(So(wire, g, k + 1), k + 1, m)
    OBVIOUS
  <2> DEFINE s == next + k
             w == So(wire, g, k)
             v == So(wire, g, k + 1)
  <2>2. /\ k \in 0..t - 1 /\ k + 1 \in 1..m /\ k < m /\ k <= m /\ s \in next..next + m - 1
        /\ s \in 1..L /\ next + (k + 1) - 1 = s /\ next + (k + 1) = s + 1 /\ k + 1 # 0
        /\ s < next + m - 1 <=> k + 1 < m
        /\ s = next <=> k = 0
        /\ s \in next..L
    BY <1>1, <1>2, <2>1
  <2>3. v = w \o pending[s].chunks
    <3>1. v = w \o q[k + 1]
      BY <1>3, <2>2
    <3> QED BY <2>2, <3>1
  <2>4. Upto(w, k, m)
    BY <1>5, <2>2
  <2>5. PICK d \in BOOLEAN : (d <=> (k = 0 /\ Begun(wire, next))) /\ Fine(w, s, d) /\ Closing(w, s)
    BY <2>2, <2>4 DEF Upto
  <2>6. Entry(pending[s], s, s = next /\ Begun(wire, next))
    BY <2>2 DEF OpenInv
  <2>7. Entry(pending[s], s, d)
    BY <2>2, <2>5, <2>6 DEF Entry, Shaped, Stretch
  <2>8. pending[s].finished /\ (k + 1 < m => ~pending[s].close) /\ (KeepsOn => ~pending[s].close)
    BY <1>2, <2>2
  <2> HIDE DEF s, w, v, L, KeepsOn
  <2>9. Fine(v, s + 1, FALSE) /\ (~pending[s].close => Closing(v, s + 1))
    BY <2>2, <2>3, <2>5, <2>7, <2>8, SendOne DEF L
  <2>10. Upto(v, k + 1, m)
    <3>1. FALSE <=> (k + 1 = 0 /\ Begun(wire, next))
      BY <2>2
    <3>2. Fine(v, next + (k + 1), FALSE)
      BY <2>2, <2>9
    <3>3. k + 1 < m \/ KeepsOn => Closing(v, next + (k + 1))
      BY <2>2, <2>8, <2>9
    <3> QED BY <3>1, <3>2, <3>3 DEF Upto, KeepsOn
  <2> QED BY <2>10 DEF v
<1> HIDE DEF T
<1>6. \A k \in Nat : k \in T
  BY <1>4, <1>5, Climb
<1>7. m \in T /\ m <= m
  BY <1>6
<1> QED BY <1>7 DEF T

\* A flush that completes m responses sends the t sequences of q.
Flushes(m, t, q) ==
  LET closing == \E s \in next..next + m - 1 : pending[s].close
  IN  /\ t = IF closing \/ next + m > MaxWriters THEN m ELSE m + 1
      /\ next' = next + m /\ closed' = closing
      /\ q \in Seq(Seq(Piece)) /\ Len(q) = t
      /\ \A i \in 1..t : q[i] = pending[next + i - 1].chunks
      /\ pending' = [s \in Slots |->
                       IF s \in next..next + m - 1 THEN None
                       ELSE IF s = next + m /\ t = m + 1 THEN [pending[s] EXCEPT !.chunks = << >>]
                       ELSE pending[s]]
      /\ Send(FlattenSeq(q)) /\ ShutdownIf(closing)

\* flush_ready_responses takes a stretch of the entries.
LEMMA FlushTakes ==
  ASSUME TypeOK, FlushReadyResponses, NEW m \in Nat, CompletesNext(m)
  PROVE  \E t \in Nat : \E q : Flushes(m, t, q)
<1> DEFINE C == next..next + m - 1
           closing == \E s \in C : pending[s].close
           after == next + Cardinality(Completed)
           taken == IF (\E s \in Completed : pending[s].close) \/ after > MaxWriters
                    THEN Completed ELSE Completed \cup {after}
           t == IF closing \/ next + m > MaxWriters THEN m ELSE m + 1
           q == [i \in 1..t |-> pending[next + i - 1].chunks]
<1>1. Completed = C /\ after = next + m
  BY DEF CompletesNext
<1>2. /\ next \in Nat /\ next >= 1 /\ next + m <= MaxWriters + 1 /\ MaxWriters \in Nat /\ t \in Nat
      /\ t \in {m, m + 1}
  <2>1. Len(writers) \in Nat /\ next \in 1..Len(writers) + 1 /\ Len(writers) <= MaxWriters
    BY LenProperties DEF TypeOK
  <2> QED BY <2>1, ResponsesAssumption DEF CompletesNext
<1>3. taken = next..next + t - 1
  <2>1. taken = IF closing \/ next + m > MaxWriters THEN C ELSE C \cup {next + m}
    BY <1>1
  <2>2. next..next + (m + 1) - 1 = C \cup {next + m}
    BY <1>2
  <2> QED BY <2>1, <2>2
<1>4. Cardinality(taken) = t
  <2> HIDE DEF t, taken
  <2> DEFINE u == next + t - 1
  <2>1. next \in Int /\ u \in Int /\ u - next + 1 = t /\ (next > u <=> t = 0)
    BY <1>2
  <2> HIDE DEF u
  <2>2. Cardinality(next..u) = IF next > u THEN 0 ELSE u - next + 1
    BY <2>1, FS_Interval
  <2> QED BY <1>3, <2>1, <2>2 DEF u
<1>5. /\ pending' = [s \in Slots |->
                       IF s \in Completed THEN None
                       ELSE IF s \in taken THEN [pending[s] EXCEPT !.chunks = << >>]
                       ELSE pending[s]]
      /\ next' = next + m /\ closed' = closing
      /\ Send(FlattenSeq([i \in 1..Cardinality(taken) |-> pending[next + i - 1].chunks]))
      /\ ShutdownIf(closing)
  <2> HIDE DEF t, q
  <2> QED BY <1>1, Zenon DEF FlushReadyResponses
<1>6. Send(FlattenSeq(q))
  <2>1. q = [i \in 1..Cardinality(taken) |-> pending[next + i - 1].chunks]
    BY <1>4, Zenon
  <2> QED BY <1>5, <2>1, Zenon
<1>7. q \in Seq(Seq(Piece)) /\ Len(q) = t /\ \A i \in 1..t : q[i] = pending[next + i - 1].chunks
  <2>1. ASSUME NEW i \in 1..t PROVE pending[next + i - 1].chunks \in Seq(Piece)
    <3>1. next + i - 1 \in Slots
      BY <1>2 DEF Slots
    <3>2. pending[next + i - 1] \in Response
      BY <3>1 DEF TypeOK
    <3> QED BY <3>2 DEF Response
  <2> HIDE DEF t
  <2>2. q \in [1..t -> Seq(Piece)] /\ \A i \in 1..t : q[i] = pending[next + i - 1].chunks
    BY <2>1
  <2> HIDE DEF q
  <2>3. q \in Seq(Seq(Piece)) /\ Len(q) = t
    BY <1>2, <2>2
  <2> QED BY <2>2, <2>3
<1>8. pending' = [s \in Slots |->
                    IF s \in C THEN None
                    ELSE IF s = next + m /\ t = m + 1 THEN [pending[s] EXCEPT !.chunks = << >>]
                    ELSE pending[s]]
  <2> HIDE DEF taken, t, q
  <2>1. ASSUME NEW s \in Slots PROVE s \in taken /\ s \notin C <=> s = next + m /\ t = m + 1
    BY <1>2, <1>3 DEF Slots
  <2> HIDE DEF C
  <2> QED BY <1>1, <1>5, <2>1
<1> HIDE DEF q
<1>9. Flushes(m, t, q)
  BY <1>5, <1>6, <1>7, <1>8, Zenon DEF Flushes
<1> QED BY <1>2, <1>9

\* send() gets the t sequences joined.
LEMMA FlattenSo ==
  ASSUME NEW w \in Seq(Piece), NEW q \in Seq(Seq(Piece))
  PROVE  /\ Parts(q, Len(q)) /\ FlattenSeq(q) \in Seq(Piece)
         /\ \E g : Joins(q, Len(q), g) /\ w \o FlattenSeq(q) = So(w, g, Len(q))
<1>1. Len(q) \in Nat /\ Parts(q, Len(q))
  BY LenProperties DEF Parts
<1>2. CASE Len(q) = 0
  <2>1. q = << >>
    BY <1>2, EmptySeq
  <2>2. FlattenSeq(q) = << >>
    BY <1>2, <2>1, Zenon DEF FlattenSeq
  <2>3. w \o << >> = w /\ << >> \in Seq(Piece)
    BY ConcatEmptySeq, EmptySeq
  <2>4. PICK g : Joins(q, Len(q), g)
    BY <1>1, JoinsExist
  <2>5. w \o FlattenSeq(q) = So(w, g, Len(q))
    BY <1>2, <2>2, <2>3, Zenon DEF So
  <2> QED BY <1>1, <2>2, <2>3, <2>4, <2>5, Zenon
<1>3. CASE Len(q) # 0
  <2>1. Len(q) \in Nat \ {0} /\ Len(q) \in 1..Len(q)
    BY <1>1, <1>3
  <2>2. PICK g : Joins(q, Len(q), g) /\ FlattenSeq(q) = g[Len(q)]
    BY <2>1, FlattenIs
  <2>3. \A k \in 1..Len(q) : g[k] \in Seq(Piece)
    BY <1>1, <2>2, JoinedOn
  <2>4. w \o FlattenSeq(q) = So(w, g, Len(q))
    BY <1>3, <2>2, Zenon DEF So
  <2> QED BY <1>1, <2>1, <2>2, <2>3, <2>4, Zenon
<1> QED BY <1>2, <1>3

-----------------------------------------------------------------------------
(* The steps.                                                              *)

\* A step that brings no request leaves what is said of the pieces sent as it was.
LEMMA OrderSame ==
  ASSUME requests' = requests, writers' = writers, early' = early, conn' # "connected" \/ ~closed',
         Ordered(wire'), ClosesLast(wire'), InPlace(wire'), Known(wire')
  PROVE  ResponsesInOrder' /\ Known(wire)'
<1>1. Ordered(wire)'
  BY DEF Ordered, FromWriter, Follows, Opens, Done, Ends, Surplus, GoesOn
<1>2. ClosesLast(wire)'
  BY DEF ClosesLast, FromWriter
<1>3. Known(wire)'
  BY DEF Known
<1>4. InPlace(wire)'
  BY DEF InPlace, FromWriter, Done, Ends, Surplus, Opens
<1> QED BY <1>1, <1>2, <1>3, <1>4 DEF ResponsesInOrder, OrderedAndWhole, CloseIsLast

\* Nor does it change where the responses stand.
LEMMA StageSame ==
  ASSUME requests' = requests, writers' = writers, NEW d \in BOOLEAN, Stage(wire', next', d),
         Begun(wire', next') <=> d
  PROVE  Stage(wire, next, Begun(wire, next))' /\ (Begun(wire, next)' <=> d)
<1>1. Begun(wire, next)' <=> d
  BY DEF Begun
<1>2. CASE d
  BY <1>1, <1>2 DEF Stage, LastOf, FromWriter, Done, Ends, Surplus, Opens, GoesOn
<1>3. CASE ~d
  BY <1>1, <1>3 DEF Stage, LastOf, FromWriter, Done, Ends, Surplus, Opens, GoesOn
<1> QED BY <1>1, <1>2, <1>3

\* Nor which responses are due.
LEMMA DueSame ==
  ASSUME requests' = requests, writers' = writers, early' = early, Due(wire', next')
  PROVE  Due(wire, next)'
BY DEF Due, FromWriter, Done, Ends, Surplus, Opens

\* How things stand after a flush that shuts nothing down: the responses before n's are
\* whole, and n's entry, if there is one, has been emptied.
Emptied(n) ==
  \E d \in BOOLEAN :
    /\ Fine(wire', n, d) /\ Closing(wire', n)
    /\ n <= Len(writers) => (d <=> writeState[n] # 0) /\ ~pending[n].finished
                            /\ pending'[n] = [pending[n] EXCEPT !.chunks = << >>]
    /\ n > Len(writers) => ~d

\* What a flush sends keeps the order, and leaves the connection where it says.
LEMMA FlushSends ==
  ASSUME TypeOK, NumberInv, FreshInv, ResponsesInOrder, OpenInv, conn = "connected",
         NEW m \in Nat, CompletesNext(m), NEW t \in Nat, NEW q, Flushes(m, t, q)
  PROVE  /\ \E n, d : Fine(wire', n, d)
         /\ (\A s \in next..next + m - 1 : ~pending[s].close) => Emptied(next + m)
<1> DEFINE L == Len(writers)
           n == next + m
           KeepsOn == \A s \in next..next + m - 1 : ~pending[s].close
<1>1. /\ L \in Nat /\ next \in 1..L + 1 /\ wire \in Seq(Piece) /\ L <= MaxWriters
      /\ MaxWriters \in Nat /\ n <= L + 1 /\ n \in 1..L + 1
  <2>1. L \in Nat /\ next \in 1..L + 1 /\ wire \in Seq(Piece) /\ L <= MaxWriters
    BY LenProperties DEF TypeOK
  <2>2. next + m <= L + 1
    BY DEF CompletesNext
  <2> QED BY <2>1, <2>2, ResponsesAssumption
<1>2. /\ t = IF ~KeepsOn \/ n > MaxWriters THEN m ELSE m + 1
      /\ q \in Seq(Seq(Piece)) /\ Len(q) = t
      /\ \A i \in 1..t : q[i] = pending[next + i - 1].chunks
      /\ wire' = wire \o FlattenSeq(q)
      /\ pending' = [s \in Slots |->
                       IF s \in next..next + m - 1 THEN None
                       ELSE IF s = next + m /\ t = m + 1 THEN [pending[s] EXCEPT !.chunks = << >>]
                       ELSE pending[s]]
  BY DEF Flushes, Send
<1>3. PICK g : Joins(q, t, g) /\ wire' = So(wire, g, t) /\ Parts(q, t)
  <2>1. wire \in Seq(Piece) /\ q \in Seq(Seq(Piece))
    BY <1>1, <1>2
  <2>2. /\ Parts(q, Len(q))
        /\ \E g : Joins(q, Len(q), g) /\ wire \o FlattenSeq(q) = So(wire, g, Len(q))
    BY ONLY <2>1, FlattenSo, Zenon
  <2>3. Len(q) = t /\ wire' = wire \o FlattenSeq(q)
    BY <1>2
  <2> QED BY <2>2, <2>3, Zenon
<1> DEFINE w == So(wire, g, m)
<1>4. Upto(w, m, m)
  <2>1. m <= t /\ \A i \in 1..m : q[i] = pending[next + i - 1].chunks
    BY <1>2
  <2> QED BY <1>3, <2>1, Sending
<1>5. PICK d \in BOOLEAN : /\ d <=> (m = 0 /\ Begun(wire, next))
                           /\ Fine(w, n, d) /\ (KeepsOn => Closing(w, n))
  BY <1>4 DEF Upto
<1>6. n > L => ~d
  BY <1>1, <1>5 DEF Begun
<1>7. CASE t = m
  <2>1. wire' = w
    BY <1>3, <1>7
  <2>2. KeepsOn => n > L
    BY <1>1, <1>2, <1>7
  <2>3. KeepsOn => Emptied(n)
    <3> HIDE DEF w, n, L, KeepsOn
    <3>1. SUFFICES ASSUME KeepsOn PROVE Emptied(n)
      OBVIOUS
    <3>2. Fine(wire', n, d) /\ Closing(wire', n)
      BY <1>5, <2>1, <3>1
    <3>3. n > Len(writers) /\ ~(n <= Len(writers)) /\ ~d
      BY <1>1, <1>6, <2>2, <3>1 DEF L
    <3> QED BY <3>2, <3>3 DEF Emptied
  <2> HIDE DEF w, n, L, KeepsOn
  <2>4. \E k, e : Fine(wire', k, e)
    BY <1>5, <2>1
  <2> QED BY <2>3, <2>4 DEF n, KeepsOn
<1>8. CASE t = m + 1
  <2>1. KeepsOn /\ n <= MaxWriters /\ n \in Slots
    BY <1>1, <1>2, <1>8 DEF Slots
  <2>2. wire' = w \o pending[n].chunks
    <3>1. m \in 0..t - 1 /\ m + 1 \in 1..t /\ next + (m + 1) - 1 = n
      BY <1>1, <1>8
    <3>2. So(wire, g, m + 1) = w \o q[m + 1]
      BY <1>1, <1>3, <3>1, JoinedOn
    <3>3. q[m + 1] = pending[n].chunks
      BY <1>2, <3>1
    <3> QED BY <1>3, <1>8, <3>2, <3>3
  <2>3. pending'[n] = [pending[n] EXCEPT !.chunks = << >>]
    BY <1>1, <1>2, <1>8, <2>1
  <2>4. CASE n <= L
    <3>1. n \in 1..L /\ n \in next..L
      BY <1>1, <2>4
    <3>2. ~pending[n].finished
      BY <2>1, <2>4 DEF CompletesNext
    <3>3. Entry(pending[n], n, n = next /\ Begun(wire, next))
      BY <3>1 DEF OpenInv
    <3>4. Entry(pending[n], n, d)
      <4>1. d <=> (n = next /\ Begun(wire, next))
        BY <1>1, <1>5
      <4> HIDE DEF n
      <4> QED BY <3>3, <4>1 DEF Entry, Shaped, Stretch
    <3>5. Fine(w, n, d) /\ Closing(w, n)
      BY <1>5, <2>1
    <3> HIDE DEF w, n, L, KeepsOn
    <3>6. PICK e \in BOOLEAN : Fine(wire', n, e) /\ Closing(wire', n) /\ (e <=> writeState[n] # 0)
      BY <2>2, <3>1, <3>2, <3>4, <3>5, SendOne DEF L
    <3>7. ~(n > Len(writers))
      BY <1>1, <2>4 DEF L
    <3>8. Emptied(n)
      BY <2>3, <3>2, <3>6, <3>7 DEF Emptied
    <3> QED BY <3>6, <3>8 DEF n
  <2>5. CASE n > L
    <3>1. pending[n].chunks = << >>
      BY <1>1, <2>1, <2>5 DEF FreshInv, None
    <3>2. wire' = w
      <4>1. w \in Seq(Piece)
        BY <1>5 DEF Fine
      <4> QED BY <2>2, <3>1, <4>1, ConcatEmptySeq
    <3>3. Fine(wire', n, d) /\ Closing(wire', n)
      BY <1>5, <2>1, <3>2
    <3> HIDE DEF w, n, L, KeepsOn
    <3>4. n > Len(writers) /\ ~(n <= Len(writers)) /\ ~d
      BY <1>1, <1>6, <2>5 DEF L
    <3>5. Emptied(n)
      BY <3>3, <3>4 DEF Emptied
    <3> QED BY <3>3, <3>5 DEF n
  <2>6. n <= L \/ n > L
    BY <1>1
  <2> QED BY <2>4, <2>5, <2>6
<1> QED BY <1>2, <1>7, <1>8

\* Nor does it change what an entry holds but by the step itself.
LEMMA EntrySame ==
  ASSUME requests' = requests, writers' = writers, NEW s, NEW b \in BOOLEAN,
         Shaped(pending'[s], s, b, writeState'[s]),
         b <=> (s = next /\ Begun(wire, next))'
  PROVE  Entry(pending[s], s, s = next /\ Begun(wire, next))'
<1> DEFINE B == (s = next /\ Begun(wire, next))
<1>1. b <=> B'
  OBVIOUS
<1> HIDE DEF B
<1>2. Entry(pending[s], s, B)'
  BY <1>1 DEF Entry, Shaped, Stretch, Opens, GoesOn, Done, Ends, Surplus
<1> QED BY <1>2 DEF B

\* Flush, while the connection is open and no response has closed it.
LEMMA FlushOpens ==
  ASSUME TypeOK, NumberInv, FreshInv, OpenInv, NEW m \in Nat, CompletesNext(m),
         NEW t \in Nat, NEW q, Flushes(m, t, q),
         requests' = requests, writers' = writers, early' = early, writeState' = writeState,
         Emptied(next + m)
  PROVE  OpenInv'
<1> DEFINE L == Len(writers)
           n == next + m
<1>1. L \in Nat /\ next \in 1..L + 1 /\ n \in 1..L + 1 /\ L <= MaxWriters /\ MaxWriters \in Nat
  <2>1. L \in Nat /\ next \in 1..L + 1 /\ L <= MaxWriters
    BY LenProperties DEF TypeOK
  <2>2. next + m <= L + 1
    BY DEF CompletesNext
  <2> QED BY <2>1, <2>2, ResponsesAssumption
<1>2. /\ next' = n
      /\ pending' = [s \in Slots |->
                       IF s \in next..next + m - 1 THEN None
                       ELSE IF s = next + m /\ t = m + 1 THEN [pending[s] EXCEPT !.chunks = << >>]
                       ELSE pending[s]]
  BY DEF Flushes
<1>3. PICK d \in BOOLEAN :
        /\ Fine(wire', n, d) /\ Closing(wire', n)
        /\ n <= L => (d <=> writeState[n] # 0) /\ ~pending[n].finished
                     /\ pending'[n] = [pending[n] EXCEPT !.chunks = << >>]
        /\ n > L => ~d
  BY DEF Emptied
<1>4. \A s \in n..L : pending[s] \in Response /\ s \in Slots /\ s \in next..L
                      /\ (s # n => s # next /\ pending'[s] = pending[s])
  <2>1. \A s \in n..L : s \in Slots /\ s \in next..L /\ s \notin next..next + m - 1 /\ (s # n => s # next)
    BY <1>1 DEF Slots
  <2> HIDE DEF n
  <2>2. \A s \in n..L : pending[s] \in Response
    BY <2>1 DEF TypeOK
  <2> QED BY <1>2, <2>1, <2>2 DEF n
<1>5. Stage(wire, next, Begun(wire, next))' /\ (Begun(wire, next)' <=> d)
  <2>1. Stage(wire', n, d) /\ (d => n <= L)
    BY <1>1, <1>3 DEF Fine
  <2> HIDE DEF n
  <2>2. Begun(wire', n) <=> d
    BY <1>1, <2>1, BegunIs
  <2> QED BY <1>2, <2>1, <2>2, StageSame
<1>5a. Due(wire, next)'
  <2>1. Due(wire', n)
    BY <1>3 DEF Fine
  <2> HIDE DEF n
  <2> QED BY <1>2, <2>1, DueSame
<1>6. Closing(wire, next)'
  <2>1. ASSUME n <= L PROVE pending'[n].close = pending[n].close
    <3>1. pending[n] \in Response
      BY <1>1, <1>4, <2>1
    <3> QED BY <1>3, <2>1, <3>1 DEF Response
  <2> HIDE DEF n
  <2> QED BY <1>2, <1>3, <2>1 DEF Closing, FromWriter
<1>7. ASSUME NEW s \in next'..Len(writers')
      PROVE  Entry(pending[s], s, s = next /\ Begun(wire, next))'
  <2>1. s \in n..L /\ s \in next..L /\ n \in next..L
    BY <1>1, <1>2
  <2>2. Entry(pending[s], s, s = next /\ Begun(wire, next))
    BY <2>1 DEF OpenInv
  <2>3. CASE s = n
    <3> DEFINE e == pending[n]
    <3>1. e \in Response /\ pending'[n] = [e EXCEPT !.chunks = << >>]
      BY <1>1, <1>3, <1>4, <2>1
    <3> DEFINE f == pending'[n]
    <3>2. f.chunks = << >> /\ f.close = e.close /\ f.finished = e.finished
      BY <3>1 DEF Response
    <3>3. (d <=> writeState[n] # 0) /\ ~e.finished
      BY <1>1, <1>3, <2>1
    <3>4. writeState[n] = 0 => f = None
      <4>1. writeState[n] = 0 => e = None
        BY <2>2, <2>3 DEF Entry, Shaped
      <4> QED BY <3>1, <4>1 DEF None
    <3> HIDE DEF e, f, n, L
    <3>5. Shaped(f, n, d, writeState[n])
      <4>1. Stretch(f.chunks, n, d)
        BY <3>2 DEF Stretch
      <4> QED BY <3>2, <3>3, <3>4, <4>1 DEF Shaped
    <3>6. d <=> (s = next /\ Begun(wire, next))'
      BY <1>2, <1>5, <2>3
    <3> QED BY <2>3, <3>5, <3>6, EntrySame DEF f
  <2>4. CASE s # n
    <3>1. pending'[s] = pending[s] /\ s # next
      BY <1>4, <2>1, <2>4
    <3>2. Shaped(pending'[s], s, FALSE, writeState[s])
      BY <2>2, <3>1 DEF Entry, Shaped, Stretch
    <3>3. FALSE <=> (s = next /\ Begun(wire, next))'
      BY <1>2, <2>4
    <3> QED BY <3>2, <3>3, EntrySame
  <2> QED BY <2>3, <2>4
<1> QED BY <1>5, <1>5a, <1>6, <1>7 DEF OpenInv

\* Flush, when it is not for nothing.
LEMMA FlushKeeps ==
  ASSUME ResponsesInv, ~closed, FlushReadyResponses, flushes' \in Nat,
         UNCHANGED <<requests, writers, handlers, early>>
  PROVE  ResponsesInv'
<1>1. PICK m \in Nat : CompletesNext(m)
  BY CompletedIs DEF ResponsesInv
<1>0. PICK t \in Nat : \E q : Flushes(m, t, q)
  BY <1>1, FlushTakes DEF ResponsesInv
<1>2. PICK q : Flushes(m, t, q)
  BY <1>0
<1> DEFINE closing == \E s \in next..next + m - 1 : pending[s].close
<1>3. /\ next' = next + m /\ closed' = closing
      /\ pending' = [s \in Slots |->
                       IF s \in next..next + m - 1 THEN None
                       ELSE IF s = next + m /\ t = m + 1 THEN [pending[s] EXCEPT !.chunks = << >>]
                       ELSE pending[s]]
      /\ wire' = (IF conn = "connected" THEN wire \o FlattenSeq(q) ELSE wire)
      /\ conn' = IF closing /\ conn = "connected" THEN "disconnecting" ELSE conn
  <2> HIDE DEF closing
  <2> QED BY <1>2 DEF Flushes, Send, ShutdownIf, closing
<1>4. /\ requests' = requests /\ writers' = writers /\ writeState' = writeState
      /\ given' = given /\ posting' = posting /\ early' = early
  BY DEF handlers
<1>5. /\ Len(writers) \in Nat /\ next \in 1..Len(writers) + 1 /\ next + m \in 1..Len(writers) + 1
      /\ Len(writers) <= MaxWriters /\ MaxWriters \in Nat
  <2>1. Len(writers) \in Nat /\ next \in 1..Len(writers) + 1 /\ Len(writers) <= MaxWriters
    BY LenProperties DEF ResponsesInv, TypeOK
  <2>2. next + m <= Len(writers) + 1
    BY <1>1 DEF CompletesNext
  <2> QED BY <2>1, <2>2, ResponsesAssumption
<1>6. wire' \in Seq(Piece) /\ Known(wire') /\ Ordered(wire') /\ ClosesLast(wire') /\ InPlace(wire')
      /\ (conn' # "connected" \/ ~closed') /\ (conn' = "connected" => OpenInv')
  <2>1. CASE conn = "connected"
    <3>1. /\ \E n, d : Fine(wire', n, d)
          /\ (\A s \in next..next + m - 1 : ~pending[s].close) => Emptied(next + m)
      BY <1>1, <1>2, <2>1, FlushSends DEF ResponsesInv
    <3>2. wire' \in Seq(Piece) /\ Known(wire') /\ Ordered(wire') /\ ClosesLast(wire') /\ InPlace(wire')
      BY <3>1 DEF Fine
    <3>3. CASE closing
      <4>1. conn' # "connected"
        BY <1>3, <2>1, <3>3
      <4> QED BY <3>2, <4>1
    <3>4. CASE ~closing
      <4>1. ~closed' /\ Emptied(next + m)
        BY <1>3, <3>1, <3>4, Zenon
      <4>2. OpenInv'
        BY <1>1, <1>2, <1>4, <2>1, <4>1, FlushOpens DEF ResponsesInv
      <4> QED BY <3>2, <4>1, <4>2
    <3> QED BY <3>3, <3>4
  <2>2. CASE conn # "connected"
    <3>1. wire' = wire /\ conn' = conn
      BY <1>3, <2>2
    <3>2. wire \in Seq(Piece) /\ Known(wire) /\ Ordered(wire) /\ ClosesLast(wire) /\ InPlace(wire)
      BY DEF ResponsesInv, TypeOK, NumberInv, ResponsesInOrder, OrderedAndWhole, CloseIsLast
    <3> QED BY <2>2, <3>1, <3>2
  <2> QED BY <2>1, <2>2
<1>7. pending' \in [Slots -> Response]
  <2>1. None \in Response
    BY EmptySeq DEF None, Response
  <2>2. ASSUME NEW s \in Slots PROVE [pending[s] EXCEPT !.chunks = << >>] \in Response
    <3>1. pending[s] \in Response /\ << >> \in Seq(Piece)
      BY EmptySeq DEF ResponsesInv, TypeOK
    <3> QED BY <3>1 DEF Response
  <2>3. \A s \in Slots : pending[s] \in Response
    BY DEF ResponsesInv, TypeOK
  <2> HIDE DEF closing
  <2> QED BY <1>3, <2>1, <2>2, <2>3
<1>8. TypeOK'
  <2>1. closed' \in BOOLEAN
    BY <1>3, Zenon
  <2>2. conn' \in {"connected", "disconnecting", "disconnected", "gone"}
    BY <1>3 DEF ResponsesInv, TypeOK
  <2>3. next' \in 1..Len(writers') + 1
    BY <1>3, <1>4, <1>5
  <2>4. /\ requests \in Seq([kind : Kinds, close : BOOLEAN])
        /\ writers \in Seq(Numbers) /\ Len(writers) <= MaxWriters
        /\ writeState \in [Slots -> {0, 1, 2}] /\ given \in 0..MaxPieces
        /\ posting \subseteq Slots /\ early \subseteq Numbers
    BY DEF ResponsesInv, TypeOK
  <2> HIDE DEF closing
  <2> QED BY <1>4, <1>6, <1>7, <2>1, <2>2, <2>3, <2>4, Zenon DEF TypeOK
<1>9. FreshInv'
  <2>1. SUFFICES ASSUME NEW s \in Slots, s > Len(writers)
                 PROVE  pending'[s] = None /\ writeState'[s] = 0
    BY <1>4 DEF FreshInv
  <2>2. pending[s] = None /\ writeState[s] = 0
    BY <2>1 DEF ResponsesInv, FreshInv
  <2>3. [None EXCEPT !.chunks = << >>] = None
    BY DEF None
  <2> HIDE DEF closing
  <2> QED BY <1>3, <1>4, <2>2, <2>3
<1>10. ResponsesInOrder' /\ Known(wire)'
  BY <1>4, <1>6, OrderSame
<1>11. NumberInv'
  <2>1. NumberInv
    BY DEF ResponsesInv
  <2> QED BY <1>4, <1>10, <2>1 DEF NumberInv, Request
<1> QED BY <1>6, <1>8, <1>9, <1>10, <1>11 DEF ResponsesInv

\* The handler's call, if it is let through, adds a piece that the response can go on with.
LEMMA EntryGrows ==
  ASSUME NumberInv, NEW s \in 1..Len(writers), NEW e \in Response, NEW b \in BOOLEAN, NEW ws,
         Shaped(e, s, b, ws), NEW p \in Piece, p.r = writers[s], NEW fin \in BOOLEAN,
         NEW close \in BOOLEAN, p.close => close, NEW wt,
         \/ ws = 0 /\ p.part = "full" /\ fin /\ wt = 2
         \/ ws = 0 /\ p.part = "head" /\ fin = ~IncludeBody(s) /\ wt = 1
         \/ ws = 1 /\ p.part = "chunk" /\ ~fin /\ wt = 1
         \/ ws = 1 /\ p.part = "end" /\ fin /\ wt = 2
  PROVE  Shaped([chunks |-> Append(e.chunks, p), close |-> e.close \/ close,
                 finished |-> e.finished \/ fin], s, b, wt)
<1> DEFINE c == e.chunks
           l == Len(c)
           v == Append(c, p)
           f == [chunks |-> v, close |-> e.close \/ close, finished |-> e.finished \/ fin]
<1>1. /\ c \in Seq(Piece) /\ l \in Nat /\ Len(v) = l + 1 /\ v # << >>
      /\ \A i \in 1..l : v[i] = c[i]
      /\ v[l + 1] = p
  BY AppendProperties, LenProperties DEF Response
<1>2. f.chunks = v /\ (f.close <=> e.close \/ close) /\ (f.finished <=> e.finished \/ fin)
  OBVIOUS
<1>3. l = 0 <=> c = << >>
  BY <1>1, EmptySeq
<1>4. /\ \A i \in 1..l : c[i].r = writers[s] /\ (c[i].close => e.close)
      /\ \A i \in 1..l : Opens(c[i]) <=> (i = 1 /\ ~b)
      /\ \A i \in 1..l - 1 : GoesOn(c[i])
      /\ ws = 0 => l = 0 /\ ~b /\ ~e.finished
      /\ ws # 0 => b \/ l # 0
      /\ ws = 1 /\ l # 0 => GoesOn(c[l])
      /\ e.finished => l # 0 /\ Done(c[l])
  <2> HIDE DEF l
  <2>1. Stretch(c, s, b) /\ \A i \in 1..l : c[i].close => e.close
    BY DEF Shaped, l
  <2>2. ws = 0 => c = << >> /\ ~e.finished
    BY DEF Shaped, None
  <2> QED BY <1>3, <2>1, <2>2 DEF Shaped, Stretch, l
<1> HIDE DEF v, l, c
<1>5. Stretch(v, s, b)
  <2>1. \A i \in 1..Len(v) : i \in 1..l \/ i = l + 1
    BY <1>1
  <2>2. ASSUME NEW i \in 1..Len(v) PROVE v[i].r = writers[s]
    BY <1>1, <1>4, <2>1, <2>2
  <2>3. ASSUME NEW i \in 1..Len(v) PROVE Opens(v[i]) <=> (i = 1 /\ ~b)
    <3>1. CASE i \in 1..l
      BY <1>1, <1>4, <3>1
    <3>2. CASE i = l + 1
      <4>1. CASE ws = 0
        BY <1>1, <1>4, <3>2, <4>1 DEF Opens
      <4>2. CASE ws = 1
        BY <1>1, <1>4, <3>2, <4>2 DEF Opens
      <4> QED BY <4>1, <4>2
    <3> QED BY <2>1, <3>1, <3>2
  <2>4. ASSUME NEW i \in 1..Len(v) - 1 PROVE GoesOn(v[i])
    <3>1. i \in 1..l /\ v[i] = c[i] /\ (i \in 1..l - 1 \/ (i = l /\ l # 0))
      BY <1>1
    <3>2. CASE ws = 0
      BY <1>4, <3>1, <3>2
    <3>3. CASE ws = 1
      BY <1>4, <3>1, <3>3
    <3> QED BY <3>2, <3>3
  <2> QED BY <2>2, <2>3, <2>4 DEF Stretch
<1>6. v[Len(v)] = p
  BY <1>1
<1>7. wt # 0 /\ (wt = 1 => GoesOn(p)) /\ (~f.finished => GoesOn(p))
  BY <1>2 DEF GoesOn
<1>8. f.finished => Done(p)
  <2>1. CASE ws = 0 /\ p.part = "full" /\ fin /\ wt = 2
    BY <2>1 DEF Done, Ends, Surplus, Opens
  <2>2. CASE ws = 0 /\ p.part = "head" /\ fin = ~IncludeBody(s) /\ wt = 1
    BY <1>2, <1>4, <2>2 DEF Done, Ends, Surplus, Opens, IncludeBody, Request
  <2>3. CASE ws = 1 /\ p.part = "chunk" /\ ~fin /\ wt = 1
    <3>1. SUFFICES ASSUME e.finished PROVE Done(p)
      BY <1>2, <2>3
    <3>2. l \in 1..l /\ Done(c[l]) /\ GoesOn(c[l])
      BY <1>1, <1>4, <2>3, <3>1
    <3>3. c[l].r = p.r
      BY <1>4, <3>2
    <3> QED BY <3>2, <3>3 DEF Done, Ends, Surplus, Opens, GoesOn
  <2>4. CASE ws = 1 /\ p.part = "end" /\ fin /\ wt = 2
    BY <2>4 DEF Done, Ends, Surplus, Opens
  <2> QED BY <2>1, <2>2, <2>3, <2>4
<1>9. \A i \in 1..Len(v) : v[i].close => f.close
  <2>1. \A i \in 1..Len(v) : i \in 1..l \/ i = l + 1
    BY <1>1
  <2> HIDE DEF f
  <2> QED BY <1>1, <1>2, <1>4, <2>1
<1> HIDE DEF f
<1>10. Shaped(f, s, b, wt)
  BY <1>1, <1>2, <1>5, <1>6, <1>7, <1>8, <1>9 DEF Shaped
<1> QED BY <1>10 DEF f, v, c

\* What the four calls have in common.
LEMMA CallIs ==
  ASSUME ResponsesInv, NEW s \in 1..Len(writers), HandlerCalls(s)
  PROVE  \E part \in {"full", "head", "chunk", "end"}, fin \in BOOLEAN, close \in BOOLEAN, wt \in {1, 2} :
           /\ Enqueue(s, part, fin, close) /\ writeState' = [writeState EXCEPT ![s] = wt]
           /\ \/ writeState[s] = 0 /\ part = "full" /\ fin /\ wt = 2
              \/ writeState[s] = 0 /\ part = "head" /\ fin = ~IncludeBody(s) /\ wt = 1
              \/ writeState[s] = 1 /\ part = "chunk" /\ ~fin /\ wt = 1
              \/ writeState[s] = 1 /\ part = "end" /\ fin /\ wt = 2
<1>1. Request(s).close \in BOOLEAN
  <2>1. writers[s] \in 1..Len(requests)
    BY DEF ResponsesInv, NumberInv
  <2>2. requests[writers[s]] \in [kind : Kinds, close : BOOLEAN]
    BY <2>1, ElementOfSeq DEF ResponsesInv, TypeOK
  <2> QED BY <2>2 DEF Request
<1>2. WriterSend(s) \/ WriterStartChunked(s) \/ WriterWriteChunk(s) \/ WriterFinish(s)
  BY DEF HandlerCalls
<1>3. CASE WriterSend(s)
  BY <1>1, <1>3 DEF WriterSend
<1>4. CASE WriterStartChunked(s)
  <2>1. PICK close \in BOOLEAN : Enqueue(s, "head", ~IncludeBody(s), close)
    BY <1>1, <1>4 DEF WriterStartChunked
  <2>2. PICK fin \in BOOLEAN : fin = ~IncludeBody(s)
    BY DEF IncludeBody
  <2>3. Enqueue(s, "head", fin, close)
    BY <2>1, <2>2, Zenon
  <2> QED BY <1>4, <2>2, <2>3 DEF WriterStartChunked
<1>5. CASE WriterWriteChunk(s)
  <2>1. [writeState EXCEPT ![s] = 1] = writeState
    <3>1. writeState \in [Slots -> {0, 1, 2}] /\ writeState[s] = 1
      BY <1>5 DEF WriterWriteChunk, ResponsesInv, TypeOK
    <3> QED BY <3>1
  <2>2. Enqueue(s, "chunk", FALSE, Request(s).close) /\ writeState' = writeState /\ writeState[s] = 1
    BY <1>5 DEF WriterWriteChunk
  <2> QED BY <1>1, <2>1, <2>2
<1>6. CASE WriterFinish(s)
  BY <1>1, <1>6 DEF WriterFinish
<1> QED BY <1>2, <1>3, <1>4, <1>5, <1>6

\* A handler's call.
LEMMA CallKeeps ==
  ASSUME ResponsesInv, NEW s \in 1..Len(writers), HandlerCalls(s)
  PROVE  ResponsesInv'
<1>1. PICK part \in {"full", "head", "chunk", "end"}, fin \in BOOLEAN, close \in BOOLEAN, wt \in {1, 2} :
        /\ Enqueue(s, part, fin, close) /\ writeState' = [writeState EXCEPT ![s] = wt]
        /\ \/ writeState[s] = 0 /\ part = "full" /\ fin /\ wt = 2
           \/ writeState[s] = 0 /\ part = "head" /\ fin = ~IncludeBody(s) /\ wt = 1
           \/ writeState[s] = 1 /\ part = "chunk" /\ ~fin /\ wt = 1
           \/ writeState[s] = 1 /\ part = "end" /\ fin /\ wt = 2
  BY CallIs
<1> DEFINE p == [r |-> writers[s], part |-> part, close |-> close /\ part \in {"full", "head"}]
           e == pending[s]
           f == [chunks |-> Append(e.chunks, p), close |-> e.close \/ close,
                 finished |-> e.finished \/ fin]
<1>2. /\ conn' = conn /\ requests' = requests /\ writers' = writers /\ next' = next
      /\ closed' = closed /\ flushes' = flushes /\ wire' = wire /\ early' = early
  BY DEF HandlerCalls
<1>3. /\ given < MaxPieces /\ given' = given + 1
      /\ closed => pending' = pending /\ posting' = posting
      /\ ~closed => pending' = [pending EXCEPT ![s] = f] /\ posting' = posting \cup {s}
  BY <1>1 DEF Enqueue
<1>4. /\ Len(writers) \in Nat /\ Len(writers) <= MaxWriters /\ s \in Slots
      /\ next \in 1..Len(writers) + 1 /\ given' \in 0..MaxPieces
  <2>1. /\ Len(writers) \in Nat /\ Len(writers) <= MaxWriters
        /\ next \in 1..Len(writers) + 1 /\ given \in 0..MaxPieces
    BY LenProperties DEF ResponsesInv, TypeOK
  <2>2. given' \in 0..MaxPieces
    BY <1>3, <2>1, ResponsesAssumption
  <2> QED BY <2>1, <2>2, ResponsesAssumption DEF Slots
<1>5. p \in Piece /\ p.r = writers[s] /\ (p.close => close) /\ p.part = part
  <2>1. writers[s] \in Numbers
    BY ElementOfSeq DEF ResponsesInv, TypeOK
  <2> QED BY <2>1 DEF Piece
<1>6. e \in Response
  BY <1>4 DEF ResponsesInv, TypeOK
<1> HIDE DEF p, e
<1>7. f \in Response
  <2>1. Append(e.chunks, p) \in Seq(Piece) /\ (e.close \/ close) \in BOOLEAN /\ (e.finished \/ fin) \in BOOLEAN
    BY <1>5, <1>6, AppendProperties DEF Response
  <2> QED BY <2>1 DEF Response
<1> HIDE DEF f
<1>8. pending' \in [Slots -> Response] /\ posting' \subseteq Slots
  <2>1. pending \in [Slots -> Response] /\ posting \subseteq Slots
    BY DEF ResponsesInv, TypeOK
  <2> QED BY <1>3, <1>4, <1>7, <2>1
<1>9. TypeOK'
  <2>1. writeState' \in [Slots -> {0, 1, 2}]
    <3>1. writeState \in [Slots -> {0, 1, 2}]
      BY DEF ResponsesInv, TypeOK
    <3> QED BY <1>1, <1>4, <3>1
  <2>2. /\ conn \in {"connected", "disconnecting", "disconnected", "gone"}
        /\ requests \in Seq([kind : Kinds, close : BOOLEAN])
        /\ writers \in Seq(Numbers) /\ Len(writers) <= MaxWriters
        /\ next \in 1..Len(writers) + 1 /\ closed \in BOOLEAN
        /\ flushes \in Nat /\ wire \in Seq(Piece) /\ early \subseteq Numbers
    BY DEF ResponsesInv, TypeOK
  <2> QED BY <1>2, <1>4, <1>8, <2>1, <2>2, Zenon DEF TypeOK
<1>10. FreshInv'
  <2>1. SUFFICES ASSUME NEW t \in Slots, t > Len(writers)
                 PROVE  pending'[t] = None /\ writeState'[t] = 0
    BY <1>2 DEF FreshInv
  <2>2. pending[t] = None /\ writeState[t] = 0 /\ t # s
    BY <1>4, <2>1 DEF ResponsesInv, FreshInv
  <2>3. pending \in [Slots -> Response] /\ writeState \in [Slots -> {0, 1, 2}]
    BY DEF ResponsesInv, TypeOK
  <2> QED BY <1>1, <1>3, <2>2, <2>3
<1>11. ResponsesInOrder' /\ Known(wire)'
  <2>1. /\ Ordered(wire) /\ ClosesLast(wire) /\ InPlace(wire) /\ Known(wire)
        /\ conn # "connected" \/ ~closed
    BY DEF ResponsesInv, NumberInv, ResponsesInOrder, OrderedAndWhole, CloseIsLast
  <2> QED BY <1>2, <2>1, OrderSame
<1>12. NumberInv'
  <2>1. NumberInv
    BY DEF ResponsesInv
  <2> QED BY <1>2, <1>11, <2>1 DEF NumberInv, Request
<1>13. ASSUME conn' = "connected" PROVE OpenInv'
  <2>1. OpenInv /\ ~closed /\ NumberInv /\ conn = "connected"
    BY <1>2, <1>13 DEF ResponsesInv, ResponsesInOrder, CloseIsLast
  <2>2. /\ DOMAIN pending = Slots /\ DOMAIN writeState = Slots
        /\ pending' = [pending EXCEPT ![s] = f]
    BY <1>3, <2>1 DEF ResponsesInv, TypeOK
  <2>3. \A t \in Slots : t # s => pending'[t] = pending[t] /\ writeState'[t] = writeState[t]
    BY <1>1, <2>2
  <2>4. pending'[s] = f /\ writeState'[s] = wt
    BY <1>1, <1>4, <2>2
  <2> DEFINE B == Begun(wire, next)
  <2>5. Stage(wire, next, B)' /\ (B' <=> B) /\ B \in BOOLEAN
    <3>1. Stage(wire, next, B) /\ B \in BOOLEAN
      BY <2>1 DEF OpenInv, Begun
    <3>2. Stage(wire', next', B) /\ (Begun(wire', next') <=> B)
      BY <1>2, <3>1
    <3> HIDE DEF B
    <3>3. Stage(wire, next, Begun(wire, next))' /\ (Begun(wire, next)' <=> B)
      BY <1>2, <3>1, <3>2, StageSame
    <3> QED BY <3>1, <3>3 DEF B
  <2>6. Closing(wire, next)'
    <3>1. Closing(wire, next)
      BY <2>1 DEF OpenInv
    <3>2. f.close <=> e.close \/ close
      BY DEF f
    <3>3. next <= Len(writers) => next \in Slots
      BY <1>4, ResponsesAssumption DEF Slots
    <3>4. next <= Len(writers) /\ pending[next].close => pending'[next].close
      BY <2>3, <2>4, <3>2, <3>3 DEF e
    <3> QED BY <1>2, <3>1, <3>4 DEF Closing, FromWriter
  <2>7. ASSUME NEW t \in next'..Len(writers')
        PROVE  Entry(pending[t], t, t = next /\ B)'
    <3>1. t \in next..Len(writers) /\ t \in Slots /\ t \in 1..Len(writers)
      BY <1>2, <1>4, ResponsesAssumption DEF Slots
    <3> DEFINE D == t = next /\ B
    <3>2. Shaped(pending[t], t, D, writeState[t]) /\ D \in BOOLEAN
      BY <2>1, <3>1 DEF OpenInv, Entry
    <3>3. D <=> (t = next /\ B)'
      BY <1>2, <2>5
    <3> HIDE DEF B, D
    <3>4. Shaped(pending'[t], t, D, writeState'[t])
      <4>1. CASE t = s
        <5>1. Shaped(e, s, D, writeState[s])
          BY <3>2, <4>1 DEF e
        <5>2. Shaped(f, s, D, wt)
          BY <1>1, <1>5, <1>6, <2>1, <3>2, <5>1, EntryGrows DEF f
        <5> QED BY <2>4, <4>1, <5>2
      <4>2. CASE t # s
        BY <2>3, <3>1, <3>2, <4>2
      <4> QED BY <4>1, <4>2
    <3>5. Entry(pending[t], t, t = next /\ Begun(wire, next))'
      BY <1>2, <3>2, <3>3, <3>4, EntrySame DEF B
    <3> QED BY <3>5 DEF B
  <2>8. Due(wire, next)'
    BY <1>2, <2>1, DueSame DEF OpenInv
  <2> QED BY <2>5, <2>6, <2>7, <2>8 DEF OpenInv
<1> QED BY <1>9, <1>10, <1>11, <1>12, <1>13 DEF ResponsesInv

\* on_plain_message takes a request: it gets a writer, or is answered at once.
Arrival(rec) ==
  /\ rec \in [kind : Kinds, close : BOOLEAN] /\ requests' = Append(requests, rec)
  /\ pending' = pending /\ next' = next /\ writeState' = writeState
  /\ \/ /\ writers' = Append(writers, Len(requests) + 1) /\ rec.kind \in {"get", "head"}
        /\ wire' = wire /\ early' = early /\ Len(writers) < MaxWriters
     \/ /\ writers' = writers /\ rec.kind \notin {"get", "head"} /\ Directly
        /\ \E p \in Piece : p.r = Len(requests) + 1 /\ wire' = wire \o <<p>>
        /\ early' = IF next <= Len(writers) THEN early \cup {Len(requests) + 1} ELSE early

\* The requests, writers and pieces there were are still there.
Grows(R, L, m, rec) ==
  /\ R \in Nat /\ L \in Nat /\ m \in Nat
  /\ R = Len(requests) /\ L = Len(writers) /\ m = Len(wire)
  /\ Len(requests') = R + 1 /\ requests'[R + 1] = rec
  /\ \A r \in 1..R : requests'[r] = requests[r]
  /\ \A s \in 1..L : writers'[s] = writers[s]
  /\ \A i \in 1..m : wire'[i] = wire[i]
  /\ \/ /\ Len(writers') = L + 1 /\ writers'[L + 1] = R + 1 /\ Len(wire') = m
        /\ L < MaxWriters /\ rec.kind \in {"get", "head"} /\ early' = early
     \/ /\ Len(writers') = L /\ Len(wire') = m + 1 /\ wire'[m + 1].r = R + 1
        /\ rec.kind \notin {"get", "head"} /\ R < L + MaxDirect
        /\ early' = IF next <= L THEN early \cup {R + 1} ELSE early

\* An arrival adds one request, and one writer or one piece.
LEMMA ArrivalGrows ==
  ASSUME TypeOK, NumberInv, NEW rec, Arrival(rec)
  PROVE  /\ Grows(Len(requests), Len(writers), Len(wire), rec)
         /\ requests' \in Seq([kind : Kinds, close : BOOLEAN])
         /\ writers' \in Seq(Numbers) /\ Len(writers') <= MaxWriters /\ wire' \in Seq(Piece)
         /\ early' \subseteq Numbers
<1> DEFINE R == Len(requests)
           L == Len(writers)
           m == Len(wire)
<1>1. /\ requests \in Seq([kind : Kinds, close : BOOLEAN]) /\ writers \in Seq(Numbers) /\ wire \in Seq(Piece)
      /\ R \in Nat /\ L \in Nat /\ m \in Nat /\ L <= MaxWriters /\ MaxWriters \in Nat /\ MaxDirect \in Nat
      /\ R <= L + MaxDirect /\ early \subseteq Numbers
  BY LenProperties, ResponsesAssumption DEF TypeOK, NumberInv
<1>2. /\ rec \in [kind : Kinds, close : BOOLEAN] /\ requests' = Append(requests, rec)
  BY DEF Arrival
<1>3. /\ requests' \in Seq([kind : Kinds, close : BOOLEAN])
      /\ Len(requests') = R + 1 /\ requests'[R + 1] = rec
      /\ \A r \in 1..R : requests'[r] = requests[r]
  BY <1>1, <1>2, AppendProperties
<1>4. CASE /\ writers' = Append(writers, Len(requests) + 1) /\ rec.kind \in {"get", "head"}
           /\ wire' = wire /\ early' = early /\ Len(writers) < MaxWriters
  <2>1. R + 1 \in Numbers
    BY <1>1, <1>4 DEF Numbers
  <2>2. /\ writers' \in Seq(Numbers) /\ Len(writers') = L + 1 /\ writers'[L + 1] = R + 1
        /\ \A s \in 1..L : writers'[s] = writers[s]
    BY <1>1, <1>4, <2>1, AppendProperties
  <2>3. Len(writers') <= MaxWriters
    BY <1>1, <1>4, <2>2
  <2> HIDE DEF R, L, m
  <2>4. Len(writers) = L /\ Len(requests) = R /\ Len(wire) = m
    BY DEF L, R, m
  <2>5. Len(wire') = m /\ \A i \in 1..m : wire'[i] = wire[i]
    BY <1>4, <2>4
  <2>6. Grows(R, L, m, rec)
    BY <1>1, <1>3, <1>4, <2>2, <2>4, <2>5, Zenon DEF Grows
  <2> QED BY <1>1, <1>3, <1>4, <2>2, <2>3, <2>6 DEF R, L, m
<1>5. CASE /\ writers' = writers /\ rec.kind \notin {"get", "head"} /\ Directly
           /\ \E p \in Piece : p.r = Len(requests) + 1 /\ wire' = wire \o <<p>>
           /\ early' = IF next <= Len(writers) THEN early \cup {Len(requests) + 1} ELSE early
  <2>1. PICK p \in Piece : p.r = R + 1 /\ wire' = wire \o <<p>>
    BY <1>5
  <2>2. <<p>> \in Seq(Piece) /\ Len(<<p>>) = 1 /\ <<p>>[1] = p
    OBVIOUS
  <2> DEFINE c == <<p>>
  <2> HIDE DEF c
  <2>3. c \in Seq(Piece) /\ Len(c) = 1 /\ c[1] = p /\ wire' = wire \o c
    BY <2>1, <2>2 DEF c
  <2>4. /\ wire' \in Seq(Piece) /\ Len(wire') = m + 1 /\ wire'[m + 1] = p
        /\ \A i \in 1..m : wire'[i] = wire[i]
    <3>1. wire \in Seq(Piece) /\ c \in Seq(Piece)
      BY <1>1, <2>3
    <3>2. /\ wire \o c \in Seq(Piece) /\ Len(wire \o c) = Len(wire) + Len(c)
          /\ \A i \in 1..Len(wire) : (wire \o c)[i] = wire[i]
          /\ \A i \in 1..Len(c) : (wire \o c)[Len(wire) + i] = c[i]
      BY ONLY <3>1, ConcatIs, Zenon
    <3>3. 1 \in 1..Len(c)
      BY <2>3
    <3> QED BY <2>3, <3>2, <3>3
  <2>5. R < L + MaxDirect
    BY <1>1, <1>5 DEF Directly
  <2>5a. early' \subseteq Numbers
    <3>1. R + 1 \in Numbers
      BY <1>1, <2>5 DEF Numbers
    <3> QED BY <1>1, <1>5, <3>1
  <2> HIDE DEF R, L, m
  <2>6. Len(writers) = L /\ Len(requests) = R /\ Len(wire) = m
    BY DEF L, R, m
  <2>7. Len(writers') = L /\ wire'[m + 1].r = R + 1 /\ \A s \in 1..L : writers'[s] = writers[s]
    BY <1>5, <2>1, <2>4, <2>6
  <2>8. Grows(R, L, m, rec)
    BY <1>1, <1>3, <1>5, <2>4, <2>5, <2>6, <2>7, Zenon DEF Grows
  <2> QED BY <1>1, <1>3, <1>5, <2>4, <2>5a, <2>7, <2>8 DEF R, L, m
<1> QED BY <1>4, <1>5 DEF Arrival

\* What was sent is from a writer, or not, as before.
LEMMA ArrivalSame ==
  ASSUME NumberInv, NEW R, NEW L, NEW m, NEW rec, Grows(R, L, m, rec)
  PROVE  /\ \A i \in 1..m : FromWriter(wire[i])' <=> FromWriter(wire[i])
         /\ \A i \in 1..m : Done(wire[i])' <=> Done(wire[i])
         /\ \A i \in 1..Len(wire') : FromWriter(wire[i])' => i \in 1..m
<1>1. \A i \in 1..m : wire[i].r \in 1..R /\ wire'[i] = wire[i] /\ requests'[wire[i].r] = requests[wire[i].r]
  BY DEF Grows, NumberInv, Known
<1>2. \A i \in 1..m : FromWriter(wire[i])' <=> FromWriter(wire[i])
  BY <1>1 DEF FromWriter
<1>3. \A i \in 1..m : Done(wire[i])' <=> Done(wire[i])
  BY <1>1 DEF Done, Ends, Surplus, Opens
<1>4. ASSUME NEW i \in 1..Len(wire'), FromWriter(wire[i])', i \notin 1..m PROVE FALSE
  <2>1. i = m + 1 /\ wire'[m + 1].r = R + 1 /\ requests'[R + 1].kind \notin {"get", "head"}
    BY <1>4 DEF Grows
  <2> QED BY <1>4, <2>1 DEF FromWriter
<1> QED BY <1>2, <1>3, <1>4

\* The order of what was sent is as it was.
LEMMA ArrivalOrdered ==
  ASSUME NumberInv, OpenInv, NEW R, NEW L, NEW m, NEW rec, Grows(R, L, m, rec), Ordered(wire)
  PROVE  Ordered(wire)'
<1>1. /\ \A i \in 1..m : FromWriter(wire[i])' <=> FromWriter(wire[i])
      /\ \A i \in 1..m : Done(wire[i])' <=> Done(wire[i])
      /\ \A i \in 1..Len(wire') : FromWriter(wire[i])' => i \in 1..m
  BY ArrivalSame
<1>2. /\ m = Len(wire) /\ m \in Nat /\ L \in Nat /\ L = Len(writers) /\ Len(writers') \in {L, L + 1}
      /\ \A i \in 1..m : wire'[i] = wire[i]
      /\ \A s \in 1..L : writers'[s] = writers[s]
  BY DEF Grows
<1> DEFINE At(i, j) == /\ FromWriter(wire[i]) /\ Follows(wire[i], wire[j])
                       /\ \A k \in i + 1..j - 1 : ~FromWriter(wire[k])
           First(j) == Opens(wire[j]) /\ wire[j].r = writers[1] /\ \A i \in 1..j - 1 : ~FromWriter(wire[i])
<1>3. SUFFICES ASSUME NEW j \in 1..Len(wire'), FromWriter(wire[j])'
               PROVE  First(j)' \/ \E i \in 1..j - 1 : At(i, j)'
  BY Zenon DEF Ordered
<1>4. j \in 1..m /\ FromWriter(wire[j]) /\ wire'[j] = wire[j]
  BY <1>1, <1>2, <1>3
<1>5. First(j) \/ \E i \in 1..j - 1 : At(i, j)
  BY <1>2, <1>4 DEF Ordered
<1>6. CASE First(j)
  <2>1. 1 \in 1..L
    <3>1. \E s \in 1..Len(writers) : wire[j].r = writers[s]
      BY <1>2, <1>4 DEF OpenInv, Stage
    <3> QED BY <1>2, <3>1
  <2>2. \A i \in 1..j - 1 : ~FromWriter(wire[i])'
    BY <1>1, <1>2, <1>4, <1>6
  <2>3. Opens(wire[j])' /\ wire'[j].r = writers'[1]
    BY <1>2, <1>4, <1>6, <2>1 DEF Opens
  <2> QED BY <2>2, <2>3
<1>7. ASSUME NEW i \in 1..j - 1, At(i, j) PROVE At(i, j)'
  <2>1. i \in 1..m /\ wire'[i] = wire[i] /\ \A k \in i + 1..j - 1 : k \in 1..m
    BY <1>2, <1>4
  <2>2. FromWriter(wire[i])' /\ \A k \in i + 1..j - 1 : ~FromWriter(wire[k])'
    BY <1>1, <1>7, <2>1
  <2>3. Follows(wire[i], wire[j])'
    <3>1. CASE wire[j].r = wire[i].r /\ GoesOn(wire[i]) /\ ~Opens(wire[j])
      BY <1>4, <2>1, <3>1 DEF Follows, GoesOn, Opens
    <3>2. ASSUME Opens(wire[j]), Done(wire[i]), NEW s \in 1..Len(writers) - 1,
                 wire[i].r = writers[s], wire[j].r = writers[s + 1]
          PROVE  Follows(wire[i], wire[j])'
      <4>1. s \in 1..L /\ s + 1 \in 1..L /\ s \in 1..Len(writers') - 1
        BY <1>2, <3>2
      <4>2. Done(wire[i])' /\ Opens(wire[j])'
        BY <1>1, <1>4, <2>1, <3>2 DEF Opens
      <4>3. wire'[i].r = writers'[s] /\ wire'[j].r = writers'[s + 1]
        BY <1>2, <1>4, <2>1, <3>2, <4>1
      <4> QED BY <4>1, <4>2, <4>3, Zenon DEF Follows
    <3> QED BY <1>7, <3>1, <3>2 DEF Follows
  <2> QED BY <2>2, <2>3
<1> QED BY <1>5, <1>6, <1>7

\* So are the closing response, and the numbers.
LEMMA ArrivalClosing ==
  ASSUME NumberInv, NEW R, NEW L, NEW m, NEW rec, Grows(R, L, m, rec), ClosesLast(wire)
  PROVE  ClosesLast(wire)' /\ NumberInv'
<1>1. /\ \A i \in 1..m : FromWriter(wire[i])' <=> FromWriter(wire[i])
      /\ \A i \in 1..Len(wire') : FromWriter(wire[i])' => i \in 1..m
  BY ArrivalSame
<1>2. /\ m = Len(wire) /\ m \in Nat /\ L \in Nat /\ L = Len(writers)
      /\ R \in Nat /\ R = Len(requests) /\ Len(requests') = R + 1 /\ requests'[R + 1] = rec
      /\ \A r \in 1..R : requests'[r] = requests[r]
      /\ \A i \in 1..m : wire'[i] = wire[i]
      /\ \A s \in 1..L : writers'[s] = writers[s]
      /\ \/ Len(writers') = L + 1 /\ writers'[L + 1] = R + 1 /\ Len(wire') = m /\ rec.kind \in {"get", "head"}
         \/ Len(writers') = L /\ Len(wire') = m + 1 /\ wire'[m + 1].r = R + 1 /\ R < L + MaxDirect
  BY DEF Grows
<1>3. ClosesLast(wire)'
  <2>1. SUFFICES ASSUME NEW i \in 1..Len(wire'), NEW j \in 1..i, FromWriter(wire[i])',
                        FromWriter(wire[j])', wire'[j].close
                 PROVE  wire'[i].r = wire'[j].r
    BY Zenon DEF ClosesLast
  <2>2. i \in 1..m /\ j \in 1..m
    <3>1. i \in 1..m
      BY <1>1, <2>1
    <3> QED BY <1>2, <3>1
  <2>3. FromWriter(wire[i]) /\ FromWriter(wire[j]) /\ wire[j].close
    BY <1>1, <1>2, <2>1, <2>2
  <2>4. wire[i].r = wire[j].r
    BY <1>2, <2>2, <2>3 DEF ClosesLast
  <2> QED BY <1>2, <2>2, <2>4
<1>4. Len(requests') <= Len(writers') + MaxDirect
  BY <1>2, ResponsesAssumption DEF NumberInv
<1>5. \A s \in 1..Len(writers') : s \in 1..L \/ (s = L + 1 /\ writers'[s] = R + 1 /\ rec.kind \in {"get", "head"})
  BY <1>2
<1>6. \A s \in 1..L : /\ writers'[s] \in 1..R /\ writers'[s] = writers[s] /\ writers[s] \in 1..R
                      /\ requests'[writers'[s]].kind \in {"get", "head"}
  BY <1>2 DEF NumberInv, Request
<1>7. \A s \in 1..Len(writers') :
        writers'[s] \in 1..Len(requests') /\ requests'[writers'[s]].kind \in {"get", "head"}
  BY <1>2, <1>5, <1>6
<1>8. ASSUME NEW s \in 1..Len(writers'), NEW t \in 1..Len(writers'), writers'[s] = writers'[t]
      PROVE  s = t
  <2>1. CASE s \in 1..L /\ t \in 1..L
    BY <1>2, <1>6, <1>8, <2>1 DEF NumberInv
  <2>2. CASE s \in 1..L /\ t \notin 1..L
    BY <1>2, <1>5, <1>6, <1>8, <2>2
  <2>3. CASE s \notin 1..L /\ t \in 1..L
    BY <1>2, <1>5, <1>6, <1>8, <2>3
  <2>4. CASE s \notin 1..L /\ t \notin 1..L
    BY <1>5, <2>4
  <2> QED BY <2>1, <2>2, <2>3, <2>4
<1>9. Known(wire)'
  <2>1. \A i \in 1..Len(wire') : i \in 1..m \/ (i = m + 1 /\ wire'[i].r = R + 1)
    BY <1>2
  <2>2. \A i \in 1..m : wire'[i].r \in 1..R
    BY <1>2 DEF NumberInv, Known
  <2> QED BY <1>2, <2>1, <2>2 DEF Known
<1>10. NumberInv'
  BY <1>4, <1>7, <1>8, <1>9 DEF NumberInv, Request
<1> QED BY <1>3, <1>10

\* And where the responses stand.
LEMMA ArrivalStage ==
  ASSUME NumberInv, OpenInv, NEW R, NEW L, NEW m, NEW rec, Grows(R, L, m, rec),
         next \in 1..L + 1, next' = next
  PROVE  Stage(wire, next, Begun(wire, next))' /\ (Begun(wire, next)' <=> Begun(wire, next))
<1>1. /\ \A i \in 1..m : FromWriter(wire[i])' <=> FromWriter(wire[i])
      /\ \A i \in 1..m : Done(wire[i])' <=> Done(wire[i])
      /\ \A i \in 1..Len(wire') : FromWriter(wire[i])' => i \in 1..m
  BY ArrivalSame
<1>2. /\ m = Len(wire) /\ m \in Nat /\ L \in Nat /\ L = Len(writers) /\ R \in Nat
      /\ \A i \in 1..m : wire'[i] = wire[i] /\ wire[i].r \in 1..R
      /\ \A s \in 1..L : writers'[s] = writers[s] /\ writers[s] \in 1..R
      /\ \/ Len(writers') = L + 1 /\ writers'[L + 1] = R + 1 /\ Len(wire') = m
         \/ Len(writers') = L /\ Len(wire') = m + 1 /\ wire'[m + 1].r = R + 1
  BY DEF Grows, NumberInv, Known
<1>3. \A s \in 1..L : s \in 1..Len(writers')
  BY <1>2
<1>4. \A i \in 1..m : i \in 1..Len(wire')
  BY <1>2
<1>5. \A i \in 1..Len(wire') : i \in 1..m \/ (i = m + 1 /\ wire'[i].r = R + 1 /\ Len(writers') = L)
  BY <1>2
<1>6. Begun(wire, next)' <=> Begun(wire, next)
  <2>1. ASSUME Begun(wire, next) PROVE Begun(wire, next)'
    <3>1. next \in 1..L /\ next <= Len(writers')
      BY <1>2, <2>1 DEF Begun
    <3>2. PICK i \in 1..m : wire[i].r = writers[next]
      BY <1>2, <2>1 DEF Begun
    <3> QED BY <1>2, <1>4, <3>1, <3>2 DEF Begun
  <2>2. ASSUME Begun(wire, next)' PROVE Begun(wire, next)
    <3>1. PICK i \in 1..Len(wire') : wire'[i].r = writers'[next] /\ next <= Len(writers')
      BY <2>2 DEF Begun
    <3>2. CASE next \in 1..L
      <4>1. i \in 1..m
        BY <1>2, <1>5, <3>1, <3>2
      <4>2. next <= Len(writers) /\ wire[i].r = writers[next]
        BY <1>2, <3>1, <3>2, <4>1
      <4> QED BY <1>2, <4>1, <4>2 DEF Begun
    <3>3. CASE next = L + 1
      <4>1. writers'[next] = R + 1 /\ Len(writers') = L + 1 /\ i \in 1..m
        BY <1>2, <1>5, <3>1, <3>3
      <4> QED BY <1>2, <3>1, <4>1
    <3> QED BY <1>2, <3>2, <3>3
  <2> QED BY <2>1, <2>2
<1> DEFINE B == Begun(wire, next)
           Behind == \A i \in 1..Len(wire) : FromWriter(wire[i]) =>
                       \E s \in 1..Len(writers) : wire[i].r = writers[s] /\ (s < next \/ (s = next /\ B))
           Going == \E i \in 1..Len(wire) : LastOf(wire, i) /\ wire[i].r = writers[next] /\ GoesOn(wire[i])
           Nothing == \A i \in 1..Len(wire) : ~FromWriter(wire[i])
           Whole == \E i \in 1..Len(wire) : LastOf(wire, i) /\ wire[i].r = writers[next - 1] /\ Done(wire[i])
<1>7. Behind /\ (B => Going) /\ (~B /\ next = 1 => Nothing) /\ (~B /\ next > 1 => Whole)
  BY DEF OpenInv, Stage
<1>8. \A i \in 1..m : LastOf(wire, i) => LastOf(wire, i)'
  <2>1. SUFFICES ASSUME NEW i \in 1..m, LastOf(wire, i) PROVE LastOf(wire, i)'
    OBVIOUS
  <2>2. FromWriter(wire[i])' /\ i \in 1..Len(wire')
    BY <1>1, <1>4, <2>1 DEF LastOf
  <2>3. ASSUME NEW k \in i + 1..Len(wire') PROVE ~FromWriter(wire[k])'
    <3>1. SUFFICES ASSUME FromWriter(wire[k])' PROVE FALSE
      OBVIOUS
    <3>2. k \in 1..m /\ FromWriter(wire[k])
      <4>1. k \in 1..Len(wire')
        BY <1>2, <2>3
      <4> QED BY <1>1, <3>1, <4>1
    <3>3. k \in i + 1..Len(wire)
      BY <1>2, <3>2, <2>3
    <3> QED BY <2>1, <3>2, <3>3 DEF LastOf
  <2> QED BY <2>2, <2>3 DEF LastOf
<1>9. Behind'
  <2>1. SUFFICES ASSUME NEW i \in 1..Len(wire'), FromWriter(wire[i])'
                 PROVE  \E s \in 1..Len(writers') :
                          wire'[i].r = writers'[s] /\ (s < next' \/ (s = next' /\ B'))
    BY Zenon
  <2>2. i \in 1..m /\ FromWriter(wire[i])
    BY <1>1, <2>1
  <2> HIDE DEF B
  <2>3. PICK s \in 1..L : wire[i].r = writers[s] /\ (s < next \/ (s = next /\ B))
    BY <1>2, <1>7, <2>2
  <2>4. s \in 1..Len(writers') /\ wire'[i].r = writers'[s] /\ (s < next' \/ (s = next' /\ B'))
    BY <1>2, <1>3, <1>6, <2>2, <2>3 DEF B
  <2> QED BY <2>4
<1>10. B' => Going'
  <2>1. SUFFICES ASSUME B PROVE Going'
    BY <1>6
  <2>2. PICK i \in 1..m : LastOf(wire, i) /\ wire[i].r = writers[next] /\ GoesOn(wire[i])
    BY <1>2, <1>7, <2>1
  <2>3. next \in 1..L
    BY <1>2, <2>1 DEF Begun
  <2>4. LastOf(wire, i)' /\ wire'[i].r = writers'[next'] /\ GoesOn(wire[i])' /\ i \in 1..Len(wire')
    BY <1>2, <1>4, <1>8, <2>2, <2>3 DEF GoesOn
  <2> QED BY <2>4
<1>11. ~B' /\ next' = 1 => Nothing'
  <2>1. SUFFICES ASSUME ~B, next = 1, NEW i \in 1..Len(wire'), FromWriter(wire[i])' PROVE FALSE
    BY <1>6, Zenon
  <2>2. i \in 1..m /\ FromWriter(wire[i])
    BY <1>1, <2>1
  <2> QED BY <1>2, <1>7, <2>1, <2>2
<1>12. ~B' /\ next' > 1 => Whole'
  <2>1. SUFFICES ASSUME ~B, next > 1 PROVE Whole'
    BY <1>6
  <2>2. PICK i \in 1..m : LastOf(wire, i) /\ wire[i].r = writers[next - 1] /\ Done(wire[i])
    BY <1>2, <1>7, <2>1
  <2>3. next - 1 \in 1..L
    BY <1>2, <2>1
  <2>4. LastOf(wire, i)' /\ wire'[i].r = writers'[next' - 1] /\ Done(wire[i])' /\ i \in 1..Len(wire')
    BY <1>1, <1>2, <1>4, <1>8, <2>2, <2>3
  <2> QED BY <2>4
<1>13. Stage(wire, next, B)'
  BY <1>9, <1>10, <1>11, <1>12, Zenon DEF Stage
<1> QED BY <1>6, <1>13

\* And the places of the answers past the writers; a new one is in its place, or early.
LEMMA ArrivalPlace ==
  ASSUME NumberInv, InPlace(wire), Due(wire, next), NEW R, NEW L, NEW m, NEW rec,
         Grows(R, L, m, rec), next \in 1..L + 1, next' = next
  PROVE  InPlace(wire)' /\ Due(wire, next)'
<1> DEFINE Aside(p) == ~FromWriter(p) /\ p.r \notin early
<1>1. /\ \A i \in 1..m : FromWriter(wire[i])' <=> FromWriter(wire[i])
      /\ \A i \in 1..m : Done(wire[i])' <=> Done(wire[i])
  BY ArrivalSame
<1>2. /\ m = Len(wire) /\ m \in Nat /\ L \in Nat /\ L = Len(writers) /\ R \in Nat
      /\ \A i \in 1..m : wire'[i] = wire[i] /\ wire[i].r \in 1..R
      /\ \A s \in 1..L : writers'[s] = writers[s] /\ writers[s] \in 1..R
      /\ \/ /\ Len(writers') = L + 1 /\ writers'[L + 1] = R + 1 /\ Len(wire') = m
            /\ early' = early
         \/ /\ Len(writers') = L /\ Len(wire') = m + 1 /\ wire'[m + 1].r = R + 1
            /\ early' = IF next <= L THEN early \cup {R + 1} ELSE early
  BY DEF Grows, NumberInv, Known
<1>3. \A j \in 1..m : Aside(wire[j]) =>
        /\ \A k \in j + 1..m : wire[j].r < wire[k].r
        /\ \A s \in 1..L : writers[s] < wire[j].r =>
             \E i \in 1..j - 1 : wire[i].r = writers[s] /\ Done(wire[i])
        /\ \A s \in next..L : wire[j].r < writers[s]
  BY <1>2 DEF InPlace, Due
<1>4. \A s \in 1..next - 1 : \E i \in 1..m : wire[i].r = writers[s] /\ Done(wire[i])
  BY <1>2 DEF Due
<1>5. \A i \in 1..m : Aside(wire[i])' => Aside(wire[i])
  <2>1. \A i \in 1..m : wire[i].r # R + 1
    BY <1>2
  <2>2. early' = early \/ early' = early \cup {R + 1}
    BY <1>2
  <2> QED BY <1>1, <1>2, <2>1, <2>2
<1>6. \A j \in 1..Len(wire') : j \in 1..m \/ (j = m + 1 /\ wire'[j].r = R + 1 /\ Len(writers') = L /\ Len(wire') = m + 1)
  BY <1>2
<1>7. \A s \in 1..Len(writers') : s \in 1..L \/ (s = L + 1 /\ writers'[s] = R + 1)
  BY <1>2
<1>8. \A s \in next'..Len(writers') : s \in 1..Len(writers') /\ (s \in 1..L => s \in next..L)
  BY <1>2
<1>9. \A s \in 1..next' - 1 : \E i \in 1..Len(wire') : wire'[i].r = writers'[s] /\ Done(wire[i])'
  <2>1. SUFFICES ASSUME NEW s \in 1..next - 1
                 PROVE  \E i \in 1..Len(wire') : wire'[i].r = writers'[s] /\ Done(wire[i])'
    OBVIOUS
  <2>2. PICK i \in 1..m : wire[i].r = writers[s] /\ Done(wire[i])
    BY <1>4
  <2>3. s \in 1..L /\ i \in 1..Len(wire')
    BY <1>2
  <2> QED BY <1>1, <1>2, <2>2, <2>3
<1>10. ASSUME NEW j \in 1..Len(wire'), Aside(wire[j])'
       PROVE  /\ \A k \in j + 1..Len(wire') : wire'[j].r < wire'[k].r
              /\ \A s \in 1..Len(writers') : writers'[s] < wire'[j].r =>
                   \E i \in 1..j - 1 : wire'[i].r = writers'[s] /\ Done(wire[i])'
              /\ \A s \in next'..Len(writers') : wire'[j].r < writers'[s]
  <2>1. CASE j \in 1..m
    <3>1. Aside(wire[j]) /\ wire'[j] = wire[j] /\ wire[j].r \in 1..R
      BY <1>2, <1>5, <1>10, <2>1
    <3> HIDE DEF Aside
    <3>2. ASSUME NEW k \in j + 1..Len(wire') PROVE wire'[j].r < wire'[k].r
      <4>1. k \in j + 1..m \/ wire'[k].r = R + 1
        BY <1>2, <1>6, <2>1, <3>2
      <4>2. CASE k \in j + 1..m
        BY <1>2, <1>3, <2>1, <3>1, <4>2
      <4>3. CASE wire'[k].r = R + 1
        BY <1>2, <3>1, <4>3
      <4> QED BY <4>1, <4>2, <4>3
    <3>3. ASSUME NEW s \in 1..Len(writers'), writers'[s] < wire'[j].r
          PROVE  \E i \in 1..j - 1 : wire'[i].r = writers'[s] /\ Done(wire[i])'
      <4>1. s \in 1..L
        BY <1>2, <1>7, <3>1, <3>3
      <4>2. writers[s] < wire[j].r
        BY <1>2, <3>1, <3>3, <4>1
      <4>3. PICK i \in 1..j - 1 : wire[i].r = writers[s] /\ Done(wire[i])
        BY <1>3, <2>1, <3>1, <4>1, <4>2
      <4>4. i \in 1..m
        BY <1>2, <2>1
      <4> QED BY <1>1, <1>2, <4>1, <4>3, <4>4
    <3>4. ASSUME NEW s \in next'..Len(writers') PROVE wire'[j].r < writers'[s]
      <4>1. s \in next..L \/ writers'[s] = R + 1
        BY <1>7, <1>8
      <4>2. CASE s \in next..L
        <5>1. s \in 1..L /\ writers'[s] = writers[s]
          BY <1>2, <4>2
        <5> QED BY <1>3, <2>1, <3>1, <4>2, <5>1
      <4>3. CASE writers'[s] = R + 1
        BY <1>2, <3>1, <4>3
      <4> QED BY <4>1, <4>2, <4>3
    <3> QED BY <3>2, <3>3, <3>4
  <2>2. CASE j \notin 1..m
    <3>1. /\ j = m + 1 /\ wire'[j].r = R + 1 /\ Len(writers') = L /\ Len(wire') = m + 1
          /\ R + 1 \notin early'
      BY <1>6, <1>10, <2>2
    <3>2. next = L + 1
      BY <1>2, <3>1
    <3>3. ASSUME NEW s \in 1..Len(writers')
          PROVE  \E i \in 1..j - 1 : wire'[i].r = writers'[s] /\ Done(wire[i])'
      <4>1. s \in 1..next - 1 /\ s \in 1..L
        BY <1>2, <3>1, <3>2
      <4>2. PICK i \in 1..m : wire[i].r = writers[s] /\ Done(wire[i])
        BY <1>4, <4>1
      <4>3. i \in 1..j - 1
        BY <1>2, <3>1
      <4> QED BY <1>1, <1>2, <4>1, <4>2, <4>3
    <3>4. j + 1..Len(wire') = {} /\ next'..Len(writers') = {}
      BY <1>2, <3>1, <3>2
    <3> QED BY <3>3, <3>4
  <2> QED BY <2>1, <2>2
<1>11. InPlace(wire)'
  BY <1>10, Zenon DEF InPlace
<1>12. Due(wire, next)'
  BY <1>9, <1>10, Zenon DEF Due
<1> QED BY <1>11, <1>12

\* And what waits in the entries; a new writer has nothing in its entry.
LEMMA ArrivalEntry ==
  ASSUME TypeOK, NumberInv, FreshInv, OpenInv, NEW R, NEW L, NEW m, NEW rec, Grows(R, L, m, rec),
         pending' = pending, writeState' = writeState, next' = next,
         Begun(wire, next)' <=> Begun(wire, next), NEW t \in next..Len(writers')
  PROVE  Entry(pending[t], t, t = next /\ Begun(wire, next))'
<1>1. /\ L \in Nat /\ L = Len(writers) /\ R \in Nat /\ R = Len(requests)
      /\ \A r \in 1..R : requests'[r] = requests[r]
      /\ \A s \in 1..L : writers'[s] = writers[s] /\ writers[s] \in 1..R
      /\ (Len(writers') = L + 1 /\ L < MaxWriters) \/ Len(writers') = L
      /\ next \in 1..L + 1
  BY DEF Grows, NumberInv, TypeOK
<1> DEFINE B == Begun(wire, next)
           D == t = next /\ B
           e == pending[t]
           ws == writeState[t]
<1>2. t \in 1..L \/ (t = L + 1 /\ t \in Slots)
  BY <1>1, ResponsesAssumption DEF Slots
<1>3. D' <=> D
  BY Zenon
<1>4. CASE t \in 1..L
  <2>1. t \in next..Len(writers)
    BY <1>1, <1>4
  <2>2. Shaped(e, t, D, ws)
    BY <2>1 DEF OpenInv, Entry
  <2> HIDE DEF D, e, ws
  <2>3. e' = e /\ ws' = ws
    BY DEF e, ws
  <2>4. Stretch(e.chunks, t, D)
    BY <2>2 DEF Shaped
  <2>5. \A i \in 1..Len(e.chunks) : e.chunks[i].r \in 1..R /\ e.chunks[i].r = writers'[t]
    BY <1>1, <1>4, <2>4 DEF Stretch
  <2>6. Stretch(e.chunks, t, D)'
    BY <1>3, <2>3, <2>4, <2>5 DEF Stretch, Opens, GoesOn
  <2>7. e.finished => e.chunks # << >> /\ Done(e.chunks[Len(e.chunks)])'
    <3>1. SUFFICES ASSUME e.finished PROVE e.chunks # << >> /\ Done(e.chunks[Len(e.chunks)])'
      OBVIOUS
    <3> DEFINE l == Len(e.chunks)
    <3>2. e.chunks # << >> /\ Done(e.chunks[l])
      BY <2>2, <3>1 DEF Shaped
    <3>3. l \in 1..l
      <4>0. t \in Slots
        BY <1>1, <1>4, ResponsesAssumption DEF TypeOK, Slots
      <4>1. e \in Response
        BY <4>0 DEF TypeOK, e
      <4>2. e.chunks \in Seq(Piece)
        BY <4>1 DEF Response
      <4>3. l \in Nat \ {0}
        BY <3>2, <4>2, EmptySeq
      <4> QED BY <4>3
    <3>4. requests'[e.chunks[l].r] = requests[e.chunks[l].r]
      BY <1>1, <2>5, <3>3
    <3> QED BY <2>3, <3>2, <3>4 DEF Done, Ends, Surplus, Opens
  <2>8. Shaped(e, t, D, ws)'
    BY <1>3, <2>2, <2>3, <2>6, <2>7 DEF Shaped, GoesOn
  <2> QED BY <2>8 DEF Entry, D, e, ws
<1>5. CASE t = L + 1 /\ t \in Slots
  <2>1. pending[t] = None /\ writeState[t] = 0
    BY <1>1, <1>5 DEF FreshInv
  <2>2. ~D
    BY <1>1, <1>5 DEF Begun
  <2>3. e' = None /\ ws' = 0 /\ ~D'
    BY <1>3, <2>1, <2>2
  <2>4. None.chunks = << >> /\ ~None.finished /\ Len(<< >>) = 0
    BY DEF None
  <2> HIDE DEF D, e, ws
  <2>5. Shaped(e, t, D, ws)'
    BY <2>3, <2>4 DEF Shaped, Stretch
  <2> QED BY <2>5 DEF Entry, D, e, ws
<1> QED BY <1>2, <1>4, <1>5

\* on_plain_message keeps the invariant.
LEMMA ArrivalKeeps ==
  ASSUME ResponsesInv, conn = "connected", NEW rec, Arrival(rec),
         conn' \in {"connected", "disconnecting"},
         UNCHANGED <<given, posting, closed, flushes>>
  PROVE  ResponsesInv'
<1> DEFINE R == Len(requests)
           L == Len(writers)
           m == Len(wire)
<1>1. TypeOK /\ NumberInv /\ FreshInv /\ OpenInv /\ Ordered(wire) /\ ClosesLast(wire) /\ ~closed
      /\ InPlace(wire) /\ Due(wire, next)
  BY DEF ResponsesInv, ResponsesInOrder, OrderedAndWhole, CloseIsLast, OpenInv
<1>2. /\ Grows(R, L, m, rec)
      /\ requests' \in Seq([kind : Kinds, close : BOOLEAN])
      /\ writers' \in Seq(Numbers) /\ Len(writers') <= MaxWriters /\ wire' \in Seq(Piece)
      /\ early' \subseteq Numbers
  BY <1>1, ArrivalGrows
<1>3. pending' = pending /\ next' = next /\ writeState' = writeState
  BY DEF Arrival
<1> HIDE DEF R, L, m
<1>4. Ordered(wire)' /\ ClosesLast(wire)' /\ NumberInv'
  BY <1>1, <1>2, ArrivalOrdered, ArrivalClosing
<1>5. next \in 1..L + 1
  BY <1>1 DEF TypeOK, L
<1>6. Stage(wire, next, Begun(wire, next))' /\ (Begun(wire, next)' <=> Begun(wire, next))
  BY <1>1, <1>2, <1>3, <1>5, ArrivalStage
<1>6a. InPlace(wire)' /\ Due(wire, next)'
  BY <1>1, <1>2, <1>3, <1>5, ArrivalPlace
<1>7. Closing(wire, next)'
  <2>1. /\ \A i \in 1..m : FromWriter(wire[i])' <=> FromWriter(wire[i])
        /\ \A i \in 1..Len(wire') : FromWriter(wire[i])' => i \in 1..m
    BY <1>1, <1>2, ArrivalSame
  <2>2. /\ m = Len(wire) /\ L = Len(writers) /\ L \in Nat /\ Len(writers') \in {L, L + 1}
        /\ \A i \in 1..m : wire'[i] = wire[i]
        /\ \A s \in 1..L : writers'[s] = writers[s]
    BY <1>2 DEF Grows
  <2>3. SUFFICES ASSUME NEW i \in 1..Len(wire'), FromWriter(wire[i])', wire'[i].close
                 PROVE  next' <= Len(writers') /\ wire'[i].r = writers'[next'] /\ pending'[next'].close
    BY Zenon DEF Closing
  <2>4. i \in 1..m /\ FromWriter(wire[i]) /\ wire[i].close
    BY <2>1, <2>2, <2>3
  <2>5. next <= L /\ wire[i].r = writers[next] /\ pending[next].close
    BY <1>1, <2>2, <2>4 DEF OpenInv, Closing
  <2> QED BY <1>3, <1>5, <2>2, <2>4, <2>5
<1>8. OpenInv'
  <2>1. ASSUME NEW t \in next'..Len(writers') PROVE Entry(pending[t], t, t = next /\ Begun(wire, next))'
    BY <1>1, <1>2, <1>3, <1>6, ArrivalEntry
  <2> QED BY <1>6, <1>6a, <1>7, <2>1 DEF OpenInv
<1>9. TypeOK'
  <2>1. next' \in 1..Len(writers') + 1
    BY <1>2, <1>3, <1>5 DEF Grows
  <2>2. conn' \in {"connected", "disconnecting", "disconnected", "gone"}
    OBVIOUS
  <2>3. given' = given /\ posting' = posting /\ closed' = closed /\ flushes' = flushes
    OBVIOUS
  <2> QED BY <1>1, <1>2, <1>3, <2>1, <2>2, <2>3, Zenon DEF TypeOK
<1>10. FreshInv'
  <2>1. \A s \in Slots : s > Len(writers') => s > Len(writers)
    BY <1>2 DEF Grows, Slots
  <2> QED BY <1>1, <1>3, <2>1 DEF FreshInv
<1>11. ResponsesInOrder'
  BY <1>1, <1>4, <1>6a DEF ResponsesInOrder, OrderedAndWhole, CloseIsLast
<1> QED BY <1>4, <1>8, <1>9, <1>10, <1>11 DEF ResponsesInv

\* A step of which the invariant knows nothing.
LEMMA OthersKeep ==
  ASSUME ResponsesInv,
         UNCHANGED <<requests, writers, writeState, given, pending, next, closed, wire, early>>,
         flushes' \in Nat, posting' \subseteq Slots,
         conn' \in {"connected", "disconnecting", "disconnected", "gone"},
         conn' = "connected" => conn = "connected"
  PROVE  ResponsesInv'
<1>1. TypeOK'
  BY DEF ResponsesInv, TypeOK
<1>2. ResponsesInOrder' /\ Known(wire)'
  <2>1. /\ Ordered(wire) /\ ClosesLast(wire) /\ InPlace(wire) /\ Known(wire)
        /\ conn # "connected" \/ ~closed
    BY DEF ResponsesInv, NumberInv, ResponsesInOrder, OrderedAndWhole, CloseIsLast
  <2> QED BY <2>1, OrderSame
<1>3. NumberInv' /\ FreshInv'
  BY <1>2 DEF ResponsesInv, NumberInv, FreshInv, Request
<1>4. ASSUME conn' = "connected" PROVE OpenInv'
  <2>1. OpenInv
    BY <1>4 DEF ResponsesInv
  <2> DEFINE B == Begun(wire, next)
  <2>2. B \in BOOLEAN /\ Stage(wire', next', B) /\ (Begun(wire', next') <=> B)
    BY <2>1 DEF OpenInv, Begun
  <2> HIDE DEF B
  <2>3. Stage(wire, next, Begun(wire, next))' /\ (Begun(wire, next)' <=> B)
    BY <2>2, StageSame
  <2>4. Closing(wire, next)'
    BY <2>1 DEF OpenInv, Closing, FromWriter
  <2>5. ASSUME NEW t \in next'..Len(writers')
        PROVE  Entry(pending[t], t, t = next /\ Begun(wire, next))'
    <3> DEFINE D == t = next /\ B
    <3>1. Shaped(pending'[t], t, D, writeState'[t]) /\ D \in BOOLEAN
      BY <2>1, <2>2, <2>5 DEF OpenInv, Entry, B
    <3>2. D <=> (t = next /\ Begun(wire, next))'
      BY <2>3
    <3> HIDE DEF D
    <3> QED BY <3>1, <3>2, EntrySame
  <2>6. Due(wire, next)'
    BY <2>1, DueSame DEF OpenInv
  <2> QED BY <2>3, <2>4, <2>5, <2>6 DEF OpenInv
<1> QED BY <1>1, <1>2, <1>3, <1>4 DEF ResponsesInv

-----------------------------------------------------------------------------
(* The invariant holds.                                                    *)

\* A connection without requests has sent nothing.
LEMMA ResponsesInvInit ==
  ASSUME Init PROVE ResponsesInv
<1>1. /\ conn = "connected" /\ requests = << >> /\ writers = << >>
      /\ writeState = [s \in Slots |-> 0] /\ given = 0 /\ posting = {}
      /\ pending = [s \in Slots |-> None] /\ next = 1 /\ closed = FALSE
      /\ flushes = 0 /\ wire = << >> /\ early = {}
  BY DEF Init, RestOfInit
<1>2. \A S : << >> \in Seq(S)
  BY EmptySeq
<1>3. Len(<< >>) = 0
  OBVIOUS
<1>4. None \in Response
  BY <1>2 DEF None, Response
<1>5. TypeOK
  <2>1. next \in 1..Len(writers) + 1 /\ Len(writers) <= MaxWriters /\ given \in 0..MaxPieces
    BY <1>1, <1>3, ResponsesAssumption
  <2>2. writeState \in [Slots -> {0, 1, 2}] /\ pending \in [Slots -> Response]
    BY <1>1, <1>4
  <2> QED BY <1>1, <1>2, <2>1, <2>2 DEF TypeOK
<1>6. NumberInv /\ FreshInv
  BY <1>1, <1>3, ResponsesAssumption DEF NumberInv, FreshInv, Known
<1>7. ResponsesInOrder
  BY <1>1, <1>3 DEF ResponsesInOrder, OrderedAndWhole, Ordered, InPlace, CloseIsLast, ClosesLast
<1>8. OpenInv
  <2>1. ~Begun(wire, next)
    BY <1>1, <1>3 DEF Begun
  <2>2. Stage(wire, next, Begun(wire, next))
    BY <1>1, <1>3, <2>1 DEF Stage
  <2>3. Closing(wire, next) /\ Due(wire, next) /\ next..Len(writers) = {}
    BY <1>1, <1>3 DEF Closing, Due
  <2> QED BY <2>2, <2>3 DEF OpenInv
<1> QED BY <1>5, <1>6, <1>7, <1>8 DEF ResponsesInv

\* Every step of the handlers and of the loop keeps the invariant.
LEMMA ResponsesInvStep ==
  ASSUME ResponsesInv, [Next]_vars PROVE ResponsesInv'
<1>1. TypeOK /\ flushes \in Nat /\ posting \subseteq Slots /\ Len(writers) <= MaxWriters
      /\ Len(writers) \in Nat /\ Len(requests) \in Nat /\ Len(requests) <= Len(writers) + MaxDirect
      /\ conn \in {"connected", "disconnecting", "disconnected", "gone"}
  BY LenProperties DEF ResponsesInv, TypeOK, NumberInv
<1>2. ASSUME NEW close \in BOOLEAN, NEW kind \in {"get", "head"}, AsyncRequest, Arrives(kind, close)
      PROVE  ResponsesInv'
  <2> DEFINE rec == [kind |-> kind, close |-> close]
  <2>1. rec \in [kind : Kinds, close : BOOLEAN] /\ rec.kind \in {"get", "head"}
    BY DEF Kinds
  <2>2. Arrival(rec)
    BY <1>2, <2>1 DEF Arrival, AsyncRequest, Arrives, handlers, shared
  <2>3. conn = "connected" /\ conn' = conn /\ UNCHANGED <<given, posting, closed, flushes>>
    BY <1>2 DEF AsyncRequest, Arrives, handlers, shared
  <2> QED BY <2>2, <2>3, ArrivalKeeps
<1>3. ASSUME NEW close \in BOOLEAN, NEW kind \in {"star", "bad"}, AnswersAtOnce(kind, close)
      PROVE  ResponsesInv'
  <2> DEFINE rec == [kind |-> kind, close |-> close]
             p == [r |-> Len(requests) + 1, part |-> "full", close |-> close]
  <2>1. rec \in [kind : Kinds, close : BOOLEAN] /\ rec.kind \notin {"get", "head"}
    BY DEF Kinds
  <2>2. p \in Piece /\ p.r = Len(requests) + 1
    <3>1. Len(requests) + 1 \in Numbers
      BY <1>1, <1>3, ResponsesAssumption DEF AnswersAtOnce, Directly, Numbers
    <3> QED BY <3>1 DEF Piece
  <2>3. /\ conn = "connected" /\ conn' \in {"connected", "disconnecting"}
        /\ UNCHANGED <<writers, writeState, given, posting, pending, next, closed, flushes>>
        /\ requests' = Append(requests, rec) /\ wire' = wire \o <<p>> /\ Directly
        /\ early' = IF next <= Len(writers) THEN early \cup {Len(requests) + 1} ELSE early
    BY <1>3 DEF AnswersAtOnce, Arrives, Send, ShutdownIf, handlers, shared
  <2> HIDE DEF rec, p
  <2>4. Arrival(rec)
    BY <2>1, <2>2, <2>3 DEF Arrival
  <2> QED BY <2>3, <2>4, ArrivalKeeps
<1>4. CASE AsyncRequest
  BY <1>2, <1>4 DEF AsyncRequest
<1>5. CASE OptionsStar
  BY <1>3, <1>5 DEF OptionsStar
<1>6. CASE BadRequest
  BY <1>3, <1>6 DEF BadRequest
<1>7. CASE Flush
  <2>1. flushes' \in Nat
    BY <1>1, <1>7 DEF Flush
  <2>2. CASE conn = "gone" \/ closed
    BY <1>1, <1>7, <2>1, <2>2, OthersKeep DEF Flush, handlers, shared
  <2>3. CASE ~(conn = "gone" \/ closed)
    BY <1>7, <2>1, <2>3, FlushKeeps DEF Flush
  <2> QED BY <2>2, <2>3
<1>8. CASE ConnectionEnds
  BY <1>1, <1>8, OthersKeep DEF ConnectionEnds, handlers, shared
<1>9. ASSUME NEW s \in 1..Len(writers), HandlerCalls(s) PROVE ResponsesInv'
  BY <1>9, CallKeeps
<1>10. ASSUME NEW s \in 1..Len(writers), HandlerPosts(s) PROVE ResponsesInv'
  <2>1. flushes' \in Nat /\ posting' \subseteq Slots
    BY <1>1, <1>10 DEF HandlerPosts
  <2> QED BY <1>1, <1>10, <2>1, OthersKeep DEF HandlerPosts, shared
<1>11. CASE UNCHANGED vars
  BY <1>1, <1>11, OthersKeep DEF vars, handlers, shared
<1> QED BY <1>4, <1>5, <1>6, <1>7, <1>8, <1>9, <1>10, <1>11 DEF Next

\* The invariant.
LEMMA ResponsesInvHolds == Spec => []ResponsesInv
BY ResponsesInvInit, ResponsesInvStep, PTL DEF Spec

\* The variables have their types: no flush goes past the last writer, and entries hold
\* pieces of responses (enqueue, flush_ready_responses).
THEOREM ResponsesTypeCorrect == Spec => []TypeOK
<1>1. ResponsesInv => TypeOK
  BY DEF ResponsesInv
<1> QED BY <1>1, ResponsesInvHolds, PTL

\* For any numbers of requests, handlers and pieces: the writers' responses leave whole and in
\* the order of their requests, one that closes is the last of them, and an answer past the
\* writers stands in its place, unless a response to an earlier request was still to be sent
\* (`early`); a HEAD's response may have a Surplus (enqueue, flush_ready_responses,
\* on_options_star, send_bad_request_and_close).
THEOREM ResponsesStayInOrder == Spec => []ResponsesInOrder
<1>1. ResponsesInv => ResponsesInOrder
  BY DEF ResponsesInv
<1> QED BY <1>1, ResponsesInvHolds, PTL

-----------------------------------------------------------------------------
(* Socks5.  The session's life: what a record of it holds in each phase.   *)

\* f is queued.
Has(q, f) == \E i \in 1..Len(q) : q[i] = f

SocksKinds == Offers \cup {"garbage", "right", "wrong", "target", "unknown", "bind", "novel", "data"}
SocksCodes == {"user_password", "no_auth", "unacceptable", "granted", "denied", "success", "failure",
               "command_not_supported", "addr_type_not_supported"}
SocksElement == (SocksKinds \cup SocksCodes) \X ({"head", "rest"} \cup Nat)
SocksFunctors == {"down", "up", "cleanup"}

IsSide(c) ==
  /\ DOMAIN c = {"state", "reading", "out", "got"}
  /\ c.state \in {"none", "connected", "disconnecting", "disconnected"}
  /\ c.reading \in BOOLEAN /\ c.out \in Seq(SocksElement) /\ c.got \in Seq(SocksElement)

IsSession(w) ==
  /\ DOMAIN w = {"auth", "idles", "script", "arrived", "answered", "buffer", "phase", "preserved", "upstream",
                 "client", "connecting", "hold", "context", "timers", "cleanup", "functors", "stray",
                 "down", "up"}
  /\ \A q \in {w.script, w.arrived, w.buffer, w.preserved} : q \in Seq(SocksElement)
  /\ w.phase \in {"greeting", "user_password", "request", "connecting", "relay", "closed"}
  /\ \A b \in {w.auth, w.idles, w.upstream, w.client, w.connecting, w.hold, w.context, w.cleanup, w.stray} :
       b \in BOOLEAN
  /\ w.answered \in Nat
  /\ w.timers \in SUBSET {"handshake", "connect", "idle"} /\ w.functors \in Seq(SocksFunctors)
  /\ IsSide(w.down) /\ IsSide(w.up)

\* The phases of the handshake.
Greets(w) == w.phase \in {"greeting", "user_password", "request"}

\* The cleanup is queued once.
CleansOnce(q) == \A i, j \in 1..Len(q) : q[i] = "cleanup" /\ q[j] = "cleanup" => i = j

\* The upstream's close is queued, and the cleanup behind it.
ClosesFirst(q) == \E i, j \in 1..Len(q) : i < j /\ q[i] = "up" /\ q[j] = "cleanup"

\* The client's connection is read while it is open, or there never was an upstream.
Heeds(w) == w.down.reading \/ w.down.state = "disconnected" \/ w.up.state = "none"

\* A session that is over: what it still holds, a queued cleanup lets go of.
OverLife(w) ==
  /\ w.timers = {} /\ ~w.connecting
  /\ w.up.state # "connected" /\ w.down.state # "none"
  /\ w.hold \/ w.client \/ w.upstream => Has(w.functors, "cleanup")
  /\ Has(w.functors, "cleanup") => w.cleanup
  /\ CleansOnce(w.functors)
  /\ w.up.state = "disconnecting" => w.client /\ ClosesFirst(w.functors)
  /\ w.down.state = "disconnected" => ~w.context
  /\ Heeds(w)

SessionLife(w) ==
  /\ IsSession(w) /\ ~w.stray
  /\ w.phase # "closed" =>
       w.context /\ w.down.state = "connected" /\ ~w.cleanup /\ w.functors = << >>
  /\ Greets(w) =>
       /\ w.timers = {"handshake"} /\ w.up.state = "none" /\ w.down.reading
       /\ ~w.client /\ ~w.connecting /\ ~w.upstream /\ ~w.hold
  /\ w.phase = "connecting" =>
       /\ w.timers = {"connect"} /\ w.up.state = "none" /\ ~w.down.reading
       /\ w.client /\ w.connecting /\ ~w.upstream /\ w.hold
  /\ w.phase = "relay" =>
       /\ w.timers = (IF w.idles THEN {"idle"} ELSE {}) /\ w.up.state = "connected"
       /\ w.down.reading /\ w.client /\ ~w.connecting /\ w.upstream /\ w.hold
  /\ w.phase = "closed" => OverLife(w)

-----------------------------------------------------------------------------
(* The queue of functors.                                                  *)

\* What an Append does.
LEMMA ThirdOf ==
  ASSUME NEW S, NEW b \in Seq(S), NEW z \in S
  PROVE  LET c == Append(b, z)
         IN  Len(b) = 2 => c \in Seq(S) /\ Len(c) = 3 /\ c[1] = b[1] /\ c[2] = b[2] /\ c[3] = z
<1> DEFINE c == Append(b, z)
<1>1. /\ c \in Seq(S) /\ Len(c) = Len(b) + 1 /\ c[Len(b) + 1] = z
      /\ \A i \in 1..Len(b) : c[i] = b[i]
  OBVIOUS
<1> HIDE DEF c
<1>2. Len(b) = 2 => c \in Seq(S) /\ Len(c) = 3 /\ c[1] = b[1] /\ c[2] = b[2] /\ c[3] = z
  BY <1>1
<1> QED BY <1>2 DEF c

\* What a session that ends may leave in its queue.
LEMMA QueuesLeft ==
  /\ \A q \in {<< >>, <<"down">>} : q \in Seq(SocksFunctors) /\ ~Has(q, "cleanup") /\ CleansOnce(q)
  /\ \A q \in {<<"cleanup">>, <<"down", "cleanup">>, <<"up", "cleanup">>, <<"down", "up", "cleanup">>} :
       q \in Seq(SocksFunctors) /\ Has(q, "cleanup") /\ CleansOnce(q)
  /\ ClosesFirst(<<"up", "cleanup">>) /\ ClosesFirst(<<"down", "up", "cleanup">>)
  /\ Append(<< >>, "cleanup") = <<"cleanup">> /\ Append(<< >>, "down") = <<"down">>
  /\ Append(<< >>, "up") = <<"up">> /\ Append(<<"up">>, "cleanup") = <<"up", "cleanup">>
  /\ Append(<<"down">>, "cleanup") = <<"down", "cleanup">>
  /\ Append(<<"down">>, "up") = <<"down", "up">>
  /\ Append(<<"down", "up">>, "cleanup") = <<"down", "up", "cleanup">>
<1>1. << >> \in Seq(SocksFunctors) /\ ~Has(<< >>, "cleanup") /\ CleansOnce(<< >>)
  BY DEF SocksFunctors, Has, CleansOnce
<1>2. <<"down">> \in Seq(SocksFunctors) /\ ~Has(<<"down">>, "cleanup") /\ CleansOnce(<<"down">>)
  BY DEF SocksFunctors, Has, CleansOnce
<1>3. <<"cleanup">> \in Seq(SocksFunctors) /\ Has(<<"cleanup">>, "cleanup") /\ CleansOnce(<<"cleanup">>)
  BY DEF SocksFunctors, Has, CleansOnce
<1>4. ASSUME NEW x \in {"down", "up"}
      PROVE  <<x, "cleanup">> \in Seq(SocksFunctors) /\ Has(<<x, "cleanup">>, "cleanup")
             /\ CleansOnce(<<x, "cleanup">>) /\ (x = "up" => ClosesFirst(<<x, "cleanup">>))
  <2> DEFINE q == <<x, "cleanup">>
  <2>1. Len(q) = 2 /\ q[1] = x /\ q[2] = "cleanup" /\ q \in Seq(SocksFunctors) /\ 1..2 = {1, 2}
    BY DEF SocksFunctors
  <2> HIDE DEF q
  <2> QED BY <2>1 DEF q, Has, CleansOnce, ClosesFirst
<1>5. LET q == <<"down", "up", "cleanup">>
      IN  q \in Seq(SocksFunctors) /\ Has(q, "cleanup") /\ CleansOnce(q) /\ ClosesFirst(q)
  <2> DEFINE q == <<"down", "up", "cleanup">>
  <2>1. Len(q) = 3 /\ q[1] = "down" /\ q[2] = "up" /\ q[3] = "cleanup" /\ q \in Seq(SocksFunctors)
        /\ 1..3 = {1, 2, 3}
    BY DEF SocksFunctors
  <2> HIDE DEF q
  <2>2. Has(q, "cleanup") /\ CleansOnce(q) /\ ClosesFirst(q)
    BY <2>1 DEF Has, CleansOnce, ClosesFirst
  <2> QED BY <2>1, <2>2 DEF q
<1>7. ASSUME NEW x \in SocksFunctors, NEW y \in SocksFunctors
      PROVE  Append(<<x>>, y) = <<x, y>> /\ Append(<<x, y>>, "cleanup") = <<x, y, "cleanup">>
  <2>1. "cleanup" \in SocksFunctors
    BY DEF SocksFunctors
  <2> HIDE DEF SocksFunctors
  <2> DEFINE a == Append(<<x>>, y)
             b == <<x, y>>
             c == Append(b, "cleanup")
             d == <<x, y, "cleanup">>
  <2>2. /\ a \in Seq(SocksFunctors) /\ Len(a) = 2 /\ a[1] = x /\ a[2] = y
        /\ b \in Seq(SocksFunctors) /\ Len(b) = 2 /\ b[1] = x /\ b[2] = y
        /\ d \in Seq(SocksFunctors) /\ Len(d) = 3 /\ d[1] = x /\ d[2] = y /\ d[3] = "cleanup"
        /\ 1..2 = {1, 2} /\ 1..3 = {1, 2, 3}
    BY <2>1
  <2> HIDE DEF a, b, d
  <2> HIDE DEF c
  <2>3. c \in Seq(SocksFunctors) /\ Len(c) = 3 /\ c[1] = x /\ c[2] = y /\ c[3] = "cleanup"
    BY <2>1, <2>2, ThirdOf DEF c
  <2>4. a = b
    <3>1. \A i \in 1..Len(a) : a[i] = b[i]
      BY <2>2
    <3> QED BY <2>2, <3>1, SeqEqual
  <2>5. c = d
    <3>1. \A i \in 1..Len(c) : c[i] = d[i]
      BY <2>2, <2>3
    <3> QED BY <2>2, <2>3, <3>1, SeqEqual
  <2> QED BY <2>4, <2>5 DEF a, b, c, d
<1>6. /\ Append(<< >>, "cleanup") = <<"cleanup">> /\ Append(<< >>, "down") = <<"down">>
      /\ Append(<< >>, "up") = <<"up">> /\ Append(<<"up">>, "cleanup") = <<"up", "cleanup">>
      /\ Append(<<"down">>, "cleanup") = <<"down", "cleanup">>
      /\ Append(<<"down">>, "up") = <<"down", "up">>
      /\ Append(<<"down", "up">>, "cleanup") = <<"down", "up", "cleanup">>
  <2>1. "down" \in SocksFunctors /\ "up" \in SocksFunctors /\ "cleanup" \in SocksFunctors
    BY DEF SocksFunctors
  <2>2. \A x : Append(<< >>, x) = <<x>>
    OBVIOUS
  <2> QED BY <1>7, <2>1, <2>2
<1> QED BY <1>1, <1>2, <1>3, <1>4, <1>5, <1>6

\* What is left when the first functor is taken.
LEMMA QueueTail ==
  ASSUME NEW q \in Seq(SocksFunctors), q # << >>, CleansOnce(q)
  PROVE  /\ Tail(q) \in Seq(SocksFunctors) /\ Head(q) \in SocksFunctors /\ CleansOnce(Tail(q))
         /\ Has(Tail(q), "cleanup") => Has(q, "cleanup")
         /\ Head(q) # "cleanup" /\ Has(q, "cleanup") => Has(Tail(q), "cleanup")
         /\ Head(q) # "up" /\ ClosesFirst(q) => ClosesFirst(Tail(q))
         /\ Head(q) = "cleanup" => ~Has(Tail(q), "cleanup") /\ ~ClosesFirst(q) /\ Has(q, "cleanup")
         /\ ClosesFirst(q) => Has(q, "cleanup")
<1> DEFINE t == Tail(q)
           n == Len(q)
<1>1. /\ t \in Seq(SocksFunctors) /\ Head(q) \in SocksFunctors /\ Head(q) = q[1]
      /\ n \in Nat \ {0} /\ Len(t) = n - 1 /\ \A i \in 1..n - 1 : t[i] = q[i + 1]
  OBVIOUS
<1> HIDE DEF t, n
<1>2. \A i \in 1..n - 1 : i + 1 \in 1..n /\ i + 1 # 1
  BY <1>1
<1>3. \A i \in 1..n : i # 1 => i - 1 \in 1..n - 1 /\ (i - 1) + 1 = i /\ t[i - 1] = q[i]
  BY <1>1
<1>4. 1 \in 1..n
  BY <1>1
<1>5. CleansOnce(t)
  <2> SUFFICES ASSUME NEW i \in 1..n - 1, NEW j \in 1..n - 1, t[i] = "cleanup", t[j] = "cleanup"
               PROVE  i = j
    BY <1>1 DEF CleansOnce
  <2>1. q[i + 1] = "cleanup" /\ q[j + 1] = "cleanup" /\ i + 1 \in 1..n /\ j + 1 \in 1..n
    BY <1>1, <1>2
  <2>2. i + 1 = j + 1
    BY <2>1 DEF CleansOnce, n
  <2> QED BY <2>2
<1>6. Has(t, "cleanup") => Has(q, "cleanup")
  BY <1>1, <1>2 DEF Has, n
<1>7. Head(q) # "cleanup" /\ Has(q, "cleanup") => Has(t, "cleanup")
  BY <1>1, <1>3 DEF Has, n
<1>8. ASSUME Head(q) # "up", ClosesFirst(q) PROVE ClosesFirst(t)
  <2>1. PICK i \in 1..n, j \in 1..n : i < j /\ q[i] = "up" /\ q[j] = "cleanup"
    BY <1>8 DEF ClosesFirst, n
  <2>2. i # 1 /\ j # 1 /\ i - 1 < j - 1
    BY <1>1, <1>8, <2>1
  <2> DEFINE k == i - 1
             l == j - 1
  <2>3. k \in 1..n - 1 /\ l \in 1..n - 1 /\ k < l /\ t[k] = "up" /\ t[l] = "cleanup"
    BY <1>3, <2>1, <2>2
  <2> HIDE DEF k, l
  <2> QED BY <1>1, <2>3 DEF ClosesFirst
<1>9. ASSUME Head(q) = "cleanup" PROVE ~Has(t, "cleanup") /\ ~ClosesFirst(q) /\ Has(q, "cleanup")
  <2>1. \A i \in 1..n : q[i] = "cleanup" => i = 1
    BY <1>1, <1>4, <1>9 DEF CleansOnce, n
  <2>2. ~Has(t, "cleanup")
    BY <1>1, <1>2, <2>1 DEF Has
  <2>3. ~ClosesFirst(q)
    BY <2>1 DEF ClosesFirst, n
  <2> QED BY <1>1, <1>4, <1>9, <2>2, <2>3 DEF Has, n
<1>10. ClosesFirst(q) => Has(q, "cleanup")
  BY DEF ClosesFirst, Has
<1> QED BY <1>1, <1>5, <1>6, <1>7, <1>8, <1>9, <1>10 DEF t

-----------------------------------------------------------------------------
(* What the handlers make of a session's life.                             *)

\* The streams of v are those of w, but for the downstream output, which is o.
SameStreams(w, v, o) ==
  /\ v.auth = w.auth /\ v.idles = w.idles /\ v.script = w.script
  /\ v.arrived = w.arrived /\ v.answered = w.answered
  /\ v.up.got = w.up.got /\ v.up.out = w.up.out /\ v.down.got = w.down.got /\ v.down.out = o

\* The session is over.
Over(w, v, o) == SessionLife(v) /\ v.phase = "closed" /\ SameStreams(w, v, o)

\* What is empty is a sequence.
LEMMA NoElements == << >> \in Seq(SocksElement) /\ << >> \in Seq(SocksFunctors)
OBVIOUS

\* An assignment to a member of the session.
LEMMA SessionSets ==
  ASSUME NEW w, IsSession(w)
  PROVE  /\ \A b \in BOOLEAN :
              /\ IsSession([w EXCEPT !.client = b]) /\ IsSession([w EXCEPT !.upstream = b])
              /\ IsSession([w EXCEPT !.hold = b]) /\ IsSession([w EXCEPT !.context = b])
              /\ IsSession([w EXCEPT !.connecting = b]) /\ IsSession([w EXCEPT !.cleanup = b])
              /\ IsSession([w EXCEPT !.stray = b])
         /\ IsSession([w EXCEPT !.phase = "closed"])
         /\ \A s \in SUBSET {"handshake", "connect", "idle"} : IsSession([w EXCEPT !.timers = s])
         /\ \A q \in Seq(SocksFunctors) : IsSession([w EXCEPT !.functors = q])
         /\ \A q \in Seq(SocksElement) :
              IsSession([w EXCEPT !.buffer = q]) /\ IsSession([w EXCEPT !.preserved = q])
<1> HIDE DEF SocksFunctors, SocksElement
<1> QED BY DEF IsSession

\* ~Socks5ProxySession() finds nothing to let go of.
LEMMA ReleaseIdle ==
  ASSUME NEW c, IsSession(c), c.phase = "closed", ~c.stray, OverLife(c)
  PROVE  Over(c, Release(c), c.down.out)
<1> DEFINE v == [c EXCEPT !.upstream = FALSE]
<1>1. CASE Alive(c)
  BY <1>1 DEF Release, Over, SessionLife, Greets, SameStreams
<1>2. CASE ~Alive(c)
  <2>1. ~Has(c.functors, "cleanup") /\ ~c.hold
    BY <1>2 DEF Alive, Contains, Has
  <2>2. Release(c) = v /\ ~c.client
    BY <1>2, <2>1 DEF Release, DestroyClient, OverLife
  <2>3. IsSession(v)
    BY SessionSets
  <2>4. /\ v.phase = c.phase /\ v.stray = c.stray /\ v.timers = c.timers /\ v.connecting = c.connecting
        /\ v.up = c.up /\ v.down = c.down /\ v.hold = c.hold /\ v.client = c.client /\ ~v.upstream
        /\ v.functors = c.functors /\ v.cleanup = c.cleanup /\ v.context = c.context
    BY DEF IsSession
  <2>5. SameStreams(c, v, c.down.out)
    BY <2>4 DEF IsSession, SameStreams
  <2> HIDE DEF v
  <2>6. OverLife(v)
    BY <2>1, <2>4 DEF OverLife, Heeds
  <2> QED BY <2>2, <2>3, <2>4, <2>5, <2>6 DEF Over, SessionLife, Greets
<1> QED BY <1>1, <1>2

\* The downstream connection is down, and nothing else has been done yet.
LEMMA DownIs ==
  ASSUME NEW w, IsSession(w)
  PROVE  LET d == [w EXCEPT !.down.state = "disconnected", !.down.reading = FALSE, !.down.out = << >>]
         IN  /\ IsSession(d) /\ d.down.state = "disconnected" /\ SameStreams(w, d, << >>)
             /\ d.phase = w.phase /\ d.stray = w.stray /\ d.timers = w.timers
             /\ d.connecting = w.connecting /\ d.up = w.up /\ d.hold = w.hold /\ d.client = w.client
             /\ d.upstream = w.upstream /\ d.functors = w.functors /\ d.cleanup = w.cleanup
<1> DEFINE d == [w EXCEPT !.down.state = "disconnected", !.down.reading = FALSE, !.down.out = << >>]
<1>1. IsSession(d)
  BY NoElements DEF IsSession, IsSide
<1>2. SameStreams(w, d, << >>) /\ d.down.state = "disconnected"
  BY DEF IsSession, IsSide, SameStreams
<1>3. /\ d.phase = w.phase /\ d.stray = w.stray /\ d.timers = w.timers
      /\ d.connecting = w.connecting /\ d.up = w.up /\ d.hold = w.hold /\ d.client = w.client
      /\ d.upstream = w.upstream /\ d.functors = w.functors /\ d.cleanup = w.cleanup
  BY DEF IsSession
<1> QED BY <1>1, <1>2, <1>3

\* handle_close() of the client's connection, in a session that is over.
LEMMA DownClosedOver ==
  ASSUME NEW w, SessionLife(w), w.phase = "closed", Open(w, "down")
  PROVE  Over(w, HandleCloseOf(w, "down"), << >>)
<1> DEFINE d == [w EXCEPT !.down.state = "disconnected", !.down.reading = FALSE, !.down.out = << >>]
           c == [d EXCEPT !.context = FALSE]
<1>1. /\ IsSession(d) /\ d.down.state = "disconnected" /\ SameStreams(w, d, << >>)
      /\ d.phase = "closed" /\ ~d.stray /\ d.timers = w.timers /\ d.connecting = w.connecting
      /\ d.up = w.up /\ d.hold = w.hold /\ d.client = w.client
      /\ d.upstream = w.upstream /\ d.functors = w.functors /\ d.cleanup = w.cleanup
  BY DownIs DEF SessionLife
<1>2. HandleCloseOf(w, "down") = Release([CloseSession(d) EXCEPT !.context = FALSE])
  BY DEF HandleCloseOf
<1> HIDE DEF d
<1>3. HandleCloseOf(w, "down") = Release(c)
  BY <1>1, <1>2 DEF CloseSession
<1>4. /\ c.phase = "closed" /\ ~c.stray /\ ~c.context /\ c.timers = w.timers /\ c.up = w.up
      /\ c.connecting = w.connecting /\ c.down.state = "disconnected" /\ c.hold = w.hold
      /\ c.client = w.client /\ c.upstream = w.upstream /\ c.functors = w.functors
      /\ c.cleanup = w.cleanup /\ SameStreams(w, c, << >>) /\ IsSession(c)
  BY <1>1, SessionSets DEF IsSession, SameStreams
<1> HIDE DEF c
<1>5. OverLife(c)
  BY <1>4 DEF SessionLife, OverLife, Heeds
<1>6. Over(c, Release(c), c.down.out)
  BY <1>4, <1>5, ReleaseIdle
<1> QED BY <1>3, <1>4, <1>6 DEF Over, SameStreams

\* Closed and without timers.
LEMMA EndedIs ==
  ASSUME NEW d, IsSession(d)
  PROVE  LET e == Closed(CancelTimers(d))
         IN  /\ IsSession(e) /\ e.phase = "closed" /\ e.timers = {} /\ SameStreams(d, e, d.down.out)
             /\ e.stray = d.stray /\ e.connecting = d.connecting /\ e.up = d.up /\ e.down = d.down
             /\ e.hold = d.hold /\ e.client = d.client /\ e.upstream = d.upstream
             /\ e.functors = d.functors /\ e.cleanup = d.cleanup /\ e.context = d.context
<1> DEFINE f == [d EXCEPT !.timers = {}]
           e == [f EXCEPT !.phase = "closed"]
<1>1. IsSession(f) /\ IsSession(e)
  BY SessionSets
<1>2. /\ e.phase = "closed" /\ e.timers = {} /\ SameStreams(d, e, d.down.out)
      /\ e.stray = d.stray /\ e.connecting = d.connecting /\ e.up = d.up /\ e.down = d.down
      /\ e.hold = d.hold /\ e.client = d.client /\ e.upstream = d.upstream
      /\ e.functors = d.functors /\ e.cleanup = d.cleanup /\ e.context = d.context
  BY DEF IsSession, SameStreams
<1> QED BY <1>1, <1>2 DEF Closed, CancelTimers

\* ~TcpClient() while nothing is connected.
LEMMA ClientGone ==
  ASSUME NEW e, IsSession(e), ~Open(e, "up"), e.client \/ ~e.connecting
  PROVE  LET f == DestroyClient(e)
         IN  /\ IsSession(f) /\ f.phase = e.phase /\ f.timers = e.timers /\ SameStreams(e, f, e.down.out)
             /\ f.stray = e.stray /\ ~f.connecting /\ f.up = e.up /\ f.down = e.down
             /\ f.hold = e.hold /\ ~f.client /\ f.upstream = e.upstream
             /\ f.functors = e.functors /\ f.cleanup = e.cleanup /\ f.context = e.context
<1> DEFINE g == [e EXCEPT !.client = FALSE]
           f == [g EXCEPT !.connecting = FALSE]
<1>1. IsSession(g) /\ IsSession(f) /\ f = [e EXCEPT !.client = FALSE, !.connecting = FALSE]
  BY SessionSets
<1>2. /\ f.phase = e.phase /\ f.timers = e.timers /\ SameStreams(e, f, e.down.out)
      /\ f.stray = e.stray /\ ~f.connecting /\ f.up = e.up /\ f.down = e.down
      /\ f.hold = e.hold /\ ~f.client /\ f.upstream = e.upstream
      /\ f.functors = e.functors /\ f.cleanup = e.cleanup /\ f.context = e.context
  BY DEF IsSession, SameStreams
<1> HIDE DEF f
<1>3. DestroyClient(e) = IF e.client THEN f ELSE e
  BY <1>1, <1>2 DEF DestroyClient, ForceCloseOf, Open
<1> QED BY <1>1, <1>2, <1>3 DEF SameStreams

\* handle_close() of the client's connection, in a session that has no upstream connection.
LEMMA DownClosedEarly ==
  ASSUME NEW w, SessionLife(w), Greets(w) \/ w.phase = "connecting"
  PROVE  Over(w, HandleCloseOf(w, "down"), << >>)
<1> DEFINE d == [w EXCEPT !.down.state = "disconnected", !.down.reading = FALSE, !.down.out = << >>]
           e == Closed(CancelTimers(d))
           f == DestroyClient(e)
           g == [f EXCEPT !.hold = FALSE]
           c == [g EXCEPT !.context = FALSE]
<1>1. /\ IsSession(d) /\ d.down.state = "disconnected" /\ SameStreams(w, d, << >>)
      /\ d.phase # "closed" /\ ~d.stray /\ d.connecting = w.connecting
      /\ d.up.state = "none" /\ d.client = w.client
      /\ ~d.upstream /\ d.functors = << >> /\ ~d.cleanup
  BY DownIs DEF SessionLife, Greets
<1>2. HandleCloseOf(w, "down") = Release([CloseSession(d) EXCEPT !.context = FALSE])
  BY DEF HandleCloseOf, Open, SessionLife, Greets
<1> HIDE DEF d
<1>3. HandleCloseOf(w, "down") = Release(c)
  BY <1>1, <1>2 DEF CloseSession
<1>4. /\ IsSession(e) /\ e.phase = "closed" /\ e.timers = {} /\ SameStreams(w, e, << >>)
      /\ ~e.stray /\ e.connecting = w.connecting /\ e.up.state = "none" /\ e.down.state = "disconnected"
      /\ e.client = w.client /\ ~e.upstream /\ e.functors = << >>
  BY <1>1, EndedIs DEF SameStreams
<1> HIDE DEF e
<1>5. e.client \/ ~e.connecting
  BY <1>4 DEF SessionLife, Greets
<1>6. /\ IsSession(f) /\ f.phase = "closed" /\ f.timers = {} /\ SameStreams(w, f, << >>)
      /\ ~f.stray /\ ~f.connecting /\ f.up.state = "none" /\ f.down.state = "disconnected"
      /\ ~f.client /\ ~f.upstream /\ f.functors = << >>
  BY <1>4, <1>5, ClientGone DEF SameStreams, Open
<1> HIDE DEF f
<1>7. /\ c.phase = "closed" /\ c.timers = {} /\ SameStreams(w, c, << >>)
      /\ ~c.stray /\ ~c.connecting /\ c.up.state = "none" /\ c.down.state = "disconnected"
      /\ ~c.client /\ ~c.upstream /\ c.functors = << >> /\ ~c.hold /\ ~c.context
  BY <1>6 DEF SameStreams, IsSession
<1>8. IsSession(c)
  BY <1>6, SessionSets
<1> HIDE DEF c
<1>9. OverLife(c)
  BY <1>7, QueuesLeft DEF OverLife, Heeds
<1>10. Over(c, Release(c), c.down.out)
  BY <1>7, <1>8, <1>9, ReleaseIdle
<1> QED BY <1>3, <1>7, <1>10 DEF Over, SameStreams

\* An open upstream connection is closed by force, and the cleanup queued behind it.
LEMMA CleansBehind ==
  ASSUME NEW e, IsSession(e), ~e.cleanup, e.up.state = "connected",
         e.functors \in {<< >>, <<"down">>}
  PROVE  LET f == ScheduleUpstreamCleanup(ForceCloseOf(e, "up"))
         IN  /\ IsSession(f) /\ f.phase = e.phase /\ f.timers = e.timers /\ SameStreams(e, f, e.down.out)
             /\ f.stray = e.stray /\ f.connecting = e.connecting /\ f.up.state = "disconnecting"
             /\ f.down = e.down /\ f.hold = e.hold /\ f.client = e.client /\ f.upstream = e.upstream
             /\ f.cleanup /\ f.context = e.context
             /\ Has(f.functors, "cleanup") /\ CleansOnce(f.functors) /\ ClosesFirst(f.functors)
<1> DEFINE g == [e EXCEPT !.up.state = "disconnecting", !.functors = Append(e.functors, "up")]
           f == [g EXCEPT !.cleanup = TRUE, !.functors = Append(g.functors, "cleanup")]
<1>1. ForceCloseOf(e, "up") = g
  BY DEF ForceCloseOf, Open, IsSession, IsSide
<1>2. IsSession([e EXCEPT !.up.state = "disconnecting"])
  BY DEF IsSession, IsSide
<1>3. Append(e.functors, "up") \in Seq(SocksFunctors)
  BY DEF IsSession, SocksFunctors
<1>4. g = [[e EXCEPT !.up.state = "disconnecting"] EXCEPT !.functors = Append(e.functors, "up")]
  BY DEF IsSession
<1>5. IsSession(g)
  BY <1>2, <1>3, <1>4, SessionSets, Zenon
<1>6. /\ g.phase = e.phase /\ g.timers = e.timers /\ SameStreams(e, g, e.down.out)
      /\ g.stray = e.stray /\ g.connecting = e.connecting /\ g.up.state = "disconnecting"
      /\ g.down = e.down /\ g.hold = e.hold /\ g.client = e.client /\ g.upstream = e.upstream
      /\ ~g.cleanup /\ g.context = e.context /\ g.functors = Append(e.functors, "up")
  BY DEF IsSession, IsSide, SameStreams
<1> HIDE DEF g
<1>7. Append(g.functors, "cleanup") \in {<<"up", "cleanup">>, <<"down", "up", "cleanup">>}
  BY <1>6, QueuesLeft
<1>8. ScheduleUpstreamCleanup(g) = f
  BY <1>6 DEF ScheduleUpstreamCleanup
<1>9. IsSession(f)
  <2> DEFINE h == [g EXCEPT !.cleanup = TRUE]
             q == Append(g.functors, "cleanup")
  <2>1. q \in Seq(SocksFunctors)
    BY <1>7, QueuesLeft
  <2>2. IsSession(h)
    BY <1>5, SessionSets
  <2>3. f = [h EXCEPT !.functors = q]
    OBVIOUS
  <2> HIDE DEF h, q
  <2> QED BY <2>1, <2>2, <2>3, SessionSets, Zenon
<1>10. /\ f.phase = e.phase /\ f.timers = e.timers /\ SameStreams(e, f, e.down.out)
       /\ f.stray = e.stray /\ f.connecting = e.connecting /\ f.up.state = "disconnecting"
       /\ f.down = e.down /\ f.hold = e.hold /\ f.client = e.client /\ f.upstream = e.upstream
       /\ f.cleanup /\ f.context = e.context /\ f.functors = Append(g.functors, "cleanup")
  BY <1>5, <1>6 DEF IsSession, SameStreams
<1> HIDE DEF f
<1>11. Has(f.functors, "cleanup") /\ CleansOnce(f.functors) /\ ClosesFirst(f.functors)
  BY <1>7, <1>10, QueuesLeft
<1> QED BY <1>1, <1>8, <1>9, <1>10, <1>11

\* handle_close() of the client's connection while the session relays.
LEMMA DownClosedRelay ==
  ASSUME NEW w, SessionLife(w), w.phase = "relay"
  PROVE  Over(w, HandleCloseOf(w, "down"), << >>)
<1> DEFINE d == [w EXCEPT !.down.state = "disconnected", !.down.reading = FALSE, !.down.out = << >>]
           e == Closed(CancelTimers(d))
           f == ScheduleUpstreamCleanup(ForceCloseOf(e, "up"))
           c == [f EXCEPT !.context = FALSE]
<1>1. /\ IsSession(d) /\ d.down.state = "disconnected" /\ SameStreams(w, d, << >>)
      /\ d.phase = "relay" /\ ~d.stray /\ ~d.connecting /\ d.up.state = "connected" /\ d.client
      /\ d.upstream /\ d.functors = << >> /\ ~d.cleanup
  BY DownIs DEF SessionLife, Greets
<1>2. HandleCloseOf(w, "down") = Release([CloseSession(d) EXCEPT !.context = FALSE])
  BY DEF HandleCloseOf, Open, SessionLife
<1> HIDE DEF d
<1>3. HandleCloseOf(w, "down") = Release(c)
  BY <1>1, <1>2 DEF CloseSession
<1>4. /\ IsSession(e) /\ e.phase = "closed" /\ e.timers = {} /\ SameStreams(w, e, << >>)
      /\ ~e.stray /\ ~e.connecting /\ e.up.state = "connected" /\ e.down.state = "disconnected"
      /\ e.client /\ e.functors = << >> /\ ~e.cleanup
  BY <1>1, EndedIs DEF SameStreams
<1> HIDE DEF e
<1>5. /\ IsSession(f) /\ f.phase = "closed" /\ f.timers = {} /\ SameStreams(w, f, << >>)
      /\ ~f.stray /\ ~f.connecting /\ f.up.state = "disconnecting" /\ f.down.state = "disconnected"
      /\ f.client /\ f.cleanup
      /\ Has(f.functors, "cleanup") /\ CleansOnce(f.functors) /\ ClosesFirst(f.functors)
  BY <1>4, CleansBehind DEF SameStreams
<1> HIDE DEF f
<1>6. /\ c.phase = "closed" /\ c.timers = {} /\ SameStreams(w, c, << >>)
      /\ ~c.stray /\ ~c.connecting /\ c.up.state = "disconnecting" /\ c.down.state = "disconnected"
      /\ c.client /\ c.cleanup /\ ~c.context /\ c.functors = f.functors
  BY <1>5 DEF SameStreams, IsSession
<1>7. IsSession(c)
  BY <1>5, SessionSets
<1> HIDE DEF c
<1>8. OverLife(c)
  BY <1>5, <1>6 DEF OverLife, Heeds
<1>9. Over(c, Release(c), c.down.out)
  BY <1>6, <1>7, <1>8, ReleaseIdle
<1> QED BY <1>3, <1>6, <1>9 DEF Over, SameStreams

\* A session with the client's connection open and nothing queued.
Bare(w) ==
  /\ IsSession(w) /\ ~w.stray /\ ~w.cleanup /\ w.functors = << >> /\ ~w.connecting
  /\ w.down.state = "connected"

\* Only the connections differ.
SameBut(w, v) ==
  /\ v.auth = w.auth /\ v.idles = w.idles /\ v.script = w.script
  /\ v.arrived = w.arrived /\ v.answered = w.answered
  /\ v.buffer = w.buffer /\ v.preserved = w.preserved
  /\ v.phase = w.phase /\ v.timers = w.timers /\ v.stray = w.stray /\ v.connecting = w.connecting
  /\ v.hold = w.hold /\ v.client = w.client /\ v.upstream = w.upstream
  /\ v.functors = w.functors /\ v.cleanup = w.cleanup /\ v.context = w.context

\* What is sent is in the output.
LEMMA SentIs ==
  ASSUME NEW w, IsSession(w), NEW a \in Seq(SocksElement), w.down.state = "connected"
  PROVE  LET v == SendTo(w, "down", a)
         IN  /\ IsSession(v) /\ SameBut(w, v) /\ v.up = w.up /\ v.down.got = w.down.got
             /\ v.down.out = w.down.out \o a /\ v.down.state = "connected"
             /\ v.down.reading = w.down.reading
<1> DEFINE v == [w EXCEPT !.down.out = w.down.out \o a]
<1>1. SendTo(w, "down", a) = v
  BY DEF SendTo
<1>2. w.down.out \o a \in Seq(SocksElement)
  BY ConcatProperties DEF IsSession, IsSide
<1>3. IsSession(v)
  BY <1>2 DEF IsSession, IsSide
<1>4. /\ v.down.got = w.down.got /\ v.down.out = w.down.out \o a /\ v.down.state = "connected"
      /\ v.down.reading = w.down.reading
  BY DEF IsSession, IsSide
<1>5. SameBut(w, v) /\ v.up = w.up
  BY DEF IsSession, SameBut
<1> HIDE DEF v
<1> QED BY <1>1, <1>3, <1>4, <1>5

\* An answer is a sequence.
LEMMA ReplyIs == \A r \in SocksCodes : Reply(r) \in Seq(SocksElement)
BY DEF Reply, SocksCodes, SocksElement

\* The client gets an answer, and the connection ends when it is out.
LEMMA ShutIs ==
  ASSUME NEW w, Bare(w), NEW r \in SocksCodes
  PROVE  LET v == SendAndShutdown(w, r)
         IN  /\ IsSession(v) /\ SameStreams(w, v, w.down.out \o Reply(r)) /\ v.phase = "closed"
             /\ ~v.stray /\ ~v.connecting /\ v.up = w.up /\ v.down.state = "disconnecting"
             /\ v.down.reading = w.down.reading
             /\ v.hold = w.hold /\ v.client = w.client /\ v.upstream = w.upstream
             /\ v.functors = << >> /\ ~v.cleanup /\ v.context = w.context /\ v.timers = {}
<1> DEFINE s == SendTo(w, "down", Reply(r))
           t == [s EXCEPT !.timers = {}]
           u == [t EXCEPT !.down.state = "disconnecting"]
           v == [u EXCEPT !.phase = "closed"]
<1>1. /\ IsSession(s) /\ SameStreams(w, s, w.down.out \o Reply(r))
      /\ ~s.stray /\ ~s.connecting /\ s.up = w.up /\ s.down.state = "connected"
      /\ s.down.reading = w.down.reading
      /\ s.hold = w.hold /\ s.client = w.client /\ s.upstream = w.upstream
      /\ s.functors = << >> /\ ~s.cleanup /\ s.context = w.context
  <2>1. /\ IsSession(s) /\ SameBut(w, s) /\ s.up = w.up /\ s.down.got = w.down.got
        /\ s.down.out = w.down.out \o Reply(r) /\ s.down.state = "connected"
        /\ s.down.reading = w.down.reading
    BY SentIs, ReplyIs DEF Bare
  <2> HIDE DEF s
  <2> QED BY <2>1 DEF Bare, SameBut, SameStreams
<1>2. SendAndShutdown(w, r) = Closed(ShutdownDownstream(s))
  BY DEF SendAndShutdown
<1> HIDE DEF s
<1>3. /\ IsSession(t) /\ t.timers = {} /\ SameStreams(w, t, w.down.out \o Reply(r))
      /\ ~t.stray /\ ~t.connecting /\ t.up = w.up /\ t.down.state = "connected"
      /\ t.down.reading = w.down.reading
      /\ t.hold = w.hold /\ t.client = w.client /\ t.upstream = w.upstream
      /\ t.functors = << >> /\ ~t.cleanup /\ t.context = w.context
  <2>1. IsSession(t)
    BY <1>1, SessionSets
  <2> QED BY <1>1, <2>1 DEF IsSession, SameStreams
<1>4. ShutdownDownstream(s) = u
  BY <1>3 DEF ShutdownDownstream, ShutDown, CancelTimers
<1> HIDE DEF t
<1>5. IsSession(u)
  BY <1>3 DEF IsSession, IsSide
<1>6. /\ u.timers = {} /\ SameStreams(w, u, w.down.out \o Reply(r))
      /\ ~u.stray /\ ~u.connecting /\ u.up = w.up /\ u.down.state = "disconnecting"
      /\ u.down.reading = w.down.reading
      /\ u.hold = w.hold /\ u.client = w.client /\ u.upstream = w.upstream
      /\ u.functors = << >> /\ ~u.cleanup /\ u.context = w.context
  BY <1>3 DEF IsSession, IsSide, SameStreams
<1> HIDE DEF u
<1>7. IsSession(v) /\ v.phase = "closed"
  BY <1>5, SessionSets DEF IsSession
<1>8. /\ v.timers = {} /\ SameStreams(w, v, w.down.out \o Reply(r))
      /\ ~v.stray /\ ~v.connecting /\ v.up = w.up /\ v.down.state = "disconnecting"
      /\ v.down.reading = w.down.reading
      /\ v.hold = w.hold /\ v.client = w.client /\ v.upstream = w.upstream
      /\ v.functors = << >> /\ ~v.cleanup /\ v.context = w.context
  BY <1>5, <1>6 DEF IsSession, SameStreams
<1> HIDE DEF v
<1> QED BY <1>2, <1>4, <1>7, <1>8 DEF Closed, v

\* The handshake fails, with an answer.
LEMMA Refused ==
  ASSUME NEW w, Bare(w), w.up.state = "none", ~w.client, ~w.upstream, ~w.hold, NEW r \in SocksCodes
  PROVE  Over(w, SendAndShutdown(w, r), w.down.out \o Reply(r))
<1> DEFINE v == SendAndShutdown(w, r)
<1>1. /\ IsSession(v) /\ SameStreams(w, v, w.down.out \o Reply(r)) /\ v.phase = "closed"
      /\ ~v.stray /\ ~v.connecting /\ v.up = w.up /\ v.down.state = "disconnecting"
      /\ ~v.hold /\ ~v.client /\ ~v.upstream /\ v.functors = << >> /\ v.timers = {}
  BY ShutIs
<1> HIDE DEF v
<1>2. OverLife(v)
  BY <1>1, QueuesLeft DEF OverLife, Heeds
<1>3. Over(w, v, w.down.out \o Reply(r))
  BY <1>1, <1>2 DEF Over, SessionLife, Greets
<1> QED BY <1>3 DEF v

\* Assignments that do not matter to a session that is over.
LEMMA OverAside ==
  ASSUME NEW w, NEW v, NEW o, Over(w, v, o)
  PROVE  /\ Over(w, [v EXCEPT !.buffer = << >>], o) /\ Over(w, [v EXCEPT !.hold = FALSE], o)
         /\ Over(w, [v EXCEPT !.stray = FALSE], o)
<1>1. ASSUME NEW x, x \in {[v EXCEPT !.buffer = << >>], [v EXCEPT !.hold = FALSE],
                          [v EXCEPT !.stray = FALSE]}
      PROVE  Over(w, x, o)
  <2>1. IsSession(x)
    <3>1. IsSession(v)
      BY DEF Over, SessionLife
    <3>2. /\ IsSession([v EXCEPT !.buffer = << >>]) /\ IsSession([v EXCEPT !.hold = FALSE])
          /\ IsSession([v EXCEPT !.stray = FALSE])
      BY <3>1, NoElements, SessionSets
    <3> QED BY <1>1, <3>2
  <2>2. /\ x.phase = v.phase /\ x.stray = v.stray /\ x.timers = v.timers /\ x.connecting = v.connecting
        /\ x.up = v.up /\ x.down = v.down /\ x.client = v.client /\ x.upstream = v.upstream
        /\ x.functors = v.functors /\ x.cleanup = v.cleanup /\ x.context = v.context
        /\ (x.hold => v.hold) /\ x.auth = v.auth /\ x.idles = v.idles /\ x.script = v.script
        /\ x.arrived = v.arrived /\ x.answered = v.answered
    <3>1. IsSession(v)
      BY DEF Over, SessionLife
    <3>2. CASE x = [v EXCEPT !.buffer = << >>]
      BY <3>1, <3>2 DEF IsSession
    <3>3. CASE x = [v EXCEPT !.hold = FALSE]
      BY <3>1, <3>3 DEF IsSession
    <3>4. CASE x = [v EXCEPT !.stray = FALSE]
      <4>1. ~v.stray
        BY DEF Over, SessionLife
      <4> QED BY <3>1, <3>4, <4>1 DEF IsSession
    <3> QED BY <1>1, <3>2, <3>3, <3>4
  <2>3. SameStreams(w, x, o)
    BY <2>2 DEF Over, SameStreams
  <2>4. OverLife(x)
    BY <2>2 DEF Over, SessionLife, OverLife, Heeds
  <2> QED BY <2>1, <2>2, <2>3, <2>4 DEF Over, SessionLife, Greets
<1> QED BY <1>1

\* The cleanup is queued.
LEMMA CleanupQueued ==
  ASSUME NEW w, NEW v, NEW o, IsSession(v), SameStreams(w, v, o), v.phase = "closed", ~v.stray,
         ~v.connecting, v.timers = {}, ~v.cleanup, v.functors \in {<< >>, <<"down">>},
         v.up.state \in {"none", "disconnected"}, v.down.state \in {"connected", "disconnecting"},
         Heeds(v)
  PROVE  Over(w, ScheduleUpstreamCleanup(v), o)
<1> DEFINE q == Append(v.functors, "cleanup")
           u == [v EXCEPT !.cleanup = TRUE]
           x == [u EXCEPT !.functors = q]
<1>1. q \in {<<"cleanup">>, <<"down", "cleanup">>}
  BY QueuesLeft
<1>2. q \in Seq(SocksFunctors) /\ Has(q, "cleanup") /\ CleansOnce(q)
  BY <1>1, QueuesLeft
<1>3. ScheduleUpstreamCleanup(v) = x
  BY DEF ScheduleUpstreamCleanup
<1> HIDE DEF q
<1>4. IsSession(x)
  BY <1>2, SessionSets
<1>5. /\ x.phase = v.phase /\ x.stray = v.stray /\ x.timers = v.timers /\ x.connecting = v.connecting
      /\ x.up = v.up /\ x.down = v.down /\ x.client = v.client /\ x.upstream = v.upstream
      /\ x.functors = q /\ x.cleanup
  BY DEF IsSession
<1>6. SameStreams(w, x, o)
  BY DEF IsSession, SameStreams
<1> HIDE DEF x
<1>7. OverLife(x)
  BY <1>2, <1>5 DEF OverLife, Heeds
<1> QED BY <1>3, <1>4, <1>5, <1>6, <1>7 DEF Over, SessionLife, Greets

\* on_upstream_connect_failed()
LEMMA ConnectFailedIs ==
  ASSUME NEW w, Bare(w), w.phase = "connecting", w.up.state = "none"
  PROVE  Over(w, OnConnectFailed(w), w.down.out \o Reply("failure"))
<1> DEFINE v == SendAndShutdown(w, "failure")
<1>1. /\ IsSession(v) /\ SameStreams(w, v, w.down.out \o Reply("failure")) /\ v.phase = "closed"
      /\ ~v.stray /\ ~v.connecting /\ v.up = w.up /\ v.down.state = "disconnecting"
      /\ v.functors = << >> /\ ~v.cleanup /\ v.timers = {}
  BY ShutIs DEF SocksCodes
<1>2. OnConnectFailed(w) = ScheduleUpstreamCleanup(v)
  BY DEF OnConnectFailed
<1> HIDE DEF v
<1>3. Heeds(v)
  BY <1>1 DEF Heeds
<1> QED BY <1>1, <1>2, <1>3, CleanupQueued

\* The session is closed and the client's connection by force, in either order.
LEMMA CutIs ==
  ASSUME NEW w, Bare(w)
  PROVE  LET v == Closed(CloseDownstreamNow(w))
         IN  /\ IsSession(v) /\ SameStreams(w, v, w.down.out) /\ v.phase = "closed"
             /\ ~v.stray /\ ~v.connecting /\ v.up = w.up /\ v.down.state = "disconnecting"
             /\ v.down.reading = w.down.reading
             /\ v.hold = w.hold /\ v.client = w.client /\ v.upstream = w.upstream
             /\ v.functors = <<"down">> /\ ~v.cleanup /\ v.context = w.context /\ v.timers = {}
             /\ CloseDownstreamNow(Closed(w)) = v
<1> DEFINE e == Closed(CancelTimers(w))
           f == [w EXCEPT !.timers = {}]
           g == [f EXCEPT !.down.state = "disconnecting", !.functors = Append(@, "down")]
           h == [e EXCEPT !.down.state = "disconnecting"]
           v == Closed(g)
<1>1. /\ IsSession(e) /\ e.phase = "closed" /\ e.timers = {} /\ SameStreams(w, e, w.down.out)
      /\ ~e.stray /\ ~e.connecting /\ e.up = w.up /\ e.down = w.down
      /\ e.hold = w.hold /\ e.client = w.client /\ e.upstream = w.upstream
      /\ e.functors = << >> /\ ~e.cleanup /\ e.context = w.context
  BY EndedIs DEF Bare
<1>2. CloseDownstreamNow(w) = g
  BY DEF CloseDownstreamNow, ForceCloseOf, Open, CancelTimers, Bare, IsSession
<1>3. v = [h EXCEPT !.functors = <<"down">>]
  BY QueuesLeft DEF Closed, CancelTimers, Bare, IsSession
<1>4. CloseDownstreamNow(Closed(w)) = v
  BY DEF CloseDownstreamNow, ForceCloseOf, Open, Closed, CancelTimers, Bare, IsSession
<1> HIDE DEF v, e, g
<1>5. IsSession(h)
  BY <1>1 DEF IsSession, IsSide
<1>6. /\ h.phase = "closed" /\ h.timers = {} /\ SameStreams(w, h, w.down.out)
      /\ ~h.stray /\ ~h.connecting /\ h.up = w.up /\ h.down.state = "disconnecting"
      /\ h.down.reading = w.down.reading
      /\ h.hold = w.hold /\ h.client = w.client /\ h.upstream = w.upstream
      /\ ~h.cleanup /\ h.context = w.context
  BY <1>1 DEF IsSession, IsSide, SameStreams, Bare
<1> HIDE DEF h
<1>7. IsSession(v)
  BY <1>3, <1>5, QueuesLeft, SessionSets
<1>8. /\ v.phase = "closed" /\ v.timers = {} /\ SameStreams(w, v, w.down.out)
      /\ ~v.stray /\ ~v.connecting /\ v.up = w.up /\ v.down.state = "disconnecting"
      /\ v.down.reading = w.down.reading
      /\ v.hold = w.hold /\ v.client = w.client /\ v.upstream = w.upstream
      /\ ~v.cleanup /\ v.context = w.context /\ v.functors = <<"down">>
  BY <1>3, <1>5, <1>6 DEF IsSession, SameStreams
<1> QED BY <1>2, <1>4, <1>7, <1>8 DEF v

\* on_handshake_timeout()
LEMMA HandshakeTimeoutIs ==
  ASSUME NEW w, Bare(w), Greets(w), w.up.state = "none", ~w.client, ~w.upstream, ~w.hold
  PROVE  Over(w, HandshakeTimeout(w), IF w.phase = "request" THEN w.down.out \o Reply("failure")
                                                             ELSE w.down.out)
<1>1. CASE w.phase = "request"
  <2>1. Over(w, SendAndShutdown(w, "failure"), w.down.out \o Reply("failure"))
    BY Refused DEF SocksCodes
  <2>2. HandshakeTimeout(w) = [SendAndShutdown(w, "failure") EXCEPT !.hold = FALSE]
    BY <1>1 DEF HandshakeTimeout
  <2>3. Over(w, [SendAndShutdown(w, "failure") EXCEPT !.hold = FALSE], w.down.out \o Reply("failure"))
    BY <2>1, OverAside
  <2> QED BY <1>1, <2>2, <2>3, Zenon
<1>2. CASE w.phase # "request"
  <2> DEFINE v == Closed(CloseDownstreamNow(w))
  <2>1. /\ IsSession(v) /\ SameStreams(w, v, w.down.out) /\ v.phase = "closed"
        /\ ~v.stray /\ ~v.connecting /\ v.up = w.up /\ v.down.state = "disconnecting"
        /\ ~v.hold /\ ~v.client /\ ~v.upstream /\ v.functors = <<"down">> /\ v.timers = {}
    BY CutIs
  <2>2. HandshakeTimeout(w) = [v EXCEPT !.hold = FALSE]
    BY <1>2 DEF HandshakeTimeout, Greets
  <2> HIDE DEF v
  <2>3. OverLife(v)
    BY <2>1, QueuesLeft DEF OverLife, Heeds
  <2>4. Over(w, v, w.down.out)
    BY <2>1, <2>3 DEF Over, SessionLife, Greets
  <2>5. Over(w, [v EXCEPT !.hold = FALSE], w.down.out)
    BY <2>4, OverAside
  <2> QED BY <1>2, <2>2, <2>5, Zenon
<1> QED BY <1>1, <1>2

\* on_connect_timeout()
LEMMA ConnectTimeoutIs ==
  ASSUME NEW w, IsSession(w), ~w.stray, ~w.cleanup, w.functors = << >>, w.down.state = "connected",
         w.phase = "connecting", w.up.state = "none", w.client, ~w.upstream
  PROVE  Over(w, ConnectTimeout(w), w.down.out \o Reply("failure"))
<1> DEFINE f == DestroyClient(w)
           v == SendAndShutdown(f, "failure")
           x == [v EXCEPT !.hold = FALSE]
<1>1. /\ IsSession(f) /\ SameStreams(w, f, w.down.out)
      /\ ~f.stray /\ ~f.connecting /\ f.up = w.up /\ f.down = w.down
      /\ ~f.client /\ ~f.upstream /\ f.functors = << >> /\ ~f.cleanup
  BY ClientGone DEF Open
<1>2. ConnectTimeout(w) = x
  BY DEF ConnectTimeout
<1> HIDE DEF f
<1>3. /\ IsSession(v) /\ SameStreams(f, v, f.down.out \o Reply("failure")) /\ v.phase = "closed"
      /\ ~v.stray /\ ~v.connecting /\ v.up = w.up /\ v.down.state = "disconnecting"
      /\ ~v.client /\ ~v.upstream /\ v.functors = << >> /\ ~v.cleanup /\ v.timers = {}
  BY <1>1, ShutIs DEF Bare, SocksCodes
<1> HIDE DEF v
<1>4. SameStreams(w, v, w.down.out \o Reply("failure"))
  BY <1>1, <1>3 DEF SameStreams
<1>5. IsSession(x)
  BY <1>3, SessionSets
<1>6. /\ SameStreams(w, x, w.down.out \o Reply("failure")) /\ x.phase = "closed"
      /\ ~x.stray /\ ~x.connecting /\ x.up = w.up /\ x.down.state = "disconnecting"
      /\ ~x.client /\ ~x.upstream /\ x.functors = << >> /\ ~x.hold /\ x.timers = {}
  BY <1>3, <1>4 DEF IsSession, SameStreams
<1> HIDE DEF x
<1>7. OverLife(x)
  BY <1>6, QueuesLeft DEF OverLife, Heeds
<1> QED BY <1>2, <1>5, <1>6, <1>7 DEF Over, SessionLife, Greets

\* on_idle_timeout()
LEMMA IdleTimeoutIs ==
  ASSUME NEW w, Bare(w), w.phase = "relay", w.up.state = "connected", w.client,
         w.down.reading
  PROVE  Over(w, IdleTimeout(w), w.down.out)
<1> DEFINE v == Closed(CloseDownstreamNow(w))
           f == ScheduleUpstreamCleanup(ForceCloseOf(v, "up"))
<1>1. /\ IsSession(v) /\ SameStreams(w, v, w.down.out) /\ v.phase = "closed"
      /\ ~v.stray /\ ~v.connecting /\ v.up = w.up /\ v.down.state = "disconnecting"
      /\ v.client /\ v.functors = <<"down">> /\ ~v.cleanup /\ v.timers = {} /\ v.down.reading
      /\ CloseDownstreamNow(Closed(w)) = v
  BY CutIs
<1> HIDE DEF v
<1>2. IdleTimeout(w) = f
  BY <1>1 DEF IdleTimeout
<1>3. /\ IsSession(f) /\ f.phase = "closed" /\ f.timers = {} /\ SameStreams(v, f, v.down.out)
      /\ ~f.stray /\ ~f.connecting /\ f.up.state = "disconnecting"
      /\ f.down = v.down /\ f.client /\ f.cleanup
      /\ Has(f.functors, "cleanup") /\ CleansOnce(f.functors) /\ ClosesFirst(f.functors)
  BY <1>1, CleansBehind
<1> HIDE DEF f
<1>4. SameStreams(w, f, w.down.out)
  BY <1>1, <1>3 DEF SameStreams
<1>5. OverLife(f)
  BY <1>1, <1>3 DEF OverLife, Heeds
<1> QED BY <1>2, <1>3, <1>4, <1>5 DEF Over, SessionLife, Greets

\* The upstream connection is down, and nothing else has been done yet.
UpIsDown(w) == [w EXCEPT !.up.state = "disconnected", !.up.reading = FALSE, !.up.out = << >>]
LEMMA UpIs ==
  ASSUME NEW w, IsSession(w)
  PROVE  LET d == UpIsDown(w)
         IN  /\ IsSession(d) /\ d.up.state = "disconnected" /\ d.up.got = w.up.got /\ d.up.out = << >>
             /\ d.auth = w.auth /\ d.script = w.script /\ d.arrived = w.arrived
             /\ d.answered = w.answered
             /\ d.phase = w.phase /\ d.stray = w.stray /\ d.timers = w.timers
             /\ d.connecting = w.connecting /\ d.down = w.down /\ d.hold = w.hold /\ d.client = w.client
             /\ d.upstream = w.upstream /\ d.functors = w.functors /\ d.cleanup = w.cleanup
             /\ d.context = w.context
<1> DEFINE d == UpIsDown(w)
<1>1. IsSession(d)
  BY NoElements DEF IsSession, IsSide, UpIsDown
<1>2. d.up.state = "disconnected" /\ d.up.got = w.up.got /\ d.up.out = << >>
  BY DEF IsSession, IsSide, UpIsDown
<1>3. /\ d.phase = w.phase /\ d.stray = w.stray /\ d.timers = w.timers
      /\ d.auth = w.auth /\ d.script = w.script /\ d.arrived = w.arrived /\ d.answered = w.answered
      /\ d.connecting = w.connecting /\ d.down = w.down /\ d.hold = w.hold /\ d.client = w.client
      /\ d.upstream = w.upstream /\ d.functors = w.functors /\ d.cleanup = w.cleanup
      /\ d.context = w.context
  BY DEF IsSession, UpIsDown
<1> QED BY <1>1, <1>2, <1>3

\* handle_close() of the upstream connection, while the session relays.
LEMMA UpClosedRelay ==
  ASSUME NEW w, SessionLife(w), w.phase = "relay"
  PROVE  Over(UpIsDown(w), HandleCloseOf(w, "up"), w.down.out)
<1> DEFINE d == UpIsDown(w)
           v == Closed(CloseDownstreamNow(d))
           x == ScheduleUpstreamCleanup(v)
<1>1. /\ IsSession(d) /\ d.up.state = "disconnected" /\ d.phase = "relay" /\ ~d.stray
      /\ ~d.connecting /\ d.down = w.down /\ d.hold /\ d.client /\ d.functors = << >> /\ ~d.cleanup
  BY UpIs DEF SessionLife
<1>2. HandleCloseOf(w, "up") =
        [IF Alive(d) THEN OnUpstreamConnection(d) ELSE d EXCEPT !.stray = @ \/ ~w.client]
  BY DEF HandleCloseOf, UpIsDown, Open, SessionLife
<1> HIDE DEF d
<1>3. HandleCloseOf(w, "up") = [x EXCEPT !.stray = @ \/ ~w.client]
  BY <1>1, <1>2 DEF OnUpstreamConnection, Alive
<1>4. Bare(d) /\ w.client
  BY <1>1 DEF Bare, SessionLife
<1>5. /\ IsSession(v) /\ SameStreams(d, v, d.down.out) /\ v.phase = "closed"
      /\ ~v.stray /\ ~v.connecting /\ v.up = d.up /\ v.down.state = "disconnecting"
      /\ v.functors = <<"down">> /\ ~v.cleanup /\ v.timers = {} /\ v.down.reading = d.down.reading
  BY <1>4, CutIs
<1> HIDE DEF v
<1>5a. Heeds(v)
  BY <1>1, <1>5 DEF SessionLife, Heeds
<1>6. Over(d, x, d.down.out)
  BY <1>1, <1>5, <1>5a, CleanupQueued
<1> HIDE DEF x
<1>7. (x.stray \/ ~w.client) = FALSE
  BY <1>4, <1>6 DEF Over, SessionLife
<1>8. HandleCloseOf(w, "up") = [x EXCEPT !.stray = FALSE]
  BY <1>3, <1>7
<1>9. Over(d, [x EXCEPT !.stray = FALSE], d.down.out)
  BY <1>6, OverAside
<1> QED BY <1>1, <1>8, <1>9 DEF d

\* A session that is over, with its first functor taken.
LEMMA OverTail ==
  ASSUME NEW w, SessionLife(w), w.functors # << >>
  PROVE  LET v == [w EXCEPT !.functors = Tail(@)]
         IN  /\ IsSession(v) /\ ~v.stray /\ v.phase = "closed" /\ v.timers = {} /\ ~v.connecting
             /\ SameStreams(w, v, w.down.out)
             /\ v.up = w.up /\ v.down = w.down /\ v.client = w.client /\ v.upstream = w.upstream
             /\ v.hold = w.hold /\ v.cleanup = w.cleanup /\ v.context = w.context
             /\ v.functors = Tail(w.functors) /\ Head(w.functors) \in SocksFunctors
             /\ Head(w.functors) # "cleanup" =>
                  /\ v.hold \/ v.client \/ v.upstream => Has(v.functors, "cleanup")
                  /\ v.up.state = "disconnecting" => Has(v.functors, "cleanup")
             /\ Has(v.functors, "cleanup") => v.cleanup
             /\ CleansOnce(v.functors)
             /\ Head(w.functors) # "up" /\ v.up.state = "disconnecting" => ClosesFirst(v.functors)
             /\ Head(w.functors) = "cleanup" =>
                  v.up.state # "disconnecting" /\ ~Has(v.functors, "cleanup")
<1> DEFINE q == Tail(w.functors)
           v == [w EXCEPT !.functors = q]
<1>1. w.phase = "closed" /\ OverLife(w) /\ IsSession(w)
  BY DEF SessionLife
<1>2. w.functors \in Seq(SocksFunctors) /\ CleansOnce(w.functors)
  BY <1>1 DEF OverLife, IsSession
<1>3. /\ q \in Seq(SocksFunctors) /\ Head(w.functors) \in SocksFunctors /\ CleansOnce(q)
      /\ Has(q, "cleanup") => Has(w.functors, "cleanup")
      /\ Head(w.functors) # "cleanup" /\ Has(w.functors, "cleanup") => Has(q, "cleanup")
      /\ Head(w.functors) # "up" /\ ClosesFirst(w.functors) => ClosesFirst(q)
      /\ Head(w.functors) = "cleanup" => ~Has(q, "cleanup") /\ ~ClosesFirst(w.functors)
      /\ ClosesFirst(w.functors) => Has(w.functors, "cleanup")
  BY <1>2, QueueTail
<1> HIDE DEF q
<1>4. IsSession(v)
  BY <1>1, <1>3, SessionSets
<1>5. /\ v.stray = w.stray /\ v.phase = w.phase /\ v.timers = w.timers /\ v.connecting = w.connecting
      /\ SameStreams(w, v, w.down.out)
      /\ v.up = w.up /\ v.down = w.down /\ v.client = w.client /\ v.upstream = w.upstream
      /\ v.hold = w.hold /\ v.cleanup = w.cleanup /\ v.context = w.context /\ v.functors = q
  BY <1>1 DEF IsSession, SameStreams
<1> HIDE DEF v
<1>6. v = [w EXCEPT !.functors = Tail(@)]
  BY DEF v, q
<1> QED BY <1>1, <1>3, <1>4, <1>5, <1>6 DEF SessionLife, OverLife, q

\* handle_close() of the upstream connection, in a session that is over.
LEMMA UpClosedOver ==
  ASSUME NEW w, IsSession(w), ~w.stray, w.phase = "closed", w.timers = {}, ~w.connecting,
         w.up.state = "disconnecting", w.client, w.down.state # "none", w.cleanup,
         Has(w.functors, "cleanup"), CleansOnce(w.functors), w.down.state = "disconnected" => ~w.context,
         Heeds(w)
  PROVE  Over(UpIsDown(w), HandleCloseOf(w, "up"), w.down.out)
<1> DEFINE d == UpIsDown(w)
<1>1. /\ IsSession(d) /\ d.up.state = "disconnected" /\ d.phase = "closed" /\ ~d.stray
      /\ ~d.connecting /\ d.down = w.down /\ d.client /\ d.functors = w.functors /\ d.cleanup
      /\ d.timers = {} /\ d.context = w.context
  BY UpIs
<1>2. HandleCloseOf(w, "up") =
        [IF Alive(d) THEN OnUpstreamConnection(d) ELSE d EXCEPT !.stray = @ \/ ~w.client]
  BY DEF HandleCloseOf, UpIsDown, Open
<1> HIDE DEF d
<1>3. Alive(d)
  BY <1>1 DEF Alive, Contains, Has
<1>4. OnUpstreamConnection(d) = d
  BY <1>1 DEF OnUpstreamConnection, ScheduleUpstreamCleanup
<1>5. OverLife(d)
  BY <1>1 DEF OverLife, Heeds
<1>6. Over(d, d, d.down.out)
  BY <1>1, <1>5 DEF Over, SessionLife, Greets, SameStreams
<1>7. (d.stray \/ ~w.client) = FALSE
  BY <1>1
<1>8. HandleCloseOf(w, "up") = [d EXCEPT !.stray = FALSE]
  BY <1>2, <1>3, <1>4, <1>7
<1>9. Over(d, [d EXCEPT !.stray = FALSE], d.down.out)
  BY <1>6, OverAside
<1> QED BY <1>1, <1>8, <1>9 DEF d

\* What is sent to the target is in the output.
LEMMA SentUpIs ==
  ASSUME NEW w, IsSession(w), NEW a \in Seq(SocksElement), w.up.state = "connected"
  PROVE  LET v == SendTo(w, "up", a)
         IN  /\ IsSession(v) /\ SameBut(w, v) /\ v.down = w.down /\ v.up.got = w.up.got
             /\ v.up.out = w.up.out \o a /\ v.up.state = "connected"
<1> DEFINE v == [w EXCEPT !.up.out = w.up.out \o a]
<1>1. SendTo(w, "up", a) = v
  BY DEF SendTo
<1>2. w.up.out \o a \in Seq(SocksElement)
  BY ConcatProperties DEF IsSession, IsSide
<1>3. IsSession(v)
  BY <1>2 DEF IsSession, IsSide
<1>4. v.up.out = w.up.out \o a /\ v.up.got = w.up.got /\ v.up.state = "connected"
  BY DEF IsSession, IsSide
<1>5. SameBut(w, v) /\ v.down = w.down
  BY DEF IsSession, SameBut
<1> HIDE DEF v
<1> QED BY <1>1, <1>3, <1>4, <1>5

\* The session relays: the members that say so.
Relays(v) ==
  /\ v.phase = "relay" /\ ~v.stray /\ v.context /\ v.down.state = "connected" /\ ~v.cleanup
  /\ v.down.reading
  /\ v.functors = << >> /\ v.up.state = "connected"
  /\ v.client /\ ~v.connecting /\ v.upstream /\ v.hold

\* The timers of a session that relays.
RelayTimers(w) == IF w.idles THEN {"idle"} ELSE {}

\* The idle timer runs, if there is one.
LEMMA IdleReset ==
  ASSUME NEW w, IsSession(w), Relays(w), w.timers \subseteq RelayTimers(w)
  PROVE  LET v == ResetIdleTimer(w)
         IN  /\ SessionLife(v) /\ v.phase = "relay" /\ v.up = w.up /\ v.down = w.down
             /\ v.auth = w.auth /\ v.script = w.script /\ v.arrived = w.arrived
             /\ v.answered = w.answered /\ v.buffer = w.buffer /\ v.preserved = w.preserved
<1>1. CASE ~w.idles
  <2>1. ResetIdleTimer(w) = w /\ w.timers = RelayTimers(w)
    BY <1>1 DEF ResetIdleTimer, RelayTimers
  <2> QED BY <2>1 DEF SessionLife, Relays, RelayTimers, Greets
<1>2. CASE w.idles
  <2> DEFINE v == [w EXCEPT !.timers = {"idle"}]
  <2>1. w.timers \cup {"idle"} = {"idle"}
    BY <1>2 DEF RelayTimers
  <2>2. ResetIdleTimer(w) = v
    BY <1>2, <2>1 DEF ResetIdleTimer, Relays
  <2>3. IsSession(v)
    BY SessionSets
  <2>4. Relays(v) /\ v.timers = {"idle"} /\ v.idles /\ v.phase = "relay" /\ v.up = w.up
        /\ v.down = w.down /\ v.auth = w.auth /\ v.script = w.script /\ v.arrived = w.arrived
        /\ v.answered = w.answered /\ v.buffer = w.buffer /\ v.preserved = w.preserved
    BY <1>2 DEF IsSession, Relays
  <2> HIDE DEF v
  <2> QED BY <2>2, <2>3, <2>4 DEF SessionLife, Relays, Greets
<1> QED BY <1>1, <1>2

\* A new connection.
Connected(w) == [w EXCEPT !.connecting = FALSE, !.up = [NoConnection EXCEPT !.state = "connected"]]

\* on_upstream_connection(), up.
LEMMA EstablishedIs ==
  ASSUME NEW w, SessionLife(w), w.phase = "connecting"
  PROVE  LET v == OnUpstreamConnection(Connected(w))
         IN  /\ Alive(Connected(w)) /\ SessionLife(v) /\ v.phase = "relay"
             /\ v.auth = w.auth /\ v.script = w.script /\ v.arrived = w.arrived
             /\ v.answered = w.answered /\ v.buffer = w.buffer /\ v.preserved = << >>
             /\ v.up.got = << >> /\ v.up.out = w.preserved
             /\ v.down.got = w.down.got /\ v.down.out = w.down.out \o Reply("success")
<1> DEFINE c == [NoConnection EXCEPT !.state = "connected"]
           a0 == Connected(w)
           a1 == [a0 EXCEPT !.timers = @ \ {"connect", "handshake"}, !.upstream = TRUE, !.phase = "relay"]
           a2 == SendTo(a1, "down", Reply("success"))
           a3 == SendTo(a2, "up", a2.preserved)
           a4 == [a3 EXCEPT !.preserved = << >>, !.down.reading = TRUE]
           v  == ResetIdleTimer(a4)
<1>1. IsSide(c) /\ c.state = "connected" /\ c.out = << >> /\ c.got = << >>
  BY NoElements DEF IsSide, NoConnection
<1> HIDE DEF c
<1>2. /\ IsSession(a0) /\ a0.up = c /\ ~a0.connecting /\ a0.down = w.down
      /\ a0.phase = "connecting" /\ a0.timers = {"connect"} /\ ~a0.stray /\ a0.context /\ ~a0.cleanup
      /\ a0.functors = << >> /\ a0.client /\ a0.hold
      /\ a0.auth = w.auth /\ a0.script = w.script /\ a0.arrived = w.arrived
      /\ a0.answered = w.answered /\ a0.buffer = w.buffer /\ a0.preserved = w.preserved
  BY <1>1 DEF Connected, SessionLife, IsSession, c
<1> HIDE DEF a0
<1>3. OnUpstreamConnection(a0) = v /\ Alive(a0)
  BY <1>1, <1>2 DEF OnUpstreamConnection, UpstreamEstablished, Alive
<1>4. /\ IsSession(a1) /\ a1.up = c /\ ~a1.connecting /\ a1.down = w.down /\ a1.upstream
      /\ a1.phase = "relay" /\ a1.timers = {} /\ ~a1.stray /\ a1.context /\ ~a1.cleanup
      /\ a1.functors = << >> /\ a1.client /\ a1.hold
      /\ a1.auth = w.auth /\ a1.script = w.script /\ a1.arrived = w.arrived
      /\ a1.answered = w.answered /\ a1.buffer = w.buffer /\ a1.preserved = w.preserved
  <2>1. a0.timers \ {"connect", "handshake"} = {}
    BY <1>2
  <2> QED BY <1>2, <2>1 DEF IsSession
<1> HIDE DEF a1
<1>5. w.down.state = "connected" /\ Reply("success") \in Seq(SocksElement)
  BY ReplyIs DEF SessionLife, SocksCodes
<1>6. /\ IsSession(a2) /\ a2.up = c /\ ~a2.connecting /\ a2.upstream
      /\ a2.down.state = "connected" /\ a2.down.got = w.down.got
      /\ a2.down.out = w.down.out \o Reply("success")
      /\ a2.phase = "relay" /\ a2.timers = {} /\ ~a2.stray /\ a2.context /\ ~a2.cleanup
      /\ a2.functors = << >> /\ a2.client /\ a2.hold
      /\ a2.auth = w.auth /\ a2.script = w.script /\ a2.arrived = w.arrived
      /\ a2.answered = w.answered /\ a2.buffer = w.buffer /\ a2.preserved = w.preserved
  <2>1. /\ IsSession(a2) /\ SameBut(a1, a2) /\ a2.up = a1.up /\ a2.down.got = a1.down.got
        /\ a2.down.out = a1.down.out \o Reply("success") /\ a2.down.state = "connected"
    <3> DEFINE r == Reply("success")
    <3>1. r \in Seq(SocksElement) /\ IsSession(a1) /\ a1.down.state = "connected"
      BY <1>4, <1>5
    <3> HIDE DEF r
    <3>2. LET s == SendTo(a1, "down", r)
          IN  /\ IsSession(s) /\ SameBut(a1, s) /\ s.up = a1.up /\ s.down.got = a1.down.got
              /\ s.down.out = a1.down.out \o r /\ s.down.state = "connected"
      BY <3>1, SentIs
    <3> QED BY <3>2 DEF r
  <2> HIDE DEF a2
  <2> QED BY <1>4, <2>1 DEF SameBut
<1> HIDE DEF a2
<1>7. a2.preserved \in Seq(SocksElement)
  BY <1>6 DEF IsSession
<1>8. /\ IsSession(a3) /\ a3.up.state = "connected" /\ a3.up.got = << >>
      /\ a3.up.out = c.out \o w.preserved
      /\ ~a3.connecting /\ a3.upstream /\ a3.down = a2.down
      /\ a3.phase = "relay" /\ a3.timers = {} /\ ~a3.stray /\ a3.context /\ ~a3.cleanup
      /\ a3.functors = << >> /\ a3.client /\ a3.hold
      /\ a3.auth = w.auth /\ a3.script = w.script /\ a3.arrived = w.arrived
      /\ a3.answered = w.answered /\ a3.buffer = w.buffer
  <2>1. /\ IsSession(a3) /\ SameBut(a2, a3) /\ a3.down = a2.down /\ a3.up.got = a2.up.got
        /\ a3.up.out = a2.up.out \o a2.preserved /\ a3.up.state = "connected"
    BY <1>1, <1>6, <1>7, SentUpIs
  <2> HIDE DEF a3
  <2> QED BY <1>1, <1>6, <2>1 DEF SameBut
<1> HIDE DEF a3
<1>9. c.out \o w.preserved = w.preserved
  BY <1>1, <1>6, <1>7, ConcatEmptySeq
<1>10. /\ IsSession(a4) /\ a4.down.state = "connected" /\ a4.down.got = w.down.got /\ a4.down.reading
       /\ a4.down.out = w.down.out \o Reply("success")
  <2> DEFINE b == [a3 EXCEPT !.preserved = << >>]
  <2>1. IsSession(b)
    BY <1>8, NoElements, SessionSets
  <2>2. b.down = a2.down /\ a4 = [b EXCEPT !.down.reading = TRUE]
    BY <1>8 DEF IsSession
  <2> HIDE DEF a4, b
  <2> QED BY <1>6, <2>1, <2>2 DEF IsSession, IsSide
<1>11. /\ a4.up.state = "connected" /\ a4.up.got = << >> /\ a4.up.out = w.preserved
       /\ ~a4.connecting /\ a4.upstream
       /\ a4.phase = "relay" /\ a4.timers = {} /\ ~a4.stray /\ a4.context /\ ~a4.cleanup
       /\ a4.functors = << >> /\ a4.client /\ a4.hold
       /\ a4.auth = w.auth /\ a4.script = w.script /\ a4.arrived = w.arrived
       /\ a4.answered = w.answered /\ a4.buffer = w.buffer /\ a4.preserved = << >>
  BY <1>8, <1>9 DEF IsSession
<1> HIDE DEF a4
<1>12. Relays(a4)
  BY <1>10, <1>11 DEF Relays
<1>13. /\ SessionLife(v) /\ v.phase = "relay" /\ v.up = a4.up /\ v.down = a4.down
       /\ v.auth = a4.auth /\ v.script = a4.script /\ v.arrived = a4.arrived
       /\ v.answered = a4.answered /\ v.buffer = a4.buffer /\ v.preserved = a4.preserved
  BY <1>10, <1>11, <1>12, IdleReset
<1> HIDE DEF v
<1> QED BY <1>3, <1>10, <1>11, <1>13 DEF a0

\* relay_downstream()
LEMMA RelayedIs ==
  ASSUME NEW w, SessionLife(w), w.phase = "relay"
  PROVE  LET v == RelayDownstream(w)
         IN  /\ SessionLife(v) /\ v.phase = "relay"
             /\ v.auth = w.auth /\ v.script = w.script /\ v.arrived = w.arrived
             /\ v.answered = w.answered /\ v.buffer = << >>
             /\ v.up.got = w.up.got /\ v.up.out = w.up.out \o w.buffer /\ v.down = w.down
<1> DEFINE s == SendTo(w, "up", w.buffer)
           u == [s EXCEPT !.buffer = << >>]
           v == ResetIdleTimer(u)
<1>1. RelayDownstream(w) = v
  BY DEF RelayDownstream, SessionLife
<1>2. w.buffer \in Seq(SocksElement) /\ w.up.state = "connected" /\ IsSession(w)
  BY DEF SessionLife, IsSession
<1>3. /\ IsSession(s) /\ s.up.out = w.up.out \o w.buffer /\ s.up.got = w.up.got
      /\ s.auth = w.auth /\ s.script = w.script /\ s.arrived = w.arrived
      /\ s.answered = w.answered /\ s.down = w.down /\ s.timers = RelayTimers(s) /\ Relays(s)
  <2>1. /\ IsSession(s) /\ SameBut(w, s) /\ s.down = w.down /\ s.up.got = w.up.got
        /\ s.up.out = w.up.out \o w.buffer /\ s.up.state = "connected"
    BY <1>2, SentUpIs
  <2> HIDE DEF s
  <2> QED BY <2>1 DEF SessionLife, Relays, RelayTimers, SameBut
<1> HIDE DEF s
<1>4. IsSession(u)
  BY <1>3, NoElements, SessionSets
<1>5. /\ u.up.out = w.up.out \o w.buffer /\ u.up.got = w.up.got
      /\ u.auth = w.auth /\ u.script = w.script /\ u.arrived = w.arrived
      /\ u.answered = w.answered /\ u.down = w.down /\ u.timers = RelayTimers(u) /\ Relays(u)
      /\ u.buffer = << >>
  BY <1>3 DEF IsSession, Relays, RelayTimers
<1> HIDE DEF u
<1>6. /\ SessionLife(v) /\ v.phase = "relay" /\ v.up = u.up /\ v.down = u.down
      /\ v.auth = u.auth /\ v.script = u.script /\ v.arrived = u.arrived
      /\ v.answered = u.answered /\ v.buffer = u.buffer
  BY <1>4, <1>5, IdleReset
<1> QED BY <1>1, <1>5, <1>6

\* on_upstream_message() while the session relays
LEMMA AnswerRelayed ==
  ASSUME NEW w, SessionLife(w), w.phase = "relay", NEW x \in SocksElement
  PROVE  LET v == OnUpstreamMessage(w, x)
         IN  /\ SessionLife(v) /\ v.phase = "relay"
             /\ v.auth = w.auth /\ v.script = w.script /\ v.arrived = w.arrived
             /\ v.answered = w.answered /\ v.buffer = w.buffer
             /\ v.down.got = w.down.got /\ v.down.out = w.down.out \o <<x>> /\ v.up = w.up
<1> DEFINE s == SendTo(w, "down", <<x>>)
           v == ResetIdleTimer(s)
<1>1. OnUpstreamMessage(w, x) = v
  BY DEF OnUpstreamMessage, SessionLife
<1>2. <<x>> \in Seq(SocksElement) /\ w.down.state = "connected" /\ IsSession(w)
  BY DEF SessionLife
<1>3. /\ IsSession(s) /\ SameStreams(w, s, w.down.out \o <<x>>) /\ s.up = w.up
      /\ s.timers = RelayTimers(s) /\ Relays(s) /\ s.buffer = w.buffer
  <2>1. /\ IsSession(s) /\ SameBut(w, s) /\ s.up = w.up /\ s.down.got = w.down.got
        /\ s.down.out = w.down.out \o <<x>> /\ s.down.state = "connected"
        /\ s.down.reading = w.down.reading
    BY <1>2, SentIs
  <2> HIDE DEF s
  <2> QED BY <2>1 DEF SessionLife, Relays, RelayTimers, SameBut, SameStreams
<1> HIDE DEF s
<1>4. /\ SessionLife(v) /\ v.phase = "relay" /\ v.up = s.up /\ v.down = s.down
      /\ v.auth = s.auth /\ v.script = s.script /\ v.arrived = s.arrived
      /\ v.answered = s.answered /\ v.buffer = s.buffer
  BY <1>3, IdleReset
<1> QED BY <1>1, <1>3, <1>4 DEF SameStreams

-----------------------------------------------------------------------------
(* Socks5.  The steps that end a session, or leave it ended.               *)

\* v is over, and of w only output is lost.
EndsAs(w, v) ==
  /\ SessionLife(v) /\ v.phase = "closed"
  /\ v.auth = w.auth /\ v.arrived = w.arrived /\ v.answered = w.answered
  /\ v.up.got = w.up.got /\ v.up.out \in {w.up.out, << >>}
  /\ v.down.got = w.down.got /\ v.down.out \in {w.down.out, << >>}

\* ~Socks5ProxySession() after a handler that ended the session.
LEMMA ReleaseOver ==
  ASSUME NEW w, NEW v, NEW o, Over(w, v, o)
  PROVE  Over(w, Release(v), o)
<1>1. /\ IsSession(v) /\ v.phase = "closed" /\ ~v.stray /\ OverLife(v)
      /\ SameStreams(w, v, o)
  BY DEF Over, SessionLife
<1>2. Over(v, Release(v), v.down.out)
  BY <1>1, ReleaseIdle
<1> QED BY <1>1, <1>2 DEF Over, SameStreams

\* handle_close() of the client's connection.
LEMMA DownCloses ==
  ASSUME NEW w, SessionLife(w), Open(w, "down")
  PROVE  EndsAs(w, HandleCloseOf(w, "down"))
<1>1. Over(w, HandleCloseOf(w, "down"), << >>)
  <2>1. w.phase \in {"closed", "connecting", "relay"} \/ Greets(w)
    BY DEF SessionLife, IsSession, Greets
  <2> QED BY <2>1, DownClosedOver, DownClosedEarly, DownClosedRelay
<1> QED BY <1>1 DEF EndsAs, Over, SameStreams

\* handle_close() of the upstream connection.
LEMMA UpCloses ==
  ASSUME NEW w, SessionLife(w), Open(w, "up")
  PROVE  EndsAs(w, HandleCloseOf(w, "up"))
<1> DEFINE d == UpIsDown(w)
           v == HandleCloseOf(w, "up")
<1>1. w.phase = "relay" \/ w.phase = "closed"
  BY DEF SessionLife, IsSession, Greets, Open
<1>2. ASSUME w.phase = "closed" PROVE Over(d, v, w.down.out)
  <2>1. /\ IsSession(w) /\ ~w.stray /\ w.timers = {} /\ ~w.connecting /\ w.up.state = "disconnecting"
        /\ w.client /\ w.down.state # "none" /\ ClosesFirst(w.functors) /\ CleansOnce(w.functors)
        /\ (Has(w.functors, "cleanup") => w.cleanup)
        /\ (w.down.state = "disconnected" => ~w.context) /\ Heeds(w)
    BY <1>2 DEF SessionLife, OverLife, Open
  <2>2. Has(w.functors, "cleanup")
    BY <2>1 DEF ClosesFirst, Has
  <2> QED BY <1>2, <2>1, <2>2, UpClosedOver
<1>3. Over(d, v, w.down.out)
  BY <1>1, <1>2, UpClosedRelay, Zenon
<1>4. /\ d.auth = w.auth /\ d.arrived = w.arrived /\ d.answered = w.answered
      /\ d.up.got = w.up.got /\ d.up.out = << >> /\ d.down = w.down
  BY UpIs DEF SessionLife
<1> HIDE DEF d, v
<1>5. EndsAs(w, v)
  BY <1>3, <1>4 DEF EndsAs, Over, SameStreams
<1> QED BY <1>5 DEF v

\* The cleanup of schedule_upstream_cleanup().
LEMMA CleanupRuns ==
  ASSUME NEW w, SessionLife(w), w.functors # << >>, Head(w.functors) = "cleanup"
  PROVE  LET v == [w EXCEPT !.functors = Tail(@)]
         IN  Over(w, Release([DestroyClient(v) EXCEPT !.upstream = FALSE, !.hold = FALSE]), w.down.out)
<1> DEFINE v == [w EXCEPT !.functors = Tail(@)]
           d == DestroyClient(v)
           e == [d EXCEPT !.upstream = FALSE]
           f == [e EXCEPT !.hold = FALSE]
<1>1. /\ IsSession(v) /\ ~v.stray /\ v.phase = "closed" /\ v.timers = {} /\ ~v.connecting
      /\ SameStreams(w, v, w.down.out)
      /\ v.up.state \notin {"connected", "disconnecting"} /\ ~Has(v.functors, "cleanup")
      /\ CleansOnce(v.functors) /\ v.down.state # "none"
      /\ (v.down.state = "disconnected" => ~v.context) /\ Heeds(v)
  <2>1. /\ IsSession(v) /\ ~v.stray /\ v.phase = "closed" /\ v.timers = {} /\ ~v.connecting
        /\ SameStreams(w, v, w.down.out) /\ v.up = w.up /\ v.down = w.down /\ v.context = w.context
        /\ CleansOnce(v.functors) /\ v.up.state # "disconnecting" /\ ~Has(v.functors, "cleanup")
    BY OverTail
  <2> HIDE DEF v
  <2> QED BY <2>1 DEF SessionLife, OverLife, Heeds
<1> HIDE DEF v
<1>2. /\ IsSession(d) /\ ~d.stray /\ d.phase = "closed" /\ d.timers = {} /\ ~d.connecting
      /\ SameStreams(w, d, w.down.out) /\ d.up = v.up /\ d.down = v.down /\ ~d.client
      /\ d.functors = v.functors /\ d.context = v.context /\ d.cleanup = v.cleanup
  BY <1>1, ClientGone DEF Open, SameStreams
<1> HIDE DEF d
<1>3. IsSession(f)
  BY <1>2, SessionSets
<1>4. /\ ~f.stray /\ f.phase = "closed" /\ f.timers = {} /\ ~f.connecting
      /\ SameStreams(w, f, w.down.out) /\ f.up = v.up /\ f.down = v.down /\ ~f.client
      /\ f.functors = v.functors /\ f.context = v.context /\ ~f.upstream /\ ~f.hold
  BY <1>2 DEF IsSession, SameStreams
<1>5. f = [d EXCEPT !.upstream = FALSE, !.hold = FALSE]
  OBVIOUS
<1> HIDE DEF f
<1>6. OverLife(f)
  BY <1>1, <1>4 DEF OverLife, Heeds
<1>7. Over(w, f, w.down.out)
  BY <1>3, <1>4, <1>6 DEF Over, SessionLife, Greets
<1>8. Over(w, Release(f), w.down.out)
  BY <1>7, ReleaseOver
<1> QED BY <1>5, <1>8 DEF d, v

\* A functor of the session's runs.
LEMMA FunctorRuns ==
  ASSUME NEW w, SessionLife(w), w.functors # << >>
  PROVE  LET what == Head(w.functors)
             v == [w EXCEPT !.functors = Tail(@)]
         IN  EndsAs(w, IF what = "cleanup"
                     THEN Release([DestroyClient(v) EXCEPT !.upstream = FALSE, !.hold = FALSE])
                     ELSE HandleCloseOf(v, what))
<1> DEFINE v == [w EXCEPT !.functors = Tail(@)]
<1>1. CASE Head(w.functors) = "cleanup"
  <2> DEFINE x == Release([DestroyClient(v) EXCEPT !.upstream = FALSE, !.hold = FALSE])
  <2>1. Over(w, x, w.down.out)
    BY <1>1, CleanupRuns
  <2> HIDE DEF x
  <2>2. EndsAs(w, x)
    BY <2>1 DEF EndsAs, Over, SameStreams
  <2> QED BY <1>1, <2>2 DEF x
<1>2. CASE Head(w.functors) # "cleanup"
  <2>1. /\ IsSession(v) /\ ~v.stray /\ v.phase = "closed" /\ v.timers = {} /\ ~v.connecting
        /\ SameStreams(w, v, w.down.out)
        /\ v.up = w.up /\ v.down = w.down /\ v.client = w.client /\ v.context = w.context
        /\ Head(w.functors) \in SocksFunctors
        /\ (v.hold \/ v.client \/ v.upstream => Has(v.functors, "cleanup"))
        /\ (v.up.state = "disconnecting" => Has(v.functors, "cleanup"))
        /\ (Has(v.functors, "cleanup") => v.cleanup)
        /\ CleansOnce(v.functors)
        /\ (Head(w.functors) # "up" /\ v.up.state = "disconnecting" => ClosesFirst(v.functors))
    BY <1>2, OverTail
  <2>2. OverLife(w)
    BY <2>1 DEF SessionLife, SameStreams
  <2> HIDE DEF v
  <2>3. ASSUME Head(w.functors) # "up" \/ v.up.state # "disconnecting" PROVE SessionLife(v)
    <3>1. OverLife(v)
      BY <2>1, <2>2, <2>3 DEF OverLife, Heeds
    <3> QED BY <2>1, <3>1 DEF SessionLife, Greets
  <2>4. ASSUME SessionLife(v) PROVE EndsAs(w, v)
    BY <2>1, <2>4 DEF EndsAs, SameStreams
  <2>5. CASE Head(w.functors) = "down"
    <3>1. CASE Open(v, "down")
      <4>1. EndsAs(v, HandleCloseOf(v, "down"))
        BY <2>3, <2>5, <3>1, DownCloses
      <4>2. EndsAs(w, HandleCloseOf(v, "down"))
        BY <2>1, <4>1 DEF EndsAs, SameStreams
      <4> QED BY <1>2, <2>5, <4>2 DEF v
    <3>2. CASE ~Open(v, "down")
      <4>1. HandleCloseOf(v, "down") = v
        BY <3>2 DEF HandleCloseOf
      <4> QED BY <1>2, <2>3, <2>4, <2>5, <4>1 DEF v
    <3> QED BY <3>1, <3>2
  <2>6. CASE Head(w.functors) = "up"
    <3>1. CASE v.up.state = "disconnecting"
      <4> DEFINE x == HandleCloseOf(v, "up")
      <4>1. v.client /\ v.down.state # "none" /\ (v.down.state = "disconnected" => ~v.context)
            /\ Heeds(v)
        BY <2>1, <2>2, <3>1 DEF OverLife, Heeds
      <4>2. Over(UpIsDown(v), x, v.down.out)
        BY <2>1, <3>1, <4>1, UpClosedOver
      <4> DEFINE d == UpIsDown(v)
      <4>3. /\ d.auth = v.auth /\ d.arrived = v.arrived /\ d.answered = v.answered
            /\ d.up.got = v.up.got /\ d.up.out = << >> /\ d.down = v.down
        BY <2>1, UpIs
      <4> HIDE DEF x, d
      <4>4. EndsAs(w, x)
        BY <2>1, <4>2, <4>3 DEF EndsAs, Over, SameStreams, d
      <4> QED BY <1>2, <2>6, <4>4 DEF v, x
    <3>2. CASE v.up.state # "disconnecting"
      <4>1. v.up.state # "connected"
        BY <2>1, <2>2 DEF OverLife
      <4>2. HandleCloseOf(v, "up") = v
        BY <3>2, <4>1 DEF HandleCloseOf, Open
      <4> QED BY <1>2, <2>3, <2>4, <2>6, <3>2, <4>2 DEF v
    <3> QED BY <3>1, <3>2
  <2> QED BY <1>2, <2>1, <2>5, <2>6 DEF SocksFunctors
<1> QED BY <1>1, <1>2

\* A timer of the session's fires.
LEMMA TimerEnds ==
  ASSUME NEW w, SessionLife(w), NEW timer \in w.timers
  PROVE  LET v == [w EXCEPT !.timers = @ \ {timer}]
             x == CASE ~Alive(v) -> v
                    [] Alive(v) /\ timer = "handshake" -> Release(HandshakeTimeout(v))
                    [] Alive(v) /\ timer = "connect" -> Release(ConnectTimeout(v))
                    [] OTHER -> Release(IdleTimeout(v))
         IN  Over(w, x, IF w.phase \in {"request", "connecting"} THEN w.down.out \o Reply("failure")
                        ELSE w.down.out)
<1> DEFINE v == [w EXCEPT !.timers = @ \ {timer}]
           o == IF w.phase \in {"request", "connecting"} THEN w.down.out \o Reply("failure")
                ELSE w.down.out
           h == HandshakeTimeout(v)
           c == ConnectTimeout(v)
           i == IdleTimeout(v)
           x == CASE ~Alive(v) -> v
                  [] Alive(v) /\ timer = "handshake" -> Release(h)
                  [] Alive(v) /\ timer = "connect" -> Release(c)
                  [] OTHER -> Release(i)
<1>1. w.phase # "closed"
  BY DEF SessionLife, OverLife
<1>2. /\ IsSession(v) /\ SameStreams(w, v, w.down.out) /\ v.phase = w.phase
      /\ ~v.stray /\ v.connecting = w.connecting /\ v.up = w.up /\ v.down = w.down
      /\ v.hold = w.hold /\ v.client = w.client /\ v.upstream = w.upstream
      /\ v.functors = << >> /\ ~v.cleanup /\ v.context
  <2> DEFINE s == w.timers \ {timer}
  <2>1. s \in SUBSET {"handshake", "connect", "idle"}
    BY DEF SessionLife, IsSession
  <2>2. v = [w EXCEPT !.timers = s]
    OBVIOUS
  <2> HIDE DEF s, v
  <2>3. IsSession(v)
    BY <2>1, <2>2, SessionSets DEF SessionLife
  <2> QED BY <1>1, <2>2, <2>3 DEF SessionLife, IsSession, SameStreams
<1> HIDE DEF v
<1>3. Alive(v) /\ v.down.state = "connected"
  BY <1>1, <1>2 DEF Alive, SessionLife
<1>4. ASSUME NEW y, Over(v, y, o) PROVE Over(w, Release(y), o)
  <2>1. Over(v, Release(y), o)
    BY <1>4, ReleaseOver
  <2> QED BY <1>2, <2>1 DEF Over, SameStreams
<1>5. CASE Greets(w)
  <2>1. timer = "handshake" /\ Bare(v) /\ Greets(v) /\ v.up.state = "none" /\ ~v.client /\ ~v.upstream
        /\ ~v.hold
    BY <1>2, <1>3, <1>5 DEF SessionLife, Greets, Bare
  <2>2. Over(v, h, IF v.phase = "request" THEN v.down.out \o Reply("failure") ELSE v.down.out)
    BY <2>1, HandshakeTimeoutIs
  <2>3. Over(v, h, o)
    BY <1>2, <1>5, <2>2 DEF Greets
  <2> HIDE DEF h, c, i, o
  <2>4. x = Release(h)
    BY <1>3, <2>1
  <2>5. Over(w, x, o)
    BY <1>4, <2>3, <2>4
  <2> QED BY <2>5 DEF x, v, h, c, i, o
<1>6. CASE w.phase = "connecting"
  <2>1. timer = "connect" /\ v.up.state = "none" /\ v.client /\ ~v.upstream /\ v.phase = "connecting"
    BY <1>2, <1>6 DEF SessionLife
  <2>2. Over(v, c, v.down.out \o Reply("failure"))
    BY <1>2, <1>3, <2>1, ConnectTimeoutIs
  <2>3. Over(v, c, o)
    BY <1>2, <1>6, <2>2
  <2> HIDE DEF h, c, i, o
  <2>4. x = Release(c)
    BY <1>3, <2>1
  <2>5. Over(w, x, o)
    BY <1>4, <2>3, <2>4
  <2> QED BY <2>5 DEF x, v, h, c, i, o
<1>7. CASE w.phase = "relay"
  <2>1. timer = "idle" /\ Bare(v) /\ v.up.state = "connected" /\ v.client /\ v.phase = "relay"
        /\ v.down.reading
    BY <1>2, <1>3, <1>7 DEF SessionLife, Bare
  <2>2. Over(v, i, v.down.out)
    BY <2>1, IdleTimeoutIs
  <2>3. Over(v, i, o)
    BY <1>2, <1>7, <2>2
  <2> HIDE DEF h, c, i, o
  <2>4. x = Release(i)
    BY <1>3, <2>1
  <2>5. Over(w, x, o)
    BY <1>4, <2>3, <2>4
  <2> QED BY <2>5 DEF x, v, h, c, i, o
<1> QED BY <1>1, <1>5, <1>6, <1>7 DEF SessionLife, IsSession, Greets

\* The connector gives up.
LEMMA FailsIs ==
  ASSUME NEW w, SessionLife(w), w.connecting
  PROVE  LET v == [w EXCEPT !.connecting = FALSE]
         IN  /\ w.phase = "connecting"
             /\ Over(w, IF Alive(v) THEN OnConnectFailed(v) ELSE v, w.down.out \o Reply("failure"))
<1> DEFINE v == [w EXCEPT !.connecting = FALSE]
           x == OnConnectFailed(v)
<1>1. w.phase = "connecting"
  BY DEF SessionLife, IsSession, Greets, OverLife
<1>2. /\ IsSession(v) /\ SameStreams(w, v, w.down.out) /\ v.phase = "connecting"
      /\ ~v.stray /\ ~v.connecting /\ v.up = w.up /\ v.down = w.down
      /\ v.functors = << >> /\ ~v.cleanup /\ v.context
  <2>1. IsSession(v)
    BY SessionSets DEF SessionLife
  <2> QED BY <1>1, <2>1 DEF SessionLife, IsSession, SameStreams
<1> HIDE DEF v
<1>3. Alive(v) /\ Bare(v) /\ v.up.state = "none"
  BY <1>1, <1>2 DEF Alive, SessionLife, Bare
<1>4. Over(v, x, v.down.out \o Reply("failure"))
  BY <1>2, <1>3, ConnectFailedIs
<1> HIDE DEF x
<1>5. Over(w, x, w.down.out \o Reply("failure"))
  BY <1>2, <1>4 DEF Over, SameStreams
<1> QED BY <1>1, <1>3, <1>5 DEF x, v

\* One more answer.
LEMMA AnswerIs ==
  ASSUME NEW w, SessionLife(w), Open(w, "up")
  PROVE  LET v == [w EXCEPT !.answered = @ + 1]
         IN  /\ SessionLife(v) /\ v.phase = w.phase /\ v.up = w.up /\ v.down = w.down
             /\ v.answered = w.answered + 1 /\ w.answered \in Nat /\ v.auth = w.auth
             /\ v.script = w.script /\ v.arrived = w.arrived /\ v.buffer = w.buffer /\ Alive(v)
<1> DEFINE v == [w EXCEPT !.answered = w.answered + 1]
<1>1. IsSession(w) /\ w.answered \in Nat /\ w.phase \in {"relay", "closed"}
  BY DEF SessionLife, IsSession, Greets, Open
<1>2. IsSession(v)
  BY <1>1 DEF IsSession
<1>3. /\ v.phase = w.phase /\ v.up = w.up /\ v.down = w.down /\ v.answered = w.answered + 1
      /\ v.auth = w.auth /\ v.idles = w.idles /\ v.script = w.script /\ v.arrived = w.arrived
      /\ v.buffer = w.buffer
      /\ v.stray = w.stray /\ v.context = w.context /\ v.cleanup = w.cleanup /\ v.functors = w.functors
      /\ v.timers = w.timers /\ v.client = w.client /\ v.connecting = w.connecting
      /\ v.upstream = w.upstream /\ v.hold = w.hold
  BY <1>1 DEF IsSession
<1> HIDE DEF v
<1>4. SessionLife(v)
  BY <1>1, <1>2, <1>3 DEF SessionLife, OverLife, Heeds, Greets
<1>5. Alive(v)
  <2>1. CASE w.phase = "relay"
    BY <1>3, <2>1 DEF SessionLife, Alive
  <2>2. CASE w.phase = "closed"
    <3>1. ClosesFirst(w.functors)
      BY <2>2 DEF SessionLife, OverLife, Open
    <3>2. \E k \in 1..Len(w.functors) : w.functors[k] = "cleanup"
      BY <3>1 DEF ClosesFirst
    <3> QED BY <1>3, <3>2 DEF Alive, Contains
  <2> QED BY <1>1, <2>1, <2>2
<1> QED BY <1>1, <1>3, <1>4, <1>5 DEF v

\* on_upstream_message() in a session that is over.
LEMMA AnswerDropped ==
  ASSUME NEW w, SessionLife(w), w.phase = "closed", NEW x
  PROVE  Over(w, Release(OnUpstreamMessage(w, x)), w.down.out)
<1>1. OnUpstreamMessage(w, x) = w
  BY DEF OnUpstreamMessage, CloseSession
<1>2. Over(w, w, w.down.out)
  BY DEF Over, SameStreams
<1> QED BY <1>1, <1>2, ReleaseOver

\* ~Socks5ProxySession() while the session has an owner.
LEMMA ReleaseNothing ==
  ASSUME NEW w, SessionLife(w), w.phase = "relay"
  PROVE  Release(w) = w
BY DEF Release, Alive, SessionLife

\* The peer reads what a connection has to write.
LEMMA WriteIs ==
  ASSUME NEW w, SessionLife(w), NEW side \in {"down", "up"}, w[side].out # << >>
  PROVE  LET v == [w EXCEPT ![side].out = Tail(@), ![side].got = Append(@, Head(w[side].out))]
         IN  /\ SessionLife(v) /\ v.phase = w.phase /\ v.auth = w.auth /\ v.script = w.script
             /\ v.arrived = w.arrived /\ v.answered = w.answered /\ v.buffer = w.buffer
             /\ v.preserved = w.preserved
             /\ v.up.got \o v.up.out = w.up.got \o w.up.out
             /\ v.down.got \o v.down.out = w.down.got \o w.down.out
<1> DEFINE t == Tail(w[side].out)
           g == Append(w[side].got, Head(w[side].out))
           u == [w EXCEPT ![side].out = t]
           v == [u EXCEPT ![side].got = g]
<1>1. IsSession(w) /\ w[side].out \in Seq(SocksElement) /\ w[side].got \in Seq(SocksElement)
  BY DEF SessionLife, IsSession, IsSide
<1>2. /\ t \in Seq(SocksElement) /\ g \in Seq(SocksElement)
      /\ g \o t = w[side].got \o w[side].out
  <2> DEFINE a == w[side].got
             b == w[side].out
  <2>1. a \in Seq(SocksElement) /\ b \in Seq(SocksElement) /\ b # << >>
    BY <1>1
  <2> HIDE DEF a, b
  <2>2. LET tt == Tail(b)
            gg == Append(a, Head(b))
        IN  /\ tt \in Seq(SocksElement) /\ gg \in Seq(SocksElement)
            /\ Len(gg \o tt) = Len(a \o b) /\ gg \o tt \in Seq(SocksElement) /\ a \o b \in Seq(SocksElement)
            /\ \A k \in 1..Len(a \o b) : (gg \o tt)[k] = (a \o b)[k]
    <3> HIDE DEF SocksElement
    <3> QED BY <2>1
  <2>3. Append(a, Head(b)) \o Tail(b) = a \o b
    BY <2>2, SeqEqual
  <2> QED BY <2>2, <2>3 DEF a, b
<1>3. v = [w EXCEPT ![side].out = Tail(@), ![side].got = Append(@, Head(w[side].out))]
  BY <1>1 DEF IsSession, IsSide
<1> HIDE DEF t, g
<1>4. IsSession(u)
  BY <1>1, <1>2 DEF IsSession, IsSide
<1>5. /\ u.phase = w.phase /\ u.auth = w.auth /\ u.idles = w.idles /\ u.script = w.script
      /\ u.arrived = w.arrived /\ u.answered = w.answered /\ u.buffer = w.buffer
      /\ u.preserved = w.preserved
      /\ u.stray = w.stray /\ u.context = w.context /\ u.cleanup = w.cleanup /\ u.functors = w.functors
      /\ u.timers = w.timers /\ u.client = w.client /\ u.connecting = w.connecting
      /\ u.upstream = w.upstream /\ u.hold = w.hold
      /\ u.up.state = w.up.state /\ u.down.state = w.down.state /\ u.down.reading = w.down.reading
      /\ u[side].out = t /\ u[side].got = w[side].got
      /\ (side = "up" => u.down = w.down) /\ (side = "down" => u.up = w.up)
  BY <1>1 DEF IsSession, IsSide
<1> HIDE DEF u
<1>6. IsSession(v)
  BY <1>2, <1>4 DEF IsSession, IsSide
<1>7. /\ v.phase = w.phase /\ v.auth = w.auth /\ v.idles = w.idles /\ v.script = w.script
      /\ v.arrived = w.arrived /\ v.answered = w.answered /\ v.buffer = w.buffer
      /\ v.preserved = w.preserved
      /\ v.stray = w.stray /\ v.context = w.context /\ v.cleanup = w.cleanup /\ v.functors = w.functors
      /\ v.timers = w.timers /\ v.client = w.client /\ v.connecting = w.connecting
      /\ v.upstream = w.upstream /\ v.hold = w.hold
      /\ v.up.state = w.up.state /\ v.down.state = w.down.state /\ v.down.reading = w.down.reading
      /\ v[side].out = t /\ v[side].got = g
      /\ (side = "up" => v.down = w.down) /\ (side = "down" => v.up = w.up)
  BY <1>4, <1>5 DEF IsSession, IsSide
<1> HIDE DEF v
<1>8. SessionLife(v)
  BY <1>6, <1>7 DEF SessionLife, OverLife, Heeds, Greets
<1>9. /\ v.up.got \o v.up.out = w.up.got \o w.up.out
      /\ v.down.got \o v.down.out = w.down.got \o w.down.out
  BY <1>2, <1>7
<1> QED BY <1>3, <1>7, <1>8, <1>9

-----------------------------------------------------------------------------
(* Socks5.  What passes through the session.                               *)

\* A sequence of payload, and one without.
AllData(q) == \A i \in 1..Len(q) : q[i][1] = "data"
NoData(q) == \A i \in 1..Len(q) : q[i][1] # "data"

\* What is left of a script when whole messages are gone: the rest of a message follows
\* its head, and payload alone the request for the target.
Well(q) ==
  \A k \in Nat :
    /\ 2*k + 2 <= Len(q) /\ q[2*k + 1][1] # "data" => q[2*k + 2] = <<q[2*k + 1][1], "rest">>
    /\ 2*k + 1 <= Len(q) /\ q[2*k + 1][1] = "target" =>
         \A j \in 1..Len(q) : j > 2*k + 2 => q[j][1] = "data"

\* A prefix, element by element.
Leads(a, b) == Len(a) <= Len(b) /\ \A i \in 1..Len(a) : a[i] = b[i]

\* Neither success nor payload.
Quiet(s) == \A i \in 1..Len(s) : s[i][1] # "success" /\ s[i][1] # "data"

Asked(auth) == IF auth THEN Reply("user_password") \o Reply("granted") ELSE Reply("no_auth")
WelcomeOf(auth) == Asked(auth) \o Reply("success")
SaidUp(w) == w.up.got \o w.up.out
SaidDown(w) == w.down.got \o w.down.out
Proven(w) == w.auth => Has(w.arrived, <<"right", "rest">>)

\* What the client has got so far is no news, or the welcome and answers.
News(w) ==
  \/ Quiet(SaidDown(w))
  \/ /\ Leads(SaidDown(w), WelcomeOf(w.auth) \o Payload(w.answered))
     /\ Len(WelcomeOf(w.auth)) <= Len(SaidDown(w)) /\ Proven(w)

\* What the client has got in the handshake.
Answered(w) ==
  CASE w.phase = "greeting" -> << >>
    [] w.phase = "user_password" -> Reply("user_password")
    [] OTHER -> Asked(w.auth)

\* What has passed, in each phase.
FlowInv(w) ==
  /\ Leads(SaidUp(w), PayloadOf(w.arrived)) /\ News(w)
  /\ Greets(w) =>
       /\ SaidUp(w) = << >> /\ w.answered = 0 /\ SaidDown(w) = Answered(w)
       /\ \E done \in Seq(SocksElement) : w.arrived = done \o w.buffer /\ NoData(done)
       /\ Well(w.buffer \o w.script)
       /\ w.phase = "user_password" => w.auth
       /\ w.phase = "request" => Proven(w)
  /\ w.phase = "connecting" =>
       /\ SaidUp(w) = << >> /\ w.answered = 0 /\ SaidDown(w) = Asked(w.auth) /\ Proven(w)
       /\ AllData(w.script) /\ PayloadOf(w.arrived) = w.preserved /\ w.buffer = << >>
  /\ w.phase = "relay" =>
       /\ AllData(w.script) /\ Proven(w) /\ w.buffer = << >>
       /\ SaidUp(w) = PayloadOf(w.arrived)
       /\ SaidDown(w) = WelcomeOf(w.auth) \o Payload(w.answered)

\* The payload among elements, one element after the other.
Picks(q) == [i \in DOMAIN q |-> IF q[i][1] = "data" THEN <<q[i]>> ELSE << >>]

\* Each is a sequence of at most one.
LEMMA PicksAre ==
  ASSUME NEW S, NEW q \in Seq(S)
  PROVE  /\ Picks(q) \in Seq(Seq(S)) /\ Len(Picks(q)) = Len(q)
         /\ \A i \in 1..Len(q) : Picks(q)[i] = IF q[i][1] = "data" THEN <<q[i]>> ELSE << >>
<1> DEFINE n == Len(q)
<1>1. n \in Nat /\ DOMAIN q = 1..n /\ \A i \in 1..n : q[i] \in S
  OBVIOUS
<1> HIDE DEF n
<1>2. Picks(q) = [i \in 1..n |-> IF q[i][1] = "data" THEN <<q[i]>> ELSE << >>]
  BY <1>1 DEF Picks
<1>3. \A i \in 1..n : (IF q[i][1] = "data" THEN <<q[i]>> ELSE << >>) \in Seq(S)
  BY <1>1
<1> DEFINE f(i) == IF q[i][1] = "data" THEN <<q[i]>> ELSE << >>
<1> HIDE DEF f
<1>4. [i \in 1..n |-> f(i)] \in Seq(Seq(S)) /\ Len([i \in 1..n |-> f(i)]) = n
  <2>1. \A i \in 1..n : f(i) \in Seq(S)
    BY <1>3 DEF f
  <2> QED BY <1>1, <2>1
<1>5. Picks(q) = [i \in 1..n |-> f(i)]
  BY <1>2 DEF f
<1> QED BY <1>2, <1>4, <1>5 DEF n

\* The payload of a sequence that is continued.
LEMMA PayloadConcat ==
  ASSUME NEW S, NEW q \in Seq(S), NEW r \in Seq(S)
  PROVE  PayloadOf(q) \in Seq(S) /\ PayloadOf(q \o r) = PayloadOf(q) \o PayloadOf(r)
<1>1. /\ Picks(q) \in Seq(Seq(S)) /\ Len(Picks(q)) = Len(q)
      /\ \A i \in 1..Len(q) : Picks(q)[i] = IF q[i][1] = "data" THEN <<q[i]>> ELSE << >>
  BY PicksAre
<1>2. /\ Picks(r) \in Seq(Seq(S)) /\ Len(Picks(r)) = Len(r)
      /\ \A i \in 1..Len(r) : Picks(r)[i] = IF r[i][1] = "data" THEN <<r[i]>> ELSE << >>
  BY PicksAre
<1> DEFINE c == q \o r
<1>3. /\ c \in Seq(S) /\ Len(c) = Len(q) + Len(r) /\ \A i \in 1..Len(q) : c[i] = q[i]
      /\ \A i \in 1..Len(c) : i \notin 1..Len(q) => i - Len(q) \in 1..Len(r) /\ c[i] = r[i - Len(q)]
  OBVIOUS
<1> HIDE DEF c
<1>4. /\ Picks(c) \in Seq(Seq(S)) /\ Len(Picks(c)) = Len(c)
      /\ \A i \in 1..Len(c) : Picks(c)[i] = IF c[i][1] = "data" THEN <<c[i]>> ELSE << >>
  BY <1>3, PicksAre
<1> DEFINE p == Picks(c)
           a == Picks(q)
           b == Picks(r)
           d == a \o b
<1>5. p = d
  <2>1. p \in Seq(Seq(S)) /\ a \in Seq(Seq(S)) /\ b \in Seq(Seq(S))
    BY <1>1, <1>2, <1>4
  <2>2. /\ Len(p) = Len(q) + Len(r) /\ Len(a) = Len(q) /\ Len(b) = Len(r)
        /\ \A i \in 1..Len(q) : i \in 1..Len(c) /\ p[i] = a[i]
        /\ \A i \in 1..Len(c) : i \notin 1..Len(q) => i - Len(q) \in 1..Len(r) /\ p[i] = b[i - Len(q)]
    <3>1. \A i \in 1..Len(q) : i \in 1..Len(c)
      BY <1>3
    <3>2. Len(p) = Len(q) + Len(r) /\ Len(a) = Len(q) /\ Len(b) = Len(r)
      BY <1>1, <1>2, <1>3, <1>4
    <3> HIDE DEF p, a, b
    <3>3. ASSUME NEW i \in 1..Len(q) PROVE i \in 1..Len(c) /\ p[i] = a[i]
      <4>1. /\ p[i] = IF c[i][1] = "data" THEN <<c[i]>> ELSE << >>
            /\ a[i] = IF q[i][1] = "data" THEN <<q[i]>> ELSE << >>
            /\ c[i] = q[i]
        BY <1>1, <1>3, <1>4, <3>1 DEF p, a
      <4> QED BY <3>1, <4>1
    <3>4. ASSUME NEW i \in 1..Len(c), i \notin 1..Len(q)
          PROVE  i - Len(q) \in 1..Len(r) /\ p[i] = b[i - Len(q)]
      <4> DEFINE k == i - Len(q)
      <4>1. k \in 1..Len(r) /\ c[i] = r[k]
        BY <1>3, <3>4
      <4> HIDE DEF k
      <4>2. /\ p[i] = IF c[i][1] = "data" THEN <<c[i]>> ELSE << >>
            /\ b[k] = IF r[k][1] = "data" THEN <<r[k]>> ELSE << >>
        BY <1>2, <1>4, <4>1 DEF p, b
      <4>3. p[i] = b[k]
        BY <4>1, <4>2
      <4> QED BY <4>1, <4>3 DEF k
    <3> QED BY <3>2, <3>3, <3>4
  <2> HIDE DEF p, a, b
  <2>3. /\ d \in Seq(Seq(S)) /\ Len(d) = Len(a) + Len(b) /\ \A i \in 1..Len(a) : d[i] = a[i]
        /\ \A i \in 1..Len(d) : i \notin 1..Len(a) => d[i] = b[i - Len(a)]
    <3> DEFINE T == Seq(S)
    <3>1. a \in Seq(T) /\ b \in Seq(T)
      BY <2>1
    <3> HIDE DEF T
    <3>2. /\ d \in Seq(T) /\ Len(d) = Len(a) + Len(b) /\ \A i \in 1..Len(a) : d[i] = a[i]
          /\ \A i \in 1..Len(d) : i \notin 1..Len(a) => d[i] = b[i - Len(a)]
      BY <3>1
    <3> QED BY <3>2 DEF T
  <2> HIDE DEF d
  <2>4. Len(p) = Len(d) /\ \A i \in 1..Len(p) : p[i] = d[i]
    BY <1>3, <2>2, <2>3
  <2> QED BY <2>1, <2>3, <2>4, SeqEqual
<1>6. PayloadOf(q) = FlattenSeq(a) /\ PayloadOf(r) = FlattenSeq(b) /\ PayloadOf(c) = FlattenSeq(p)
  BY DEF PayloadOf, Picks
<1> HIDE DEF p, a, b
<1>7. FlattenSeq(a) \in Seq(S) /\ FlattenSeq(d) = FlattenSeq(a) \o FlattenSeq(b)
  BY <1>1, <1>2, FlattenType, FlattenConcat DEF a, b
<1> QED BY <1>5, <1>6, <1>7 DEF c

\* What has no payload.
LEMMA PayloadNone ==
  ASSUME NEW S, NEW q \in Seq(S), NoData(q)
  PROVE  PayloadOf(q) = << >>
<1> DEFINE p == Picks(q)
<1>1. p \in Seq(Seq(S)) /\ Len(p) = Len(q) /\ \A i \in 1..Len(p) : p[i] = << >>
  BY PicksAre DEF NoData
<1> HIDE DEF p
<1>2. \A i \in 1..Len(p) : Len(p[i]) = 0
  <2>1. Len(<< >>) = 0
    OBVIOUS
  <2> QED BY <1>1, <2>1, Zenon
<1>3. FlattenSeq(p) \in Seq(S) /\ Len(FlattenSeq(p)) = Len(p) * 0
  BY <1>1, <1>2, FlattenType, FlattenEqual
<1>4. FlattenSeq(p) = << >>
  <2> DEFINE f == FlattenSeq(p)
  <2>1. f \in Seq(S) /\ Len(f) = 0
    BY <1>1, <1>3
  <2> HIDE DEF f
  <2>2. f = << >>
    BY <2>1, EmptySeq
  <2> QED BY <2>2 DEF f
<1> QED BY <1>4 DEF p, PayloadOf, Picks

\* What is all payload.
LEMMA PayloadAll ==
  ASSUME NEW S, NEW r \in Seq(S), AllData(r)
  PROVE  PayloadOf(r) = r
<1> DEFINE T == {q \in Seq(S) : AllData(q) => PayloadOf(q) = q}
<1>1. << >> \in T
  <2>1. << >> \in Seq(S) /\ NoData(<< >>)
    BY DEF NoData
  <2> QED BY <2>1, PayloadNone
<1>2. ASSUME NEW q \in Seq(S), NEW x \in S, q \in T, AllData(Append(q, x))
      PROVE  PayloadOf(Append(q, x)) = Append(q, x)
  <2> DEFINE b == Append(q, x)
  <2>1. /\ b = q \o <<x>> /\ <<x>> \in Seq(S) /\ Len(b) = Len(q) + 1 /\ b[Len(q) + 1] = x
        /\ \A i \in 1..Len(q) : b[i] = q[i] /\ i \in 1..Len(b)
    OBVIOUS
  <2>2. Len(b) \in 1..Len(b) /\ AllData(b)
    BY <1>2, <2>1
  <2> HIDE DEF b
  <2>3. AllData(q) /\ x[1] = "data"
    BY <2>1, <2>2 DEF AllData
  <2>4. Picks(<<x>>) = <<<<x>>>>
    <3> DEFINE o == <<x>>
               p == Picks(o)
    <3>1. o \in Seq(S) /\ Len(o) = 1 /\ o[1] = x /\ 1..1 = {1}
      OBVIOUS
    <3> HIDE DEF o
    <3>2. p \in Seq(Seq(S)) /\ Len(p) = 1 /\ p[1] = <<x>>
      BY <2>3, <3>1, PicksAre
    <3> HIDE DEF p
    <3> DEFINE t == <<<<x>>>>
    <3>3. t \in Seq(Seq(S)) /\ Len(t) = 1 /\ t[1] = <<x>>
      BY <2>1
    <3> HIDE DEF t
    <3>4. p = t
      <4>1. \A i \in 1..Len(p) : p[i] = t[i]
        BY <3>1, <3>2, <3>3
      <4> QED BY <3>2, <3>3, <4>1, SeqEqual
    <3> QED BY <3>4 DEF p, o, t
  <2>5. FlattenSeq(<<<<x>>>>) = <<x>>
    <3> DEFINE t == <<<<x>>>>
    <3>1. t \in Seq(Seq(S)) /\ t # << >> /\ Head(t) = <<x>>
      BY <2>1
    <3> HIDE DEF t
    <3>2. FlattenSeq(<<Head(t)>>) = Head(t)
      BY <3>1, FlattenHead
    <3> QED BY <3>1, <3>2
  <2>6. PayloadOf(<<x>>) = <<x>>
    BY <2>4, <2>5 DEF PayloadOf, Picks
  <2>7. PayloadOf(q) = q
    BY <1>2, <2>3
  <2>8. PayloadOf(q \o <<x>>) = q \o <<x>>
    <3> DEFINE o == <<x>>
    <3>1. o \in Seq(S) /\ PayloadOf(o) = o
      BY <2>1, <2>6
    <3> HIDE DEF o
    <3>2. PayloadOf(q \o o) = PayloadOf(q) \o PayloadOf(o)
      BY <3>1, PayloadConcat
    <3> QED BY <2>7, <3>1, <3>2 DEF o
  <2> QED BY <2>1, <2>8 DEF b
<1>3. \A q \in Seq(S), x \in S : q \in T => Append(q, x) \in T
  <2>1. \A q \in Seq(S), x \in S : Append(q, x) \in Seq(S)
    OBVIOUS
  <2> QED BY <1>2, <2>1
<1> HIDE DEF T
<1>4. \A q \in Seq(S) : q \in T
  BY <1>1, <1>3, ClimbSeqs
<1> QED BY <1>4 DEF T

\* A prefix, as the community modules have it.
LEMMA LeadsIs ==
  ASSUME NEW S, NEW a \in Seq(S), NEW b \in Seq(S), Leads(a, b)
  PROVE  IsPrefix(a, b)
<1> DEFINE n == Len(a)
           c == SubSeq(a, 1, n)
           d == SubSeq(b, 1, n)
<1>1. n \in Nat /\ n <= Len(b) /\ \A i \in 1..n : a[i] = b[i] /\ i \in 1..Len(b)
  BY DEF Leads
<1>2. /\ c \in Seq(S) /\ Len(c) = n /\ \A i \in 1..n : c[i] = a[i]
      /\ d \in Seq(S) /\ Len(d) = n /\ \A i \in 1..n : d[i] = b[i]
  BY <1>1
<1> HIDE DEF c, d
<1>3. c = d
  <2>1. \A i \in 1..Len(c) : c[i] = d[i]
    BY <1>1, <1>2
  <2> QED BY <1>2, <2>1, SeqEqual
<1> QED BY <1>1, <1>3 DEF IsPrefix, c, d

\* Prefixes of what grows and of what is cut.
LEMMA LeadsFacts ==
  ASSUME NEW S, NEW a \in Seq(S), NEW b \in Seq(S), NEW c \in Seq(S)
  PROVE  /\ Leads(a, a) /\ Leads(<< >>, a) /\ Leads(a, a \o b)
         /\ Leads(a, b) /\ Leads(b, c) => Leads(a, c)
         /\ Leads(a, b) => Leads(a, b \o c)
         /\ Leads(a, b) /\ Quiet(b) => Quiet(a)
         /\ Quiet(a) /\ Quiet(b) => Quiet(a \o b)
<1>1. Leads(a, a) /\ Leads(<< >>, a)
  BY DEF Leads
<1>2. Leads(a, b) /\ Leads(b, c) => Leads(a, c)
  BY DEF Leads
<1> DEFINE d == a \o b
           e == b \o c
<1>3. /\ Len(d) = Len(a) + Len(b) /\ \A i \in 1..Len(a) : d[i] = a[i]
      /\ \A i \in 1..Len(d) : i \notin 1..Len(a) => i - Len(a) \in 1..Len(b) /\ d[i] = b[i - Len(a)]
      /\ Len(e) = Len(b) + Len(c) /\ \A i \in 1..Len(b) : e[i] = b[i]
      /\ Len(a) \in Nat /\ Len(b) \in Nat /\ Len(c) \in Nat
  OBVIOUS
<1> HIDE DEF d, e
<1>4. /\ Leads(a, d)
      /\ Leads(a, b) => Leads(a, e)
  <2>1. Leads(a, d)
    BY ONLY <1>3 DEF Leads
  <2>2. ASSUME Leads(a, b) PROVE Leads(a, e)
    <3>1. \A i \in 1..Len(a) : i \in 1..Len(b)
      BY ONLY <1>3, Leads(a, b) DEF Leads
    <3> QED BY ONLY <1>3, <3>1, Leads(a, b) DEF Leads
  <2> QED BY <2>1, <2>2
<1>5. Leads(a, b) /\ Quiet(b) => Quiet(a)
  BY <1>3 DEF Leads, Quiet
<1>6. ASSUME Quiet(a), Quiet(b) PROVE Quiet(d)
  <2> SUFFICES ASSUME NEW i \in 1..Len(d) PROVE d[i][1] # "success" /\ d[i][1] # "data"
    BY DEF Quiet
  <2>1. CASE i \in 1..Len(a)
    <3>1. d[i] = a[i]
      BY <1>3, <2>1
    <3> QED BY <1>6, <2>1, <3>1 DEF Quiet
  <2>2. CASE i \notin 1..Len(a)
    <3> DEFINE k == i - Len(a)
    <3>1. k \in 1..Len(b) /\ d[i] = b[k]
      BY <1>3, <2>2
    <3> HIDE DEF k
    <3> QED BY <1>6, <3>1 DEF Quiet
  <2> QED BY <2>1, <2>2
<1> QED BY <1>1, <1>2, <1>4, <1>5, <1>6 DEF d, e

\* What contains an element still does when it grows.
LEMMA HasGrows ==
  ASSUME NEW S, NEW a \in Seq(S), NEW b \in Seq(S), NEW x
  PROVE  (Has(a, x) \/ Has(b, x)) => Has(a \o b, x)
<1> DEFINE d == a \o b
<1>1. /\ Len(d) = Len(a) + Len(b) /\ \A i \in 1..Len(a) : d[i] = a[i]
      /\ \A i \in 1..Len(b) : i + Len(a) \in 1..Len(d) /\ d[i + Len(a)] = b[i]
      /\ Len(a) \in Nat /\ Len(b) \in Nat
  OBVIOUS
<1> HIDE DEF d
<1>2. Has(a, x) \/ Has(b, x) => Has(d, x)
  BY <1>1 DEF Has
<1> QED BY <1>2 DEF d

\* The welcome and the payload of the target.
LEMMA WelcomeIs ==
  /\ \A auth \in BOOLEAN :
       /\ Asked(auth) \in Seq(SocksElement) /\ WelcomeOf(auth) \in Seq(SocksElement)
       /\ Quiet(Asked(auth)) /\ Quiet(Reply("user_password"))
  /\ \A n \in Nat : Payload(n) \in Seq(SocksElement) /\ Payload(n + 1) = Payload(n) \o <<<<"data", n + 1>>>>
  /\ Payload(0) = << >> /\ \A n \in Nat : <<"data", n>> \in SocksElement
  /\ \A r \in SocksCodes : r # "success" => Quiet(Reply(r))
<1>1. \A r \in SocksCodes : Reply(r) \in Seq(SocksElement) /\ (r # "success" => Quiet(Reply(r)))
  <2> SUFFICES ASSUME NEW r \in SocksCodes PROVE r # "success" => Quiet(Reply(r))
    BY ReplyIs
  <2>1. r # "data"
    BY DEF SocksCodes
  <2>2. Len(Reply(r)) = 1 /\ Reply(r)[1] = <<r, 0>> /\ 1..1 = {1} /\ <<r, 0>>[1] = r
    BY DEF Reply
  <2> QED BY <2>1, <2>2 DEF Quiet
<1>2. ASSUME NEW auth \in BOOLEAN
      PROVE  /\ Asked(auth) \in Seq(SocksElement) /\ WelcomeOf(auth) \in Seq(SocksElement)
             /\ Quiet(Asked(auth)) /\ Quiet(Reply("user_password"))
  <2> DEFINE u == Reply("user_password")
             g == Reply("granted")
             n == Reply("no_auth")
             s == Reply("success")
  <2>1. /\ u \in Seq(SocksElement) /\ g \in Seq(SocksElement) /\ n \in Seq(SocksElement)
        /\ s \in Seq(SocksElement) /\ Quiet(u) /\ Quiet(g) /\ Quiet(n)
    BY <1>1 DEF SocksCodes
  <2>2. Asked(auth) = IF auth THEN u \o g ELSE n
    BY DEF Asked
  <2>3. WelcomeOf(auth) = Asked(auth) \o s
    BY DEF WelcomeOf
  <2> HIDE DEF u, g, n, s, SocksElement
  <2>4. u \o g \in Seq(SocksElement) /\ Quiet(u \o g)
    BY <2>1, LeadsFacts, ConcatProperties
  <2>5. Asked(auth) \in Seq(SocksElement) /\ Quiet(Asked(auth))
    BY <2>1, <2>2, <2>4
  <2>6. WelcomeOf(auth) \in Seq(SocksElement)
    BY <2>1, <2>3, <2>5, ConcatProperties
  <2> QED BY <2>1, <2>5, <2>6 DEF u
<1>3. \A n \in Nat : <<"data", n>> \in SocksElement
  BY DEF SocksElement, SocksKinds
<1>4. ASSUME NEW n \in Nat
      PROVE  /\ Payload(n) \in Seq(SocksElement) /\ Len(Payload(n)) = n
             /\ \A i \in 1..n : Payload(n)[i] = <<"data", i>>
  <2> HIDE DEF SocksElement
  <2> QED BY <1>3 DEF Payload
<1>5. ASSUME NEW n \in Nat PROVE Payload(n + 1) = Payload(n) \o <<<<"data", n + 1>>>>
  <2> DEFINE p == Payload(n)
             q == Payload(n + 1)
             x == <<"data", n + 1>>
             r == p \o <<x>>
  <2>1. /\ p \in Seq(SocksElement) /\ Len(p) = n /\ \A i \in 1..n : p[i] = <<"data", i>>
        /\ q \in Seq(SocksElement) /\ Len(q) = n + 1 /\ \A i \in 1..n + 1 : q[i] = <<"data", i>>
    BY <1>4
  <2>2. x \in SocksElement
    BY <1>3
  <2> HIDE DEF p, q, x, SocksElement
  <2>3. r \in Seq(SocksElement) /\ Len(r) = n + 1 /\ r[n + 1] = x /\ \A i \in 1..n : r[i] = p[i]
    BY <2>1, <2>2
  <2> HIDE DEF r
  <2>4. \A i \in 1..Len(q) : q[i] = r[i]
    <3>1. \A i \in 1..n + 1 : i \in 1..n \/ i = n + 1
      OBVIOUS
    <3> QED BY <2>1, <2>3, <3>1 DEF x
  <2>5. q = r
    BY <2>1, <2>3, <2>4, SeqEqual
  <2> QED BY <2>5 DEF q, r, p, x
<1>6. Payload(0) = << >>
  <2> DEFINE p == Payload(0)
  <2>1. p \in Seq(SocksElement) /\ Len(p) = 0
    BY <1>4
  <2> HIDE DEF p
  <2>2. p = << >>
    BY <2>1, EmptySeq
  <2> QED BY <2>2 DEF p
<1> QED BY <1>1, <1>2, <1>3, <1>4, <1>5, <1>6

\* What is said is a sequence.
LEMMA SaidType ==
  ASSUME NEW w, IsSession(w)
  PROVE  /\ SaidUp(w) \in Seq(SocksElement) /\ SaidDown(w) \in Seq(SocksElement)
         /\ w.arrived \in Seq(SocksElement) /\ PayloadOf(w.arrived) \in Seq(SocksElement)
         /\ WelcomeOf(w.auth) \in Seq(SocksElement) /\ Payload(w.answered) \in Seq(SocksElement)
         /\ WelcomeOf(w.auth) \o Payload(w.answered) \in Seq(SocksElement)
         /\ w.up.got \in Seq(SocksElement) /\ w.up.out \in Seq(SocksElement)
         /\ w.down.got \in Seq(SocksElement) /\ w.down.out \in Seq(SocksElement)
<1>1. /\ w.arrived \in Seq(SocksElement) /\ w.auth \in BOOLEAN /\ w.answered \in Nat
      /\ w.up.got \in Seq(SocksElement) /\ w.up.out \in Seq(SocksElement)
      /\ w.down.got \in Seq(SocksElement) /\ w.down.out \in Seq(SocksElement)
  BY DEF IsSession, IsSide
<1> HIDE DEF SocksElement
<1>2. WelcomeOf(w.auth) \in Seq(SocksElement) /\ Payload(w.answered) \in Seq(SocksElement)
  BY <1>1, WelcomeIs
<1>3. WelcomeOf(w.auth) \o Payload(w.answered) \in Seq(SocksElement)
  BY <1>2, ConcatProperties
<1>4. SaidUp(w) \in Seq(SocksElement) /\ SaidDown(w) \in Seq(SocksElement)
  BY <1>1, ConcatProperties DEF SaidUp, SaidDown
<1> QED BY <1>1, <1>2, <1>3, <1>4, PayloadConcat, Zenon

\* News stays news, and the target's stream a prefix, when only output is lost, and more arrives.
LEMMA FlowSettles ==
  ASSUME NEW w, NEW v, IsSession(w), IsSession(v),
         Leads(SaidUp(w), PayloadOf(w.arrived)), News(w), v.auth = w.auth,
         NEW r \in Seq(SocksElement), v.arrived = w.arrived \o r,
         v.answered \in {w.answered, w.answered + 1},
         Leads(SaidUp(v), SaidUp(w)), Leads(SaidDown(v), SaidDown(w))
  PROVE  Leads(SaidUp(v), PayloadOf(v.arrived)) /\ News(v)
<1> DEFINE E == SocksElement
           uw == SaidUp(w)
           uv == SaidUp(v)
           dw == SaidDown(w)
           dv == SaidDown(v)
           pa == PayloadOf(w.arrived)
           pr == PayloadOf(r)
           wl == WelcomeOf(w.auth)
           pw == Payload(w.answered)
           pv == Payload(v.answered)
<1>1. /\ uw \in Seq(E) /\ uv \in Seq(E) /\ dw \in Seq(E) /\ dv \in Seq(E) /\ pa \in Seq(E)
      /\ wl \in Seq(E) /\ pw \in Seq(E) /\ pv \in Seq(E) /\ wl \o pw \in Seq(E) /\ wl \o pv \in Seq(E)
      /\ w.arrived \in Seq(E)
  BY SaidType
<1>2. pr \in Seq(E) /\ PayloadOf(v.arrived) = pa \o pr
  <2>1. pr \in Seq(E) /\ PayloadOf(w.arrived \o r) = PayloadOf(w.arrived) \o PayloadOf(r)
    BY ONLY r \in Seq(SocksElement), <1>1, PayloadConcat, Zenon
  <2> QED BY <2>1
<1>3. w.answered \in Nat
  BY DEF IsSession
<1>4. Proven(w) => Proven(v)
  BY <1>1, HasGrows DEF Proven
<1>5. \E z \in Seq(E) : pv = pw \o z
  <2>1. CASE v.answered = w.answered
    <3>1. << >> \in Seq(E) /\ pw = pw \o << >>
      BY <1>1, ConcatEmptySeq
    <3> QED BY <2>1, <3>1
  <2>2. CASE v.answered = w.answered + 1
    <3> DEFINE x == <<"data", w.answered + 1>>
    <3>1. pv = pw \o <<x>> /\ x \in E
      BY <1>3, <2>2, WelcomeIs
    <3> HIDE DEF E, pv, pw, x
    <3>2. <<x>> \in Seq(E)
      BY <3>1
    <3> QED BY <3>1, <3>2
  <2> QED BY <2>1, <2>2
<1>6. PICK z \in Seq(E) : pv = pw \o z
  BY <1>5
<1>7. /\ Leads(uw, pa) /\ Leads(uv, uw) /\ Leads(dv, dw)
  OBVIOUS
<1>8. Quiet(dw) \/ (Leads(dw, wl \o pw) /\ Len(wl) <= Len(dw) /\ Proven(w))
  BY DEF News
<1> HIDE DEF E, uw, uv, dw, dv, pa, pr, wl, pw, pv
<1>9. Leads(uv, pa \o pr)
  <2>1. Leads(uv, pa)
    BY <1>1, <1>7, LeadsFacts
  <2> QED BY <1>1, <1>2, <2>1, LeadsFacts
<1>10. Quiet(dw) => Quiet(dv)
  BY <1>1, <1>7, LeadsFacts
<1>11. ASSUME Leads(dw, wl \o pw), Len(wl) <= Len(dw)
       PROVE  Quiet(dv) \/ (Leads(dv, wl \o pv) /\ Len(wl) <= Len(dv))
  <2>a. (wl \o pw) \o z = wl \o (pw \o z)
    <3>1. wl \in Seq(E) /\ pw \in Seq(E) /\ z \in Seq(E)
      BY <1>1, <1>6
    <3> QED BY ONLY <3>1, ConcatAssociative
  <2> DEFINE full == wl \o pw
  <2>1. full \in Seq(E) /\ wl \o pv = full \o z
    <3>1. full \in Seq(E)
      BY <1>1
    <3> QED BY <1>6, <2>a, <3>1
  <2>2. /\ Leads(dw, full) /\ Len(full) = Len(wl) + Len(pw) /\ \A i \in 1..Len(wl) : full[i] = wl[i]
    BY <1>1, <1>11
  <2> HIDE DEF full
  <2>3. Leads(dv, full)
    BY <1>1, <1>7, <2>1, <2>2, LeadsFacts
  <2>4. Leads(dv, wl \o pv)
    <3>1. Leads(dv, full \o z)
      BY <1>1, <1>6, <2>1, <2>3, LeadsFacts
    <3> QED BY <2>1, <3>1
  <2>5. ASSUME Len(dv) < Len(wl) PROVE Quiet(dv)
    <3> DEFINE s == Reply("success")
               k == Asked(w.auth)
    <3>1. /\ k \in Seq(E) /\ Quiet(k) /\ wl = k \o s
      <4>1. w.auth \in BOOLEAN
        BY DEF IsSession
      <4> QED BY <4>1, WelcomeIs DEF wl, WelcomeOf, E
    <3>2. Len(s) = 1
      BY DEF Reply
    <3>3. s \in Seq(E)
      BY ReplyIs DEF SocksCodes, E
    <3> HIDE DEF s, k
    <3>4. Len(wl) = Len(k) + 1 /\ (\A i \in 1..Len(k) : wl[i] = k[i]) /\ Len(k) \in Nat
      <4>1. k \o s \in Seq(E) /\ Len(k \o s) = Len(k) + Len(s) /\ \A i \in 1..Len(k) : (k \o s)[i] = k[i]
        BY <3>1, <3>3
      <4>2. Len(k) \in Nat
        BY <3>1
      <4> QED BY <3>1, <3>2, <4>1, <4>2
    <3>5. \A i \in 1..Len(dv) : i \in 1..Len(k) /\ i \in 1..Len(wl) /\ dv[i] = full[i]
      <4>1. \A i \in 1..Len(dv) : dv[i] = full[i]
        BY <2>3 DEF Leads
      <4>2. Len(dv) \in Nat
        BY <1>1
      <4> QED BY <2>5, <3>4, <4>1, <4>2
    <3>6. \A i \in 1..Len(dv) : dv[i] = k[i]
      BY <2>2, <3>4, <3>5
    <3> QED BY <3>1, <3>5, <3>6 DEF Quiet
  <2>6. Len(dv) \in Nat /\ Len(wl) \in Nat
    BY <1>1
  <2> QED BY <2>4, <2>5, <2>6
<1>12. News(v)
  <2>1. Quiet(dv) \/ (Leads(dv, wl \o pv) /\ Len(wl) <= Len(dv) /\ Proven(v))
    BY <1>4, <1>8, <1>10, <1>11
  <2> QED BY <2>1 DEF News, dv, wl, pv
<1> QED BY <1>2, <1>9, <1>12 DEF uv

\* A session of which all that was said is told.
GoodSession(w) == SessionLife(w) /\ FlowInv(w)

\* A session that ends.
LEMMA EndsFlow ==
  ASSUME NEW w, GoodSession(w), NEW v, EndsAs(w, v)
  PROVE  GoodSession(v)
<1> DEFINE E == SocksElement
           ug == w.up.got
           uo == w.up.out
           dg == w.down.got
           do == w.down.out
<1>1. IsSession(w) /\ IsSession(v) /\ SessionLife(v) /\ v.phase = "closed"
  BY DEF GoodSession, SessionLife, EndsAs
<1>2. ug \in Seq(E) /\ uo \in Seq(E) /\ dg \in Seq(E) /\ do \in Seq(E) /\ w.arrived \in Seq(E)
      /\ << >> \in Seq(E)
  BY <1>1, SaidType, NoElements
<1>3. /\ SaidUp(w) = ug \o uo /\ SaidDown(w) = dg \o do
      /\ SaidUp(v) \in {ug \o uo, ug \o << >>} /\ SaidDown(v) \in {dg \o do, dg \o << >>}
      /\ v.auth = w.auth /\ v.arrived = w.arrived /\ v.answered = w.answered
  BY DEF EndsAs, SaidUp, SaidDown
<1>4. Leads(SaidUp(w), PayloadOf(w.arrived)) /\ News(w)
  BY DEF GoodSession, FlowInv
<1> HIDE DEF E, ug, uo, dg, do
<1>5. ug \o << >> = ug /\ dg \o << >> = dg /\ w.arrived \o << >> = w.arrived
  BY <1>2, ConcatEmptySeq
<1>6. ug \o uo \in Seq(E) /\ dg \o do \in Seq(E)
  BY <1>2, ConcatProperties
<1>7. Leads(SaidUp(v), SaidUp(w)) /\ Leads(SaidDown(v), SaidDown(w))
  <2>1. Leads(ug \o uo, ug \o uo) /\ Leads(dg \o do, dg \o do)
    BY DEF Leads
  <2>2. Leads(ug, ug \o uo) /\ Leads(dg, dg \o do)
    BY <1>2, LeadsFacts
  <2> QED BY <1>3, <1>5, <2>1, <2>2
<1>8. << >> \in Seq(SocksElement) /\ v.arrived = w.arrived \o << >>
  BY <1>3, <1>5, NoElements
<1>9. v.answered \in {w.answered, w.answered + 1}
  BY <1>3
<1>10. Leads(SaidUp(v), PayloadOf(v.arrived)) /\ News(v)
  BY <1>1, <1>3, <1>4, <1>7, <1>8, <1>9, FlowSettles
<1> QED BY <1>1, <1>10 DEF GoodSession, FlowInv, Greets

\* What is added to what was said.
LEMMA SaidMore ==
  ASSUME NEW w, IsSession(w), NEW r \in Seq(SocksElement)
  PROVE  /\ w.down.got \o (w.down.out \o r) = SaidDown(w) \o r
         /\ w.up.got \o (w.up.out \o r) = SaidUp(w) \o r
<1>1. /\ w.up.got \in Seq(SocksElement) /\ w.up.out \in Seq(SocksElement)
      /\ w.down.got \in Seq(SocksElement) /\ w.down.out \in Seq(SocksElement)
  BY SaidType
<1>2. ASSUME NEW a \in Seq(SocksElement), NEW b \in Seq(SocksElement)
      PROVE  a \o (b \o r) = (a \o b) \o r
  BY ONLY a \in Seq(SocksElement), b \in Seq(SocksElement), r \in Seq(SocksElement), ConcatAssociative
<1> QED BY <1>1, <1>2 DEF SaidUp, SaidDown

\* A session that has said no more than the handshake.
LEMMA QuietSo ==
  ASSUME NEW w, GoodSession(w), Greets(w) \/ w.phase = "connecting"
  PROVE  Quiet(SaidDown(w))
<1>1. Quiet(<< >>)
  BY DEF Quiet
<1>2. w.auth \in BOOLEAN
  BY DEF GoodSession, SessionLife, IsSession
<1>3. SaidDown(w) \in {<< >>, Reply("user_password"), Asked(w.auth)}
  BY DEF GoodSession, FlowInv, Answered, Greets
<1> QED BY <1>1, <1>2, <1>3, WelcomeIs

\* A session that ends with an answer.
LEMMA RefusedFlow ==
  ASSUME NEW w, GoodSession(w), Greets(w) \/ w.phase = "connecting",
         NEW v, NEW r \in SocksCodes \ {"success"}, Over(w, v, w.down.out \o Reply(r))
  PROVE  GoodSession(v)
<1> DEFINE a == Reply(r)
           s == SaidDown(w)
<1>1. a \in Seq(SocksElement) /\ Quiet(a)
  BY ReplyIs, WelcomeIs
<1>2. IsSession(w) /\ IsSession(v) /\ SessionLife(v) /\ v.phase = "closed"
  BY DEF GoodSession, SessionLife, Over
<1>3. s \in Seq(SocksElement) /\ Quiet(s)
  BY <1>2, SaidType, QuietSo
<1>4. SaidDown(v) = s \o a /\ SaidUp(v) = SaidUp(w) /\ v.arrived = w.arrived
  <2>1. w.down.got \o (w.down.out \o a) = s \o a
    BY <1>1, <1>2, SaidMore
  <2> QED BY <2>1 DEF Over, SameStreams, SaidUp, SaidDown
<1> HIDE DEF a, s
<1>5. Quiet(s \o a)
  BY <1>1, <1>3, LeadsFacts
<1>6. Leads(SaidUp(w), PayloadOf(w.arrived))
  BY DEF GoodSession, FlowInv
<1> QED BY <1>2, <1>4, <1>5, <1>6 DEF GoodSession, FlowInv, Greets, News

\* A message is taken from the buffer.
LEMMA TakeTwo ==
  ASSUME NEW S, NEW b \in Seq(S), 2 <= Len(b)
  PROVE  LET t == SubSeq(b, 3, Len(b))
         IN  /\ t \in Seq(S) /\ Len(t) = Len(b) - 2 /\ \A i \in 1..Len(t) : t[i] = b[i + 2]
             /\ b[1] \in S /\ b[2] \in S /\ <<b[1], b[2]>> \in Seq(S) /\ b = <<b[1], b[2]>> \o t
<1> DEFINE t == SubSeq(b, 3, Len(b))
           h == <<b[1], b[2]>>
           n == Len(b)
           c == h \o t
<1>1. n \in Nat /\ b[1] \in S /\ b[2] \in S
  OBVIOUS
<1>2. t \in Seq(S) /\ Len(t) = n - 2 /\ \A i \in 1..n - 2 : t[i] = b[i + 2]
  OBVIOUS
<1>3. h \in Seq(S) /\ Len(h) = 2 /\ h[1] = b[1] /\ h[2] = b[2]
  BY <1>1
<1> HIDE DEF t, h, n
<1>4. c \in Seq(S) /\ Len(c) = n /\ \A i \in 1..n : c[i] = IF i <= 2 THEN h[i] ELSE t[i - 2]
  <2>1. /\ h \o t \in Seq(S) /\ Len(h \o t) = Len(h) + Len(t)
        /\ \A i \in 1..Len(h) + Len(t) : (h \o t)[i] = IF i <= Len(h) THEN h[i] ELSE t[i - Len(h)]
    <3>1. h \in Seq(S) /\ t \in Seq(S)
      BY <1>2, <1>3
    <3> QED BY ONLY <3>1, ConcatProperties
  <2>2. Len(h) + Len(t) = n
    BY <1>1, <1>2, <1>3
  <2>3. /\ c \in Seq(S) /\ Len(c) = Len(h) + Len(t)
        /\ \A i \in 1..Len(h) + Len(t) : c[i] = IF i <= Len(h) THEN h[i] ELSE t[i - Len(h)]
    BY <2>1
  <2> HIDE DEF c
  <2> QED BY <1>3, <2>2, <2>3, Zenon
<1>5. \A i \in 1..n : c[i] = b[i]
  <2> SUFFICES ASSUME NEW i \in 1..n PROVE c[i] = b[i]
    OBVIOUS
  <2>1. CASE i <= 2
    <3>1. i = 1 \/ i = 2
      BY <1>1, <2>1
    <3> QED BY <1>3, <1>4, <2>1, <3>1
  <2>2. CASE ~(i <= 2)
    <3> DEFINE k == i - 2
    <3>1. k \in 1..n - 2 /\ k + 2 = i
      BY <1>1, <2>2
    <3>2. c[i] = t[k]
      BY <1>4, <2>2
    <3> HIDE DEF k
    <3> QED BY <1>2, <3>1, <3>2
  <2> QED BY <2>1, <2>2
<1> HIDE DEF c
<1>6. b = c
  BY <1>4, <1>5, SeqEqual DEF n
<1> QED BY <1>1, <1>2, <1>3, <1>6 DEF t, h, n, c

\* What is left of a script without its first message.
LEMMA WellDrops ==
  ASSUME NEW S, NEW b \in Seq(S), NEW s \in Seq(S), 2 <= Len(b), Well(b \o s)
  PROVE  LET t == SubSeq(b, 3, Len(b))
         IN  /\ Well(t \o s)
             /\ b[1][1] # "data" => b[2] = <<b[1][1], "rest">>
             /\ b[1][1] = "target" => AllData(t) /\ AllData(s)
<1> DEFINE t == SubSeq(b, 3, Len(b))
           q == b \o s
           p == t \o s
<1>1. t \in Seq(S) /\ Len(t) = Len(b) - 2 /\ \A i \in 1..Len(t) : t[i] = b[i + 2]
  BY TakeTwo
<1>2. Len(b) \in Nat /\ Len(s) \in Nat
  OBVIOUS
<1> HIDE DEF t
<1>3. /\ q \in Seq(S) /\ Len(q) = Len(b) + Len(s) /\ \A i \in 1..Len(b) : q[i] = b[i]
      /\ \A i \in 1..Len(s) : i + Len(b) \in 1..Len(q) /\ q[i + Len(b)] = s[i]
      /\ p \in Seq(S) /\ Len(p) = Len(t) + Len(s) /\ \A i \in 1..Len(t) : p[i] = t[i]
      /\ \A i \in 1..Len(p) : i \notin 1..Len(t) => i - Len(t) \in 1..Len(s) /\ p[i] = s[i - Len(t)]
  <2>1. /\ q \in Seq(S) /\ Len(q) = Len(b) + Len(s) /\ \A i \in 1..Len(b) : q[i] = b[i]
        /\ \A i \in 1..Len(s) : i + Len(b) \in 1..Len(q) /\ q[i + Len(b)] = s[i]
    OBVIOUS
  <2>2. /\ p \in Seq(S) /\ Len(p) = Len(t) + Len(s) /\ \A i \in 1..Len(t) : p[i] = t[i]
        /\ \A i \in 1..Len(p) : i \notin 1..Len(t) => i - Len(t) \in 1..Len(s) /\ p[i] = s[i - Len(t)]
    <3> HIDE DEF q
    <3>1. t \in Seq(S)
      BY <1>1
    <3> QED BY ONLY <3>1, s \in Seq(S)
  <2> QED BY <2>1, <2>2
<1> HIDE DEF q, p
<1>4. Len(p) = Len(q) - 2
  BY <1>1, <1>2, <1>3
<1>5. \A i \in 1..Len(p) : i + 2 \in 1..Len(q) /\ p[i] = q[i + 2]
  <2> SUFFICES ASSUME NEW i \in 1..Len(p) PROVE i + 2 \in 1..Len(q) /\ p[i] = q[i + 2]
    OBVIOUS
  <2>1. i + 2 \in 1..Len(q)
    BY <1>2, <1>3, <1>4
  <2>2. CASE i \in 1..Len(t)
    <3>1. i + 2 \in 1..Len(b)
      BY <1>1, <1>2, <2>2
    <3> QED BY <1>1, <1>3, <2>1, <2>2, <3>1
  <2>3. CASE i \notin 1..Len(t)
    <3> DEFINE k == i - Len(t)
    <3>1. k \in 1..Len(s) /\ p[i] = s[k]
      BY <1>3, <2>3
    <3>2. k + Len(b) = i + 2
      BY <1>1, <1>2, <3>1
    <3> HIDE DEF k
    <3> QED BY <1>3, <2>1, <3>1, <3>2
  <2> QED BY <2>2, <2>3
<1>6. Well(q)
  BY DEF q
<1>7. Well(p)
  <2> SUFFICES ASSUME NEW k \in Nat
               PROVE  /\ 2*k + 2 <= Len(p) /\ p[2*k + 1][1] # "data" =>
                           p[2*k + 2] = <<p[2*k + 1][1], "rest">>
                      /\ 2*k + 1 <= Len(p) /\ p[2*k + 1][1] = "target" =>
                           \A j \in 1..Len(p) : j > 2*k + 2 => p[j][1] = "data"
    BY DEF Well
  <2> DEFINE m == k + 1
             o == 2*k + 1
             e == 2*k + 2
  <2>1. m \in Nat /\ 2*m + 2 = e + 2 /\ 2*m + 1 = o + 2 /\ o \in Nat \ {0} /\ e = o + 1
    OBVIOUS
  <2> HIDE DEF m, o, e
  <2>2. /\ 2*m + 2 <= Len(q) /\ q[2*m + 1][1] # "data" => q[2*m + 2] = <<q[2*m + 1][1], "rest">>
        /\ 2*m + 1 <= Len(q) /\ q[2*m + 1][1] = "target" =>
             \A j \in 1..Len(q) : j > 2*m + 2 => q[j][1] = "data"
    BY <1>6, <2>1, Zenon DEF Well
  <2>3. /\ e + 2 <= Len(q) /\ q[o + 2][1] # "data" => q[e + 2] = <<q[o + 2][1], "rest">>
        /\ o + 2 <= Len(q) /\ q[o + 2][1] = "target" =>
             \A j \in 1..Len(q) : j > e + 2 => q[j][1] = "data"
    BY <2>1, <2>2, Zenon
  <2>4. Len(p) \in Nat /\ Len(q) \in Nat
    BY <1>3
  <2>5. ASSUME e <= Len(p), p[o][1] # "data" PROVE p[e] = <<p[o][1], "rest">>
    <3>1. o \in 1..Len(p) /\ e \in 1..Len(p) /\ e + 2 <= Len(q)
      BY <1>4, <2>1, <2>4, <2>5
    <3>2. p[o] = q[o + 2] /\ p[e] = q[e + 2]
      BY <1>5, <3>1
    <3> QED BY <2>3, <2>5, <3>1, <3>2
  <2>6. ASSUME o <= Len(p), p[o][1] = "target", NEW j \in 1..Len(p), j > e
        PROVE  p[j][1] = "data"
    <3>1. o \in 1..Len(p) /\ o + 2 <= Len(q) /\ j + 2 > e + 2
      BY <1>4, <2>1, <2>4, <2>6
    <3>2. p[o] = q[o + 2] /\ j + 2 \in 1..Len(q) /\ p[j] = q[j + 2]
      BY <1>5, <3>1
    <3> DEFINE i == j + 2
    <3>3. i \in 1..Len(q) /\ i > e + 2 /\ p[j] = q[i]
      BY <3>1, <3>2
    <3> HIDE DEF i
    <3> QED BY <2>3, <2>6, <3>1, <3>2, <3>3
  <2> QED BY <2>5, <2>6 DEF o, e
<1>8. /\ q[1][1] # "data" => q[2] = <<q[1][1], "rest">>
      /\ q[1][1] = "target" => \A j \in 1..Len(q) : j > 2 => q[j][1] = "data"
  <2>1. 0 \in Nat /\ 2*0 + 2 = 2 /\ 2*0 + 1 = 1 /\ 2 <= Len(q) /\ 1 <= Len(q)
    BY <1>2, <1>3
  <2> QED BY <1>6, <2>1 DEF Well
<1>9. q[1] = b[1] /\ q[2] = b[2]
  BY <1>2, <1>3
<1>10. ASSUME b[1][1] = "target" PROVE AllData(t) /\ AllData(s)
  <2>1. \A j \in 1..Len(q) : j > 2 => q[j][1] = "data"
    BY <1>8, <1>9, <1>10
  <2>2. AllData(t)
    <3> SUFFICES ASSUME NEW i \in 1..Len(t) PROVE t[i][1] = "data"
      BY DEF AllData
    <3> DEFINE k == i + 2
    <3>1. k \in 1..Len(b) /\ k \in 1..Len(q) /\ k > 2 /\ t[i] = b[k]
      BY <1>1, <1>2, <1>3
    <3> HIDE DEF k
    <3> QED BY <1>3, <2>1, <3>1
  <2>3. AllData(s)
    <3> SUFFICES ASSUME NEW i \in 1..Len(s) PROVE s[i][1] = "data"
      BY DEF AllData
    <3> DEFINE k == i + Len(b)
    <3>1. k \in 1..Len(q) /\ k > 2 /\ q[k] = s[i]
      BY <1>2, <1>3
    <3> HIDE DEF k
    <3> QED BY <2>1, <3>1
  <2> QED BY <2>2, <2>3
<1> QED BY <1>7, <1>8, <1>9, <1>10 DEF t, p

-----------------------------------------------------------------------------
(* Socks5.  The handshake.                                                 *)

\* Buffer::retrieve() of a whole or a part of a message.
LEMMA RetrieveIs ==
  ASSUME NEW w, SessionLife(w), Greets(w), NEW n \in {1, 2}, n <= Len(w.buffer)
  PROVE  LET v == Retrieve(w, n)
         IN  /\ SessionLife(v) /\ SameBut([w EXCEPT !.buffer = SubSeq(w.buffer, n + 1, Len(w.buffer))], v)
             /\ SameStreams(w, v, w.down.out) /\ v.phase = w.phase /\ v.up = w.up /\ v.down = w.down
             /\ v.buffer = SubSeq(w.buffer, n + 1, Len(w.buffer))
<1> DEFINE q == SubSeq(w.buffer, n + 1, Len(w.buffer))
           v == [w EXCEPT !.buffer = q]
<1>1. w.buffer \in Seq(SocksElement) /\ IsSession(w)
  BY DEF SessionLife, IsSession
<1>2. q \in Seq(SocksElement)
  <2> DEFINE b == w.buffer
  <2>1. b \in Seq(SocksElement) /\ n <= Len(b)
    BY <1>1
  <2> HIDE DEF b, SocksElement
  <2>2. SubSeq(b, n + 1, Len(b)) \in Seq(SocksElement)
    BY <2>1
  <2> QED BY <2>2 DEF b
<1>3. Retrieve(w, n) = v
  BY DEF Retrieve
<1> HIDE DEF q
<1>4. IsSession(v)
  BY <1>1, <1>2, SessionSets
<1>5. /\ v.auth = w.auth /\ v.script = w.script /\ v.arrived = w.arrived /\ v.answered = w.answered
      /\ v.phase = w.phase /\ v.up = w.up /\ v.down = w.down /\ v.preserved = w.preserved
      /\ v.stray = w.stray /\ v.context = w.context /\ v.cleanup = w.cleanup /\ v.functors = w.functors
      /\ v.timers = w.timers /\ v.client = w.client /\ v.connecting = w.connecting
      /\ v.upstream = w.upstream /\ v.hold = w.hold /\ v.buffer = q
  BY <1>1 DEF IsSession
<1> HIDE DEF v
<1>6. SessionLife(v)
  BY <1>4, <1>5 DEF SessionLife, Greets
<1> QED BY <1>3, <1>5, <1>6 DEF SameBut, SameStreams, v, q

\* The handshake takes a step, with an answer.
LEMMA StepOn ==
  ASSUME NEW w, SessionLife(w), Greets(w), NEW p \in {"user_password", "request"}, NEW r \in SocksCodes
  PROVE  LET v == [SendTo(w, "down", Reply(r)) EXCEPT !.phase = p]
         IN  /\ SessionLife(v) /\ v.phase = p /\ v.buffer = w.buffer
             /\ SameStreams(w, v, w.down.out \o Reply(r))
<1> DEFINE s == SendTo(w, "down", Reply(r))
           v == [s EXCEPT !.phase = p]
<1>1. IsSession(w) /\ w.down.state = "connected" /\ Reply(r) \in Seq(SocksElement)
  BY ReplyIs DEF SessionLife, Greets
<1>2. /\ IsSession(s) /\ SameBut(w, s) /\ s.up = w.up /\ s.down.got = w.down.got
      /\ s.down.out = w.down.out \o Reply(r) /\ s.down.state = "connected"
      /\ s.down.reading = w.down.reading
  BY <1>1, SentIs
<1> HIDE DEF s
<1>3. IsSession(v)
  BY <1>2 DEF IsSession
<1>4. /\ v.auth = w.auth /\ v.idles = w.idles /\ v.script = w.script /\ v.arrived = w.arrived
      /\ v.answered = w.answered /\ v.phase = p /\ v.up = w.up /\ v.down = s.down
      /\ v.stray = w.stray /\ v.context = w.context /\ v.cleanup = w.cleanup /\ v.functors = w.functors
      /\ v.timers = w.timers /\ v.client = w.client /\ v.connecting = w.connecting
      /\ v.upstream = w.upstream /\ v.hold = w.hold /\ v.buffer = w.buffer
  BY <1>2 DEF IsSession, SameBut
<1> HIDE DEF v
<1>5. SessionLife(v)
  BY <1>2, <1>3, <1>4 DEF SessionLife, Greets
<1> QED BY <1>2, <1>4, <1>5 DEF SameStreams, s, v

\* What a message of the handshake leaves to be read.
LEMMA MessageTaken ==
  ASSUME NEW w, GoodSession(w), Greets(w), 2 <= Len(w.buffer), w.buffer[1][1] # "data"
  PROVE  LET b == SubSeq(w.buffer, 3, Len(w.buffer))
         IN  /\ b \in Seq(SocksElement) /\ w.buffer[2] = <<w.buffer[1][1], "rest">>
             /\ \E done \in Seq(SocksElement) :
                  w.arrived = done \o b /\ NoData(done) /\ Has(done, w.buffer[2])
             /\ Well(b \o w.script)
             /\ w.buffer[1][1] = "target" => AllData(b) /\ AllData(w.script)
<1> DEFINE E == SocksElement
           c == w.buffer
           s == w.script
           b == SubSeq(c, 3, Len(c))
           h == <<c[1], c[2]>>
<1>1. c \in Seq(E) /\ s \in Seq(E) /\ 2 <= Len(c) /\ c[1][1] # "data" /\ Well(c \o s)
  BY DEF GoodSession, SessionLife, IsSession, FlowInv
<1>2. PICK done \in Seq(E) : w.arrived = done \o c /\ NoData(done)
  BY DEF GoodSession, FlowInv
<1> HIDE DEF E, c, s
<1>3. b \in Seq(E) /\ c = h \o b /\ h \in Seq(E) /\ c[1] \in E /\ c[2] \in E
  BY <1>1, TakeTwo
<1>4. /\ Well(b \o s) /\ c[2] = <<c[1][1], "rest">>
      /\ (c[1][1] = "target" => AllData(b) /\ AllData(s))
  BY <1>1, WellDrops
<1> HIDE DEF b
<1> DEFINE e == done \o h
<1>5. e \in Seq(E) /\ NoData(e) /\ Has(e, c[2])
  <2>1. h \in Seq(E) /\ Len(h) = 2 /\ h[1] = c[1] /\ h[2] = c[2] /\ 1..2 = {1, 2}
    BY <1>3
  <2>2. c[2][1] # "data"
    BY <1>1, <1>4
  <2> HIDE DEF h
  <2>3. /\ e \in Seq(E) /\ Len(e) = Len(done) + 2 /\ \A i \in 1..Len(done) : e[i] = done[i]
        /\ e[Len(done) + 1] = h[1] /\ e[Len(done) + 2] = h[2] /\ Len(done) \in Nat
    <3>1. /\ done \o h \in Seq(E) /\ Len(done \o h) = Len(done) + Len(h)
          /\ \A i \in 1..Len(done) + Len(h) :
               (done \o h)[i] = IF i <= Len(done) THEN done[i] ELSE h[i - Len(done)]
      BY ONLY done \in Seq(E), <2>1, ConcatProperties
    <3> HIDE DEF e
    <3>2. /\ e \in Seq(E) /\ Len(e) = Len(done) + Len(h)
          /\ \A i \in 1..Len(done) + Len(h) : e[i] = IF i <= Len(done) THEN done[i] ELSE h[i - Len(done)]
      BY <3>1 DEF e
    <3>3. Len(done) \in Nat
      OBVIOUS
    <3> QED BY <2>1, <3>2, <3>3
  <2> HIDE DEF e
  <2>4. \A i \in 1..Len(e) : i \in 1..Len(done) \/ i = Len(done) + 1 \/ i = Len(done) + 2
    BY <2>3
  <2>5. NoData(e)
    <3> SUFFICES ASSUME NEW i \in 1..Len(e) PROVE e[i][1] # "data"
      BY DEF NoData
    <3>1. CASE i \in 1..Len(done)
      BY <1>2, <2>3, <3>1 DEF NoData
    <3>2. CASE i \notin 1..Len(done)
      BY <1>1, <2>1, <2>2, <2>3, <2>4, <3>2
    <3> QED BY <3>1, <3>2
  <2>6. Has(e, c[2])
    <3>1. Len(done) + 2 \in 1..Len(e)
      BY <2>3
    <3> QED BY <2>1, <2>3, <3>1 DEF Has
  <2> QED BY <2>3, <2>5, <2>6
<1>6. w.arrived = e \o b
  <2>1. (done \o h) \o b = done \o (h \o b)
    BY ONLY <1>3, done \in Seq(E), ConcatAssociative
  <2> QED BY <1>2, <1>3, <2>1
<1> HIDE DEF e
<1>7. \E d \in Seq(SocksElement) : w.arrived = d \o b /\ NoData(d) /\ Has(d, c[2])
  BY <1>5, <1>6 DEF E
<1> QED BY <1>3, <1>4, <1>7 DEF E, b, c, s

\* The handshake goes on.
LEMMA HandshakeFlow ==
  ASSUME NEW w, GoodSession(w), Greets(w), 2 <= Len(w.buffer), w.buffer[1][1] # "data",
         NEW v, SessionLife(v), NEW r \in SocksCodes, SameStreams(w, v, w.down.out \o Reply(r)),
         v.buffer = SubSeq(w.buffer, 3, Len(w.buffer)), v.phase \in {"user_password", "request"},
         SaidDown(w) \o Reply(r) = Answered(v), v.phase = "user_password" => v.auth,
         v.phase = "request" /\ w.auth => w.buffer[1][1] = "right"
  PROVE  GoodSession(v)
<1> DEFINE b == SubSeq(w.buffer, 3, Len(w.buffer))
<1>1. b \in Seq(SocksElement) /\ w.buffer[2] = <<w.buffer[1][1], "rest">> /\ Well(b \o w.script)
  BY MessageTaken
<1>2. PICK done \in Seq(SocksElement) :
        w.arrived = done \o b /\ NoData(done) /\ Has(done, w.buffer[2])
  BY MessageTaken
<1> HIDE DEF b
<1>3. IsSession(w) /\ IsSession(v)
  BY DEF GoodSession, SessionLife
<1>4. /\ SaidUp(v) = SaidUp(w) /\ v.arrived = w.arrived /\ v.script = w.script /\ v.auth = w.auth
      /\ v.answered = w.answered /\ v.buffer = b
  BY DEF SameStreams, SaidUp, b
<1>5. SaidDown(v) = Answered(v)
  <2>1. w.down.got \o (w.down.out \o Reply(r)) = SaidDown(w) \o Reply(r)
    BY <1>3, ReplyIs, SaidMore
  <2> QED BY <2>1 DEF SameStreams, SaidDown
<1>6. v.phase = "request" => Proven(v)
  <2>1. Has(w.arrived, w.buffer[2])
    <3> DEFINE x == w.buffer[2]
    <3>1. Has(done, x)
      BY <1>2
    <3> HIDE DEF x
    <3>2. Has(done \o b, x)
      BY <1>1, <3>1, HasGrows
    <3> QED BY <1>2, <3>2 DEF x
  <2> QED BY <1>1, <1>4, <2>1 DEF Proven
<1>7. Quiet(SaidDown(v))
  <2>1. v.auth \in BOOLEAN
    BY <1>3 DEF IsSession
  <2>2. SaidDown(v) \in {Reply("user_password"), Asked(v.auth)}
    BY <1>5 DEF Answered
  <2> QED BY <2>1, <2>2, WelcomeIs
<1>8. Leads(SaidUp(w), PayloadOf(w.arrived)) /\ SaidUp(w) = << >> /\ w.answered = 0
  BY DEF GoodSession, FlowInv
<1>9. \E d \in Seq(SocksElement) : v.arrived = d \o v.buffer /\ NoData(d)
  BY <1>2, <1>4
<1>10. Well(v.buffer \o v.script)
  BY <1>1, <1>4
<1>11. FlowInv(v)
  BY <1>4, <1>5, <1>6, <1>7, <1>8, <1>9, <1>10 DEF FlowInv, News, Greets
<1> QED BY <1>11 DEF GoodSession

\* The handshake ends with an answer, before or after the message is taken.
LEMMA RefusalKeeps ==
  ASSUME NEW w, GoodSession(w), Greets(w), NEW r \in SocksCodes \ {"success"}
  PROVE  /\ Over(w, SendAndShutdown(w, r), w.down.out \o Reply(r))
         /\ \A n \in {1, 2} : n <= Len(w.buffer) =>
              LET v == SendAndShutdown(Retrieve(w, n), r) IN GoodSession(v) /\ v.phase = "closed"
<1>1. ASSUME NEW u, SessionLife(u), Greets(u) PROVE Over(u, SendAndShutdown(u, r), u.down.out \o Reply(r))
  <2>1. Bare(u) /\ u.up.state = "none" /\ ~u.client /\ ~u.upstream /\ ~u.hold
    BY <1>1 DEF SessionLife, Greets, Bare
  <2> QED BY <2>1, Refused
<1>2. ASSUME NEW n \in {1, 2}, n <= Len(w.buffer)
      PROVE  LET v == SendAndShutdown(Retrieve(w, n), r) IN GoodSession(v) /\ v.phase = "closed"
  <2> DEFINE u == Retrieve(w, n)
             v == SendAndShutdown(u, r)
  <2>1. SessionLife(u) /\ SameStreams(w, u, w.down.out) /\ u.phase = w.phase /\ u.down = w.down
    BY <1>2, RetrieveIs DEF GoodSession
  <2> HIDE DEF u
  <2>2. Over(u, v, u.down.out \o Reply(r))
    BY <1>1, <2>1 DEF Greets
  <2> HIDE DEF v
  <2>3. Over(w, v, w.down.out \o Reply(r))
    BY <2>1, <2>2 DEF Over, SameStreams
  <2>4. GoodSession(v) /\ v.phase = "closed"
    BY <2>3, RefusedFlow DEF Over
  <2> QED BY <2>4 DEF v, u
<1> QED BY <1>1, <1>2 DEF GoodSession

\* The handshake takes a step: the message, and an answer.
LEMMA MessageAnswered ==
  ASSUME NEW w, GoodSession(w), Greets(w), 2 <= Len(w.buffer), w.buffer[1][1] # "data",
         NEW p \in {"user_password", "request"}, NEW r \in SocksCodes,
         SaidDown(w) \o Reply(r) = (IF p = "user_password" THEN Reply("user_password") ELSE Asked(w.auth)),
         p = "user_password" => w.auth, p = "request" /\ w.auth => w.buffer[1][1] = "right"
  PROVE  LET v == [SendTo(Retrieve(w, 2), "down", Reply(r)) EXCEPT !.phase = p]
         IN  GoodSession(v) /\ v.phase = p
<1> DEFINE u == Retrieve(w, 2)
           v == [SendTo(u, "down", Reply(r)) EXCEPT !.phase = p]
<1>1. /\ SessionLife(u) /\ SameStreams(w, u, w.down.out) /\ u.phase = w.phase /\ u.down = w.down
      /\ u.buffer = SubSeq(w.buffer, 3, Len(w.buffer))
  <2>1. /\ SessionLife(u) /\ SameStreams(w, u, w.down.out) /\ u.phase = w.phase /\ u.down = w.down
        /\ u.buffer = SubSeq(w.buffer, 2 + 1, Len(w.buffer))
    BY RetrieveIs DEF GoodSession
  <2> QED BY <2>1
<1> HIDE DEF u
<1>2. Greets(u)
  BY <1>1 DEF Greets
<1>3. /\ SessionLife(v) /\ v.phase = p /\ v.buffer = u.buffer
      /\ SameStreams(u, v, u.down.out \o Reply(r))
  BY <1>1, <1>2, StepOn
<1> HIDE DEF v
<1>4. SameStreams(w, v, w.down.out \o Reply(r)) /\ v.auth = w.auth
  BY <1>1, <1>3 DEF SameStreams
<1>5. SaidDown(w) \o Reply(r) = Answered(v)
  BY <1>3, <1>4 DEF Answered
<1>6. v.phase \in {"user_password", "request"} /\ (v.phase = "user_password" => v.auth)
      /\ (v.phase = "request" /\ w.auth => w.buffer[1][1] = "right")
  BY <1>3, <1>4
<1>7. GoodSession(v)
  BY <1>1, <1>3, <1>4, <1>5, <1>6, HandshakeFlow
<1> QED BY <1>3, <1>7 DEF v, u

\* handle_greeting()
LEMMA GreetingKeeps ==
  ASSUME NEW w, GoodSession(w), w.phase = "greeting", w.buffer # << >>
  PROVE  LET v == HandleGreeting(w) IN GoodSession(v) /\ v.phase # "relay"
<1> DEFINE m == ChooseAuthMethod(Kind(w), w.auth)
           k == w.buffer[1][1]
<1>1. /\ Greets(w) /\ w.buffer \in Seq(SocksElement) /\ w.auth \in BOOLEAN /\ SaidDown(w) = << >>
      /\ Len(w.buffer) \in Nat
  <2>1. Greets(w) /\ w.buffer \in Seq(SocksElement) /\ w.auth \in BOOLEAN /\ SaidDown(w) = << >>
    BY DEF Greets, GoodSession, SessionLife, IsSession, FlowInv, Answered
  <2> HIDE DEF SocksElement
  <2> QED BY <2>1
<1>2. Kind(w) = k
  <2> HIDE DEF SocksElement
  <2> QED BY <1>1 DEF Kind
<1>3. m = ChooseAuthMethod(k, w.auth)
  BY <1>2
<1> HIDE DEF k
<1>4. m = "unacceptable" \/ (m = IF w.auth THEN "user_password" ELSE "no_auth")
  BY <1>1, <1>3 DEF ChooseAuthMethod
<1> HIDE DEF m
<1>5. CASE k \notin Offers
  <2> DEFINE x == SendAndShutdown(w, "unacceptable")
  <2>1. Over(w, x, w.down.out \o Reply("unacceptable"))
    BY <1>1, RefusalKeeps DEF SocksCodes
  <2>2. HandleGreeting(w) = [x EXCEPT !.buffer = << >>]
    BY <1>2, <1>5 DEF HandleGreeting
  <2> HIDE DEF x
  <2>3. Over(w, [x EXCEPT !.buffer = << >>], w.down.out \o Reply("unacceptable"))
    BY <2>1, OverAside
  <2> DEFINE v == HandleGreeting(w)
  <2>4. Over(w, v, w.down.out \o Reply("unacceptable"))
    BY <2>2, <2>3
  <2> HIDE DEF v
  <2>5. GoodSession(v) /\ v.phase = "closed"
    BY <1>1, <2>4, RefusedFlow DEF Over, SocksCodes
  <2> QED BY <2>5 DEF v
<1>6. CASE k \in Offers /\ Len(w.buffer) < 2
  <2>1. HandleGreeting(w) = w
    BY <1>2, <1>6 DEF HandleGreeting
  <2> QED BY <2>1
<1>7. CASE k \in Offers /\ ~(Len(w.buffer) < 2)
  <2>1. 2 <= Len(w.buffer) /\ w.buffer[1][1] # "data"
    BY <1>1, <1>7 DEF Offers, k
  <2>2. CASE m = "unacceptable"
    <3>1. HandleGreeting(w) = SendAndShutdown(Retrieve(w, 2), "unacceptable")
      BY <1>2, <1>7, <2>2 DEF HandleGreeting, SendAndShutdown, m
    <3> DEFINE v == SendAndShutdown(Retrieve(w, 2), "unacceptable")
    <3>2. GoodSession(v) /\ v.phase = "closed"
      BY <1>1, <2>1, RefusalKeeps DEF SocksCodes
    <3> HIDE DEF v
    <3> QED BY <3>1, <3>2 DEF v
  <2>3. CASE m # "unacceptable"
    <3> DEFINE p == IF w.auth THEN "user_password" ELSE "request"
               v == [SendTo(Retrieve(w, 2), "down", Reply(m)) EXCEPT !.phase = p]
    <3>1. HandleGreeting(w) = v
      BY <1>2, <1>7, <2>3 DEF HandleGreeting, m
    <3>2. m \in SocksCodes /\ (m = IF w.auth THEN "user_password" ELSE "no_auth")
      BY <1>4, <2>3 DEF SocksCodes
    <3>3. p \in {"user_password", "request"} /\ (p = "user_password" => w.auth) /\ ~(p = "request" /\ w.auth)
      OBVIOUS
    <3>4. << >> \o Reply(m) = Reply(m)
      BY <3>2, ReplyIs, ConcatEmptySeq
    <3>5. SaidDown(w) \o Reply(m) = (IF p = "user_password" THEN Reply("user_password") ELSE Asked(w.auth))
      BY <1>1, <3>2, <3>4 DEF Asked
    <3> HIDE DEF p
    <3>6. p = "request" /\ w.auth => w.buffer[1][1] = "right"
      BY <3>3
    <3>7. Greets(w) /\ 2 <= Len(w.buffer)
      BY <1>1, <2>1 DEF Greets
    <3>8. GoodSession(v) /\ v.phase = p
      BY ONLY GoodSession(w), <2>1, <3>2, <3>3, <3>5, <3>6, <3>7, MessageAnswered DEF v
    <3> HIDE DEF v
    <3> QED BY <3>1, <3>3, <3>8
  <2> QED BY <2>2, <2>3
<1> QED BY <1>5, <1>6, <1>7

\* handle_user_password()
LEMMA UserPasswordKeeps ==
  ASSUME NEW w, GoodSession(w), w.phase = "user_password", w.buffer # << >>
  PROVE  LET v == HandleUserPassword(w) IN GoodSession(v) /\ v.phase # "relay"
<1> DEFINE m == ParseUserPassword(w.buffer)
<1>1. /\ Greets(w) /\ w.buffer \in Seq(SocksElement) /\ w.auth /\ SaidDown(w) = Reply("user_password")
      /\ Len(w.buffer) \in Nat \ {0}
  <2>1. Greets(w) /\ w.buffer \in Seq(SocksElement) /\ w.auth /\ SaidDown(w) = Reply("user_password")
    BY DEF Greets, GoodSession, SessionLife, IsSession, FlowInv, Answered
  <2> HIDE DEF SocksElement
  <2> QED BY <2>1
<1>2. \/ m = "need_more"
      \/ m = "right" /\ w.buffer[1][1] = "right" /\ 2 <= Len(w.buffer)
      \/ m = "wrong" /\ 2 <= Len(w.buffer)
      \/ m = "error"
  BY <1>1 DEF ParseUserPassword
<1> HIDE DEF m
<1>3. CASE m = "need_more"
  <2>1. HandleUserPassword(w) = w
    BY <1>3 DEF HandleUserPassword, m
  <2> QED BY <2>1
<1>4. CASE m = "right" /\ w.buffer[1][1] = "right" /\ 2 <= Len(w.buffer)
  <2> DEFINE v == [SendTo(Retrieve(w, 2), "down", Reply("granted")) EXCEPT !.phase = "request"]
  <2>1. HandleUserPassword(w) = v
    BY <1>4 DEF HandleUserPassword, m
  <2>2. SaidDown(w) \o Reply("granted") = Asked(w.auth)
    BY <1>1 DEF Asked
  <2>3. "granted" \in SocksCodes /\ w.buffer[1][1] # "data"
    BY <1>4 DEF SocksCodes
  <2>4. GoodSession(v) /\ v.phase = "request"
    BY <1>1, <1>4, <2>2, <2>3, MessageAnswered
  <2> HIDE DEF v
  <2> QED BY <2>1, <2>4
<1>5. CASE m \in {"wrong", "error"} /\ (m = "wrong" => 2 <= Len(w.buffer))
  <2> DEFINE n == IF m = "wrong" THEN 2 ELSE 1
             v == SendAndShutdown(Retrieve(w, n), "denied")
  <2>1. HandleUserPassword(w) = v
    BY <1>5 DEF HandleUserPassword, m
  <2>2. n \in {1, 2} /\ n <= Len(w.buffer)
    BY <1>1, <1>5
  <2> HIDE DEF n
  <2>3. GoodSession(v) /\ v.phase = "closed"
    BY <1>1, <2>2, RefusalKeeps DEF SocksCodes
  <2> HIDE DEF v
  <2> QED BY <2>1, <2>3
<1> QED BY <1>2, <1>3, <1>4, <1>5

\* connect_upstream() has set the session up, and every address may have failed already.
LEMMA ConnectIs ==
  ASSUME NEW w, SessionLife(w), w.phase = "request", NEW fails \in BOOLEAN
  PROVE  LET v == ConnectUpstream(w, fails)
         IN  /\ fails => Over(w, v, w.down.out \o Reply("failure"))
             /\ ~fails =>
                  /\ SessionLife(v) /\ v.phase = "connecting" /\ SameStreams(w, v, w.down.out)
                  /\ v.buffer = << >> /\ v.preserved = w.buffer
<1> DEFINE a == [w EXCEPT !.preserved = w.buffer]
           b == [a EXCEPT !.buffer = << >>]
           c == [b EXCEPT !.down.reading = FALSE]
           d == [c EXCEPT !.phase = "connecting"]
           e == [d EXCEPT !.timers = {"connect"}]
           f == [e EXCEPT !.hold = TRUE]
           g == [f EXCEPT !.client = TRUE]
           v == [g EXCEPT !.connecting = ~fails]
<1>1. IsSession(w) /\ w.buffer \in Seq(SocksElement) /\ Greets(w) /\ w.timers = {"handshake"}
  BY DEF SessionLife, IsSession, Greets
<1>2. IsSession(b) /\ SameStreams(w, b, w.down.out) /\ b.preserved = w.buffer /\ b.buffer = << >>
      /\ b.down = w.down /\ b.up = w.up /\ b.stray = w.stray /\ b.context = w.context
      /\ b.cleanup = w.cleanup /\ b.functors = w.functors /\ b.upstream = w.upstream
      /\ b.timers = w.timers
  <2>1. IsSession(b)
    BY <1>1, NoElements, SessionSets
  <2> QED BY <1>1, <2>1 DEF IsSession, SameStreams
<1>a. ConnectUpstream(w, fails) = IF fails THEN OnConnectFailed(v) ELSE v
  <2> DEFINE z == [w EXCEPT !.preserved = w.buffer, !.buffer = << >>, !.down.reading = FALSE,
                     !.phase = "connecting", !.timers = (@ \ {"handshake"}) \cup {"connect"},
                     !.hold = TRUE, !.client = TRUE, !.connecting = ~fails]
  <2>1. (b.timers \ {"handshake"}) \cup {"connect"} = {"connect"} /\ c.timers = b.timers
        /\ d.timers = b.timers
    BY <1>1, <1>2 DEF IsSession
  <2>2. z = [d EXCEPT !.timers = (@ \ {"handshake"}) \cup {"connect"},
                     !.hold = TRUE, !.client = TRUE, !.connecting = ~fails]
    OBVIOUS
  <2>3. [d EXCEPT !.timers = (@ \ {"handshake"}) \cup {"connect"}] = e
    BY <2>1
  <2>4. z = [[d EXCEPT !.timers = (@ \ {"handshake"}) \cup {"connect"}]
               EXCEPT !.hold = TRUE, !.client = TRUE, !.connecting = ~fails]
    BY <2>2
  <2> HIDE DEF d, e
  <2>5. z = v
    BY <2>3, <2>4
  <2> HIDE DEF v
  <2> QED BY <2>5 DEF ConnectUpstream
<1> HIDE DEF a, b
<1>3. /\ IsSession(c) /\ SameStreams(w, c, w.down.out) /\ c.preserved = w.buffer /\ c.buffer = << >>
      /\ c.down.state = w.down.state /\ ~c.down.reading /\ c.up = w.up /\ c.stray = w.stray
      /\ c.context = w.context /\ c.cleanup = w.cleanup /\ c.functors = w.functors
      /\ c.upstream = w.upstream
  BY <1>2 DEF IsSession, IsSide, SameStreams
<1> HIDE DEF c
<1>4. /\ IsSession(d) /\ SameStreams(w, d, w.down.out) /\ d.preserved = w.buffer /\ d.buffer = << >>
      /\ d.down.state = w.down.state /\ ~d.down.reading /\ d.up = w.up /\ d.stray = w.stray
      /\ d.context = w.context /\ d.cleanup = w.cleanup /\ d.functors = w.functors
      /\ d.upstream = w.upstream /\ d.phase = "connecting"
  <2>1. IsSession(d) /\ SameStreams(w, d, w.down.out)
    BY <1>3 DEF IsSession, SameStreams
  <2> QED BY <1>3, <2>1 DEF IsSession
<1> HIDE DEF d
<1>5. /\ IsSession(g) /\ SameStreams(w, g, w.down.out) /\ g.preserved = w.buffer /\ g.buffer = << >>
      /\ g.down.state = w.down.state /\ ~g.down.reading /\ g.up = w.up /\ g.stray = w.stray
      /\ g.context = w.context /\ g.cleanup = w.cleanup /\ g.functors = w.functors
      /\ g.upstream = w.upstream /\ g.phase = "connecting" /\ g.timers = {"connect"} /\ g.hold
      /\ g.client
  <2>1. IsSession(e)
    BY <1>4, SessionSets
  <2>2. IsSession(f)
    BY <2>1, SessionSets
  <2>3. IsSession(g)
    BY <2>2, SessionSets
  <2>4. SameStreams(w, g, w.down.out)
    BY <1>4 DEF IsSession, SameStreams
  <2> QED BY <1>4, <2>3, <2>4 DEF IsSession
<1> HIDE DEF g
<1>6. /\ IsSession(v) /\ SameStreams(w, v, w.down.out) /\ v.preserved = w.buffer /\ v.buffer = << >>
      /\ v.down.state = w.down.state /\ ~v.down.reading /\ v.up = w.up /\ v.stray = w.stray
      /\ v.context = w.context /\ v.cleanup = w.cleanup /\ v.functors = w.functors
      /\ v.upstream = w.upstream /\ v.phase = "connecting" /\ v.timers = {"connect"} /\ v.hold
      /\ v.client /\ v.connecting = ~fails
  <2>1. IsSession(v)
    BY <1>5, SessionSets
  <2>2. SameStreams(w, v, w.down.out)
    BY <1>5 DEF IsSession, SameStreams
  <2> QED BY <1>5, <2>1, <2>2 DEF IsSession
<1> HIDE DEF v
<1>7. ASSUME ~fails PROVE SessionLife(v)
  BY <1>1, <1>6, <1>7 DEF SessionLife, Greets
<1>8. ASSUME fails PROVE Over(w, OnConnectFailed(v), w.down.out \o Reply("failure"))
  <2>1. Bare(v) /\ v.up.state = "none" /\ v.down.out = w.down.out
    BY <1>1, <1>6, <1>8 DEF SessionLife, Bare, SameStreams
  <2> DEFINE x == OnConnectFailed(v)
  <2>2. Over(v, x, v.down.out \o Reply("failure"))
    BY <1>6, <2>1, ConnectFailedIs
  <2> HIDE DEF x
  <2>3. Over(w, x, w.down.out \o Reply("failure"))
    BY <1>6, <2>1, <2>2 DEF Over, SameStreams
  <2> QED BY <2>3 DEF x
<1> QED BY <1>a, <1>6, <1>7, <1>8

\* handle_request()
LEMMA RequestKeeps ==
  ASSUME NEW w, GoodSession(w), w.phase = "request", w.buffer # << >>, NEW fails \in BOOLEAN
  PROVE  LET v == HandleRequest(w, fails) IN GoodSession(v) /\ v.phase # "relay"
<1> DEFINE m == ParseConnectRequest(w.buffer)
           k == w.buffer[1][1]
<1>1. /\ Greets(w) /\ w.buffer \in Seq(SocksElement) /\ SaidDown(w) = Asked(w.auth)
      /\ Len(w.buffer) \in Nat \ {0}
  <2>1. Greets(w) /\ w.buffer \in Seq(SocksElement) /\ SaidDown(w) = Asked(w.auth)
    BY DEF Greets, GoodSession, SessionLife, IsSession, FlowInv, Answered
  <2> HIDE DEF SocksElement
  <2> QED BY <2>1
<1>2. Kind(w) = k
  <2> HIDE DEF SocksElement
  <2> QED BY <1>1 DEF Kind
<1>3. \/ m = "need_more"
      \/ m = "success" /\ k = "target" /\ 2 <= Len(w.buffer)
      \/ m = "success" /\ k = "unknown" /\ 2 <= Len(w.buffer)
      \/ m \in {"command_not_supported", "addr_type_not_supported", "failure"}
  BY <1>1 DEF ParseConnectRequest
<1> HIDE DEF m, k
<1>4. CASE m = "need_more"
  <2>1. HandleRequest(w, fails) = w
    BY <1>4 DEF HandleRequest, m
  <2> QED BY <2>1
<1>5. CASE m = "success" /\ k = "unknown" /\ 2 <= Len(w.buffer)
  <2> DEFINE v == SendAndShutdown(Retrieve(w, 2), "failure")
  <2>1. HandleRequest(w, fails) = v
    BY <1>2, <1>5 DEF HandleRequest, m
  <2>2. GoodSession(v) /\ v.phase = "closed"
    BY <1>1, <1>5, RefusalKeeps DEF SocksCodes
  <2> HIDE DEF v
  <2> QED BY <2>1, <2>2
<1>6. CASE m \in {"command_not_supported", "addr_type_not_supported", "failure"}
  <2> DEFINE v == SendAndShutdown(Retrieve(w, 1), m)
  <2>1. HandleRequest(w, fails) = v
    BY <1>6 DEF HandleRequest, m
  <2>2. 1 <= Len(w.buffer) /\ m \in SocksCodes \ {"success"}
    BY <1>1, <1>6 DEF SocksCodes
  <2>3. GoodSession(v) /\ v.phase = "closed"
    BY <1>1, <2>2, RefusalKeeps
  <2> HIDE DEF v
  <2> QED BY <2>1, <2>3
<1>7. CASE m = "success" /\ k = "target" /\ 2 <= Len(w.buffer)
  <2> DEFINE u == Retrieve(w, 2)
             v == ConnectUpstream(u, fails)
             b == SubSeq(w.buffer, 3, Len(w.buffer))
  <2>1. HandleRequest(w, fails) = v
    BY <1>2, <1>7 DEF HandleRequest, m
  <2>2. /\ SessionLife(u) /\ SameStreams(w, u, w.down.out) /\ u.phase = "request" /\ u.down = w.down
        /\ u.buffer = b
    <3>1. /\ SessionLife(u) /\ SameStreams(w, u, w.down.out) /\ u.phase = w.phase /\ u.down = w.down
          /\ u.buffer = SubSeq(w.buffer, 2 + 1, Len(w.buffer))
      BY <1>1, <1>7, RetrieveIs DEF GoodSession
    <3> QED BY <3>1
  <2> HIDE DEF u
  <2>3. /\ fails => Over(u, v, u.down.out \o Reply("failure"))
        /\ ~fails =>
             /\ SessionLife(v) /\ v.phase = "connecting" /\ SameStreams(u, v, u.down.out)
             /\ v.buffer = << >> /\ v.preserved = u.buffer
    BY <2>2, ConnectIs
  <2> HIDE DEF v
  <2>4. CASE fails
    <3>1. Over(w, v, w.down.out \o Reply("failure"))
      BY <2>2, <2>3, <2>4 DEF Over, SameStreams
    <3>2. GoodSession(v) /\ v.phase = "closed"
      BY <1>1, <3>1, RefusedFlow DEF Over, SocksCodes
    <3> QED BY <2>1, <3>2
  <2>5. CASE ~fails
    <3>1. /\ SessionLife(v) /\ v.phase = "connecting" /\ SameStreams(w, v, w.down.out)
          /\ v.buffer = << >> /\ v.preserved = b
      BY <2>2, <2>3, <2>5 DEF SameStreams
    <3>2. w.buffer[1][1] # "data"
      BY <1>7 DEF k
    <3>3. b \in Seq(SocksElement) /\ AllData(b) /\ AllData(w.script)
      BY <1>1, <1>7, <3>2, MessageTaken DEF k
    <3>4. PICK done \in Seq(SocksElement) : w.arrived = done \o b /\ NoData(done)
      BY <1>1, <1>7, <3>2, MessageTaken DEF k
    <3> HIDE DEF b
    <3>5. PayloadOf(w.arrived) = b
      <4>1. PayloadOf(done) = << >>
        BY <3>4, PayloadNone
      <4>2. PayloadOf(b) = b
        BY <3>3, PayloadAll
      <4>3. PayloadOf(done \o b) = PayloadOf(done) \o PayloadOf(b)
        BY <3>3, PayloadConcat
      <4>4. << >> \o b = b
        BY <3>3, ConcatEmptySeq
      <4> QED BY <3>4, <4>1, <4>2, <4>3, <4>4
    <3>6. /\ SaidUp(v) = SaidUp(w) /\ SaidDown(v) = SaidDown(w) /\ v.arrived = w.arrived
          /\ v.script = w.script /\ v.auth = w.auth /\ v.answered = w.answered
      BY <3>1 DEF SameStreams, SaidUp, SaidDown
    <3>7. /\ Leads(SaidUp(w), PayloadOf(w.arrived)) /\ News(w) /\ Proven(w)
          /\ SaidUp(w) = << >> /\ w.answered = 0
      BY <1>1 DEF GoodSession, FlowInv
    <3>8. FlowInv(v)
      BY <1>1, <3>1, <3>3, <3>5, <3>6, <3>7 DEF FlowInv, News, Proven, Greets
    <3> QED BY <2>1, <3>1, <3>8 DEF GoodSession
  <2> QED BY <2>4, <2>5
<1> QED BY <1>3, <1>4, <1>5, <1>6, <1>7

\* The turns of on_downstream_message()'s loop.
LEMMA TurnsKeep ==
  ASSUME NEW w, GoodSession(w), w.phase # "relay", NEW fails \in BOOLEAN
  PROVE  /\ GoodSession(Turn(w, fails)) /\ Turn(w, fails).phase # "relay"
         /\ GoodSession(Turn(Turn(Turn(w, fails), fails), fails))
<1>1. ASSUME NEW u, GoodSession(u), u.phase # "relay"
      PROVE  LET v == Turn(u, fails) IN GoodSession(v) /\ v.phase # "relay"
  <2> DEFINE v == Turn(u, fails)
  <2>1. CASE u.phase = "greeting" /\ u.buffer # << >>
    <3>1. v = HandleGreeting(u)
      BY <2>1 DEF Turn
    <3> HIDE DEF v
    <3>2. GoodSession(v) /\ v.phase # "relay"
      BY <1>1, <2>1, <3>1, GreetingKeeps
    <3> QED BY <3>2 DEF v
  <2>2. CASE u.phase = "user_password" /\ u.buffer # << >>
    <3>1. v = HandleUserPassword(u)
      BY <2>2 DEF Turn
    <3> HIDE DEF v
    <3>2. GoodSession(v) /\ v.phase # "relay"
      BY <1>1, <2>2, <3>1, UserPasswordKeeps
    <3> QED BY <3>2 DEF v
  <2>3. CASE u.phase = "request" /\ u.buffer # << >>
    <3>1. v = HandleRequest(u, fails)
      BY <2>3 DEF Turn
    <3> HIDE DEF v
    <3>2. GoodSession(v) /\ v.phase # "relay"
      BY <1>1, <2>3, <3>1, RequestKeeps
    <3> QED BY <3>2 DEF v
  <2>4. CASE ~(u.phase \in {"greeting", "user_password", "request"} /\ u.buffer # << >>)
    <3>1. v = u
      BY <2>4 DEF Turn
    <3> HIDE DEF v
    <3>2. GoodSession(v) /\ v.phase # "relay"
      BY <1>1, <3>1
    <3> QED BY <3>2 DEF v
  <2> QED BY <2>1, <2>2, <2>3, <2>4
<1> DEFINE a == Turn(w, fails)
           b == Turn(a, fails)
           c == Turn(b, fails)
<1>2. GoodSession(a) /\ a.phase # "relay"
  BY <1>1
<1> HIDE DEF a
<1>3. GoodSession(b) /\ b.phase # "relay"
  BY <1>1, <1>2
<1> HIDE DEF b
<1>4. GoodSession(c)
  BY <1>1, <1>3
<1> QED BY <1>2, <1>4 DEF a, b, c

-----------------------------------------------------------------------------
(* Socks5.  What arrives, and what a client may send.                      *)

\* A sequence in two.
LEMMA SplitAt ==
  ASSUME NEW S, NEW q \in Seq(S), NEW n \in 1..Len(q)
  PROVE  LET a == SubSeq(q, 1, n)
             b == SubSeq(q, n + 1, Len(q))
         IN  a \in Seq(S) /\ b \in Seq(S) /\ a \o b = q /\ (AllData(q) => AllData(a) /\ AllData(b))
<1> DEFINE a == SubSeq(q, 1, n)
           b == SubSeq(q, n + 1, Len(q))
           m == Len(q)
<1>1. m \in Nat /\ n \in 1..m
  OBVIOUS
<1>2. /\ a \in Seq(S) /\ Len(a) = n /\ \A i \in 1..n : a[i] = q[i]
      /\ b \in Seq(S) /\ Len(b) = m - n /\ \A i \in 1..m - n : b[i] = q[n + i]
  OBVIOUS
<1>3. AllData(q) => \A i \in 1..m : q[i][1] = "data"
  BY DEF AllData
<1> HIDE DEF a, b
<1>4. /\ a \o b \in Seq(S) /\ Len(a \o b) = Len(a) + Len(b)
      /\ \A i \in 1..Len(a) + Len(b) : (a \o b)[i] = IF i <= Len(a) THEN a[i] ELSE b[i - Len(a)]
  BY ONLY <1>2, ConcatProperties
<1> DEFINE c == a \o b
<1>5. c \in Seq(S) /\ Len(c) = m /\ \A i \in 1..m : c[i] = IF i <= n THEN a[i] ELSE b[i - n]
  <2>1. Len(a) + Len(b) = m
    BY <1>1, <1>2
  <2> QED BY <1>2, <1>4, <2>1, Zenon
<1> HIDE DEF c
<1>6. \A i \in 1..m : c[i] = q[i]
  <2> SUFFICES ASSUME NEW i \in 1..m PROVE c[i] = q[i]
    OBVIOUS
  <2>1. CASE i <= n
    <3>1. i \in 1..n
      BY <1>1, <2>1
    <3> QED BY <1>2, <1>5, <2>1, <3>1
  <2>2. CASE ~(i <= n)
    <3> DEFINE k == i - n
    <3>1. k \in 1..m - n /\ n + k = i /\ c[i] = b[k]
      BY <1>1, <1>5, <2>2
    <3> HIDE DEF k
    <3> QED BY <1>2, <3>1
  <2> QED BY <2>1, <2>2
<1>7. c = q
  BY <1>5, <1>6, SeqEqual DEF m
<1>8. ASSUME AllData(q) PROVE AllData(a) /\ AllData(b)
  <2>1. AllData(a)
    <3> SUFFICES ASSUME NEW i \in 1..n PROVE a[i][1] = "data"
      BY <1>2 DEF AllData
    <3>1. i \in 1..m /\ a[i] = q[i]
      BY <1>1, <1>2
    <3> QED BY <1>3, <1>8, <3>1
  <2>2. AllData(b)
    <3> SUFFICES ASSUME NEW i \in 1..m - n PROVE b[i][1] = "data"
      BY <1>2 DEF AllData
    <3> DEFINE k == n + i
    <3>1. k \in 1..m /\ b[i] = q[k]
      BY <1>1, <1>2
    <3> HIDE DEF k
    <3> QED BY <1>3, <1>8, <3>1
  <2> QED BY <2>1, <2>2
<1> QED BY <1>2, <1>7, <1>8 DEF a, b, c

\* A message in front of what is well.
LEMMA WellMessage ==
  ASSUME NEW k \in SocksKinds \ {"data"}, NEW q \in Seq(SocksElement), Well(q),
         k = "target" => AllData(q)
  PROVE  Message(k) \o q \in Seq(SocksElement) /\ Well(Message(k) \o q)
<1> DEFINE E == SocksElement
           h == Message(k)
           p == h \o q
<1>1. h \in Seq(E) /\ Len(h) = 2 /\ h[1] = <<k, "head">> /\ h[2] = <<k, "rest">> /\ 1..2 = {1, 2}
  <2>1. <<k, "head">> \in E /\ <<k, "rest">> \in E
    BY DEF SocksElement
  <2> HIDE DEF E
  <2> QED BY <2>1 DEF Message
<1>2. q \in Seq(E) /\ Len(q) \in Nat
  OBVIOUS
<1> HIDE DEF h, E
<1>3. /\ h \o q \in Seq(E) /\ Len(h \o q) = Len(h) + Len(q)
      /\ \A i \in 1..Len(h) + Len(q) : (h \o q)[i] = IF i <= Len(h) THEN h[i] ELSE q[i - Len(h)]
  <2>1. h \in Seq(E) /\ q \in Seq(E)
    BY <1>1, <1>2
  <2> QED BY ONLY <2>1, ConcatProperties
<1>4. p \in Seq(E) /\ Len(p) = 2 + Len(q) /\ \A i \in 1..2 + Len(q) : p[i] = IF i <= 2 THEN h[i] ELSE q[i - 2]
  BY <1>1, <1>3, Zenon
<1> HIDE DEF p
<1>5. p[1] = <<k, "head">> /\ p[2] = <<k, "rest">>
  <2>1. 1 \in 1..2 + Len(q) /\ 2 \in 1..2 + Len(q) /\ 1 <= 2 /\ 2 <= 2
    BY <1>2
  <2> QED BY <1>1, <1>4, <2>1
<1>6. \A i \in 1..Len(q) : i + 2 \in 1..Len(p) /\ p[i + 2] = q[i]
  <2> SUFFICES ASSUME NEW i \in 1..Len(q) PROVE i + 2 \in 1..Len(p) /\ p[i + 2] = q[i]
    OBVIOUS
  <2>1. i + 2 \in 1..2 + Len(q) /\ ~(i + 2 <= 2) /\ (i + 2) - 2 = i
    BY <1>2
  <2> DEFINE j == i + 2
  <2>2. j \in 1..2 + Len(q) /\ ~(j <= 2) /\ j - 2 = i
    BY <2>1
  <2> HIDE DEF j
  <2>3. p[j] = q[i]
    BY <1>4, <2>2
  <2> QED BY <1>4, <2>1, <2>3 DEF j
<1>7. \A j \in 1..Len(p) : j > 2 => j - 2 \in 1..Len(q) /\ p[j] = q[j - 2]
  <2> SUFFICES ASSUME NEW j \in 1..Len(p), j > 2 PROVE j - 2 \in 1..Len(q) /\ p[j] = q[j - 2]
    OBVIOUS
  <2> DEFINE i == j - 2
  <2>1. i \in 1..Len(q) /\ i + 2 = j
    BY <1>2, <1>4
  <2> HIDE DEF i
  <2> QED BY <1>6, <2>1 DEF i
<1>8. Well(p)
  <2> SUFFICES ASSUME NEW n \in Nat
               PROVE  /\ 2*n + 2 <= Len(p) /\ p[2*n + 1][1] # "data" =>
                           p[2*n + 2] = <<p[2*n + 1][1], "rest">>
                      /\ 2*n + 1 <= Len(p) /\ p[2*n + 1][1] = "target" =>
                           \A j \in 1..Len(p) : j > 2*n + 2 => p[j][1] = "data"
    BY DEF Well
  <2> DEFINE o == 2*n + 1
             e == 2*n + 2
  <2>1. Len(p) \in Nat
    BY <1>2, <1>4
  <2>2. CASE n = 0
    <3>1. o = 1 /\ e = 2
      BY <2>2
    <3> HIDE DEF o, e
    <3>2. p[e] = <<p[o][1], "rest">>
      BY <1>5, <3>1
    <3>3. ASSUME p[o][1] = "target", NEW j \in 1..Len(p), j > e PROVE p[j][1] = "data"
      <4>1. k = "target"
        BY <1>5, <3>1, <3>3
      <4>2. j - 2 \in 1..Len(q) /\ p[j] = q[j - 2]
        BY <1>7, <3>1, <3>3
      <4> QED BY <4>1, <4>2 DEF AllData
    <3> QED BY <3>2, <3>3 DEF o, e
  <2>3. CASE n # 0
    <3> DEFINE m == n - 1
               x == 2*m + 1
               y == 2*m + 2
    <3>1. m \in Nat /\ o = x + 2 /\ e = y + 2 /\ x \in Nat \ {0} /\ y = x + 1
      BY <2>3
    <3>2. /\ y <= Len(q) /\ q[x][1] # "data" => q[y] = <<q[x][1], "rest">>
          /\ x <= Len(q) /\ q[x][1] = "target" => \A j \in 1..Len(q) : j > y => q[j][1] = "data"
      <4> HIDE DEF m
      <4> QED BY <3>1 DEF Well
    <3> HIDE DEF m, x, y, o, e
    <3>3. ASSUME e <= Len(p), p[o][1] # "data" PROVE p[e] = <<p[o][1], "rest">>
      <4>1. x \in 1..Len(q) /\ y \in 1..Len(q) /\ y <= Len(q)
        BY <1>2, <1>4, <3>1, <3>3
      <4>2. p[o] = q[x] /\ p[e] = q[y]
        BY <1>6, <3>1, <4>1
      <4> QED BY <3>2, <3>3, <4>1, <4>2
    <3>4. ASSUME o <= Len(p), p[o][1] = "target", NEW j \in 1..Len(p), j > e PROVE p[j][1] = "data"
      <4>1. x \in 1..Len(q) /\ x <= Len(q) /\ j > 2 /\ j - 2 > y
        BY <1>2, <1>4, <3>1, <3>4
      <4>2. p[o] = q[x]
        BY <1>6, <3>1, <4>1
      <4> DEFINE i == j - 2
      <4>3. i \in 1..Len(q) /\ p[j] = q[i] /\ i > y
        BY <1>7, <4>1
      <4> HIDE DEF i
      <4> QED BY <3>2, <3>4, <4>1, <4>2, <4>3
    <3> QED BY <3>3, <3>4 DEF o, e
  <2> QED BY <2>2, <2>3
<1> QED BY <1>4, <1>8 DEF p, h, E

\* Every script.
LEMMA ScriptsAre ==
  ASSUME NEW script \in Scripts
  PROVE  script \in Seq(SocksElement) /\ Well(script)
<1>1. ASSUME NEW q \in Seq(SocksElement), AllData(q) PROVE Well(q)
  <2> SUFFICES ASSUME NEW k \in Nat
               PROVE  /\ 2*k + 2 <= Len(q) /\ q[2*k + 1][1] # "data" =>
                           q[2*k + 2] = <<q[2*k + 1][1], "rest">>
                      /\ 2*k + 1 <= Len(q) /\ q[2*k + 1][1] = "target" =>
                           \A j \in 1..Len(q) : j > 2*k + 2 => q[j][1] = "data"
    BY DEF Well
  <2>1. Len(q) \in Nat
    BY <1>1
  <2>2. 2*k + 1 <= Len(q) => q[2*k + 1][1] = "data"
    <3> DEFINE o == 2*k + 1
    <3>1. o \in Nat \ {0}
      OBVIOUS
    <3> HIDE DEF o
    <3>2. o <= Len(q) => q[o][1] = "data"
      BY <1>1, <2>1, <3>1 DEF AllData
    <3> QED BY <3>2 DEF o
  <2>3. 2*k + 2 <= Len(q) => 2*k + 1 <= Len(q)
    BY <2>1
  <2> QED BY <2>2, <2>3
<1> DEFINE p == Payload(MaxUploads)
<1>2. p \in Seq(SocksElement) /\ AllData(p) /\ Well(p)
  <2>1. p \in Seq(SocksElement)
    BY WelcomeIs, Socks5Assumption
  <2>2. AllData(p)
    <3>1. Len(p) = MaxUploads /\ \A i \in 1..MaxUploads : p[i] = <<"data", i>>
      BY Socks5Assumption DEF Payload
    <3> HIDE DEF p
    <3>2. \A i \in 1..MaxUploads : p[i][1] = "data"
      BY <3>1
    <3> QED BY <3>1, <3>2 DEF AllData
  <2> HIDE DEF p
  <2> QED BY <1>1, <2>1, <2>2
<1> HIDE DEF p
<1>3. CASE script = << >>
  <2>1. << >> \in Seq(SocksElement) /\ AllData(<< >>)
    BY DEF AllData
  <2> QED BY <1>1, <1>3, <2>1
<1>4. CASE script # << >>
  <2>1. PICK g \in Offers \cup {"garbage"}, a \in {<< >>, Message("right"), Message("wrong")},
             r \in {"target", "unknown", "bind", "novel", "garbage"} :
          script = Message(g) \o a \o Message(r) \o p
    <3> DEFINE f(g, a, r) == Message(g) \o a \o Message(r) \o p
           G == Offers \cup {"garbage"}
           A == {<< >>, Message("right"), Message("wrong")}
           R == {"target", "unknown", "bind", "novel", "garbage"}
           X == {f(g, a, r) : g \in G, a \in A, r \in R}
    <3>1. Scripts = {<< >>} \cup X
      BY DEF Scripts, p
    <3>2. script \in X
      <4> HIDE DEF X
      <4> QED BY <1>4, <3>1
    <3> HIDE DEF f, G, A, R
    <3>3. \E g \in G, a \in A, r \in R : script = f(g, a, r)
      BY <3>2
    <3> QED BY <3>3 DEF f, G, A, R
  <2>2. /\ g \in SocksKinds \ {"data"} /\ g # "target" /\ r \in SocksKinds \ {"data"}
        /\ "right" \in SocksKinds \ {"data"} /\ "wrong" \in SocksKinds \ {"data"}
    BY DEF SocksKinds, Offers
  <2>3. \A k \in SocksKinds : Message(k) \in Seq(SocksElement)
    <3> SUFFICES ASSUME NEW k \in SocksKinds PROVE Message(k) \in Seq(SocksElement)
      OBVIOUS
    <3>1. <<k, "head">> \in SocksElement /\ <<k, "rest">> \in SocksElement
      BY DEF SocksElement
    <3> HIDE DEF SocksElement
    <3> QED BY <3>1 DEF Message
  <2> DEFINE x == Message(r) \o p
             y == a \o x
             z == Message(g) \o y
  <2>4. x \in Seq(SocksElement) /\ Well(x)
    BY <1>2, <2>2, WellMessage
  <2> HIDE DEF x
  <2>5. y \in Seq(SocksElement) /\ Well(y)
    <3>1. CASE a = << >>
      <4>1. << >> \o x = x
        BY <2>4, ConcatEmptySeq
      <4> QED BY <2>4, <3>1, <4>1
    <3>2. CASE a # << >>
      <4>1. PICK k \in {"right", "wrong"} : a = Message(k)
        BY <3>2
      <4>2. k \in SocksKinds \ {"data"} /\ k # "target"
        BY <2>2
      <4>3. Message(k) \o x \in Seq(SocksElement) /\ Well(Message(k) \o x)
        BY <2>4, <4>2, WellMessage
      <4> QED BY <4>1, <4>3
    <3> QED BY <3>1, <3>2
  <2> HIDE DEF y
  <2>6. z \in Seq(SocksElement) /\ Well(z)
    BY <2>2, <2>5, WellMessage
  <2> HIDE DEF z
  <2>7. script = z
    <3> DEFINE m == Message(g)
               n == Message(r)
    <3>1. /\ m \in Seq(SocksElement) /\ n \in Seq(SocksElement) /\ a \in Seq(SocksElement)
          /\ p \in Seq(SocksElement)
      <4>1. << >> \in Seq(SocksElement)
        BY NoElements
      <4> QED BY <1>2, <2>2, <2>3, <4>1
    <3> HIDE DEF m, n
    <3>2. m \o a \in Seq(SocksElement) /\ n \o p \in Seq(SocksElement)
      BY <3>1, ConcatProperties
    <3>3. ((m \o a) \o n) \o p = (m \o a) \o (n \o p)
      <4> DEFINE b == m \o a
      <4>1. b \in Seq(SocksElement)
        BY <3>2
      <4> HIDE DEF b
      <4>2. (b \o n) \o p = b \o (n \o p)
        <5>1. b \in Seq(SocksElement) /\ n \in Seq(SocksElement) /\ p \in Seq(SocksElement)
          BY <3>1, <4>1
        <5> QED BY ONLY <5>1, ConcatAssociative
      <4> QED BY <4>2 DEF b
    <3>4. (m \o a) \o (n \o p) = m \o (a \o (n \o p))
      BY ONLY <3>1, <3>2, ConcatAssociative
    <3> QED BY <2>1, <3>3, <3>4 DEF z, y, x, m, n
  <2> QED BY <2>6, <2>7
<1> QED BY <1>3, <1>4

\* A session begins.
LEMMA SocksInitGood ==
  ASSUME SocksInit
  PROVE  GoodSession(proxy)
<1>1. PICK script \in Scripts, auth \in BOOLEAN, idles \in BOOLEAN :
    proxy = [auth |-> auth, idles |-> idles, script |-> script, arrived |-> << >>, answered |-> 0,
             buffer |-> << >>, phase |-> "greeting", preserved |-> << >>, upstream |-> FALSE, client |-> FALSE,
             connecting |-> FALSE, hold |-> FALSE, context |-> TRUE, timers |-> {"handshake"},
             cleanup |-> FALSE, functors |-> << >>, stray |-> FALSE,
             down |-> [NoConnection EXCEPT !.state = "connected", !.reading = TRUE],
             up |-> NoConnection]
  BY DEF SocksInit
<1>2. script \in Seq(SocksElement) /\ Well(script)
  BY ScriptsAre
<1> DEFINE d == [NoConnection EXCEPT !.state = "connected", !.reading = TRUE]
           u == NoConnection
<1>3. /\ IsSide(d) /\ d.state = "connected" /\ d.reading /\ d.out = << >> /\ d.got = << >>
      /\ IsSide(u) /\ u.state = "none" /\ u.out = << >> /\ u.got = << >>
  BY NoElements DEF NoConnection, IsSide
<1> HIDE DEF d, u
<1>4. /\ proxy.auth = auth /\ proxy.script = script /\ proxy.arrived = << >> /\ proxy.answered = 0
      /\ proxy.buffer = << >> /\ proxy.phase = "greeting" /\ proxy.preserved = << >>
      /\ ~proxy.upstream /\ ~proxy.client /\ ~proxy.connecting /\ ~proxy.hold /\ proxy.context
      /\ proxy.timers = {"handshake"} /\ ~proxy.cleanup /\ proxy.functors = << >> /\ ~proxy.stray
      /\ proxy.down = d /\ proxy.up = u
  BY <1>1 DEF d, u
<1>5. IsSession(proxy)
  <2>1. /\ DOMAIN proxy = {"auth", "idles", "script", "arrived", "answered", "buffer", "phase", "preserved",
                           "upstream", "client", "connecting", "hold", "context", "timers", "cleanup",
                           "functors", "stray", "down", "up"}
        /\ \A b \in {proxy.auth, proxy.idles, proxy.upstream, proxy.client, proxy.connecting, proxy.hold,
                     proxy.context, proxy.cleanup, proxy.stray} : b \in BOOLEAN
    BY <1>1
  <2>2. /\ \A q \in {proxy.script, proxy.arrived, proxy.buffer, proxy.preserved} : q \in Seq(SocksElement)
        /\ proxy.functors \in Seq(SocksFunctors)
    BY <1>2, <1>4, NoElements
  <2> QED BY <1>3, <1>4, <2>1, <2>2 DEF IsSession
<1>6. SessionLife(proxy)
  BY <1>3, <1>4, <1>5 DEF SessionLife, Greets
<1>7. /\ SaidUp(proxy) = << >> /\ SaidDown(proxy) = << >>
  <2>1. << >> \o << >> = << >>
    BY NoElements, ConcatEmptySeq
  <2> QED BY <1>3, <1>4, <2>1 DEF SaidUp, SaidDown
<1>8. Quiet(<< >>) /\ \E done \in Seq(SocksElement) : proxy.arrived = done \o proxy.buffer /\ NoData(done)
  <2>1. << >> \in Seq(SocksElement) /\ << >> \o << >> = << >>
    BY NoElements, ConcatEmptySeq
  <2>2. Quiet(<< >>) /\ NoData(<< >>)
    BY DEF Quiet, NoData
  <2>3. proxy.arrived = << >> \o proxy.buffer
    BY <1>4, <2>1
  <2> QED BY <2>1, <2>2, <2>3
<1>9. Well(proxy.buffer \o proxy.script)
  <2>1. << >> \o script = script
    BY <1>2, ConcatEmptySeq
  <2> QED BY <1>2, <1>4, <2>1
<1>10. Leads(SaidUp(proxy), PayloadOf(proxy.arrived))
  <2>1. PayloadOf(proxy.arrived) \in Seq(SocksElement)
    BY <1>5, SaidType
  <2> QED BY <1>7, <2>1, LeadsFacts
<1> QED BY <1>4, <1>6, <1>7, <1>8, <1>9, <1>10 DEF GoodSession, FlowInv, News, Greets, Answered

\* Some of the script arrives.
LEMMA ArrivesIs ==
  ASSUME NEW w, SessionLife(w), NEW n \in 1..Len(w.script)
  PROVE  LET read == SubSeq(w.script, 1, n)
             v == [w EXCEPT !.script = SubSeq(@, n + 1, Len(@)), !.arrived = @ \o read,
                            !.buffer = @ \o read]
         IN  /\ SessionLife(v) /\ v.phase = w.phase /\ v.up = w.up /\ v.down = w.down
             /\ v.auth = w.auth /\ v.answered = w.answered
             /\ v.script = SubSeq(w.script, n + 1, Len(w.script))
             /\ v.arrived = w.arrived \o read /\ v.buffer = w.buffer \o read
<1> DEFINE read == SubSeq(w.script, 1, n)
           s == SubSeq(w.script, n + 1, Len(w.script))
           a == w.arrived \o read
           b == w.buffer \o read
           x == [w EXCEPT !.script = s]
           y == [x EXCEPT !.arrived = a]
           v == [y EXCEPT !.buffer = b]
<1>1. IsSession(w) /\ w.script \in Seq(SocksElement) /\ w.arrived \in Seq(SocksElement)
      /\ w.buffer \in Seq(SocksElement)
  BY DEF SessionLife, IsSession
<1>2. read \in Seq(SocksElement) /\ s \in Seq(SocksElement)
  BY <1>1, SplitAt
<1> HIDE DEF read, s
<1>3. a \in Seq(SocksElement) /\ b \in Seq(SocksElement)
  <2>1. w.arrived \o read \in Seq(SocksElement)
    BY <1>1, <1>2, ConcatProperties
  <2>2. w.buffer \o read \in Seq(SocksElement)
    BY <1>1, <1>2, ConcatProperties
  <2> QED BY <2>1, <2>2
<1>4. v = [w EXCEPT !.script = SubSeq(@, n + 1, Len(@)), !.arrived = @ \o read, !.buffer = @ \o read]
  BY <1>1 DEF s, IsSession
<1> HIDE DEF a, b
<1>5. IsSession(v)
  <2>1. IsSession(x)
    BY <1>1, <1>2 DEF IsSession
  <2> HIDE DEF x
  <2>2. IsSession(y)
    BY <1>3, <2>1 DEF IsSession
  <2> HIDE DEF y
  <2> QED BY <1>3, <2>2, SessionSets
<1>6. /\ v.phase = w.phase /\ v.up = w.up /\ v.down = w.down /\ v.auth = w.auth
      /\ v.idles = w.idles /\ v.answered = w.answered /\ v.script = s /\ v.arrived = a /\ v.buffer = b
      /\ v.stray = w.stray /\ v.context = w.context /\ v.cleanup = w.cleanup /\ v.functors = w.functors
      /\ v.timers = w.timers /\ v.client = w.client /\ v.connecting = w.connecting
      /\ v.upstream = w.upstream /\ v.hold = w.hold
  BY <1>1 DEF IsSession
<1> HIDE DEF v
<1>7. SessionLife(v)
  BY <1>5, <1>6 DEF SessionLife, OverLife, Heeds, Greets
<1> QED BY <1>4, <1>6, <1>7 DEF read, s, a, b

\* on_downstream_message()
LEMMA ReadKeeps ==
  ASSUME NEW w, GoodSession(w), w.down.reading, NEW n \in 1..Len(w.script), NEW fails \in BOOLEAN
  PROVE  LET read == SubSeq(w.script, 1, n)
         IN  GoodSession(OnDownstreamMessage(
               [w EXCEPT !.script = SubSeq(@, n + 1, Len(@)), !.arrived = @ \o read,
                         !.buffer = @ \o read], fails))
<1> DEFINE E == SocksElement
           read == SubSeq(w.script, 1, n)
           rest == SubSeq(w.script, n + 1, Len(w.script))
           v == [w EXCEPT !.script = SubSeq(@, n + 1, Len(@)), !.arrived = @ \o read,
                          !.buffer = @ \o read]
           x == OnDownstreamMessage(v, fails)
           oa == w.arrived
           ob == w.buffer
<1>1. /\ SessionLife(w) /\ IsSession(w) /\ w.script \in Seq(E) /\ oa \in Seq(E) /\ ob \in Seq(E)
  BY DEF GoodSession, SessionLife, IsSession
<1>2. /\ SessionLife(v) /\ v.phase = w.phase /\ v.up = w.up /\ v.down = w.down
      /\ v.auth = w.auth /\ v.answered = w.answered
      /\ v.script = rest /\ v.arrived = oa \o read /\ v.buffer = ob \o read
  BY <1>1, ArrivesIs
<1> HIDE DEF v
<1>3. read \in Seq(E) /\ rest \in Seq(E) /\ read \o rest = w.script
      /\ (AllData(w.script) => AllData(read) /\ AllData(rest))
  BY <1>1, SplitAt
<1> HIDE DEF read, rest, oa, ob
<1>4. /\ SaidUp(v) = SaidUp(w) /\ SaidDown(v) = SaidDown(w) /\ IsSession(v)
  BY <1>2 DEF SaidUp, SaidDown, SessionLife
<1>5. Leads(SaidUp(v), PayloadOf(v.arrived)) /\ News(v)
  <2>1. Leads(SaidUp(w), PayloadOf(w.arrived)) /\ News(w)
    BY DEF GoodSession, FlowInv
  <2>2. Leads(SaidUp(v), SaidUp(w)) /\ Leads(SaidDown(v), SaidDown(w))
    BY <1>4 DEF Leads
  <2>3. v.answered \in {w.answered, w.answered + 1} /\ v.arrived = w.arrived \o read
    BY <1>2 DEF oa
  <2> QED BY <1>1, <1>2, <1>3, <1>4, <2>1, <2>2, <2>3, FlowSettles
<1>6. w.phase # "connecting"
  BY <1>1 DEF SessionLife
<1>7. CASE w.phase = "relay"
  <2>1. x = RelayDownstream(v)
    BY <1>2, <1>7 DEF OnDownstreamMessage
  <2> HIDE DEF x
  <2>2. /\ SessionLife(x) /\ x.phase = "relay"
        /\ x.auth = v.auth /\ x.script = v.script /\ x.arrived = v.arrived
        /\ x.answered = v.answered /\ x.buffer = << >>
        /\ x.up.got = v.up.got /\ x.up.out = v.up.out \o v.buffer /\ x.down = v.down
    BY <1>2, <1>7, <2>1, RelayedIs
  <2>3. /\ AllData(w.script) /\ Proven(w) /\ w.buffer = << >> /\ SaidUp(w) = PayloadOf(w.arrived)
        /\ SaidDown(w) = WelcomeOf(w.auth) \o Payload(w.answered)
    BY <1>7 DEF GoodSession, FlowInv
  <2>4. v.buffer = read
    <3>1. << >> \o read = read
      BY <1>3, ConcatEmptySeq
    <3> QED BY <1>2, <2>3, <3>1 DEF ob
  <2>5. SaidUp(x) = SaidUp(w) \o read
    <3>1. w.up.got \o (w.up.out \o read) = SaidUp(w) \o read
      BY <1>1, <1>3, SaidMore
    <3> QED BY <1>2, <2>2, <2>4, <3>1 DEF SaidUp
  <2>6. PayloadOf(x.arrived) = PayloadOf(w.arrived) \o read
    <3>1. PayloadOf(oa \o read) = PayloadOf(oa) \o PayloadOf(read)
      BY <1>1, <1>3, PayloadConcat
    <3>2. PayloadOf(read) = read
      BY <1>3, <2>3, PayloadAll
    <3> QED BY <1>2, <2>2, <3>1, <3>2 DEF oa
  <2>7. Proven(x)
    <3>1. w.auth => Has(oa \o read, <<"right", "rest">>)
      <4> DEFINE y == <<"right", "rest">>
      <4>1. w.auth => Has(oa, y)
        BY <2>3 DEF Proven, oa
      <4> HIDE DEF y
      <4>2. w.auth => Has(oa \o read, y)
        BY <1>1, <1>3, <4>1, HasGrows
      <4> QED BY <4>2 DEF y
    <3> QED BY <1>2, <2>2, <3>1 DEF Proven
  <2>8. SaidDown(x) = WelcomeOf(x.auth) \o Payload(x.answered) /\ News(x)
    <3>1. SaidDown(x) = SaidDown(v) /\ x.auth = w.auth /\ x.answered = w.answered
      BY <1>2, <2>2 DEF SaidDown
    <3> QED BY <1>4, <1>5, <2>2, <2>3, <3>1 DEF News, Proven
  <2>9. Leads(SaidUp(x), PayloadOf(x.arrived))
    BY <2>3, <2>5, <2>6 DEF Leads
  <2>10. FlowInv(x)
    BY <1>2, <1>3, <2>2, <2>3, <2>5, <2>6, <2>7, <2>8, <2>9 DEF FlowInv, Greets
  <2> QED BY <2>2, <2>10 DEF GoodSession, x, v, read
<1>8. ASSUME w.phase # "relay" PROVE GoodSession(v)
  <2>1. CASE w.phase = "closed"
    BY <1>2, <1>5, <2>1 DEF GoodSession, FlowInv, Greets
  <2>2. CASE Greets(w)
    <3>1. /\ SaidUp(w) = << >> /\ w.answered = 0 /\ SaidDown(w) = Answered(w)
          /\ (w.phase = "user_password" => w.auth)
          /\ (w.phase = "request" => Proven(w)) /\ Well(ob \o w.script)
      BY <2>2 DEF GoodSession, FlowInv, ob
    <3>2. PICK done \in Seq(E) : oa = done \o ob /\ NoData(done)
      BY <2>2 DEF GoodSession, FlowInv, oa, ob
    <3>3. v.arrived = done \o v.buffer
      <4>1. (done \o ob) \o read = done \o (ob \o read)
        <5>1. done \in Seq(E) /\ ob \in Seq(E) /\ read \in Seq(E)
          BY <1>1, <1>3
        <5> QED BY ONLY <5>1, ConcatAssociative
      <4> QED BY <1>2, <3>2, <4>1
    <3>4. v.buffer \o v.script = ob \o w.script
      <4>1. (ob \o read) \o rest = ob \o (read \o rest)
        <5>1. ob \in Seq(E) /\ read \in Seq(E) /\ rest \in Seq(E)
          BY <1>1, <1>3
        <5> QED BY ONLY <5>1, ConcatAssociative
      <4> QED BY <1>2, <1>3, <4>1
    <3>5. w.phase = "request" => Proven(v)
      <4>1. w.phase = "request" /\ w.auth => Has(oa \o read, <<"right", "rest">>)
        <5> DEFINE y == <<"right", "rest">>
        <5>1. w.phase = "request" /\ w.auth => Has(oa, y)
          BY <3>1 DEF Proven, oa
        <5> HIDE DEF y
        <5>2. w.phase = "request" /\ w.auth => Has(oa \o read, y)
          BY <1>1, <1>3, <5>1, HasGrows
        <5> QED BY <5>2 DEF y
      <4> QED BY <1>2, <4>1 DEF Proven
    <3>6. Answered(v) = Answered(w)
      BY <1>2 DEF Answered
    <3>7. \E d \in Seq(SocksElement) : v.arrived = d \o v.buffer /\ NoData(d)
      BY <3>2, <3>3
    <3>8. FlowInv(v)
      BY <1>2, <1>4, <1>5, <2>2, <3>1, <3>4, <3>5, <3>6, <3>7 DEF FlowInv, Greets
    <3> QED BY <1>2, <3>8 DEF GoodSession
  <2> QED BY <1>1, <1>6, <1>8, <2>1, <2>2 DEF IsSession, Greets
<1>9. CASE w.phase = "closed"
  <2>1. x = [v EXCEPT !.buffer = << >>]
    BY <1>2, <1>9 DEF OnDownstreamMessage
  <2> HIDE DEF x
  <2>2. Over(v, v, v.down.out)
    BY <1>2, <1>9 DEF Over, SameStreams
  <2>3. Over(v, x, v.down.out)
    BY <2>1, <2>2, OverAside
  <2>4. EndsAs(v, x)
    BY <2>3 DEF EndsAs, Over, SameStreams
  <2>5. GoodSession(x)
    BY <1>8, <1>9, <2>4, EndsFlow
  <2> QED BY <2>5 DEF x, v, read
<1>10. CASE Greets(w)
  <2>1. w.phase # "relay" /\ x = Turn(Turn(Turn(v, fails), fails), fails)
    BY <1>2, <1>10 DEF OnDownstreamMessage, Greets
  <2>2. GoodSession(v) /\ v.phase # "relay"
    BY <1>2, <1>8, <2>1
  <2> HIDE DEF x
  <2>3. GoodSession(x)
    BY <2>1, <2>2, TurnsKeep
  <2> QED BY <2>3 DEF x, v, read
<1> QED BY <1>1, <1>6, <1>7, <1>9, <1>10 DEF IsSession, Greets

-----------------------------------------------------------------------------
(* Socks5.  Every step.                                                    *)

\* The upstream connects.
LEMMA ConnectKeeps ==
  ASSUME NEW w, GoodSession(w), w.connecting
  PROVE  LET v == Connected(w) IN GoodSession(IF Alive(v) THEN OnUpstreamConnection(v) ELSE v)
<1> DEFINE c == Connected(w)
           v == OnUpstreamConnection(c)
           a == Reply("success")
<1>1. w.phase = "connecting" /\ SessionLife(w) /\ IsSession(w)
  BY DEF GoodSession, SessionLife, IsSession, Greets, OverLife
<1>2. /\ Alive(c) /\ SessionLife(v) /\ v.phase = "relay"
      /\ v.auth = w.auth /\ v.script = w.script /\ v.arrived = w.arrived
      /\ v.answered = w.answered /\ v.buffer = w.buffer /\ v.preserved = << >>
      /\ v.up.got = << >> /\ v.up.out = w.preserved
      /\ v.down.got = w.down.got /\ v.down.out = w.down.out \o a
  BY <1>1, EstablishedIs
<1> HIDE DEF c, v
<1>3. /\ w.answered = 0 /\ SaidDown(w) = Asked(w.auth) /\ Proven(w)
      /\ AllData(w.script) /\ PayloadOf(w.arrived) = w.preserved /\ w.buffer = << >>
  BY <1>1 DEF GoodSession, FlowInv
<1>4. w.auth \in BOOLEAN /\ w.preserved \in Seq(SocksElement)
  BY <1>1 DEF IsSession
<1>5. SaidUp(v) = w.preserved
  BY <1>2, <1>4, ConcatEmptySeq DEF SaidUp
<1>6. SaidDown(v) = WelcomeOf(v.auth) \o Payload(v.answered)
  <2>1. a \in Seq(SocksElement)
    BY ReplyIs DEF SocksCodes
  <2>2. SaidDown(v) = SaidDown(w) \o a
    BY <1>1, <1>2, <2>1, SaidMore DEF SaidDown
  <2>3. WelcomeOf(w.auth) = Asked(w.auth) \o a /\ WelcomeOf(w.auth) \in Seq(SocksElement)
    BY <1>4, WelcomeIs DEF WelcomeOf
  <2>4. Payload(v.answered) = << >>
    BY <1>2, <1>3, WelcomeIs
  <2>5. WelcomeOf(w.auth) \o << >> = WelcomeOf(w.auth)
    BY <2>3, ConcatEmptySeq
  <2> QED BY <1>2, <1>3, <2>2, <2>3, <2>4, <2>5
<1>7. Proven(v) /\ IsSession(v)
  BY <1>2, <1>3 DEF Proven, SessionLife
<1>8. News(v) /\ Leads(SaidUp(v), PayloadOf(v.arrived))
  <2> DEFINE x == WelcomeOf(v.auth)
             y == Payload(v.answered)
  <2>1. x \in Seq(SocksElement) /\ y \in Seq(SocksElement) /\ SaidDown(v) = x \o y
    BY <1>6, <1>7, SaidType
  <2> HIDE DEF x, y
  <2>2. Len(x) <= Len(x \o y) /\ Leads(x \o y, x \o y)
    <3>1. Len(x \o y) = Len(x) + Len(y) /\ Len(x) \in Nat /\ Len(y) \in Nat
      BY <2>1, ConcatProperties, LenProperties
    <3>2. Leads(x \o y, x \o y)
      <4> DEFINE z == x \o y
      <4> HIDE DEF z
      <4>1. Len(z) <= Len(z)
        BY <3>1 DEF z
      <4>2. Leads(z, z)
        BY <4>1 DEF Leads
      <4> QED BY <4>2 DEF z
    <3> QED BY <3>1, <3>2
  <2>3. News(v)
    BY <1>7, <2>1, <2>2 DEF News, x, y
  <2>4. Leads(w.preserved, w.preserved)
    BY <1>4, LeadsFacts
  <2> QED BY <1>2, <1>3, <1>5, <2>3, <2>4
<1>9. FlowInv(v)
  BY <1>2, <1>3, <1>5, <1>6, <1>7, <1>8 DEF FlowInv, Greets
<1> QED BY <1>2, <1>9 DEF GoodSession, c, v

\* The upstream answers.
LEMMA AnswerKeeps ==
  ASSUME NEW w, GoodSession(w), Open(w, "up")
  PROVE  LET v == [w EXCEPT !.answered = @ + 1]
         IN  GoodSession(IF Alive(v) THEN Release(OnUpstreamMessage(v, <<"data", v.answered>>)) ELSE v)
<1> DEFINE v == [w EXCEPT !.answered = @ + 1]
           x == <<"data", v.answered>>
           y == OnUpstreamMessage(v, x)
<1>1. SessionLife(w) /\ IsSession(w) /\ (w.phase = "relay" \/ w.phase = "closed")
  BY DEF GoodSession, SessionLife, IsSession, Greets, Open
<1>2. /\ SessionLife(v) /\ v.phase = w.phase /\ v.up = w.up /\ v.down = w.down
      /\ v.answered = w.answered + 1 /\ w.answered \in Nat /\ v.auth = w.auth
      /\ v.script = w.script /\ v.arrived = w.arrived /\ v.buffer = w.buffer /\ Alive(v)
  BY <1>1, AnswerIs
<1> HIDE DEF v
<1>3. IsSession(v) /\ SaidUp(v) = SaidUp(w) /\ SaidDown(v) = SaidDown(w)
  BY <1>2 DEF SessionLife, SaidUp, SaidDown
<1>4. Leads(SaidUp(v), PayloadOf(v.arrived)) /\ News(v)
  <2>1. Leads(SaidUp(w), PayloadOf(w.arrived)) /\ News(w)
    BY DEF GoodSession, FlowInv
  <2>2. Leads(SaidUp(v), SaidUp(w)) /\ Leads(SaidDown(v), SaidDown(w))
    BY <1>3 DEF Leads
  <2>3. << >> \in Seq(SocksElement) /\ v.arrived = w.arrived \o << >>
    <3>1. w.arrived \in Seq(SocksElement)
      BY <1>1, SaidType
    <3> QED BY <1>2, <3>1, NoElements, ConcatEmptySeq
  <2>4. v.answered \in {w.answered, w.answered + 1}
    BY <1>2
  <2> QED BY <1>1, <1>2, <1>3, <2>1, <2>2, <2>3, <2>4, FlowSettles
<1>5. CASE w.phase = "closed"
  <2>1. GoodSession(v)
    BY <1>2, <1>4, <1>5 DEF GoodSession, FlowInv, Greets
  <2> DEFINE z == Release(y)
  <2>2. Over(v, z, v.down.out)
    BY <1>2, <1>5, AnswerDropped
  <2> HIDE DEF z
  <2>3. EndsAs(v, z)
    BY <2>2 DEF EndsAs, Over, SameStreams
  <2>4. GoodSession(z)
    BY <2>1, <2>3, EndsFlow
  <2> QED BY <1>2, <2>4 DEF z, y, x, v
<1>6. CASE w.phase = "relay"
  <2>1. x \in SocksElement /\ v.answered \in Nat
    <3>1. v.answered \in Nat
      BY <1>2
    <3> QED BY <3>1, WelcomeIs
  <2> HIDE DEF x
  <2>2. /\ SessionLife(y) /\ y.phase = "relay"
        /\ y.auth = v.auth /\ y.script = v.script /\ y.arrived = v.arrived
        /\ y.answered = v.answered /\ y.buffer = v.buffer
        /\ y.down.got = v.down.got /\ y.down.out = v.down.out \o <<x>> /\ y.up = v.up
    BY <1>2, <1>6, <2>1, AnswerRelayed
  <2> HIDE DEF y
  <2>3. Release(y) = y
    BY <2>2, ReleaseNothing
  <2>4. /\ AllData(w.script) /\ Proven(w) /\ w.buffer = << >> /\ SaidUp(w) = PayloadOf(w.arrived)
        /\ SaidDown(w) = WelcomeOf(w.auth) \o Payload(w.answered)
    BY <1>6 DEF GoodSession, FlowInv
  <2>5. <<x>> \in Seq(SocksElement)
    <3> HIDE DEF SocksElement
    <3> QED BY <2>1
  <2>6. SaidDown(y) = SaidDown(w) \o <<x>>
    <3>1. v.down.got \o (v.down.out \o <<x>>) = SaidDown(v) \o <<x>>
      BY <1>3, <2>5, SaidMore
    <3> QED BY <1>3, <2>2, <3>1 DEF SaidDown
  <2> DEFINE wl == WelcomeOf(w.auth)
             pw == Payload(w.answered)
             py == Payload(y.answered)
             o  == <<x>>
  <2>7. wl \in Seq(SocksElement) /\ pw \in Seq(SocksElement) /\ o \in Seq(SocksElement)
    BY <1>1, <2>5, SaidType
  <2>8. py = pw \o o
    <3>1. Payload(w.answered + 1) = Payload(w.answered) \o <<<<"data", w.answered + 1>>>>
      BY <1>2, WelcomeIs
    <3> QED BY <1>2, <2>2, <3>1 DEF x
  <2> HIDE DEF wl, pw, py, o
  <2>9. SaidDown(y) = WelcomeOf(y.auth) \o Payload(y.answered)
    <3>1. (wl \o pw) \o o = wl \o (pw \o o)
      BY ONLY <2>7, ConcatAssociative
    <3>2. SaidDown(y) = (wl \o pw) \o o
      BY <2>4, <2>6 DEF wl, pw, o
    <3>3. SaidDown(y) = wl \o py
      BY <2>8, <3>1, <3>2
    <3> QED BY <1>2, <2>2, <3>3 DEF wl, py
  <2>10. IsSession(y) /\ Proven(y) /\ SaidUp(y) = SaidUp(w)
    BY <1>2, <2>2, <2>4 DEF SessionLife, Proven, SaidUp
  <2>11. News(y)
    <3> DEFINE s == WelcomeOf(y.auth)
               q == Payload(y.answered)
               z == s \o q
    <3>1. s \in Seq(SocksElement) /\ q \in Seq(SocksElement) /\ z \in Seq(SocksElement)
      BY <2>10, SaidType
    <3>2. SaidDown(y) = z
      BY <2>9
    <3>3. Len(s) <= Len(z)
      <4> HIDE DEF s, q
      <4>1. Len(s \o q) = Len(s) + Len(q) /\ Len(s) \in Nat /\ Len(q) \in Nat
        BY <3>1, ConcatProperties, LenProperties
      <4> QED BY <4>1
    <3>4. Leads(z, z)
      <4> HIDE DEF z
      <4> QED BY <3>1, LeadsFacts
    <3> QED BY <2>10, <3>2, <3>3, <3>4 DEF News
  <2>12. FlowInv(y)
    BY <1>2, <1>3, <1>4, <2>2, <2>4, <2>9, <2>10, <2>11 DEF FlowInv, Greets
  <2> QED BY <1>2, <2>2, <2>3, <2>12 DEF GoodSession, v, x, y
<1> QED BY <1>1, <1>5, <1>6

\* What a connection writes was said before.
LEMMA WriteKeeps ==
  ASSUME NEW w, GoodSession(w), NEW side \in {"down", "up"}, w[side].out # << >>
  PROVE  GoodSession([w EXCEPT ![side].out = Tail(@), ![side].got = Append(@, Head(w[side].out))])
<1> DEFINE v == [w EXCEPT ![side].out = Tail(@), ![side].got = Append(@, Head(w[side].out))]
<1>1. /\ SessionLife(v) /\ v.phase = w.phase /\ v.auth = w.auth /\ v.script = w.script
      /\ v.arrived = w.arrived /\ v.answered = w.answered /\ v.buffer = w.buffer
      /\ v.preserved = w.preserved
      /\ v.up.got \o v.up.out = w.up.got \o w.up.out
      /\ v.down.got \o v.down.out = w.down.got \o w.down.out
  BY WriteIs DEF GoodSession
<1> HIDE DEF v
<1>2. SaidUp(v) = SaidUp(w) /\ SaidDown(v) = SaidDown(w)
  BY <1>1 DEF SaidUp, SaidDown
<1>3. FlowInv(w)
  BY DEF GoodSession
<1>4. News(v)
  BY <1>1, <1>2, <1>3 DEF FlowInv, News, Proven
<1>5. FlowInv(v)
  <2>1. Greets(v) = Greets(w) /\ Answered(v) = Answered(w) /\ Proven(v) = Proven(w)
    BY <1>1 DEF Greets, Answered, Proven
  <2> QED BY <1>1, <1>2, <1>3, <1>4, <2>1 DEF FlowInv
<1> QED BY <1>1, <1>5 DEF GoodSession, v

\* A timer fires.
LEMMA TimerKeeps ==
  ASSUME NEW w, GoodSession(w), NEW timer \in w.timers
  PROVE  LET v == [w EXCEPT !.timers = @ \ {timer}]
         IN  GoodSession(CASE ~Alive(v) -> v
                           [] Alive(v) /\ timer = "handshake" -> Release(HandshakeTimeout(v))
                           [] Alive(v) /\ timer = "connect" -> Release(ConnectTimeout(v))
                           [] OTHER -> Release(IdleTimeout(v)))
<1> DEFINE v == [w EXCEPT !.timers = @ \ {timer}]
           x == CASE ~Alive(v) -> v
                  [] Alive(v) /\ timer = "handshake" -> Release(HandshakeTimeout(v))
                  [] Alive(v) /\ timer = "connect" -> Release(ConnectTimeout(v))
                  [] OTHER -> Release(IdleTimeout(v))
<1>1. Over(w, x, IF w.phase \in {"request", "connecting"} THEN w.down.out \o Reply("failure")
                 ELSE w.down.out)
  BY TimerEnds DEF GoodSession
<1> HIDE DEF x
<1>2. CASE w.phase \in {"request", "connecting"}
  <2>1. Over(w, x, w.down.out \o Reply("failure"))
    BY <1>1, <1>2
  <2>2. GoodSession(x)
    BY <1>2, <2>1, RefusedFlow DEF SocksCodes, Greets
  <2> QED BY <2>2 DEF x
<1>3. CASE w.phase \notin {"request", "connecting"}
  <2>1. Over(w, x, w.down.out)
    BY <1>1, <1>3
  <2>2. EndsAs(w, x)
    BY <2>1 DEF EndsAs, Over, SameStreams
  <2>3. GoodSession(x)
    BY <2>2, EndsFlow
  <2> QED BY <2>3 DEF x
<1> QED BY <1>2, <1>3

\* The inductive invariant.
SocksInv == GoodSession(proxy)

\* Every step of the session keeps it.
LEMMA SocksStepKeeps == ASSUME SocksInv, SocksNext PROVE SocksInv'
<1> SUFFICES GoodSession(proxy')
  BY DEF SocksInv
<1>a. GoodSession(proxy) /\ SessionLife(proxy)
  BY DEF SocksInv, GoodSession
<1>1. ASSUME NEW n \in 1..(6 + MaxUploads), NEW fails \in BOOLEAN, DownstreamReads(n, fails)
      PROVE  GoodSession(proxy')
  <2>1. proxy.down.reading /\ n \in 1..Len(proxy.script)
    BY <1>1 DEF DownstreamReads
  <2> QED BY <1>1, <1>a, <2>1, ReadKeeps DEF DownstreamReads
<1>2. CASE DownstreamCloses
  <2>1. Open(proxy, "down") /\ proxy' = HandleCloseOf(proxy, "down")
    BY <1>2 DEF DownstreamCloses
  <2>2. EndsAs(proxy, HandleCloseOf(proxy, "down"))
    BY <1>a, <2>1, DownCloses
  <2> QED BY <1>a, <2>1, <2>2, EndsFlow
<1>3. CASE UpstreamConnects
  <2>1. proxy.connecting
    BY <1>3 DEF UpstreamConnects
  <2> DEFINE x == LET v == Connected(proxy) IN IF Alive(v) THEN OnUpstreamConnection(v) ELSE v
  <2>2. GoodSession(x)
    BY <1>a, <2>1, ConnectKeeps
  <2>3. proxy' = x
    BY <1>3 DEF UpstreamConnects, Connected
  <2> QED BY <2>2, <2>3
<1>4. CASE UpstreamFails
  <2> DEFINE v == [proxy EXCEPT !.connecting = FALSE]
             x == IF Alive(v) THEN OnConnectFailed(v) ELSE v
  <2>1. proxy.connecting /\ proxy' = x
    BY <1>4 DEF UpstreamFails
  <2>2. proxy.phase = "connecting" /\ Over(proxy, x, proxy.down.out \o Reply("failure"))
    BY <1>a, <2>1, FailsIs
  <2> HIDE DEF x
  <2>3. GoodSession(x)
    BY <1>a, <2>2, RefusedFlow DEF SocksCodes
  <2> QED BY <2>1, <2>3
<1>5. CASE UpstreamAnswers
  <2> DEFINE v == [proxy EXCEPT !.answered = @ + 1]
             x == IF Alive(v) THEN Release(OnUpstreamMessage(v, <<"data", v.answered>>)) ELSE v
  <2>1. Open(proxy, "up") /\ proxy' = x
    BY <1>5 DEF UpstreamAnswers
  <2>2. GoodSession(x)
    BY <1>a, <2>1, AnswerKeeps
  <2> QED BY <2>1, <2>2
<1>6. CASE UpstreamCloses
  <2>1. Open(proxy, "up") /\ proxy' = HandleCloseOf(proxy, "up")
    BY <1>6 DEF UpstreamCloses
  <2>2. EndsAs(proxy, HandleCloseOf(proxy, "up"))
    BY <1>a, <2>1, UpCloses
  <2> QED BY <1>a, <2>1, <2>2, EndsFlow
<1>7. ASSUME NEW side \in {"down", "up"}, Writes(side) PROVE GoodSession(proxy')
  <2>1. proxy[side].out # << >>
        /\ proxy' = [proxy EXCEPT ![side].out = Tail(@), ![side].got = Append(@, Head(proxy[side].out))]
    BY <1>7 DEF Writes
  <2> QED BY <1>a, <2>1, WriteKeeps
<1>8. ASSUME NEW timer \in {"handshake", "connect", "idle"}, TimerFires(timer) PROVE GoodSession(proxy')
  <2> DEFINE v == [proxy EXCEPT !.timers = @ \ {timer}]
             x == CASE ~Alive(v) -> v
                    [] Alive(v) /\ timer = "handshake" -> Release(HandshakeTimeout(v))
                    [] Alive(v) /\ timer = "connect" -> Release(ConnectTimeout(v))
                    [] OTHER -> Release(IdleTimeout(v))
  <2>1. timer \in proxy.timers /\ proxy' = x
    BY <1>8 DEF TimerFires
  <2>2. GoodSession(x)
    BY <1>a, <2>1, TimerKeeps
  <2> HIDE DEF x
  <2> QED BY <2>1, <2>2
<1>9. CASE RunSocksFunctor
  <2> DEFINE what == Head(proxy.functors)
             v == [proxy EXCEPT !.functors = Tail(@)]
             x == IF what = "cleanup"
                  THEN Release([DestroyClient(v) EXCEPT !.upstream = FALSE, !.hold = FALSE])
                  ELSE HandleCloseOf(v, what)
  <2>1. proxy.functors # << >> /\ proxy' = x
    BY <1>9 DEF RunSocksFunctor
  <2>2. EndsAs(proxy, x)
    BY <1>a, <2>1, FunctorRuns
  <2> HIDE DEF x
  <2> QED BY <1>a, <2>1, <2>2, EndsFlow
<1> QED BY <1>1, <1>2, <1>3, <1>4, <1>5, <1>6, <1>7, <1>8, <1>9 DEF SocksNext

\* What the invariant says of the streams.
LEMMA SocksRelays == ASSUME SocksInv PROVE RelayFaithful
<1> DEFINE E == SocksElement
           up == SaidUp(proxy)
           dn == SaidDown(proxy)
           pa == PayloadOf(proxy.arrived)
           wl == WelcomeOf(proxy.auth)
           pw == Payload(proxy.answered)
           all == wl \o pw
<1>1. SessionLife(proxy) /\ FlowInv(proxy) /\ IsSession(proxy)
  BY DEF SocksInv, GoodSession, SessionLife
<1>2. /\ Sent("up") = up /\ Sent("down") = dn /\ ArrivedPayload = pa /\ Welcome = wl
      /\ Payload(proxy.answered) = pw
  BY DEF Sent, SaidUp, SaidDown, ArrivedPayload, Welcome, WelcomeOf, Asked
<1>3. /\ up \in Seq(E) /\ dn \in Seq(E) /\ pa \in Seq(E) /\ wl \in Seq(E) /\ pw \in Seq(E)
      /\ all \in Seq(E)
  BY <1>1, SaidType
<1>4. IsPrefix(up, pa)
  <2>1. Leads(up, pa)
    BY <1>1 DEF FlowInv
  <2> HIDE DEF up, pa
  <2> QED BY <1>3, <2>1, LeadsIs
<1>5. proxy.phase = "relay" => up = pa /\ dn = all
  BY <1>1 DEF FlowInv
<1>6. ASSUME NEW i \in DOMAIN dn, dn[i][1] \in {"success", "data"}
      PROVE  /\ IsPrefix(wl, dn) /\ IsPrefix(dn, all)
             /\ proxy.auth => Contains(proxy.arrived, <<"right", "rest">>)
  <2>1. i \in 1..Len(dn)
    <3> HIDE DEF dn, E
    <3> QED BY <1>3, <1>6
  <2>2. ~Quiet(dn)
    BY <1>6, <2>1 DEF Quiet
  <2>3. Leads(dn, all) /\ Len(wl) <= Len(dn) /\ Proven(proxy)
    BY <1>1, <2>2 DEF FlowInv, News
  <2>4. proxy.auth => Contains(proxy.arrived, <<"right", "rest">>)
    BY <2>3 DEF Proven, Has, Contains
  <2> HIDE DEF dn
  <2>5. IsPrefix(dn, all)
    <3> HIDE DEF all
    <3> QED BY <1>3, <2>3, LeadsIs
  <2>6. Leads(wl, dn)
    <3>1. \A j \in 1..Len(wl) : all[j] = wl[j]
      <4> HIDE DEF wl, pw
      <4>1. Leads(wl, wl \o pw)
        BY <1>3, LeadsFacts
      <4> QED BY <4>1 DEF Leads
    <3> HIDE DEF all, wl
    <3>2. Len(wl) \in Nat /\ Len(dn) \in Nat
      BY <1>3
    <3> QED BY <2>3, <3>1, <3>2 DEF Leads
  <2>7. IsPrefix(wl, dn)
    <3> HIDE DEF wl
    <3> QED BY <1>3, <2>6, LeadsIs
  <2> QED BY <2>4, <2>5, <2>7
<1> HIDE DEF up, dn, pa, wl, pw
<1> QED BY <1>2, <1>4, <1>5, <1>6 DEF RelayFaithful

\* What the invariant says of what the session holds.
LEMMA SocksOwns == ASSUME SocksInv PROVE SessionOwned
<1>1. SessionLife(proxy) /\ IsSession(proxy)
  BY DEF SocksInv, GoodSession, SessionLife
<1>2. proxy.timers = CASE proxy.phase = "closed" -> {}
                       [] proxy.phase = "connecting" -> {"connect"}
                       [] proxy.phase = "relay" -> IF proxy.idles THEN {"idle"} ELSE {}
                       [] OTHER -> {"handshake"}
  BY <1>1 DEF SessionLife, OverLife, Greets, IsSession
<1>3. ASSUME proxy.functors = << >>
      PROVE  /\ proxy.phase = "closed" => ~proxy.client /\ ~proxy.connecting /\ ~Open(proxy, "up")
             /\ proxy.down.state = "disconnected" => ~Alive(proxy)
  <2>1. ~Has(proxy.functors, "cleanup") /\ ~ClosesFirst(proxy.functors)
        /\ ~Contains(proxy.functors, "cleanup")
    BY <1>3 DEF Has, ClosesFirst, Contains
  <2> QED BY <1>1, <2>1 DEF SessionLife, OverLife, Open, Alive
<1>4. Open(proxy, "down") /\ ~proxy.down.reading =>
        proxy.phase \in {"connecting", "closed"} /\ proxy.up.state = "none"
  BY <1>1 DEF SessionLife, OverLife, Heeds, Greets, Open, IsSession
<1> QED BY <1>1, <1>2, <1>3, <1>4 DEF SessionOwned, SessionLife

\* A SOCKS5 session passes the client's payload on in order and complete, tells the client
\* of success only after the handshake asked for, and everything it holds has an owner and
\* an end (handle_request, on_upstream_connection, relay_downstream, close(),
\* schedule_upstream_cleanup): for every number of elements in both directions.
THEOREM ProxyStaysFaithful == SocksSpec => []ProxyFaithful
<1>1. SocksInit => SocksInv
  BY SocksInitGood DEF SocksInv
<1>2. SocksInv /\ [SocksNext]_proxy => SocksInv'
  <2> SUFFICES ASSUME SocksInv, [SocksNext]_proxy PROVE SocksInv'
    OBVIOUS
  <2>1. CASE SocksNext
    BY <2>1, SocksStepKeeps
  <2>2. CASE UNCHANGED proxy
    BY <2>2 DEF SocksInv
  <2> QED BY <2>1, <2>2
<1>3. SocksInv => ProxyFaithful
  BY SocksRelays, SocksOwns DEF ProxyFaithful
<1> QED BY <1>1, <1>2, <1>3, PTL DEF SocksSpec
=============================================================================
