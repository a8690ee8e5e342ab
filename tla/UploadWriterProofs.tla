-------------------------- MODULE UploadWriterProofs --------------------------
(***************************************************************************)
(* Theorems about UploadWriter, for every set of uploads, every block size *)
(* and every limit: a file that is renamed holds its upload, and uploads   *)
(* of one name do not meet in a file.                                      *)
(***************************************************************************)
EXTENDS UploadWriter, FoldLemmas

-----------------------------------------------------------------------------
(* The invariant.                                                          *)

\* What has been given to a session r is in its part file f, in the block b of the worker,
\* in the ready blocks and in the pending block, in this order and without a gap.
Pieces(r, f, b) ==
  \E p \in [1..Len(r.ready) + 1 -> 0..r.got] :
    /\ f = Bytes(0, Len(f)) /\ Len(f) <= p[1] /\ b = Bytes(Len(f), p[1])
    /\ \A k \in 1..Len(r.ready) : p[k] <= p[k + 1] /\ r.ready[k] = Bytes(p[k], p[k + 1])
    /\ r.block = Bytes(p[Len(r.ready) + 1], r.got)

\* The session is taken to its end.
Good(r) == ~r.canceled /\ ~r.failed

\* finish() has emptied the pending block, and the worker stops when it has all the rest.
\* w is where the worker is, k its local ok, and res its result.
Content(r, f, b, w, k, res) ==
  /\ w \in {"none", "queued", "open", "wait", "low", "write"} /\ Good(r) /\ k => Pieces(r, f, b)
  /\ w \notin {"low", "write"} => b = << >>
  /\ r.finished /\ Good(r) => r.block = << >>
  /\ w \in {"close", "decide"} /\ Good(r) /\ k => r.finished /\ f = Bytes(0, r.got)
  /\ res = "ok" => r.finished /\ f = Bytes(0, r.got)
  /\ res # "none" => w \in {"rename", "release", "report", "ended"}

ContentInv(s) == Content(ses[s], file[s], taken[s], wpc[s], ok[s], result[s])

\* Where a session is when its result is known, and whose file a path is.
ResultInv(s) ==
  /\ wpc[s] = "rename" => result[s] = "ok"
  /\ \A i \in Indices : disk[i] = s =>
       result[s] = "ok" /\ path[s] = i /\ wpc[s] \in {"release", "report", "ended"}
  /\ result[s] = "ok" /\ wpc[s] \in {"release", "report", "ended"} => disk[path[s]] # NoOne
  /\ result[s] = "ok" /\ wpc[s] = "release" => disk[path[s]] = s

\* Paths under way are reserved, by one upload each, and nothing else is.
PathInv ==
  /\ \A s \in Sessions : Live(s) => path[s] \in reserved
  /\ \A s, t \in Sessions : Live(s) /\ Live(t) /\ path[s] = path[t] => s = t
  /\ \A i \in reserved : \E s \in Sessions : Live(s) /\ path[s] = i

\* A completed upload meets only those that may overwrite it.
Meet(s, t) ==
  wpc[s] \in {"report", "ended"} /\ result[s] = "ok" /\ s # t =>
    /\ Live(t) /\ path[t] = path[s] => t \in Overwriting
    /\ disk[path[s]] = t => t \in Overwriting

\* The variables as far as the proof needs their shape.
SesFields == {"ready", "block", "got", "finished", "canceled", "failed", "done", "above",
              "queued", "written"}

IsSes(r) == DOMAIN r = SesFields /\ r.ready \in Seq(Seq(Nat)) /\ r.block \in Seq(Nat) /\ r.got \in Nat

ShapeInv ==
  /\ DOMAIN ses = Sessions /\ DOMAIN wpc = Sessions /\ DOMAIN ok = Sessions
  /\ DOMAIN taken = Sessions /\ DOMAIN file = Sessions /\ DOMAIN result = Sessions
  /\ \A s \in Sessions : IsSes(ses[s]) /\ file[s] \in Seq(Nat) /\ taken[s] \in Seq(Nat)
  /\ path \in [Sessions -> Indices] /\ disk \in [Indices -> Sessions \cup {NoOne}]

UploadInv ==
  /\ ShapeInv
  /\ \A s \in Sessions : ContentInv(s) /\ ResultInv(s)
  /\ PathInv
  /\ \A s, t \in Sessions : Meet(s, t)

-----------------------------------------------------------------------------
(* Runs of bytes.                                                          *)

\* A run has its length and its bytes.
LEMMA BytesShape ==
  ASSUME NEW a \in Nat, NEW b \in Nat, a <= b
  PROVE  /\ Bytes(a, b) \in Seq(Nat) /\ Len(Bytes(a, b)) = b - a /\ b - a \in Nat
         /\ \A i \in 1..b - a : Bytes(a, b)[i] = a + i
         /\ Bytes(a, b) = << >> <=> a = b
<1>1. b - a \in Nat
  OBVIOUS
<1>2. /\ Bytes(a, b) \in [1..b - a -> Nat]
      /\ \A i \in 1..b - a : Bytes(a, b)[i] = a + i
  BY DEF Bytes
<1>3. Bytes(a, b) \in Seq(Nat) /\ Len(Bytes(a, b)) = b - a
  BY <1>1, <1>2
<1> QED BY <1>1, <1>2, <1>3

\* The empty run, and the first a bytes.
LEMMA BytesNone ==
  ASSUME NEW a \in Nat
  PROVE  Bytes(a, a) = << >> /\ Len(Bytes(0, a)) = a
<1>1. 0 \in Nat /\ 0 <= a /\ a <= a /\ a - 0 = a
  OBVIOUS
<1>2. Bytes(a, a) = << >>
  BY <1>1, BytesShape
<1>3. Len(Bytes(0, a)) = a - 0
  BY <1>1, BytesShape
<1> QED BY <1>1, <1>2, <1>3

\* A run behind the one before it.
LEMMA BytesJoin ==
  ASSUME NEW a \in Nat, NEW b \in Nat, NEW c \in Nat, a <= b, b <= c
  PROVE  Bytes(a, b) \o Bytes(b, c) = Bytes(a, c)
<1> DEFINE q == Bytes(a, b)
           r == Bytes(b, c)
           u == Bytes(a, c)
<1>1. q \in Seq(Nat) /\ Len(q) = b - a /\ \A i \in 1..b - a : q[i] = a + i
  BY BytesShape
<1>2. r \in Seq(Nat) /\ Len(r) = c - b /\ \A i \in 1..c - b : r[i] = b + i
  BY BytesShape
<1>3. u \in Seq(Nat) /\ Len(u) = c - a /\ \A i \in 1..c - a : u[i] = a + i
  BY BytesShape
<1> HIDE DEF q, r, u
<1>4. q \o r \in Seq(Nat) /\ Len(q \o r) = c - a
  <2>1. q \o r \in Seq(Nat) /\ Len(q \o r) = Len(q) + Len(r)
    BY <1>1, <1>2, ConcatProperties
  <2> QED BY <1>1, <1>2, <2>1
<1>5. ASSUME NEW i \in 1..c - a
      PROVE  (q \o r)[i] = u[i]
  <2>1. (q \o r)[i] = IF i <= Len(q) THEN q[i] ELSE r[i - Len(q)]
    BY <1>1, <1>2, ConcatProperties
  <2>2. CASE i <= b - a
    BY <1>1, <1>3, <2>1, <2>2
  <2>3. CASE ~(i <= b - a)
    <3>1. i - (b - a) \in 1..c - b /\ b + (i - (b - a)) = a + i
      BY <2>3
    <3> QED BY <1>1, <1>2, <1>3, <2>1, <2>3, <3>1
  <2> QED BY <2>2, <2>3
<1>6. q \o r = u
  BY <1>3, <1>4, <1>5, SeqEqual
<1> QED BY <1>6 DEF q, r, u

\* A stretch of a run.
LEMMA BytesCut ==
  ASSUME NEW a \in Nat, NEW b \in Nat, a <= b, NEW i \in Nat, NEW j \in Nat, i <= j, j <= b - a
  PROVE  SubSeq(Bytes(a, b), i + 1, j) = Bytes(a + i, a + j)
<1> DEFINE q == Bytes(a, b)
           u == Bytes(a + i, a + j)
<1>1. q \in Seq(Nat) /\ Len(q) = b - a /\ \A k \in 1..b - a : q[k] = a + k
  BY BytesShape
<1>2. u \in Seq(Nat) /\ Len(u) = (a + j) - (a + i) /\ \A k \in 1..(a + j) - (a + i) : u[k] = (a + i) + k
  <2>1. a + i \in Nat /\ a + j \in Nat /\ a + i <= a + j
    OBVIOUS
  <2> QED BY <2>1, BytesShape
<1>3. (a + j) - (a + i) = j - i /\ j - i \in Nat
  OBVIOUS
<1> HIDE DEF q, u
<1>4. \A k \in i + 1..j : q[k] \in Nat
  BY <1>1
<1>5. /\ SubSeq(q, i + 1, j) \in Seq(Nat) /\ Len(SubSeq(q, i + 1, j)) = j - i
      /\ \A k \in 1..j - i : SubSeq(q, i + 1, j)[k] = q[i + k]
  <2>1. i + 1 \in Int /\ j \in Int
    OBVIOUS
  <2>2. /\ SubSeq(q, i + 1, j) \in Seq(Nat)
        /\ Len(SubSeq(q, i + 1, j)) = IF i + 1 <= j THEN j - (i + 1) + 1 ELSE 0
        /\ \A k \in 1..j - (i + 1) + 1 : SubSeq(q, i + 1, j)[k] = q[i + 1 + k - 1]
    BY <1>4, <2>1, SubSeqProperties
  <2>3. j - (i + 1) + 1 = j - i /\ \A k \in 1..j - i : i + 1 + k - 1 = i + k
    OBVIOUS
  <2> QED BY <2>2, <2>3
<1>6. \A k \in 1..j - i : i + k \in 1..b - a /\ a + (i + k) = (a + i) + k
  OBVIOUS
<1>7. \A k \in 1..j - i : SubSeq(q, i + 1, j)[k] = u[k]
  BY <1>1, <1>2, <1>3, <1>5, <1>6
<1>8. SubSeq(q, i + 1, j) = u
  BY <1>2, <1>3, <1>5, <1>7, SeqEqual
<1> QED BY <1>8 DEF q, u

\* All the stretches of a run.
Cuts(a, b) ==
  \A i, j \in Nat : i <= j /\ j <= b - a => SubSeq(Bytes(a, b), i + 1, j) = Bytes(a + i, a + j)

\* A run may be cut anywhere.
LEMMA BytesCuts == ASSUME NEW a \in Nat, NEW b \in Nat, a <= b PROVE Cuts(a, b)
BY BytesCut DEF Cuts

-----------------------------------------------------------------------------
(* The copy into blocks.                                                   *)

\* The full blocks of a length are inside it.
LEMMA BlocksFit ==
  ASSUME NEW l \in Nat, NEW size \in Nat \ {0}
  PROVE  /\ l \div size \in Nat /\ (l \div size) * size \in Nat /\ (l \div size) * size <= l
         /\ \A i \in 0..l \div size : i * size \in Nat /\ i * size <= (l \div size) * size
         /\ \A i \in 1..l \div size : (i - 1) * size \in Nat /\ (i - 1) * size <= i * size
         /\ 0 * size = 0
<1>1. l \div size \in Nat /\ (l \div size) * size <= l
  OBVIOUS
<1>2. ASSUME NEW m \in Nat, NEW i \in 0..m
      PROVE  i * size \in Nat /\ i * size <= m * size
  <2>1. m * size = i * size + (m - i) * size
    OBVIOUS
  <2>2. (m - i) * size \in Nat /\ i * size \in Nat
    OBVIOUS
  <2> QED BY <2>1, <2>2
<1>3. ASSUME NEW i \in 1..l \div size
      PROVE  (i - 1) * size \in Nat /\ (i - 1) * size <= i * size
  <2>1. i \in Nat /\ i - 1 \in 0..i
    BY <1>1
  <2> QED BY <1>2, <2>1
<1>4. (l \div size) * size \in Nat /\ 0 * size = 0
  BY <1>1
<1> QED BY <1>1, <1>2, <1>3, <1>4

\* append's copy: a record of the same kind, with n more bytes.
LEMMA FillShape ==
  ASSUME NEW r, IsSes(r), NEW n \in Nat
  PROVE  LET all == r.block \o Bytes(r.got, r.got + n)
             full == Len(all) \div BlockSize
             blocks == [i \in 1..full |-> SubSeq(all, (i - 1) * BlockSize + 1, i * BlockSize)]
             rest == SubSeq(all, full * BlockSize + 1, Len(all))
         IN  /\ IsSes(Fill(r, n)) /\ blocks \in Seq(Seq(Nat)) /\ Len(blocks) = full
             /\ Fill(r, n).ready = r.ready \o blocks /\ Fill(r, n).block = rest
             /\ Fill(r, n).got = r.got + n /\ Fill(r, n).finished = r.finished
             /\ Fill(r, n).canceled = r.canceled /\ Fill(r, n).failed = r.failed
<1> DEFINE all == r.block \o Bytes(r.got, r.got + n)
           full == Len(all) \div BlockSize
           blocks == [i \in 1..full |-> SubSeq(all, (i - 1) * BlockSize + 1, i * BlockSize)]
           rest == SubSeq(all, full * BlockSize + 1, Len(all))
<1>1. r.got \in Nat /\ r.got + n \in Nat /\ r.got <= r.got + n /\ r.block \in Seq(Nat) /\ r.ready \in Seq(Seq(Nat))
      /\ DOMAIN r = SesFields
  BY DEF IsSes
<1>2. all \in Seq(Nat) /\ Len(all) \in Nat
  <2>1. Bytes(r.got, r.got + n) \in Seq(Nat)
    BY <1>1, BytesShape
  <2>2. all \in Seq(Nat)
    BY <1>1, <2>1, ConcatProperties
  <2> HIDE DEF all
  <2> QED BY <2>2
<1>3. BlockSize \in Nat \ {0}
  BY UploadAssumption
<1> HIDE DEF all
<1>4. /\ full \in Nat /\ full * BlockSize \in Nat /\ full * BlockSize <= Len(all)
      /\ \A i \in 0..full : i * BlockSize \in Nat /\ i * BlockSize <= full * BlockSize
      /\ \A i \in 1..full : (i - 1) * BlockSize \in Nat /\ (i - 1) * BlockSize <= i * BlockSize
  BY <1>2, <1>3, BlocksFit
<1> HIDE DEF full
<1>5. ASSUME NEW a \in Nat, NEW b \in Nat, b <= Len(all)
      PROVE  SubSeq(all, a + 1, b) \in Seq(Nat)
  <2>1. \A k \in a + 1..b : all[k] \in Nat
    BY <1>2, <1>5
  <2>2. a + 1 \in Int /\ b \in Int
    OBVIOUS
  <2> QED BY <2>1, <2>2, SubSeqProperties
<1>6. rest \in Seq(Nat)
  BY <1>2, <1>4, <1>5
<1>7. \A i \in 1..full : SubSeq(all, (i - 1) * BlockSize + 1, i * BlockSize) \in Seq(Nat)
  <2>1. ASSUME NEW i \in 1..full
        PROVE  (i - 1) * BlockSize \in Nat /\ i * BlockSize \in Nat /\ i * BlockSize <= Len(all)
    <3>1. i \in 0..full
      BY <1>4
    <3>2. i * BlockSize \in Nat /\ i * BlockSize <= full * BlockSize
      BY <1>4, <3>1
    <3> QED BY <1>2, <1>4, <3>2
  <2> QED BY <1>5, <2>1
<1>8. blocks \in Seq(Seq(Nat)) /\ Len(blocks) = full
  <2>1. blocks \in [1..full -> Seq(Nat)]
    BY <1>7
  <2> HIDE DEF blocks
  <2> QED BY <1>4, <2>1
<1>9. Fill(r, n) = [r EXCEPT !.ready = @ \o blocks, !.block = rest, !.got = @ + n, !.queued = @ + n,
                             !.above = @ \/ r.queued + n >= HighMark]
  BY DEF Fill, all, full
<1> HIDE DEF blocks, rest
<1>10. /\ DOMAIN Fill(r, n) = SesFields
       /\ Fill(r, n).ready = r.ready \o blocks /\ Fill(r, n).block = rest
       /\ Fill(r, n).got = r.got + n /\ Fill(r, n).finished = r.finished
       /\ Fill(r, n).canceled = r.canceled /\ Fill(r, n).failed = r.failed
  BY <1>1, <1>9 DEF SesFields
<1>11. r.ready \o blocks \in Seq(Seq(Nat))
  BY <1>1, <1>8, ConcatProperties
<1>12. IsSes(Fill(r, n))
  BY <1>1, <1>6, <1>10, <1>11 DEF IsSes
<1> QED BY <1>8, <1>10, <1>12 DEF all, full, blocks, rest

\* ... and the pieces follow one another as before.
LEMMA FillKeeps ==
  ASSUME NEW r, IsSes(r), NEW n \in Nat, NEW f \in Seq(Nat), NEW b, Pieces(r, f, b)
  PROVE  Pieces(Fill(r, n), f, b)
<1> DEFINE l == Len(r.ready)
           got == r.got + n
<1>1. r.got \in Nat /\ got \in Nat /\ r.got <= got /\ l \in Nat /\ r.ready \in Seq(Seq(Nat)) /\ Len(f) \in Nat
  BY DEF IsSes
<1>2. PICK p \in [1..l + 1 -> 0..r.got] :
        /\ f = Bytes(0, Len(f)) /\ Len(f) <= p[1] /\ b = Bytes(Len(f), p[1])
        /\ \A k \in 1..l : p[k] <= p[k + 1] /\ r.ready[k] = Bytes(p[k], p[k + 1])
        /\ r.block = Bytes(p[l + 1], r.got)
  BY DEF Pieces
<1> DEFINE c == p[l + 1]
           size == got - c
           full == size \div BlockSize
           q == [k \in 1..l + full + 1 |-> IF k <= l + 1 THEN p[k] ELSE c + (k - (l + 1)) * BlockSize]
           all == Bytes(c, got)
           blocks == [i \in 1..full |-> SubSeq(all, (i - 1) * BlockSize + 1, i * BlockSize)]
<1>3. c \in Nat /\ c <= r.got /\ size \in Nat /\ c <= got /\ c + size = got /\ l + 1 \in 1..l + 1
  BY <1>1, <1>2
<1>4. r.block \o Bytes(r.got, r.got + n) = all
  <2>1. r.block = Bytes(c, r.got)
    BY <1>2
  <2> HIDE DEF c, got
  <2>2. Bytes(c, r.got) \o Bytes(r.got, got) = Bytes(c, got)
    BY <1>1, <1>3, BytesJoin
  <2> QED BY <2>1, <2>2 DEF got
<1>5. Len(all) = size
  BY <1>1, <1>3, BytesShape
<1>6. BlockSize \in Nat \ {0}
  BY UploadAssumption
<1> HIDE DEF l, got, c, size, all
<1>7. /\ full \in Nat /\ full * BlockSize \in Nat /\ full * BlockSize <= size
      /\ \A i \in 0..full : i * BlockSize \in Nat /\ i * BlockSize <= full * BlockSize
      /\ \A i \in 1..full : (i - 1) * BlockSize \in Nat /\ (i - 1) * BlockSize <= i * BlockSize
      /\ 0 * BlockSize = 0
  BY <1>3, <1>6, BlocksFit
<1>8. /\ Fill(r, n).ready = r.ready \o blocks /\ blocks \in Seq(Seq(Nat)) /\ Len(blocks) = full
      /\ Fill(r, n).block = SubSeq(all, full * BlockSize + 1, size) /\ Fill(r, n).got = got
  BY <1>4, <1>5, FillShape DEF got
<1> HIDE DEF full
<1> DEFINE end == full * BlockSize
<1>9. end \in Nat /\ end <= size
  BY <1>7
<1>10. \A x, y \in Nat : x <= y /\ y <= size => SubSeq(all, x + 1, y) = Bytes(c + x, c + y)
  <2>1. Cuts(c, got)
    BY <1>1, <1>3, BytesCuts
  <2> QED BY <2>1, Zenon DEF Cuts, all, size
<1>11. \A i \in 1..full : blocks[i] = Bytes(c + (i - 1) * BlockSize, c + i * BlockSize)
  <2> SUFFICES ASSUME NEW i \in 1..full
               PROVE  SubSeq(all, (i - 1) * BlockSize + 1, i * BlockSize)
                        = Bytes(c + (i - 1) * BlockSize, c + i * BlockSize)
    OBVIOUS
  <2>1. i \in 0..full
    BY <1>7
  <2>2. /\ (i - 1) * BlockSize \in Nat /\ i * BlockSize \in Nat /\ (i - 1) * BlockSize <= i * BlockSize
        /\ i * BlockSize <= size
    <3>1. i * BlockSize \in Nat /\ i * BlockSize <= full * BlockSize
      BY <1>7, <2>1
    <3>2. (i - 1) * BlockSize \in Nat /\ (i - 1) * BlockSize <= i * BlockSize
      BY <1>7
    <3> QED BY <1>3, <1>7, <3>1, <3>2
  <2> QED BY <1>10, <2>2
<1>12. Fill(r, n).block = Bytes(c + full * BlockSize, got)
  <2>1. Fill(r, n).block = SubSeq(all, end + 1, size)
    BY <1>8
  <2> HIDE DEF end
  <2>2. SubSeq(all, end + 1, size) = Bytes(c + end, got)
    <3>1. size <= size /\ size \in Nat /\ end \in Nat /\ end <= size
      BY <1>3, <1>9
    <3>2. SubSeq(all, end + 1, size) = Bytes(c + end, c + size)
      BY <1>10, <3>1
    <3> QED BY <1>3, <3>2
  <2> QED BY <2>1, <2>2 DEF end
<1> HIDE DEF blocks
<1>13. ASSUME NEW k \in 1..l + full + 1
       PROVE  /\ k <= l + 1 => q[k] = p[k] /\ k \in 1..l + 1
              /\ k > l => q[k] = c + (k - (l + 1)) * BlockSize /\ k - (l + 1) \in 0..full
  <2>1. q[k] = IF k <= l + 1 THEN p[k] ELSE c + (k - (l + 1)) * BlockSize
    OBVIOUS
  <2>2. k > l => k - (l + 1) \in 0..full
    BY <1>1, <1>7
  <2>3. k = l + 1 => k - (l + 1) = 0 /\ p[k] = c + 0 * BlockSize
    BY <1>1, <1>3, <1>7 DEF c
  <2>4. k \in Nat /\ (k <= l + 1 => k \in 1..l + 1)
    BY <1>1, <1>7
  <2> HIDE DEF q
  <2>5. CASE k <= l
    BY <1>1, <2>1, <2>4, <2>5
  <2>6. CASE k = l + 1
    BY <1>1, <2>1, <2>2, <2>3, <2>4, <2>6
  <2>7. CASE k > l + 1
    BY <1>1, <2>1, <2>2, <2>4, <2>7
  <2> QED BY <1>1, <2>4, <2>5, <2>6, <2>7
<1>14. q \in [1..l + full + 1 -> 0..got]
  <2>1. ASSUME NEW k \in 1..l + full + 1
        PROVE  q[k] \in 0..got
    <3> HIDE DEF q
    <3>1. CASE k <= l
      BY <1>1, <1>2, <1>13, <3>1
    <3>2. CASE k > l
      <4>1. /\ (k - (l + 1)) * BlockSize \in Nat
            /\ (k - (l + 1)) * BlockSize <= end
        BY <1>7, <1>13, <3>2
      <4>2. q[k] = c + (k - (l + 1)) * BlockSize
        BY <1>13, <3>2
      <4> HIDE DEF end
      <4>3. \A x \in Nat : x <= end => c + x \in 0..got
        BY <1>1, <1>3, <1>9
      <4> QED BY <4>1, <4>2, <4>3
    <3> QED BY <1>1, <1>7, <3>1, <3>2
  <2> QED BY <2>1
<1> HIDE DEF q
<1>15. /\ Fill(r, n).ready \in Seq(Seq(Nat)) /\ Len(Fill(r, n).ready) = l + full
       /\ \A k \in 1..l + full : Fill(r, n).ready[k] = IF k <= l THEN r.ready[k] ELSE blocks[k - l]
  <2>1. /\ r.ready \o blocks \in Seq(Seq(Nat)) /\ Len(r.ready \o blocks) = Len(r.ready) + Len(blocks)
        /\ \A k \in 1..Len(r.ready) + Len(blocks) :
             (r.ready \o blocks)[k] = IF k <= Len(r.ready) THEN r.ready[k] ELSE blocks[k - Len(r.ready)]
    BY <1>1, <1>8, ConcatProperties
  <2> QED BY <1>8, <2>1 DEF l
<1>16. ASSUME NEW k \in 1..l + full
       PROVE  q[k] <= q[k + 1] /\ Fill(r, n).ready[k] = Bytes(q[k], q[k + 1])
  <2>1. k \in 1..l + full + 1 /\ k + 1 \in 1..l + full + 1
    BY <1>1, <1>7
  <2>2. CASE k <= l
    <3>1. q[k] = p[k] /\ q[k + 1] = p[k + 1] /\ k \in 1..l
      BY <1>1, <1>13, <2>1, <2>2
    <3> QED BY <1>2, <1>15, <2>2, <3>1 DEF l
  <2>3. CASE k > l
    <3>1. k - l \in 1..full /\ (k + 1) - (l + 1) = k - l /\ k - (l + 1) = (k - l) - 1
      BY <1>1, <1>7, <2>3
    <3>2. q[k] = c + ((k - l) - 1) * BlockSize /\ q[k + 1] = c + (k - l) * BlockSize
      <4>1. k + 1 > l
        BY <1>1, <2>3
      <4> QED BY <1>13, <2>1, <2>3, <3>1, <4>1
    <3>3. /\ ((k - l) - 1) * BlockSize \in Nat /\ (k - l) * BlockSize \in Nat
          /\ ((k - l) - 1) * BlockSize <= (k - l) * BlockSize
      <4>1. k - l \in 0..full
        BY <3>1
      <4> QED BY <1>7, <3>1, <4>1
    <3>4. Fill(r, n).ready[k] = blocks[k - l]
      <4>1. ~(k <= l)
        BY <1>1, <1>7, <2>3
      <4> QED BY <1>15, <4>1
    <3>5. q[k] <= q[k + 1]
      BY <1>3, <3>2, <3>3
    <3> QED BY <1>11, <3>1, <3>2, <3>4, <3>5
  <2> QED BY <1>1, <1>7, <2>2, <2>3
<1>17. q[1] = p[1] /\ q[l + full + 1] = c + full * BlockSize
  <2>1. 1 \in 1..l + full + 1 /\ l + full + 1 \in 1..l + full + 1 /\ 1 <= l + 1 /\ l + full + 1 > l
        /\ (l + full + 1) - (l + 1) = full
    BY <1>1, <1>7
  <2> QED BY <1>13, <2>1
<1>18. /\ f = Bytes(0, Len(f)) /\ Len(f) <= q[1] /\ b = Bytes(Len(f), q[1])
       /\ \A k \in 1..Len(Fill(r, n).ready) : q[k] <= q[k + 1] /\ Fill(r, n).ready[k] = Bytes(q[k], q[k + 1])
       /\ Fill(r, n).block = Bytes(q[Len(Fill(r, n).ready) + 1], Fill(r, n).got)
  BY <1>2, <1>8, <1>12, <1>15, <1>16, <1>17
<1>19. q \in [1..Len(Fill(r, n).ready) + 1 -> 0..Fill(r, n).got]
  BY <1>8, <1>14, <1>15
<1> QED BY <1>18, <1>19 DEF Pieces

-----------------------------------------------------------------------------
(* The blocks on their way to the file.                                    *)

\* What does not touch the blocks.
LEMMA SamePieces ==
  ASSUME NEW r, NEW q, NEW f, NEW b, q.ready = r.ready, q.block = r.block, q.got = r.got
  PROVE  Pieces(r, f, b) <=> Pieces(q, f, b)
BY DEF Pieces

\* finish: the pending block becomes the last of the ready ones.
LEMMA FlushKeeps ==
  ASSUME NEW r, IsSes(r), NEW f \in Seq(Nat), NEW b, NEW q, q = FlushPending(r)
  PROVE  /\ IsSes(q) /\ q.block = << >> /\ q.got = r.got /\ q.finished = r.finished
         /\ q.canceled = r.canceled /\ q.failed = r.failed
         /\ Pieces(r, f, b) => Pieces(q, f, b)
<1>1. CASE r.block = << >>
  BY <1>1 DEF FlushPending
<1>2. CASE r.block # << >>
  <2> DEFINE l == Len(r.ready)
  <2>1. r.ready \in Seq(Seq(Nat)) /\ r.block \in Seq(Nat) /\ r.got \in Nat /\ l \in Nat /\ DOMAIN r = SesFields
    BY DEF IsSes
  <2>2. q = [r EXCEPT !.ready = Append(r.ready, r.block), !.block = << >>]
    BY <1>2, <2>1 DEF FlushPending, SesFields
  <2>3. /\ DOMAIN q = SesFields /\ q.ready = Append(r.ready, r.block) /\ q.block = << >> /\ q.got = r.got
        /\ q.finished = r.finished /\ q.canceled = r.canceled /\ q.failed = r.failed
    BY <2>1, <2>2 DEF SesFields
  <2>4. /\ q.ready \in Seq(Seq(Nat)) /\ Len(q.ready) = l + 1 /\ q.ready[l + 1] = r.block
        /\ \A k \in 1..l : q.ready[k] = r.ready[k]
    <3> HIDE DEF l
    <3>1. /\ Append(r.ready, r.block) \in Seq(Seq(Nat)) /\ Len(Append(r.ready, r.block)) = Len(r.ready) + 1
          /\ Append(r.ready, r.block)[Len(r.ready) + 1] = r.block
          /\ \A k \in 1..Len(r.ready) : Append(r.ready, r.block)[k] = r.ready[k]
      BY <2>1, AppendProperties
    <3> QED BY <2>3, <3>1 DEF l
  <2>5. IsSes(q)
    BY <2>1, <2>3, <2>4 DEF IsSes
  <2>6. ASSUME Pieces(r, f, b) PROVE Pieces(q, f, b)
    <3>1. PICK p \in [1..l + 1 -> 0..r.got] :
            /\ f = Bytes(0, Len(f)) /\ Len(f) <= p[1] /\ b = Bytes(Len(f), p[1])
            /\ \A k \in 1..l : p[k] <= p[k + 1] /\ r.ready[k] = Bytes(p[k], p[k + 1])
            /\ r.block = Bytes(p[l + 1], r.got)
      BY <2>6 DEF Pieces
    <3> HIDE DEF l
    <3> DEFINE u == [k \in 1..l + 2 |-> IF k <= l + 1 THEN p[k] ELSE r.got]
    <3>2. u \in [1..l + 2 -> 0..r.got]
      BY <2>1, <3>1
    <3>3. u[1] = p[1] /\ u[l + 1] = p[l + 1] /\ u[l + 2] = r.got
          /\ \A k \in 1..l : u[k] = p[k] /\ u[k + 1] = p[k + 1]
      BY <2>1
    <3>4. p[l + 1] \in 0..r.got
      BY <2>1, <3>1
    <3> HIDE DEF u
    <3>5. l + 1 + 1 = l + 2 /\ \A k \in 1..l + 1 : k \in 1..l \/ k = l + 1
      BY <2>1
    <3>6. \A k \in 1..l + 1 : u[k] <= u[k + 1] /\ q.ready[k] = Bytes(u[k], u[k + 1])
      <4>1. ASSUME NEW k \in 1..l PROVE u[k] <= u[k + 1] /\ q.ready[k] = Bytes(u[k], u[k + 1])
        BY <2>4, <3>1, <3>3
      <4>2. u[l + 1] <= u[l + 1 + 1] /\ q.ready[l + 1] = Bytes(u[l + 1], u[l + 1 + 1])
        BY <2>1, <2>4, <3>1, <3>3, <3>4, <3>5
      <4> QED BY <3>5, <4>1, <4>2
    <3>7. q.block = Bytes(u[l + 1 + 1], q.got)
      BY <2>1, <2>3, <3>3, <3>5, BytesNone
    <3> QED BY <2>3, <2>4, <3>1, <3>2, <3>3, <3>5, <3>6, <3>7 DEF Pieces
  <2> QED BY <2>3, <2>5, <2>6
<1> QED BY <1>1, <1>2

\* The worker takes the first of the ready blocks.
LEMMA TakeKeeps ==
  ASSUME NEW r, IsSes(r), NEW f \in Seq(Nat), Pieces(r, f, << >>), r.ready # << >>,
         NEW q, q.ready = Tail(r.ready), q.block = r.block, q.got = r.got
  PROVE  Pieces(q, f, Head(r.ready))
<1> DEFINE l == Len(r.ready)
<1>1. r.ready \in Seq(Seq(Nat)) /\ r.got \in Nat /\ l \in Nat \ {0} /\ Len(f) \in Nat
  BY DEF IsSes
<1>2. PICK p \in [1..l + 1 -> 0..r.got] :
        /\ f = Bytes(0, Len(f)) /\ Len(f) <= p[1] /\ << >> = Bytes(Len(f), p[1])
        /\ \A k \in 1..l : p[k] <= p[k + 1] /\ r.ready[k] = Bytes(p[k], p[k + 1])
        /\ r.block = Bytes(p[l + 1], r.got)
  BY DEF Pieces
<1>3. /\ Len(q.ready) = l - 1 /\ Head(r.ready) = r.ready[1]
      /\ \A k \in 1..l - 1 : q.ready[k] = r.ready[k + 1]
  <2>1. /\ Len(Tail(r.ready)) = Len(r.ready) - 1
        /\ \A k \in 1..Len(Tail(r.ready)) : Tail(r.ready)[k] = r.ready[k + 1]
    BY <1>1, HeadTailProperties
  <2> QED BY <1>1, <2>1
<1> HIDE DEF l
<1>4. p[1] = Len(f)
  <2>1. p[1] \in Nat
    BY <1>1, <1>2
  <2> QED BY <1>1, <1>2, <2>1, BytesShape
<1> DEFINE u == [k \in 1..l |-> p[k + 1]]
<1>5. u \in [1..l -> 0..r.got]
  BY <1>1, <1>2
<1>6. u[1] = p[2] /\ u[l] = p[l + 1] /\ \A k \in 1..l - 1 : u[k] = p[k + 1] /\ u[k + 1] = p[k + 1 + 1]
  BY <1>1
<1> HIDE DEF u
<1>7. 1 \in 1..l /\ 1 + 1 = 2 /\ (l - 1) + 1 = l /\ \A k \in 1..l - 1 : k + 1 \in 1..l
  BY <1>1
<1>8. \A k \in 1..l - 1 : u[k] <= u[k + 1] /\ q.ready[k] = Bytes(u[k], u[k + 1])
  BY <1>2, <1>3, <1>6, <1>7
<1>9. Len(f) <= u[1] /\ Head(r.ready) = Bytes(Len(f), u[1])
  BY <1>2, <1>3, <1>4, <1>6, <1>7
<1>10. Len(q.ready) + 1 = l /\ Len(q.ready) = l - 1
  BY <1>3, <1>7
<1>11. u \in [1..Len(q.ready) + 1 -> 0..q.got]
  BY <1>5, <1>10
<1>12. /\ f = Bytes(0, Len(f)) /\ Len(f) <= u[1] /\ Head(r.ready) = Bytes(Len(f), u[1])
       /\ \A k \in 1..Len(q.ready) : u[k] <= u[k + 1] /\ q.ready[k] = Bytes(u[k], u[k + 1])
       /\ q.block = Bytes(u[Len(q.ready) + 1], q.got)
  BY <1>2, <1>6, <1>8, <1>9, <1>10
<1> QED BY <1>11, <1>12 DEF Pieces

\* The block the worker has goes to the end of the file.
LEMMA WriteKeeps ==
  ASSUME NEW r, IsSes(r), NEW f \in Seq(Nat), NEW b, Pieces(r, f, b)
  PROVE  Pieces(r, f \o b, << >>)
<1>1. r.got \in Nat /\ Len(r.ready) \in Nat /\ Len(f) \in Nat
  BY DEF IsSes
<1>2. PICK p \in [1..Len(r.ready) + 1 -> 0..r.got] :
        /\ f = Bytes(0, Len(f)) /\ Len(f) <= p[1] /\ b = Bytes(Len(f), p[1])
        /\ \A k \in 1..Len(r.ready) : p[k] <= p[k + 1] /\ r.ready[k] = Bytes(p[k], p[k + 1])
        /\ r.block = Bytes(p[Len(r.ready) + 1], r.got)
  BY DEF Pieces
<1>3. p[1] \in Nat
  BY <1>1, <1>2
<1>4. f \o b = Bytes(0, p[1])
  <2>1. 0 \in Nat /\ 0 <= Len(f)
    BY <1>1
  <2>2. Bytes(0, Len(f)) \o Bytes(Len(f), p[1]) = Bytes(0, p[1])
    BY <1>1, <1>2, <1>3, <2>1, BytesJoin
  <2> QED BY <1>2, <2>2
<1>5. Len(f \o b) = p[1] /\ << >> = Bytes(p[1], p[1])
  BY <1>3, <1>4, BytesNone
<1>6. p[1] <= p[1]
  BY <1>3
<1> QED BY <1>2, <1>4, <1>5, <1>6 DEF Pieces

\* When no block is left, all that was given is in the file.
LEMMA NothingLeft ==
  ASSUME NEW r, IsSes(r), NEW f \in Seq(Nat), Pieces(r, f, << >>), r.ready = << >>, r.block = << >>
  PROVE  f = Bytes(0, r.got)
<1>1. r.got \in Nat /\ Len(r.ready) = 0 /\ Len(f) \in Nat
  BY DEF IsSes
<1>2. PICK p \in [1..1 -> 0..r.got] :
        /\ f = Bytes(0, Len(f)) /\ Len(f) <= p[1] /\ << >> = Bytes(Len(f), p[1])
        /\ << >> = Bytes(p[1], r.got)
  BY <1>1 DEF Pieces
<1>3. p[1] \in Nat /\ p[1] <= r.got
  BY <1>1, <1>2
<1>4. p[1] = Len(f)
  BY <1>1, <1>2, <1>3, BytesShape
<1>5. p[1] = r.got
  BY <1>1, <1>2, <1>3, BytesShape
<1> QED BY <1>2, <1>4, <1>5

-----------------------------------------------------------------------------
(* Paths.                                                                  *)

\* A set of naturals that is not empty has a least member.
LEMMA MinIsMember ==
  ASSUME NEW S, S \subseteq Nat, S # {}
  PROVE  Min(S) \in S
<1>1. PICK x \in S : \A y \in S : ~(<<y, x>> \in OpToRel(<, Nat))
  BY NatLessThanWellFounded, WFMin
<1>2. \A y \in S : ~(y < x)
  BY <1>1 DEF OpToRel
<1>3. \A y \in S : x <= y
  BY <1>2
<1> QED BY <1>3 DEF Min

\* reserve_upload_paths finds an index: there is one more than there are sessions.
LEMMA PathFound ==
  ASSUME UploadInv, NEW s \in Sessions
  PROVE  LET i == Min({j \in Indices : FreePath(s, j)}) IN i \in Indices /\ FreePath(s, i)
<1> DEFINE free == {j \in Indices : FreePath(s, j)}
<1>1. IsFiniteSet(Sessions) /\ Cardinality(Sessions) \in Nat
  BY UploadAssumption, FS_CardinalityType
<1>2. IsFiniteSet(Indices) /\ Cardinality(Indices) = Cardinality(Sessions) + 1 /\ Indices \subseteq Nat
  BY <1>1, FS_Interval DEF Indices
<1>3. free # {}
  <2> SUFFICES ASSUME \A j \in Indices : ~FreePath(s, j) PROVE FALSE
    OBVIOUS
  <2>1. ASSUME NEW j \in Indices
        PROVE  \E t \in Sessions : path[t] = j
    <3>1. CASE j \in reserved
      BY <3>1 DEF UploadInv, PathInv
    <3>2. CASE disk[j] # NoOne
      <4>1. disk[j] \in Sessions
        BY <3>2 DEF UploadInv, ShapeInv
      <4> QED BY <4>1 DEF UploadInv, ResultInv
    <3> QED BY <3>1, <3>2 DEF FreePath
  <2> DEFINE g == [j \in Indices |-> CHOOSE t \in Sessions : path[t] = j]
  <2>2. g \in [Indices -> Sessions] /\ \A j \in Indices : path[g[j]] = j
    BY <2>1
  <2> HIDE DEF g
  <2>3. Cardinality(Sessions) < Cardinality(Indices)
    BY <1>1, <1>2
  <2>4. PICK x, y \in Indices : x # y /\ g[x] = g[y]
    <3>1. IsFiniteSet(Indices) /\ IsFiniteSet(Sessions) /\ g \in [Indices -> Sessions]
      BY <1>1, <1>2, <2>2
    <3> HIDE DEF Indices
    <3> QED BY <2>3, <3>1, FS_PigeonHole, Zenon
  <2> QED BY <2>2, <2>4
<1>4. Min(free) \in free
  BY <1>2, <1>3, MinIsMember
<1> QED BY <1>4

-----------------------------------------------------------------------------
(* What the steps have in common.                                          *)

Untouched(t) ==
  /\ ses'[t] = ses[t] /\ file'[t] = file[t] /\ taken'[t] = taken[t]
  /\ wpc'[t] = wpc[t] /\ ok'[t] = ok[t] /\ result'[t] = result[t]

\* A step of session s: the others are as they were.
Moves(s) ==
  /\ \A t \in Sessions \ {s} : Untouched(t)
  /\ DOMAIN ses' = Sessions /\ DOMAIN wpc' = Sessions /\ DOMAIN ok' = Sessions
  /\ DOMAIN taken' = Sessions /\ DOMAIN file' = Sessions /\ DOMAIN result' = Sessions
  /\ IsSes(ses'[s]) /\ file'[s] \in Seq(Nat) /\ taken'[s] \in Seq(Nat)

Started == {"queued", "open", "wait", "low", "write", "close", "decide"}

\* The contents of the sessions.
LEMMA ContentStep ==
  ASSUME UploadInv, NEW s \in Sessions, Moves(s), ContentInv(s)'
  PROVE  \A t \in Sessions : /\ ContentInv(t)' /\ IsSes(ses'[t])
                             /\ file'[t] \in Seq(Nat) /\ taken'[t] \in Seq(Nat)
<1> SUFFICES ASSUME NEW t \in Sessions
             PROVE  ContentInv(t)' /\ IsSes(ses'[t]) /\ file'[t] \in Seq(Nat) /\ taken'[t] \in Seq(Nat)
  OBVIOUS
<1>1. CASE t = s
  BY <1>1 DEF Moves
<1>2. CASE t # s
  BY <1>2 DEF Moves, Untouched, UploadInv, ShapeInv, ContentInv
<1> QED BY <1>1, <1>2

\* A step that leaves the paths, the disk and the results alone.
LEMMA QuietStep ==
  ASSUME UploadInv, NEW s \in Sessions, Moves(s), ContentInv(s)', UNCHANGED <<path, disk, reserved, result>>,
         wpc'[s] = wpc[s] \/ (wpc[s] \in Started /\ wpc'[s] \in Started)
  PROVE  UploadInv'
<1>1. \A t \in Sessions : wpc'[t] = wpc[t] \/ (wpc[t] \in Started /\ wpc'[t] \in Started)
  BY DEF Moves, Untouched
<1>2. \A t \in Sessions : Live(t)' <=> Live(t)
  BY <1>1 DEF Live, Started
<1>3. \A t \in Sessions : \A w \in {"rename", "release", "report", "ended"} : wpc'[t] = w <=> wpc[t] = w
  BY <1>1 DEF Started
<1>4. ShapeInv'
  BY ContentStep DEF UploadInv, ShapeInv, Moves
<1>5. \A t \in Sessions : ResultInv(t)'
  BY <1>3 DEF UploadInv, ResultInv
<1>6. PathInv'
  BY <1>2 DEF UploadInv, PathInv
<1>7. \A t, u \in Sessions : Meet(t, u)'
  BY <1>2, <1>3 DEF UploadInv, Meet
<1> QED BY <1>4, <1>5, <1>6, <1>7, ContentStep DEF UploadInv

-----------------------------------------------------------------------------
(* The feeding thread.                                                     *)

\* Facts of every session.
LEMMA AtSession ==
  ASSUME UploadInv, NEW s \in Sessions
  PROVE  /\ IsSes(ses[s]) /\ file[s] \in Seq(Nat) /\ taken[s] \in Seq(Nat)
         /\ ContentInv(s) /\ ResultInv(s)
         /\ DOMAIN ses = Sessions /\ DOMAIN wpc = Sessions /\ DOMAIN ok = Sessions
         /\ DOMAIN taken = Sessions /\ DOMAIN file = Sessions /\ DOMAIN result = Sessions
BY DEF UploadInv, ShapeInv

\* A step of the feeding thread changes one session's record.
LEMMA FeedStep ==
  ASSUME UploadInv, NEW s \in Sessions, NEW r, IsSes(r), ses' = [ses EXCEPT ![s] = r],
         UNCHANGED <<path, worker>>, Content(r, file[s], taken[s], wpc[s], ok[s], result[s])
  PROVE  UploadInv'
<1>1. UNCHANGED <<wpc, ok, taken, file, result, disk, reserved, path>>
  BY DEF worker
<1>2. ses'[s] = r /\ DOMAIN ses' = Sessions /\ \A t \in Sessions \ {s} : ses'[t] = ses[t]
  BY AtSession
<1>3. Moves(s)
  BY <1>1, <1>2, AtSession DEF Moves, Untouched
<1>4. ContentInv(s)'
  BY <1>1, <1>2 DEF ContentInv
<1> QED BY <1>1, <1>3, <1>4, QuietStep

\* fail_locked
LEMMA FailShape ==
  ASSUME NEW r, IsSes(r), NEW q, q = Fail(r)
  PROVE  /\ IsSes(q) /\ q.block = r.block /\ q.ready = r.ready /\ q.got = r.got
         /\ q = r \/ (q.failed /\ q.finished)
         /\ r.finished => q = r
BY DEF Fail, IsSes, SesFields

\* append: its bytes go behind those that are there, or the session fails.
LEMMA AppendKeeps == ASSUME UploadInv, NEW s \in Sessions, AppendData(s) PROVE UploadInv'
<1>1. PICK n \in Chunks : /\ Open(s)
                          /\ \/ ses' = [ses EXCEPT ![s] = Fail(ses[s])]
                             \/ ses' = [ses EXCEPT ![s] = Fill(ses[s], n)]
  BY AtSession DEF AppendData
<1>2. n \in Nat /\ UNCHANGED <<path, worker>>
  BY UploadAssumption DEF AppendData
<1>3. IsSes(ses[s]) /\ file[s] \in Seq(Nat) /\ ContentInv(s)
  BY AtSession
<1>4. ~ses[s].finished /\ ~ses[s].canceled /\ ~ses[s].failed
  BY <1>1 DEF Open
<1>5. CASE ses' = [ses EXCEPT ![s] = Fail(ses[s])]
  <2> DEFINE r == Fail(ses[s])
  <2>1. IsSes(r) /\ (r = ses[s] \/ r.failed)
    BY <1>3, FailShape
  <2>2. result[s] # "ok"
    BY <1>3, <1>4 DEF ContentInv, Content
  <2> HIDE DEF r
  <2>3. Content(r, file[s], taken[s], wpc[s], ok[s], result[s])
    BY <1>3, <2>1, <2>2 DEF ContentInv, Content, Good
  <2> QED BY <1>2, <1>5, <2>1, <2>3, FeedStep DEF r
<1>6. CASE ses' = [ses EXCEPT ![s] = Fill(ses[s], n)]
  <2> DEFINE r == Fill(ses[s], n)
  <2>1. /\ IsSes(r) /\ r.finished = ses[s].finished /\ r.canceled = ses[s].canceled
        /\ r.failed = ses[s].failed
    BY <1>2, <1>3, FillShape
  <2>2. Pieces(ses[s], file[s], taken[s]) => Pieces(r, file[s], taken[s])
    BY <1>2, <1>3, FillKeeps
  <2> HIDE DEF r
  <2>3. Content(r, file[s], taken[s], wpc[s], ok[s], result[s])
    BY <1>3, <1>4, <2>1, <2>2 DEF ContentInv, Content, Good
  <2> QED BY <1>2, <1>6, <2>1, <2>3, FeedStep DEF r
<1> QED BY <1>1, <1>5, <1>6

\* The callback of the high watermark.
LEMMA HighKeeps == ASSUME UploadInv, NEW s \in Sessions, HighCallback(s) PROVE UploadInv'
<1>1. UNCHANGED <<ses, wpc, ok, taken, file, result, disk, reserved, path>>
  BY DEF HighCallback, worker
<1> QED BY <1>1 DEF UploadInv, ShapeInv, ContentInv, ResultInv, PathInv, Meet, Live

\* finish: nothing stays in the pending block.
LEMMA FinishKeeps == ASSUME UploadInv, NEW s \in Sessions, FinishUpload(s) PROVE UploadInv'
<1> DEFINE q == FlushPending(ses[s])
           r == [q EXCEPT !.finished = TRUE]
<1>1. /\ ses' = [ses EXCEPT ![s] = r] /\ UNCHANGED <<path, worker>>
      /\ ~ses[s].finished /\ ~ses[s].canceled /\ ~ses[s].failed
  BY AtSession DEF FinishUpload
<1>2. IsSes(ses[s]) /\ file[s] \in Seq(Nat) /\ ContentInv(s)
  BY AtSession
<1>3. /\ IsSes(q) /\ q.block = << >> /\ q.got = ses[s].got
      /\ q.canceled = ses[s].canceled /\ q.failed = ses[s].failed
      /\ Pieces(ses[s], file[s], taken[s]) => Pieces(q, file[s], taken[s])
  BY <1>2, FlushKeeps
<1> HIDE DEF q
<1>4. /\ IsSes(r) /\ r.block = << >> /\ r.ready = q.ready /\ r.got = q.got /\ r.finished = TRUE
      /\ r.canceled = q.canceled /\ r.failed = q.failed
  BY <1>3 DEF IsSes, SesFields
<1>5. r.block = q.block
  BY <1>3, <1>4
<1> HIDE DEF r
<1>6. Pieces(q, file[s], taken[s]) => Pieces(r, file[s], taken[s])
  BY <1>4, <1>5, SamePieces
<1>7. Content(r, file[s], taken[s], wpc[s], ok[s], result[s])
  BY <1>1, <1>2, <1>3, <1>4, <1>6 DEF ContentInv, Content, Good
<1> QED BY <1>1, <1>4, <1>7, FeedStep

\* cancel: what has been decided stands.
LEMMA CancelKeeps == ASSUME UploadInv, NEW s \in Sessions, CancelUpload(s) PROVE UploadInv'
<1> DEFINE r == [ses[s] EXCEPT !.canceled = TRUE, !.finished = TRUE]
<1>1. IsSes(ses[s]) /\ ContentInv(s) /\ DOMAIN ses = Sessions
  BY AtSession
<1>2. UNCHANGED <<path, worker>> /\ ses' = [ses EXCEPT ![s] = r]
  BY <1>1 DEF CancelUpload
<1>3. /\ IsSes(r) /\ r.canceled = TRUE /\ r.finished = TRUE /\ r.block = ses[s].block
      /\ r.got = ses[s].got
  BY <1>1 DEF IsSes, SesFields
<1> HIDE DEF r
<1>4. Content(r, file[s], taken[s], wpc[s], ok[s], result[s])
  BY <1>1, <1>3 DEF ContentInv, Content, Good
<1> QED BY <1>2, <1>3, <1>4, FeedStep

-----------------------------------------------------------------------------
(* The worker.                                                             *)

\* y is x with the value v for session s.
Becomes(x, y, s, v) == DOMAIN y = Sessions /\ y[s] = v /\ \A t \in Sessions \ {s} : y[t] = x[t]

\* An assignment for one session, and none.
LEMMA Assigned ==
  ASSUME NEW x, DOMAIN x = Sessions, NEW s \in Sessions
  PROVE  Becomes(x, x, s, x[s]) /\ \A v : Becomes(x, [x EXCEPT ![s] = v], s, v)
BY DEF Becomes

\* A step of the worker up to its decision.
LEMMA WorkStep ==
  ASSUME UploadInv, NEW s \in Sessions, UNCHANGED <<path, disk, reserved, result>>,
         NEW r, NEW f, NEW b, NEW w, NEW k, IsSes(r), f \in Seq(Nat), b \in Seq(Nat),
         wpc[s] \in Started, w \in Started,
         Becomes(ses, ses', s, r), Becomes(file, file', s, f), Becomes(taken, taken', s, b),
         Becomes(wpc, wpc', s, w), Becomes(ok, ok', s, k), Content(r, f, b, w, k, result[s])
  PROVE  UploadInv'
<1>1. Moves(s)
  BY AtSession DEF Becomes, Moves, Untouched
<1>2. ContentInv(s)'
  BY DEF Becomes, ContentInv
<1> QED BY <1>1, <1>2, QuietStep DEF Becomes

\* Starting, opening the file, the low callback and the end of the writing: where the
\* worker is, and whether the file is usable.
LEMMA WorkerWaitsKeeps ==
  ASSUME UploadInv, NEW s \in Sessions,
         WorkerStarts(s) \/ WorkerOpens(s) \/ WorkerResumes(s) \/ WorkerCloses(s)
  PROVE  UploadInv'
<1>1. /\ IsSes(ses[s]) /\ file[s] \in Seq(Nat) /\ taken[s] \in Seq(Nat) /\ ContentInv(s)
      /\ DOMAIN ses = Sessions /\ DOMAIN wpc = Sessions /\ DOMAIN ok = Sessions
      /\ DOMAIN taken = Sessions /\ DOMAIN file = Sessions
  BY AtSession
<1>2. UNCHANGED <<path, disk, reserved, result, ses, taken, file>>
  BY DEF WorkerStarts, WorkerOpens, WorkerResumes, WorkerCloses, worker
<1>3. PICK w \in Started :
        /\ wpc' = [wpc EXCEPT ![s] = w]
        /\ <<wpc[s], w>> \in {<<"queued", "open">>, <<"open", "wait">>, <<"low", "write">>, <<"close", "decide">>}
  <2>1. CASE WorkerStarts(s)
    BY <2>1 DEF WorkerStarts, At, Started
  <2>2. CASE WorkerOpens(s)
    BY <2>2 DEF WorkerOpens, At, Started
  <2>3. CASE WorkerResumes(s)
    BY <2>3 DEF WorkerResumes, At, Started
  <2>4. CASE WorkerCloses(s)
    BY <2>4 DEF WorkerCloses, At, Started
  <2> QED BY <2>1, <2>2, <2>3, <2>4
<1>4. ok' = ok \/ ok' = [ok EXCEPT ![s] = FALSE]
  BY DEF WorkerStarts, WorkerOpens, WorkerResumes, WorkerCloses, Tries
<1>5. PICK k : Becomes(ok, ok', s, k) /\ (k => ok[s])
  <2>1. CASE ok' = ok
    BY <1>1, <2>1, Assigned
  <2>2. CASE ok' = [ok EXCEPT ![s] = FALSE]
    <3>1. Becomes(ok, ok', s, FALSE)
      BY <1>1, <2>2, Assigned
    <3> QED BY <3>1
  <2> QED BY <1>4, <2>1, <2>2
<1>6. Becomes(wpc, wpc', s, w)
  BY <1>1, <1>3, Assigned
<1>7. Becomes(ses, ses', s, ses[s]) /\ Becomes(file, file', s, file[s]) /\ Becomes(taken, taken', s, taken[s])
  BY <1>1, <1>2, Assigned
<1>8. wpc[s] \in Started
  BY <1>3 DEF Started
<1>9. Content(ses[s], file[s], taken[s], w, k, result[s])
  BY <1>1, <1>3, <1>5 DEF ContentInv, Content
<1> QED BY <1>1, <1>2, <1>5, <1>6, <1>7, <1>8, <1>9, WorkStep

\* discard_ready_blocks_locked, of a session that will not complete.
LEMMA DropsKeeps == ASSUME UploadInv, NEW s \in Sessions, WorkerDrops(s) PROVE UploadInv'
<1> DEFINE r == [ses[s] EXCEPT !.queued = 0, !.block = << >>, !.ready = << >>]
<1>1. /\ IsSes(ses[s]) /\ file[s] \in Seq(Nat) /\ taken[s] \in Seq(Nat) /\ ContentInv(s)
      /\ DOMAIN ses = Sessions /\ DOMAIN wpc = Sessions /\ DOMAIN ok = Sessions
      /\ DOMAIN taken = Sessions /\ DOMAIN file = Sessions
  BY AtSession
<1>2. /\ UNCHANGED <<path, disk, reserved, result, ok, taken, file>> /\ wpc[s] = "wait"
      /\ wpc' = [wpc EXCEPT ![s] = "close"] /\ ~(Good(ses[s]) /\ ok[s])
  BY DEF WorkerDrops, At, Dropping, Good
<1>3. ses' = [ses EXCEPT ![s] = r]
  BY <1>1 DEF WorkerDrops, Discard
<1>4. /\ IsSes(r) /\ r.block = << >> /\ r.finished = ses[s].finished /\ r.got = ses[s].got
      /\ r.canceled = ses[s].canceled /\ r.failed = ses[s].failed
  BY <1>1 DEF IsSes, SesFields
<1> HIDE DEF r
<1>5. /\ Becomes(ses, ses', s, r) /\ Becomes(file, file', s, file[s]) /\ Becomes(ok, ok', s, ok[s])
      /\ Becomes(taken, taken', s, taken[s]) /\ Becomes(wpc, wpc', s, "close")
  BY <1>1, <1>2, <1>3, Assigned
<1>6. Content(r, file[s], taken[s], "close", ok[s], result[s])
  BY <1>1, <1>2, <1>4 DEF ContentInv, Content, Good
<1>7. wpc[s] \in Started /\ "close" \in Started
  BY <1>2 DEF Started
<1> QED BY <1>1, <1>2, <1>4, <1>5, <1>6, <1>7, WorkStep

\* The next block.
LEMMA TakesKeeps == ASSUME UploadInv, NEW s \in Sessions, WorkerTakes(s) PROVE UploadInv'
<1> DEFINE b == Head(ses[s].ready)
           n == ses[s].queued - Len(b)
           low == LowNow(ses[s], n)
           r == [ses[s] EXCEPT !.ready = Tail(ses[s].ready), !.queued = n, !.above = @ /\ ~low]
           w == IF low THEN "low" ELSE "write"
<1>1. /\ IsSes(ses[s]) /\ file[s] \in Seq(Nat) /\ taken[s] \in Seq(Nat) /\ ContentInv(s)
      /\ DOMAIN ses = Sessions /\ DOMAIN wpc = Sessions /\ DOMAIN ok = Sessions
      /\ DOMAIN taken = Sessions /\ DOMAIN file = Sessions
  BY AtSession
<1>2. /\ UNCHANGED <<path, disk, reserved, result, ok, file>> /\ wpc[s] = "wait"
      /\ taken' = [taken EXCEPT ![s] = b] /\ wpc' = [wpc EXCEPT ![s] = w]
      /\ ses[s].ready # << >> /\ Good(ses[s]) /\ ok[s]
  BY DEF WorkerTakes, Dropping, Good
<1>3. ses' = [ses EXCEPT ![s] = r]
  BY <1>1 DEF WorkerTakes, IsSes, SesFields
<1>4. b \in Seq(Nat) /\ Tail(ses[s].ready) \in Seq(Seq(Nat))
  <2>1. ses[s].ready \in Seq(Seq(Nat))
    BY <1>1 DEF IsSes
  <2> QED BY <1>2, <2>1, HeadTailProperties
<1>5. w \in {"low", "write"}
  OBVIOUS
<1> HIDE DEF n, low, w
<1>6. /\ IsSes(r) /\ r.ready = Tail(ses[s].ready) /\ r.block = ses[s].block
      /\ r.finished = ses[s].finished /\ r.got = ses[s].got
      /\ r.canceled = ses[s].canceled /\ r.failed = ses[s].failed
  BY <1>1, <1>4 DEF IsSes, SesFields
<1> HIDE DEF r
<1>7. Pieces(r, file[s], b)
  <2>1. Pieces(ses[s], file[s], << >>)
    BY <1>1, <1>2 DEF ContentInv, Content
  <2> QED BY <1>1, <1>2, <1>6, <2>1, TakeKeeps
<1> HIDE DEF b
<1>8. /\ Becomes(ses, ses', s, r) /\ Becomes(file, file', s, file[s]) /\ Becomes(ok, ok', s, ok[s])
      /\ Becomes(taken, taken', s, b) /\ Becomes(wpc, wpc', s, w)
  BY <1>1, <1>2, <1>3, Assigned
<1>9. Content(r, file[s], b, w, ok[s], result[s])
  BY <1>1, <1>2, <1>5, <1>6, <1>7 DEF ContentInv, Content, Good
<1>10. wpc[s] \in Started /\ w \in Started
  BY <1>2, <1>5 DEF Started
<1> QED BY <1>1, <1>2, <1>4, <1>6, <1>8, <1>9, <1>10, WorkStep

\* No block is left of a finished upload: the file is whole.
LEMMA StopsKeeps == ASSUME UploadInv, NEW s \in Sessions, WorkerStops(s) PROVE UploadInv'
<1>1. /\ IsSes(ses[s]) /\ file[s] \in Seq(Nat) /\ taken[s] \in Seq(Nat) /\ ContentInv(s)
      /\ DOMAIN ses = Sessions /\ DOMAIN wpc = Sessions /\ DOMAIN ok = Sessions
      /\ DOMAIN taken = Sessions /\ DOMAIN file = Sessions
  BY AtSession
<1>2. /\ UNCHANGED <<path, disk, reserved, result, ok, file, taken, ses>> /\ wpc[s] = "wait"
      /\ wpc' = [wpc EXCEPT ![s] = "close"]
      /\ ses[s].ready = << >> /\ Good(ses[s]) /\ ok[s] /\ ses[s].finished
  BY DEF WorkerStops, At, Dropping, Good
<1>3. file[s] = Bytes(0, ses[s].got)
  <2>1. Pieces(ses[s], file[s], << >>) /\ ses[s].block = << >>
    BY <1>1, <1>2 DEF ContentInv, Content
  <2> QED BY <1>1, <1>2, <2>1, NothingLeft
<1>4. /\ Becomes(ses, ses', s, ses[s]) /\ Becomes(file, file', s, file[s]) /\ Becomes(ok, ok', s, ok[s])
      /\ Becomes(taken, taken', s, taken[s]) /\ Becomes(wpc, wpc', s, "close")
  BY <1>1, <1>2, Assigned
<1>5. Content(ses[s], file[s], taken[s], "close", ok[s], result[s])
  BY <1>1, <1>2, <1>3 DEF ContentInv, Content
<1>6. wpc[s] \in Started /\ "close" \in Started
  BY <1>2 DEF Started
<1> QED BY <1>1, <1>2, <1>4, <1>5, <1>6, WorkStep

\* The write of a block, and one that fails, after which the upload does not complete.
LEMMA WritesKeeps == ASSUME UploadInv, NEW s \in Sessions, WorkerWrites(s) PROVE UploadInv'
<1>1. /\ IsSes(ses[s]) /\ file[s] \in Seq(Nat) /\ taken[s] \in Seq(Nat) /\ ContentInv(s)
      /\ DOMAIN ses = Sessions /\ DOMAIN wpc = Sessions /\ DOMAIN ok = Sessions
      /\ DOMAIN taken = Sessions /\ DOMAIN file = Sessions
  BY AtSession
<1>2. /\ UNCHANGED <<path, disk, reserved, result>> /\ wpc[s] = "write"
      /\ wpc' = [wpc EXCEPT ![s] = "wait"] /\ taken' = [taken EXCEPT ![s] = << >>]
  BY DEF WorkerWrites, At
<1>3. /\ Becomes(taken, taken', s, << >>) /\ Becomes(wpc, wpc', s, "wait") /\ << >> \in Seq(Nat)
      /\ wpc[s] \in Started /\ "wait" \in Started
  <2>1. Becomes(taken, taken', s, << >>)
    BY <1>1, <1>2, Assigned
  <2>2. Becomes(wpc, wpc', s, "wait")
    BY <1>1, <1>2, Assigned
  <2> QED BY <1>2, <2>1, <2>2 DEF Started
<1>4. CASE /\ file' = [file EXCEPT ![s] = @ \o taken[s]] /\ UNCHANGED ok
           /\ ses' = [ses EXCEPT ![s] = Counted(@, Len(taken[s]))]
  <2> DEFINE r == Counted(ses[s], Len(taken[s]))
             f == file[s] \o taken[s]
  <2>1. ses' = [ses EXCEPT ![s] = r] /\ file' = [file EXCEPT ![s] = f]
    BY <1>1, <1>4
  <2>2. /\ IsSes(r) /\ r.ready = ses[s].ready /\ r.block = ses[s].block
        /\ r.finished = ses[s].finished /\ r.got = ses[s].got
        /\ r.canceled = ses[s].canceled /\ r.failed = ses[s].failed
    BY <1>1 DEF IsSes, SesFields, Counted
  <2> HIDE DEF r
  <2>3. f \in Seq(Nat)
    BY <1>1, ConcatProperties
  <2>4. Pieces(ses[s], file[s], taken[s]) => Pieces(r, f, << >>)
    <3>1. Pieces(ses[s], file[s], taken[s]) => Pieces(ses[s], f, << >>)
      BY <1>1, WriteKeeps
    <3> HIDE DEF f
    <3> QED BY <2>2, <3>1, SamePieces
  <2> HIDE DEF f
  <2>5. Becomes(ses, ses', s, r) /\ Becomes(file, file', s, f) /\ Becomes(ok, ok', s, ok[s])
    <3>1. Becomes(ses, ses', s, r)
      BY <1>1, <2>1, Assigned
    <3>2. Becomes(file, file', s, f)
      BY <1>1, <2>1, Assigned
    <3>3. Becomes(ok, ok', s, ok[s])
      BY <1>1, <1>4, Assigned
    <3> QED BY <3>1, <3>2, <3>3
  <2>6. Content(r, f, << >>, "wait", ok[s], result[s])
    BY <1>1, <1>2, <2>2, <2>4 DEF ContentInv, Content, Good
  <2> QED BY <1>2, <1>3, <2>2, <2>3, <2>5, <2>6, WorkStep
<1>5. CASE /\ ok' = [ok EXCEPT ![s] = FALSE] /\ UNCHANGED file
           /\ ses' = [ses EXCEPT ![s] = Counted(Fail(@), Len(taken[s]))]
  <2> DEFINE q == Fail(ses[s])
             r == Counted(q, Len(taken[s]))
  <2>1. ses' = [ses EXCEPT ![s] = r]
    BY <1>1, <1>5
  <2>2. IsSes(q) /\ q.block = ses[s].block /\ (q = ses[s] \/ q.failed)
    BY <1>1, FailShape
  <2> HIDE DEF q
  <2>3. /\ IsSes(r) /\ r.block = q.block /\ r.finished = q.finished
        /\ r.canceled = q.canceled /\ r.failed = q.failed
    BY <2>2 DEF IsSes, SesFields, Counted
  <2> HIDE DEF r
  <2>4. Becomes(ses, ses', s, r) /\ Becomes(file, file', s, file[s]) /\ Becomes(ok, ok', s, FALSE)
    <3>1. Becomes(ses, ses', s, r)
      BY <1>1, <2>1, Assigned
    <3>2. Becomes(file, file', s, file[s])
      BY <1>1, <1>5, Assigned
    <3>3. Becomes(ok, ok', s, FALSE)
      BY <1>1, <1>5, Assigned
    <3> QED BY <3>1, <3>2, <3>3
  <2>5. Content(r, file[s], << >>, "wait", FALSE, result[s])
    BY <1>1, <1>2, <2>2, <2>3 DEF ContentInv, Content, Good
  <2> QED BY <1>1, <1>2, <1>3, <2>3, <2>4, <2>5, WorkStep
<1> QED BY <1>4, <1>5 DEF WorkerWrites, Tries

-----------------------------------------------------------------------------
(* The steps that concern the paths.                                       *)

\* create_session reserves a path that nobody has, or may be overwritten.
LEMMA CreateKeeps == ASSUME UploadInv, NEW s \in Sessions, CreateSession(s) PROVE UploadInv'
<1> DEFINE i == Min({j \in Indices : FreePath(s, j)})
<1>1. i \in Indices /\ i \notin reserved /\ (disk[i] = NoOne \/ s \in Overwriting)
  BY PathFound DEF FreePath
<1>2. /\ wpc[s] = "none" /\ wpc' = [wpc EXCEPT ![s] = "queued"] /\ path' = [path EXCEPT ![s] = i]
      /\ reserved' = reserved \cup {i} /\ UNCHANGED <<ses, ok, taken, file, result, disk>>
  BY DEF CreateSession
<1> HIDE DEF i
<1>3. wpc'[s] = "queued" /\ DOMAIN wpc' = Sessions /\ \A t \in Sessions \ {s} : wpc'[t] = wpc[t]
  BY <1>2, AtSession
<1>4. path' \in [Sessions -> Indices] /\ path'[s] = i /\ \A t \in Sessions \ {s} : path'[t] = path[t]
  BY <1>1, <1>2 DEF UploadInv, ShapeInv
<1>5. Moves(s)
  BY <1>2, <1>3, AtSession DEF Moves, Untouched
<1>6. ContentInv(s)'
  <2>1. Content(ses[s], file[s], taken[s], "queued", ok[s], result[s])
    BY <1>2, AtSession DEF ContentInv, Content
  <2> QED BY <1>2, <1>3, <2>1 DEF ContentInv
<1>7. ShapeInv'
  BY <1>2, <1>4, <1>5, <1>6, ContentStep DEF UploadInv, ShapeInv, Moves
<1>8. ASSUME NEW t \in Sessions PROVE ResultInv(t)'
  <2>1. CASE t = s
    <3>1. result[s] = "none" /\ result'[s] = "none"
      BY <1>2, AtSession DEF ContentInv, Content
    <3>2. \A j \in Indices : disk[j] # s
      BY <3>1, AtSession DEF ResultInv
    <3> QED BY <1>2, <1>3, <2>1, <3>1, <3>2 DEF ResultInv
  <2>2. CASE t # s
    BY <1>2, <1>3, <1>4, <2>2, AtSession DEF ResultInv
  <2> QED BY <2>1, <2>2
<1>9. \A t \in Sessions : (Live(t)' <=> Live(t) \/ t = s) /\ ~Live(s)
  BY <1>2, <1>3 DEF Live
<1>10. PathInv'
  <2>1. \A t \in Sessions : Live(t)' => path'[t] \in reserved'
    BY <1>2, <1>4, <1>9 DEF UploadInv, PathInv
  <2>2. ASSUME NEW t \in Sessions, NEW u \in Sessions, Live(t)', Live(u)', path'[t] = path'[u]
        PROVE  t = u
    <3>1. \A v \in Sessions \ {s} : Live(v)' => path'[v] # i
      BY <1>1, <1>4, <1>9 DEF UploadInv, PathInv
    <3> QED BY <1>4, <1>9, <2>2, <3>1 DEF UploadInv, PathInv
  <2>3. ASSUME NEW j \in reserved' PROVE \E t \in Sessions : Live(t)' /\ path'[t] = j
    <3>1. CASE j = i
      BY <1>4, <1>9, <3>1
    <3>2. CASE j \in reserved
      <4>1. PICK t \in Sessions : Live(t) /\ path[t] = j
        BY <3>2 DEF UploadInv, PathInv
      <4> QED BY <1>4, <1>9, <4>1
    <3> QED BY <1>2, <3>1, <3>2
  <2> QED BY <2>1, <2>2, <2>3 DEF PathInv
<1>11. ASSUME NEW t \in Sessions, NEW u \in Sessions PROVE Meet(t, u)'
  <2> SUFFICES ASSUME wpc'[t] \in {"report", "ended"}, result'[t] = "ok", t # u
               PROVE  /\ Live(u)' /\ path'[u] = path'[t] => u \in Overwriting
                      /\ disk'[path'[t]] = u => u \in Overwriting
    BY DEF Meet
  <2>1. t # s /\ wpc'[t] = wpc[t] /\ path'[t] = path[t] /\ result[t] = "ok"
    BY <1>2, <1>3, <1>4
  <2>2. disk[path[t]] # NoOne
    BY <2>1, AtSession DEF ResultInv
  <2>3. CASE u = s
    BY <1>1, <1>2, <1>4, <2>1, <2>2, <2>3 DEF UploadInv, Meet
  <2>4. CASE u # s
    BY <1>2, <1>4, <1>9, <2>1, <2>4 DEF UploadInv, Meet
  <2> QED BY <2>3, <2>4
<1> QED BY <1>5, <1>6, <1>7, <1>8, <1>10, <1>11, ContentStep DEF UploadInv

\* The verdict, under the lock: only a whole file is to be renamed.
LEMMA DecidesKeeps == ASSUME UploadInv, NEW s \in Sessions, WorkerDecides(s) PROVE UploadInv'
<1> DEFINE v == Verdict(s)
           w == IF v = "ok" THEN "rename" ELSE "release"
<1>1. /\ wpc[s] = "decide" /\ result' = [result EXCEPT ![s] = v] /\ wpc' = [wpc EXCEPT ![s] = w]
      /\ UNCHANGED <<ses, ok, taken, file, path, disk, reserved>>
  BY DEF WorkerDecides
<1>2. v \in {"ok", "failed", "canceled"} /\ (v = "ok" => Good(ses[s]) /\ ok[s])
  BY DEF Verdict, Good
<1>3. w \in {"rename", "release"} /\ (w = "rename" <=> v = "ok")
  OBVIOUS
<1> HIDE DEF v, w
<1>4. /\ wpc'[s] = w /\ DOMAIN wpc' = Sessions /\ \A t \in Sessions \ {s} : wpc'[t] = wpc[t]
      /\ result'[s] = v /\ DOMAIN result' = Sessions /\ \A t \in Sessions \ {s} : result'[t] = result[t]
  BY <1>1, AtSession
<1>5. Moves(s)
  BY <1>1, <1>4, AtSession DEF Moves, Untouched
<1>6. ContentInv(s)'
  <2>1. Content(ses[s], file[s], taken[s], w, ok[s], v)
    BY <1>1, <1>2, <1>3, AtSession DEF ContentInv, Content
  <2> QED BY <1>1, <1>4, <2>1 DEF ContentInv
<1>7. ShapeInv'
  BY <1>1, <1>5, <1>6, ContentStep DEF UploadInv, ShapeInv, Moves
<1>8. ASSUME NEW t \in Sessions PROVE ResultInv(t)'
  <2>1. CASE t = s
    BY <1>1, <1>2, <1>3, <1>4, <2>1, AtSession DEF ResultInv
  <2>2. CASE t # s
    BY <1>1, <1>4, <2>2, AtSession DEF ResultInv
  <2> QED BY <2>1, <2>2
<1>9. \A t \in Sessions : Live(t)' <=> Live(t)
  BY <1>1, <1>3, <1>4 DEF Live
<1>10. PathInv'
  BY <1>1, <1>9 DEF UploadInv, PathInv
<1>11. ASSUME NEW t \in Sessions, NEW u \in Sessions PROVE Meet(t, u)'
  <2>1. CASE t = s
    BY <1>3, <1>4, <2>1 DEF Meet
  <2>2. CASE t # s
    BY <1>1, <1>4, <1>9, <2>2 DEF UploadInv, Meet
  <2> QED BY <2>1, <2>2
<1> QED BY <1>5, <1>6, <1>7, <1>8, <1>10, <1>11, ContentStep DEF UploadInv

\* The rename gives the session its file, over one that may be overwritten at most.
LEMMA RenamesKeeps == ASSUME UploadInv, NEW s \in Sessions, WorkerRenames(s) PROVE UploadInv'
<1>1. /\ wpc[s] = "rename" /\ wpc' = [wpc EXCEPT ![s] = "release"]
      /\ UNCHANGED <<ses, ok, taken, file, path, reserved>>
  BY DEF WorkerRenames, At
<1>2. \/ disk' = [disk EXCEPT ![path[s]] = s] /\ result' = result
      \/ result' = [result EXCEPT ![s] = "failed"] /\ disk' = disk
  BY DEF WorkerRenames, Tries
<1>3. /\ wpc'[s] = "release" /\ DOMAIN wpc' = Sessions /\ \A t \in Sessions \ {s} : wpc'[t] = wpc[t]
      /\ DOMAIN result' = Sessions /\ \A t \in Sessions \ {s} : result'[t] = result[t]
      /\ result'[s] = result[s] \/ result'[s] = "failed"
  BY <1>1, <1>2, AtSession
<1>4. Moves(s)
  BY <1>1, <1>3, AtSession DEF Moves, Untouched
<1>5. ContentInv(s)'
  <2>1. Content(ses[s], file[s], taken[s], "release", ok[s], result'[s])
    BY <1>1, <1>3, AtSession DEF ContentInv, Content
  <2> QED BY <1>1, <1>3, <2>1 DEF ContentInv
<1>6. /\ path[s] \in Indices /\ s # NoOne /\ Live(s)
      /\ disk \in [Indices -> Sessions \cup {NoOne}] /\ path \in [Sessions -> Indices]
      /\ \A j \in Indices : disk[j] # s
  BY <1>1, UploadAssumption, AtSession DEF UploadInv, ShapeInv, ResultInv, Live
<1>7. disk' \in [Indices -> Sessions \cup {NoOne}]
  BY <1>2, <1>6
<1>8. ShapeInv'
  BY <1>1, <1>4, <1>5, <1>7, ContentStep DEF UploadInv, ShapeInv, Moves
<1>9. \A t \in Sessions : Live(t)' <=> Live(t)
  BY <1>1, <1>3 DEF Live
<1>10. PathInv'
  BY <1>1, <1>9 DEF UploadInv, PathInv
<1>11. CASE disk' = [disk EXCEPT ![path[s]] = s] /\ result' = result
  <2>1. disk'[path[s]] = s /\ \A j \in Indices : j # path[s] => disk'[j] = disk[j]
    BY <1>6, <1>11
  <2>2. result[s] = "ok"
    BY <1>1, AtSession DEF ResultInv
  <2>3. ASSUME NEW t \in Sessions PROVE ResultInv(t)'
    <3>1. CASE t = s
      BY <1>1, <1>3, <1>6, <1>11, <2>1, <2>2, <3>1 DEF ResultInv
    <3>2. CASE t # s
      <4>1. ResultInv(t) /\ path[t] \in Indices
        BY <1>6, AtSession
      <4>2. wpc[t] = "release" => path[t] # path[s]
        BY <1>6, <3>2 DEF UploadInv, PathInv, Live
      <4> QED BY <1>1, <1>3, <1>6, <1>11, <2>1, <3>2, <4>1, <4>2 DEF ResultInv
    <3> QED BY <3>1, <3>2
  <2>4. ASSUME NEW t \in Sessions, NEW u \in Sessions PROVE Meet(t, u)'
    <3>1. CASE t = s
      BY <1>3, <3>1 DEF Meet
    <3>2. CASE t # s
      <4>1. Meet(t, u) /\ Meet(t, s) /\ path[t] \in Indices
        BY <1>6 DEF UploadInv
      <4> QED BY <1>1, <1>3, <1>6, <1>9, <1>11, <2>1, <3>2, <4>1 DEF Meet
    <3> QED BY <3>1, <3>2
  <2> QED BY <1>4, <1>5, <1>8, <1>10, <2>3, <2>4, ContentStep DEF UploadInv
<1>12. CASE result' = [result EXCEPT ![s] = "failed"] /\ disk' = disk
  <2>1. result'[s] = "failed"
    BY <1>12, AtSession
  <2>2. ASSUME NEW t \in Sessions PROVE ResultInv(t)'
    <3>1. CASE t = s
      BY <1>3, <1>6, <1>12, <2>1, <3>1 DEF ResultInv
    <3>2. CASE t # s
      BY <1>1, <1>3, <1>12, <3>2, AtSession DEF ResultInv
    <3> QED BY <3>1, <3>2
  <2>3. ASSUME NEW t \in Sessions, NEW u \in Sessions PROVE Meet(t, u)'
    <3>1. CASE t = s
      BY <1>3, <3>1 DEF Meet
    <3>2. CASE t # s
      BY <1>1, <1>3, <1>9, <1>12, <3>2 DEF UploadInv, Meet
    <3> QED BY <3>1, <3>2
  <2> QED BY <1>4, <1>5, <1>8, <1>10, <2>2, <2>3, ContentStep DEF UploadInv
<1> QED BY <1>2, <1>11, <1>12

\* The path is given back, with the file in it.
LEMMA ReleasesKeeps == ASSUME UploadInv, NEW s \in Sessions, WorkerReleases(s) PROVE UploadInv'
<1> DEFINE r == [ses[s] EXCEPT !.block = << >>, !.ready = << >>]
<1>1. /\ wpc[s] = "release" /\ wpc' = [wpc EXCEPT ![s] = "report"] /\ reserved' = reserved \ {path[s]}
      /\ UNCHANGED <<ok, taken, file, path, disk, result>>
  BY DEF WorkerReleases, At
<1>2. ses' = [ses EXCEPT ![s] = r]
  BY AtSession DEF WorkerReleases
<1>3. IsSes(r) /\ r.got = ses[s].got /\ r.finished = ses[s].finished /\ r.block = << >>
  BY AtSession DEF IsSes, SesFields
<1> HIDE DEF r
<1>4. /\ wpc'[s] = "report" /\ DOMAIN wpc' = Sessions /\ \A t \in Sessions \ {s} : wpc'[t] = wpc[t]
      /\ ses'[s] = r /\ DOMAIN ses' = Sessions /\ \A t \in Sessions \ {s} : ses'[t] = ses[t]
  BY <1>1, <1>2, AtSession
<1>5. Moves(s)
  BY <1>1, <1>3, <1>4, AtSession DEF Moves, Untouched
<1>6. ContentInv(s)'
  <2>1. Content(r, file[s], taken[s], "report", ok[s], result[s])
    BY <1>1, <1>3, AtSession DEF ContentInv, Content
  <2> QED BY <1>1, <1>4, <2>1 DEF ContentInv
<1>7. ShapeInv'
  BY <1>1, <1>5, <1>6, ContentStep DEF UploadInv, ShapeInv, Moves
<1>8. ASSUME NEW t \in Sessions PROVE ResultInv(t)'
  <2>1. CASE t = s
    BY <1>1, <1>4, <2>1, AtSession DEF ResultInv
  <2>2. CASE t # s
    BY <1>1, <1>4, <2>2, AtSession DEF ResultInv
  <2> QED BY <2>1, <2>2
<1>9. \A t \in Sessions : (Live(t)' <=> Live(t) /\ t # s) /\ Live(s)
  BY <1>1, <1>4 DEF Live
<1>10. \A t \in Sessions : Live(t) /\ path[t] = path[s] => t = s
  BY <1>9 DEF UploadInv, PathInv
<1>11. PathInv'
  <2>1. \A t \in Sessions : Live(t)' => path'[t] \in reserved'
    BY <1>1, <1>9, <1>10 DEF UploadInv, PathInv
  <2>2. \A t, u \in Sessions : Live(t)' /\ Live(u)' /\ path'[t] = path'[u] => t = u
    BY <1>1, <1>9 DEF UploadInv, PathInv
  <2>3. ASSUME NEW j \in reserved' PROVE \E t \in Sessions : Live(t)' /\ path'[t] = j
    <3>1. PICK t \in Sessions : Live(t) /\ path[t] = j
      BY <1>1 DEF UploadInv, PathInv
    <3> QED BY <1>1, <1>9, <3>1
  <2> QED BY <2>1, <2>2, <2>3 DEF PathInv
<1>12. ASSUME NEW t \in Sessions, NEW u \in Sessions PROVE Meet(t, u)'
  <2>1. CASE t = s
    BY <1>1, <1>4, <1>9, <1>10, <2>1, AtSession DEF Meet, ResultInv
  <2>2. CASE t # s
    BY <1>1, <1>4, <1>9, <2>2 DEF UploadInv, Meet
  <2> QED BY <2>1, <2>2
<1> QED BY <1>5, <1>6, <1>7, <1>8, <1>11, <1>12, ContentStep DEF UploadInv

\* worker_done
LEMMA ReportsKeeps == ASSUME UploadInv, NEW s \in Sessions, WorkerReports(s) PROVE UploadInv'
<1> DEFINE r == [ses[s] EXCEPT !.done = TRUE]
<1>1. /\ wpc[s] = "report" /\ wpc' = [wpc EXCEPT ![s] = "ended"]
      /\ UNCHANGED <<ok, taken, file, path, disk, result, reserved>>
  BY DEF WorkerReports, At
<1>2. ses' = [ses EXCEPT ![s] = r]
  BY AtSession DEF WorkerReports
<1>3. /\ IsSes(r) /\ r.got = ses[s].got /\ r.finished = ses[s].finished /\ r.block = ses[s].block
      /\ r.canceled = ses[s].canceled /\ r.failed = ses[s].failed
  BY AtSession DEF IsSes, SesFields
<1> HIDE DEF r
<1>4. /\ wpc'[s] = "ended" /\ DOMAIN wpc' = Sessions /\ \A t \in Sessions \ {s} : wpc'[t] = wpc[t]
      /\ ses'[s] = r /\ DOMAIN ses' = Sessions /\ \A t \in Sessions \ {s} : ses'[t] = ses[t]
  BY <1>1, <1>2, AtSession
<1>5. Moves(s)
  BY <1>1, <1>3, <1>4, AtSession DEF Moves, Untouched
<1>6. ContentInv(s)'
  <2>1. Content(r, file[s], taken[s], "ended", ok[s], result[s])
    BY <1>1, <1>3, AtSession DEF ContentInv, Content, Good
  <2> QED BY <1>1, <1>4, <2>1 DEF ContentInv
<1>7. ShapeInv'
  BY <1>1, <1>5, <1>6, ContentStep DEF UploadInv, ShapeInv, Moves
<1>8. ASSUME NEW t \in Sessions PROVE ResultInv(t)'
  <2>1. CASE t = s
    BY <1>1, <1>4, <2>1, AtSession DEF ResultInv
  <2>2. CASE t # s
    BY <1>1, <1>4, <2>2, AtSession DEF ResultInv
  <2> QED BY <2>1, <2>2
<1>9. \A t \in Sessions : Live(t)' <=> Live(t)
  BY <1>1, <1>4 DEF Live
<1>10. PathInv'
  BY <1>1, <1>9 DEF UploadInv, PathInv
<1>11. ASSUME NEW t \in Sessions, NEW u \in Sessions PROVE Meet(t, u)'
  <2>1. wpc'[t] \in {"report", "ended"} => wpc[t] \in {"report", "ended"}
    BY <1>1, <1>4
  <2> QED BY <1>1, <1>9, <2>1 DEF UploadInv, Meet
<1> QED BY <1>5, <1>6, <1>7, <1>8, <1>10, <1>11, ContentStep DEF UploadInv

-----------------------------------------------------------------------------
(* The theorem.                                                            *)

\* Nothing has been given to anybody.
LEMMA InitWhole == Init => UploadInv
<1> SUFFICES ASSUME Init PROVE UploadInv
  OBVIOUS
<1>1. /\ DOMAIN ses = Sessions /\ DOMAIN wpc = Sessions /\ DOMAIN ok = Sessions
      /\ DOMAIN taken = Sessions /\ DOMAIN file = Sessions /\ DOMAIN result = Sessions
  BY DEF Init
<1>2. ASSUME NEW s \in Sessions
      PROVE  /\ wpc[s] = "none" /\ taken[s] = << >> /\ file[s] = << >> /\ result[s] = "none"
             /\ DOMAIN ses[s] = SesFields /\ ses[s].ready = << >> /\ ses[s].block = << >>
             /\ ses[s].got = 0 /\ ses[s].finished = FALSE
  BY DEF Init, SesFields
<1>3. \A s \in Sessions : IsSes(ses[s]) /\ file[s] \in Seq(Nat) /\ taken[s] \in Seq(Nat)
  <2>1. << >> \in Seq(Nat) /\ << >> \in Seq(Seq(Nat)) /\ 0 \in Nat
    OBVIOUS
  <2> TAKE s \in Sessions
  <2>2. file[s] \in Seq(Nat) /\ taken[s] \in Seq(Nat)
    BY <1>2, <2>1
  <2>3. ses[s].ready \in Seq(Seq(Nat)) /\ ses[s].block \in Seq(Nat) /\ ses[s].got \in Nat
    BY <1>2, <2>1
  <2>4. DOMAIN ses[s] = SesFields
    BY <1>2
  <2> QED BY <2>2, <2>3, <2>4 DEF IsSes
<1>4. ASSUME NEW s \in Sessions PROVE Pieces(ses[s], << >>, << >>)
  <2> DEFINE p == [k \in 1..1 |-> 0]
  <2>1. p \in [1..1 -> 0..0] /\ p[1] = 0
    OBVIOUS
  <2> HIDE DEF p
  <2>2. Bytes(0, 0) = << >>
    BY BytesNone
  <2>3. Len(<< >>) = 0 /\ 0 + 1 = 1 /\ 0 <= 0 /\ 1..0 = {}
    OBVIOUS
  <2>4. ses[s].ready = << >> /\ ses[s].block = << >> /\ ses[s].got = 0
    BY <1>2
  <2>5. Len(ses[s].ready) = 0 /\ Len(ses[s].ready) + 1 = 1
    BY <2>3, <2>4
  <2>6. p \in [1..Len(ses[s].ready) + 1 -> 0..ses[s].got]
    BY <2>1, <2>4, <2>5
  <2>7. /\ << >> = Bytes(0, Len(<< >>)) /\ Len(<< >>) <= p[1] /\ << >> = Bytes(Len(<< >>), p[1])
        /\ ses[s].block = Bytes(p[Len(ses[s].ready) + 1], ses[s].got)
    BY <2>1, <2>2, <2>3, <2>4, <2>5
  <2>8. \A k \in 1..Len(ses[s].ready) :
          p[k] <= p[k + 1] /\ ses[s].ready[k] = Bytes(p[k], p[k + 1])
    BY <2>5
  <2> QED BY <2>6, <2>7, <2>8 DEF Pieces
<1>5. \A s \in Sessions : ContentInv(s)
  BY <1>2, <1>4 DEF ContentInv, Content
<1>6. /\ path \in [Sessions -> Indices] /\ disk \in [Indices -> Sessions \cup {NoOne}]
      /\ reserved = {} /\ \A i \in Indices : disk[i] = NoOne
  <2>1. 0 \in Indices
    BY UploadAssumption, FS_CardinalityType DEF Indices
  <2> QED BY <2>1 DEF Init
<1>7. ShapeInv
  BY <1>1, <1>3, <1>6 DEF ShapeInv
<1>8. \A s \in Sessions : ResultInv(s)
  BY <1>2, <1>6, UploadAssumption DEF ResultInv
<1>9. PathInv /\ \A s, t \in Sessions : Meet(s, t)
  BY <1>2, <1>6 DEF PathInv, Meet, Live
<1> QED BY <1>5, <1>7, <1>8, <1>9 DEF UploadInv

\* Every step.
LEMMA StepKeeps == ASSUME UploadInv, [Next]_vars PROVE UploadInv'
<1>1. CASE UNCHANGED vars
  BY <1>1 DEF vars, worker, UploadInv, ShapeInv, ContentInv, ResultInv, PathInv, Meet, Live
<1>2. ASSUME NEW s \in Sessions, CreateSession(s) \/ Feeding(s) \/ Working(s) PROVE UploadInv'
  BY <1>2, CreateKeeps, AppendKeeps, HighKeeps, FinishKeeps, CancelKeeps, WorkerWaitsKeeps, DropsKeeps,
     TakesKeeps, StopsKeeps, WritesKeeps, DecidesKeeps, RenamesKeeps, ReleasesKeeps, ReportsKeeps
     DEF Feeding, Working
<1> QED BY <1>1, <1>2 DEF Next

\* run_upload_writer_session, append, finish and reserve_upload_paths: a renamed file is the
\* whole upload, a failed one is not there, and two uploads meet in a file only if the
\* later one may overwrite it.
THEOREM UploadsKeepTheirFiles == Spec => []FilesOwned
<1>1. ASSUME UploadInv PROVE FilesOwned
  <2>1. CompleteIsWhole
    BY <1>1 DEF UploadInv, ContentInv, Content, ResultInv, CompleteIsWhole
  <2>2. PathsDistinct
    BY <1>1 DEF UploadInv, PathInv, Meet, PathsDistinct
  <2> QED BY <2>1, <2>2 DEF FilesOwned
<1> QED BY <1>1, InitWhole, StepKeeps, PTL DEF Spec
-----------------------------------------------------------------------------
(* The accounts: their invariant.                                          *)

\* A record of a session with its numbers.
IsAcc(r) == IsSes(r) /\ r.queued \in Nat /\ r.written \in Nat

\* The bytes in a session's blocks.
Held(r) == Len(r.block) + Len(FlattenSeq(r.ready))

\* No block is longer than a block, and the pending one is not full.
Short(r, b) ==
  /\ Len(r.block) < BlockSize /\ Len(b) <= BlockSize
  /\ \A i \in 1..Len(r.ready) : Len(r.ready[i]) <= BlockSize

\* Before the worker has stopped.
Early == {"none", "queued", "open", "wait", "low", "write"}

\* A session takes no more data when it is refused something or the worker has stopped,
\* unless the part file could not be opened.
Ending(r, w, k, o) ==
  /\ r.canceled \/ r.failed => r.finished
  /\ r.finished /\ Good(r) => r.block = << >>
  /\ w \in {"none", "queued", "open"} => ~o /\ k
  /\ w \in {"wait", "low", "write"} /\ k => o
  /\ w \in {"low", "write"} => k
  /\ o /\ ~k => r.finished
  /\ o /\ w \notin Early => r.finished /\ r.queued = 0
  /\ r.queued = Held(r) \/ (w \in {"report", "ended"} /\ ~o)

\* What has come in, against what is counted: nothing is written without a file.
Fed(r, w, o, b) ==
  /\ w \notin {"low", "write"} => b = << >>
  /\ ~o => /\ r.written = 0 /\ b = << >> /\ r.queued <= MaxUpload
           /\ r.got <= (IF w \in Early THEN 0 ELSE MaxUpload) + r.queued
  /\ o => r.got <= MaxUpload + BlockSize
  /\ o /\ w \in Early => r.got <= r.written + r.queued + Len(b)

\* The watermarks: data comes in below the high mark only.
Marked(r, a, p, w) ==
  /\ r.queued >= HighMark => r.above
  /\ r.above => a = "high" \/ p
  /\ w = "low" => ~r.above /\ (a = "high" \/ p)
  /\ w = "none" => a = "none"
  /\ \A n \in Chunks : (\A m \in Chunks : m <= n) => r.queued < HighMark + n

Account(r, a, p, w, k, o, b) ==
  IsAcc(r) /\ b \in Seq(Nat) /\ Short(r, b) /\ Ending(r, w, k, o) /\ Fed(r, w, o, b) /\ Marked(r, a, p, w)

AccountInv(s) == Account(ses[s], apc[s], paused[s], wpc[s], ok[s], opened[s], taken[s])

AccountsInv ==
  /\ DOMAIN ses = Sessions /\ DOMAIN apc = Sessions /\ DOMAIN paused = Sessions
  /\ DOMAIN wpc = Sessions /\ DOMAIN ok = Sessions /\ DOMAIN opened = Sessions
  /\ DOMAIN taken = Sessions
  /\ \A s \in Sessions : AccountInv(s)
  /\ total = SumFunction(Queued)
  /\ active = Cardinality({s \in Sessions : Live(s)})

\* A session's bytes are a number.
LEMMA HeldType ==
  ASSUME NEW r, IsSes(r)
  PROVE  /\ Held(r) \in Nat /\ Len(r.block) \in Nat /\ Len(FlattenSeq(r.ready)) \in Nat
         /\ FlattenSeq(r.ready) \in Seq(Nat)
<1>1. r.block \in Seq(Nat) /\ r.ready \in Seq(Seq(Nat))
  BY DEF IsSes
<1>2. FlattenSeq(r.ready) \in Seq(Nat)
  BY <1>1, FlattenType
<1>3. Len(r.block) \in Nat /\ Len(FlattenSeq(r.ready)) \in Nat
  <2>1. \A q \in Seq(Nat) : Len(q) \in Nat
    BY LenProperties
  <2> QED BY <1>1, <1>2, <2>1
<1>4. Held(r) \in Nat
  <2> DEFINE x == Len(r.block)
             y == Len(FlattenSeq(r.ready))
  <2>1. x \in Nat /\ y \in Nat /\ Held(r) = x + y
    BY <1>3, Zenon DEF Held
  <2> HIDE DEF x, y
  <2> QED BY ONLY <2>1
<1> QED BY <1>2, <1>3, <1>4, Zenon

\* append's copy: n more bytes are held, in blocks of the right size.
LEMMA FillHolds ==
  ASSUME NEW r, IsSes(r), NEW n \in Nat, NEW b, Short(r, b)
  PROVE  Held(Fill(r, n)) = Held(r) + n /\ Short(Fill(r, n), b)
<1> DEFINE all == r.block \o Bytes(r.got, r.got + n)
           full == Len(all) \div BlockSize
           blocks == [i \in 1..full |-> SubSeq(all, (i - 1) * BlockSize + 1, i * BlockSize)]
           rest == SubSeq(all, full * BlockSize + 1, Len(all))
           q == Fill(r, n)
<1>1. /\ IsSes(q) /\ blocks \in Seq(Seq(Nat)) /\ Len(blocks) = full
      /\ q.ready = r.ready \o blocks /\ q.block = rest
  BY FillShape
<1>2. /\ r.got \in Nat /\ r.got + n \in Nat /\ r.got <= r.got + n
      /\ r.block \in Seq(Nat) /\ r.ready \in Seq(Seq(Nat))
  BY DEF IsSes
<1>3. all \in Seq(Nat) /\ Len(all) = Len(r.block) + n /\ Len(r.block) \in Nat /\ Len(all) \in Nat
  <2> DEFINE y == Bytes(r.got, r.got + n)
  <2>1. y \in Seq(Nat) /\ Len(y) = n
    <3> DEFINE from == r.got
               to == r.got + n
    <3>1. from \in Nat /\ to \in Nat /\ from <= to /\ to - from = n
      BY <1>2
    <3> HIDE DEF from, to
    <3>2. Bytes(from, to) \in Seq(Nat) /\ Len(Bytes(from, to)) = n
      BY <3>1, BytesShape
    <3> QED BY <3>2 DEF from, to
  <2> HIDE DEF y
  <2>3. r.block \o y \in Seq(Nat) /\ Len(r.block \o y) = Len(r.block) + Len(y)
    BY <1>2, <2>1, ConcatProperties
  <2>4. Len(r.block) \in Nat
    BY <1>2, LenProperties
  <2>5. y \in Seq(Nat) /\ all = r.block \o y
    BY <2>1 DEF y
  <2> HIDE DEF all
  <2> QED BY <2>1, <2>3, <2>4, <2>5
<1>4. /\ BlockSize \in Nat \ {0} /\ full \in Nat /\ full * BlockSize <= Len(all)
      /\ Len(all) < full * BlockSize + BlockSize /\ full * BlockSize \in Nat
  <2>1. BlockSize \in Nat \ {0}
    BY UploadAssumption
  <2> DEFINE l == Len(all)
  <2>2. l \in Nat
    BY <1>3
  <2> HIDE DEF l
  <2> DEFINE d == l \div BlockSize
  <2>3. d \in Nat /\ d * BlockSize <= l /\ l < d * BlockSize + BlockSize /\ d * BlockSize \in Nat
    BY <2>1, <2>2
  <2>4. full = d
    BY DEF l
  <2> HIDE DEF d, full, all
  <2> QED BY <2>1, <2>3, <2>4 DEF l
<1> HIDE DEF q
<1>5. ASSUME NEW i \in 1..full PROVE Len(blocks[i]) = BlockSize
  <2> DEFINE lo == (i - 1) * BlockSize
             hi == i * BlockSize
  <2> HIDE DEF full
  <2>1. lo \in Nat /\ hi = lo + BlockSize /\ hi <= full * BlockSize
    <3>1. i \in Nat /\ i <= full /\ i - 1 \in Nat /\ full \in Nat /\ BlockSize \in Nat
      BY <1>4
    <3>2. (i - 1) * BlockSize \in Nat /\ i * BlockSize = (i - 1) * BlockSize + BlockSize
      BY <3>1
    <3>3. i * BlockSize <= full * BlockSize
      BY <3>1
    <3> QED BY <3>2, <3>3
  <2> HIDE DEF lo, hi
  <2>2. lo + 1 \in 1..Len(all) + 1 /\ hi \in lo..Len(all) /\ lo \in Int /\ hi \in Int
    <3> DEFINE l == Len(all)
    <3>1. l \in Nat /\ full * BlockSize <= l /\ full * BlockSize \in Nat /\ BlockSize \in Nat
      BY <1>3, <1>4
    <3> HIDE DEF l, all
    <3>2. lo + 1 \in 1..l + 1 /\ hi \in lo..l /\ lo \in Int /\ hi \in Int
      BY <2>1, <3>1
    <3> QED BY <3>2 DEF l
  <2> HIDE DEF all
  <2>3. Len(SubSeq(all, lo + 1, hi)) = BlockSize
    BY <1>3, <1>4, <2>1, <2>2, SubSeqProperties
  <2> QED BY <2>3 DEF lo, hi
<1>6. Len(rest) = Len(all) - full * BlockSize
  <2> DEFINE lo == full * BlockSize
  <2>1. lo \in Nat /\ lo <= Len(all)
    BY <1>4
  <2> HIDE DEF full, lo, all
  <2>2. Len(SubSeq(all, lo + 1, Len(all))) = Len(all) - lo
    BY <1>3, <2>1, SubSeqProperties
  <2> QED BY <2>2 DEF lo
<1> HIDE DEF rest, blocks
<1>7. Len(FlattenSeq(q.ready)) = Len(FlattenSeq(r.ready)) + full * BlockSize
  <2>1. FlattenSeq(r.ready \o blocks) = FlattenSeq(r.ready) \o FlattenSeq(blocks)
    BY <1>1, <1>2, FlattenConcat
  <2>2. FlattenSeq(r.ready) \in Seq(Nat) /\ FlattenSeq(blocks) \in Seq(Nat)
    BY <1>1, <1>2, FlattenType
  <2>3. Len(FlattenSeq(blocks)) = Len(blocks) * BlockSize
    BY <1>1, <1>4, <1>5, FlattenEqual
  <2>4. Len(FlattenSeq(r.ready) \o FlattenSeq(blocks)) = Len(FlattenSeq(r.ready)) + Len(FlattenSeq(blocks))
    BY <2>2, ConcatProperties
  <2> QED BY <1>1, <2>1, <2>3, <2>4
<1>8. Held(q) = Held(r) + n
  <2> DEFINE x == Len(r.block)
             y == Len(FlattenSeq(r.ready))
             z == full * BlockSize
             l == Len(all)
  <2>1. x \in Nat /\ y \in Nat /\ z \in Nat /\ l \in Nat /\ l = x + n
    BY <1>3, <1>4, HeldType, Zenon
  <2>2. Len(q.block) = l - z /\ Len(FlattenSeq(q.ready)) = y + z
    BY <1>1, <1>6, <1>7, Zenon
  <2>3. Held(q) = (l - z) + (y + z) /\ Held(r) = x + y
    BY <2>2, Zenon DEF Held
  <2> HIDE DEF x, y, z, l
  <2> QED BY ONLY <2>1, <2>3, n \in Nat
<1>9. Short(q, b)
  <2>1. Len(q.block) < BlockSize
    <3> DEFINE z == full * BlockSize
               l == Len(all)
    <3>1. /\ z \in Nat /\ l \in Nat /\ l < z + BlockSize /\ BlockSize \in Nat
          /\ Len(q.block) = l - z
      BY <1>1, <1>3, <1>4, <1>6
    <3> HIDE DEF z, l
    <3> QED BY ONLY <3>1
  <2>2. ASSUME NEW i \in 1..Len(q.ready) PROVE Len(q.ready[i]) <= BlockSize
    <3> DEFINE m == Len(r.ready)
    <3>1. /\ m \in Nat /\ Len(q.ready) = m + full
          /\ q.ready[i] = IF i <= m THEN r.ready[i] ELSE blocks[i - m]
      <4> DEFINE u == r.ready
                 v == u \o blocks
      <4>1. u \in Seq(Seq(Nat)) /\ blocks \in Seq(Seq(Nat)) /\ Len(blocks) = full /\ v = q.ready
        BY <1>1, <1>2
      <4> HIDE DEF u
      <4>2. /\ Len(u) \in Nat /\ Len(v) = Len(u) + Len(blocks)
            /\ \A j \in 1..Len(u) + Len(blocks) : v[j] = IF j <= Len(u) THEN u[j] ELSE blocks[j - Len(u)]
        BY ONLY <4>1, ConcatProperties, LenProperties
      <4> HIDE DEF v
      <4>3. i \in 1..Len(v)
        BY <2>2, <4>1
      <4>4. v[i] = IF i <= Len(u) THEN u[i] ELSE blocks[i - Len(u)]
        BY <4>2, <4>3
      <4> QED BY <4>1, <4>2, <4>4, Zenon DEF u
    <3>2. \A j \in 1..m : Len(r.ready[j]) <= BlockSize
      BY DEF Short
    <3> HIDE DEF m, full
    <3>3. i \in 1..m \/ (~(i <= m) /\ i - m \in 1..full)
      BY <1>4, <2>2, <3>1
    <3>4. CASE i \in 1..m
      <4>1. q.ready[i] = r.ready[i]
        BY <3>1, <3>4
      <4> QED BY <3>2, <3>4, <4>1
    <3>5. CASE ~(i <= m) /\ i - m \in 1..full
      <4>1. q.ready[i] = blocks[i - m]
        BY <3>1, <3>5
      <4>2. Len(blocks[i - m]) = BlockSize
        BY <1>5, <3>5
      <4> QED BY <1>4, <4>1, <4>2
    <3> QED BY <3>3, <3>4, <3>5
  <2> QED BY <2>1, <2>2 DEF Short
<1> QED BY <1>8, <1>9 DEF q

\* flush_pending_block_locked: the pending block is a ready one.
LEMMA FlushHolds ==
  ASSUME NEW r, IsAcc(r), NEW b, Short(r, b)
  PROVE  LET q == FlushPending(r)
         IN  /\ IsAcc(q) /\ Held(q) = Held(r) /\ Short(q, b) /\ q.block = << >>
             /\ q.got = r.got /\ q.queued = r.queued /\ q.written = r.written /\ q.above = r.above
             /\ q.finished = r.finished /\ q.canceled = r.canceled /\ q.failed = r.failed
<1> DEFINE q == FlushPending(r)
<1>1. r.block \in Seq(Nat) /\ r.ready \in Seq(Seq(Nat)) /\ DOMAIN r = SesFields /\ IsSes(r)
  BY DEF IsAcc, IsSes
<1>2. CASE r.block = << >>
  BY <1>2 DEF FlushPending
<1>3. CASE r.block # << >>
  <2>1. q = [r EXCEPT !.ready = Append(r.ready, r.block), !.block = << >>]
    BY <1>1, <1>3 DEF FlushPending, SesFields
  <2>2. Append(r.ready, r.block) \in Seq(Seq(Nat)) /\ << >> \in Seq(Nat)
    BY <1>1, AppendProperties, EmptySeq
  <2>3. /\ IsAcc(q) /\ q.block = << >> /\ q.ready = Append(r.ready, r.block)
        /\ q.got = r.got /\ q.queued = r.queued /\ q.written = r.written /\ q.above = r.above
        /\ q.finished = r.finished /\ q.canceled = r.canceled /\ q.failed = r.failed
    BY <1>1, <2>1, <2>2 DEF IsAcc, IsSes, SesFields
  <2> HIDE DEF q
  <2>4. Held(q) = Held(r)
    <3>1. FlattenSeq(r.ready) \in Seq(Nat) /\ Len(r.block) \in Nat /\ Len(FlattenSeq(r.ready)) \in Nat
      BY <1>1, HeldType
    <3>2. FlattenSeq(Append(r.ready, r.block)) = FlattenSeq(r.ready) \o r.block
      BY <1>1, <3>1, FlattenAppend
    <3>3. Len(FlattenSeq(r.ready) \o r.block) = Len(FlattenSeq(r.ready)) + Len(r.block)
      BY <1>1, <3>1, ConcatProperties
    <3>4. Len(q.block) = 0
      BY <2>3
    <3> DEFINE x == Len(r.block)
               y == Len(FlattenSeq(r.ready))
    <3>5. Len(FlattenSeq(q.ready)) = y + x
      BY <2>3, <3>2, <3>3, Zenon
    <3>6. x \in Nat /\ y \in Nat /\ Held(q) = 0 + (y + x) /\ Held(r) = x + y
      BY <3>1, <3>4, <3>5, Zenon DEF Held
    <3> HIDE DEF x, y
    <3> QED BY ONLY <3>6
  <2>5. Short(q, b)
    <3>1. Len(q.block) < BlockSize
      BY <2>3, UploadAssumption
    <3>2. ASSUME NEW i \in 1..Len(q.ready) PROVE Len(q.ready[i]) <= BlockSize
      <4> DEFINE m == Len(r.ready)
      <4>1. /\ m \in Nat /\ Len(q.ready) = m + 1 /\ q.ready[m + 1] = r.block
            /\ \A j \in 1..m : q.ready[j] = r.ready[j]
        BY <1>1, <2>3, AppendProperties, LenProperties
      <4>2. Len(r.block) <= BlockSize /\ \A j \in 1..m : Len(r.ready[j]) <= BlockSize
        BY <1>1, UploadAssumption, LenProperties DEF Short
      <4> HIDE DEF m
      <4>3. i \in 1..m \/ i = m + 1
        BY <3>2, <4>1
      <4>4. CASE i \in 1..m
        BY <4>1, <4>2, <4>4
      <4>5. CASE i = m + 1
        BY <4>1, <4>2, <4>5
      <4> QED BY <4>3, <4>4, <4>5
    <3> QED BY <3>1, <3>2 DEF Short
  <2> QED BY <2>3, <2>4, <2>5 DEF q
<1> QED BY <1>2, <1>3

\* The next block: what is left is held without it.
LEMMA TakeHolds ==
  ASSUME NEW r, IsSes(r), r.ready # << >>, NEW q, IsSes(q), q.ready = Tail(r.ready), q.block = r.block,
         NEW b, Short(r, b)
  PROVE  /\ Head(r.ready) \in Seq(Nat) /\ Len(Head(r.ready)) \in Nat
         /\ Held(r) = Held(q) + Len(Head(r.ready)) /\ Short(q, Head(r.ready))
<1>1. r.ready \in Seq(Seq(Nat)) /\ r.block \in Seq(Nat)
  BY DEF IsSes
<1> DEFINE h == Head(r.ready)
           t == Tail(r.ready)
<1>2. /\ h \in Seq(Nat) /\ t \in Seq(Seq(Nat)) /\ Len(t) = Len(r.ready) - 1 /\ Len(r.ready) \in Nat
      /\ \A i \in 1..Len(t) : t[i] = r.ready[i + 1]
  BY <1>1, HeadTailProperties, LenProperties
<1>3. Len(r.ready) # 0 /\ h = r.ready[1]
  BY <1>1, EmptySeq
<1>4. FlattenSeq(r.ready) = h \o FlattenSeq(t)
  BY <1>1, FlattenHead
<1> HIDE DEF h, t
<1>5. FlattenSeq(t) \in Seq(Nat)
  BY <1>2, FlattenType
<1>6. /\ Len(h \o FlattenSeq(t)) = Len(h) + Len(FlattenSeq(t))
      /\ Len(h) \in Nat /\ Len(FlattenSeq(t)) \in Nat /\ Len(r.block) \in Nat
  BY <1>1, <1>2, <1>5, ConcatProperties, LenProperties
<1>7. Held(r) = Held(q) + Len(h)
  <2> DEFINE x == Len(r.block)
             y == Len(FlattenSeq(t))
             z == Len(h)
  <2>1. Len(FlattenSeq(r.ready)) = z + y
    BY <1>4, <1>6, Zenon
  <2>2. Held(r) = x + (z + y)
    BY <2>1, Zenon DEF Held
  <2>3. Held(q) = x + y
    BY Zenon DEF Held, t
  <2>4. x \in Nat /\ y \in Nat /\ z \in Nat
    BY <1>6, Zenon
  <2> HIDE DEF x, y, z
  <2>5. Held(r) = Held(q) + z
    BY ONLY <2>2, <2>3, <2>4
  <2> QED BY <2>5 DEF z
<1>8. Short(q, h)
  <2>1. \A i \in 1..Len(r.ready) : Len(r.ready[i]) <= BlockSize
    BY DEF Short
  <2>2. 1 \in 1..Len(r.ready)
    BY <1>2, <1>3
  <2>3. \A i \in 1..Len(t) : i + 1 \in 1..Len(r.ready)
    BY <1>2
  <2>4. \A i \in 1..Len(t) : Len(t[i]) <= BlockSize
    BY <1>2, <2>1, <2>3
  <2>5. Len(h) <= BlockSize
    BY <1>3, <2>1, <2>2
  <2> QED BY <2>4, <2>5 DEF Short, t
<1> QED BY <1>2, <1>6, <1>7, <1>8 DEF h

\* A step of session s leaves the others' bytes alone.
LEMMA QueuedMoves ==
  ASSUME NEW s \in Sessions, NEW r, Becomes(ses, ses', s, r), r.queued \in Nat,
         \A t \in Sessions : ses[t].queued \in Nat
  PROVE  /\ SumFunction(Queued)' = SumFunction(Queued) - ses[s].queued + r.queued
         /\ ses[s].queued <= SumFunction(Queued) /\ SumFunction(Queued) \in Nat
<1> DEFINE f == [t \in Sessions |-> ses[t].queued]
           g == [t \in Sessions |-> ses'[t].queued]
<1>1. SumFunction(Queued) = SumFunctionOnSet(f, Sessions)
  BY DEF SumFunction, Queued
<1>2. SumFunction(Queued)' = SumFunctionOnSet(g, Sessions)
  BY DEF SumFunction, Queued
<1>3. /\ \A t \in Sessions : f[t] \in Nat /\ g[t] \in Nat
      /\ \A t \in Sessions \ {s} : f[t] = g[t]
      /\ f[s] = ses[s].queued /\ g[s] = r.queued
  BY DEF Becomes
<1> HIDE DEF f, g
<1>4. IsFiniteSet(Sessions)
  BY UploadAssumption
<1>5. SumFunctionOnSet(f, Sessions) \in Nat
  BY <1>3, <1>4, SumType
<1>6. /\ SumFunctionOnSet(g, Sessions) = SumFunctionOnSet(f, Sessions) - f[s] + g[s]
      /\ f[s] <= SumFunctionOnSet(f, Sessions)
  BY <1>3, <1>4, SumMoves
<1> QED BY <1>1, <1>2, <1>3, <1>5, <1>6
-----------------------------------------------------------------------------
(* The accounts: the steps.                                                *)

\* Facts of every session.
LEMMA AtAccount ==
  ASSUME AccountsInv, NEW s \in Sessions
  PROVE  /\ AccountInv(s) /\ IsAcc(ses[s]) /\ IsSes(ses[s]) /\ taken[s] \in Seq(Nat)
         /\ DOMAIN ses = Sessions /\ DOMAIN apc = Sessions /\ DOMAIN paused = Sessions
         /\ DOMAIN wpc = Sessions /\ DOMAIN ok = Sessions /\ DOMAIN opened = Sessions
         /\ DOMAIN taken = Sessions
BY DEF AccountsInv, AccountInv, Account, IsAcc

Counts(w) == w \notin {"none", "report", "ended"}

\* A step of session s, from its values to r, a, p, w, k, o and b.
LEMMA AccountStep ==
  ASSUME AccountsInv, NEW s \in Sessions, NEW r, NEW a, NEW p, NEW w, NEW k, NEW o, NEW b,
         Becomes(ses, ses', s, r), Becomes(apc, apc', s, a), Becomes(paused, paused', s, p),
         Becomes(wpc, wpc', s, w), Becomes(ok, ok', s, k), Becomes(opened, opened', s, o),
         Becomes(taken, taken', s, b), Account(r, a, p, w, k, o, b),
         total' = total - ses[s].queued + r.queued,
         \/ (Counts(wpc[s]) <=> Counts(w)) /\ active' = active
         \/ ~Counts(wpc[s]) /\ Counts(w) /\ active' = active + 1
         \/ Counts(wpc[s]) /\ ~Counts(w) /\ active' = active - 1
  PROVE  AccountsInv'
<1>1. \A t \in Sessions : AccountInv(t)'
  <2>1. AccountInv(s)'
    BY DEF Becomes, AccountInv
  <2>2. ASSUME NEW t \in Sessions \ {s} PROVE AccountInv(t)'
    BY DEF Becomes, AccountInv, AccountsInv
  <2> QED BY <2>1, <2>2
<1>2. total' = SumFunction(Queued)'
  <2>1. r.queued \in Nat /\ \A t \in Sessions : ses[t].queued \in Nat
    BY AtAccount DEF Account, IsAcc
  <2>2. SumFunction(Queued)' = SumFunction(Queued) - ses[s].queued + r.queued
    BY <2>1, QueuedMoves
  <2> QED BY <2>2 DEF AccountsInv
<1>3. active' = Cardinality({t \in Sessions : Live(t)})'
  <2> DEFINE A == {t \in Sessions : Live(t)}
             B == {t \in Sessions : Live(t)'}
  <2>1. \A t \in Sessions \ {s} : Live(t)' <=> Live(t)
    BY DEF Becomes, Live
  <2>2. (Live(s) <=> Counts(wpc[s])) /\ (Live(s)' <=> Counts(w))
    BY DEF Becomes, Live, Counts
  <2>3. IsFiniteSet(A) /\ Cardinality(A) \in Nat /\ active = Cardinality(A)
    BY UploadAssumption, FS_Subset, FS_CardinalityType DEF AccountsInv
  <2>4. CASE (Counts(wpc[s]) <=> Counts(w)) /\ active' = active
    <3>1. A = B
      BY <2>1, <2>2, <2>4
    <3> QED BY <2>3, <2>4, <3>1
  <2>5. CASE ~Counts(wpc[s]) /\ Counts(w) /\ active' = active + 1
    <3>1. B = A \cup {s} /\ s \notin A
      BY <2>1, <2>2, <2>5
    <3> HIDE DEF A, B
    <3>2. Cardinality(B) = Cardinality(A) + 1
      BY <2>3, <3>1, FS_AddElement
    <3> QED BY <2>3, <2>5, <3>2 DEF B
  <2>6. CASE Counts(wpc[s]) /\ ~Counts(w) /\ active' = active - 1
    <3>1. B = A \ {s} /\ s \in A
      BY <2>1, <2>2, <2>6
    <3> HIDE DEF A, B
    <3>2. Cardinality(B) = Cardinality(A) - 1
      BY <2>3, <3>1, FS_RemoveElement
    <3> QED BY <2>3, <2>6, <3>2 DEF B
  <2> QED BY <2>4, <2>5, <2>6
<1> QED BY <1>1, <1>2, <1>3 DEF AccountsInv, Becomes

\* A step that leaves the record alone.
LEMMA PlaceStep ==
  ASSUME AccountsInv, NEW s \in Sessions, NEW a, NEW p, NEW w, NEW k, NEW o, NEW b,
         ses' = ses, total' = total,
         Becomes(apc, apc', s, a), Becomes(paused, paused', s, p),
         Becomes(wpc, wpc', s, w), Becomes(ok, ok', s, k), Becomes(opened, opened', s, o),
         Becomes(taken, taken', s, b), Account(ses[s], a, p, w, k, o, b),
         \/ (Counts(wpc[s]) <=> Counts(w)) /\ active' = active
         \/ ~Counts(wpc[s]) /\ Counts(w) /\ active' = active + 1
         \/ Counts(wpc[s]) /\ ~Counts(w) /\ active' = active - 1
  PROVE  AccountsInv'
<1>1. Becomes(ses, ses', s, ses[s])
  BY AtAccount DEF Becomes
<1>2. total' = total - ses[s].queued + ses[s].queued
  <2>1. ses[s].queued \in Nat /\ \A t \in Sessions : ses[t].queued \in Nat
    BY AtAccount DEF IsAcc
  <2>2. SumFunction(Queued) \in Nat
    BY <1>1, <2>1, QueuedMoves
  <2>3. total \in Nat
    BY <2>2 DEF AccountsInv
  <2> QED BY <2>1, <2>3
<1> QED BY <1>1, <1>2, AccountStep

\* A step that changes the record only.
LEMMA RecordStep ==
  ASSUME AccountsInv, NEW s \in Sessions, NEW r, NEW a,
         Becomes(ses, ses', s, r), Becomes(apc, apc', s, a),
         UNCHANGED <<paused, wpc, ok, opened, taken, active>>,
         Account(r, a, paused[s], wpc[s], ok[s], opened[s], taken[s]),
         total' = total - ses[s].queued + r.queued
  PROVE  AccountsInv'
<1>1. /\ Becomes(paused, paused', s, paused[s]) /\ Becomes(wpc, wpc', s, wpc[s])
      /\ Becomes(ok, ok', s, ok[s]) /\ Becomes(opened, opened', s, opened[s])
      /\ Becomes(taken, taken', s, taken[s])
  BY AtAccount DEF Becomes
<1> QED BY <1>1, AccountStep

\* create_session, and the worker where it does not touch a block: starting, opening
\* the file, the callbacks, the end of the writing, closing, deciding and renaming.
LEMMA PlacesKeep ==
  ASSUME AccountsInv, NEW s \in Sessions,
         \/ CreateSession(s) \/ HighCallback(s) \/ WorkerStarts(s) \/ WorkerOpens(s) \/ WorkerStops(s)
         \/ WorkerResumes(s) \/ WorkerCloses(s) \/ WorkerDecides(s) \/ WorkerRenames(s)
  PROVE  AccountsInv'
<1> DEFINE r == ses[s]
           b == taken[s]
<1>1. r' = r /\ ses' = ses /\ total' = total /\ taken' = taken
  BY DEF CreateSession, HighCallback, WorkerStarts, WorkerOpens, WorkerStops, WorkerResumes, WorkerCloses,
         WorkerDecides, WorkerRenames, worker
<1>2. /\ AccountInv(s) /\ DOMAIN apc = Sessions /\ DOMAIN paused = Sessions /\ DOMAIN taken = Sessions
      /\ DOMAIN wpc = Sessions /\ DOMAIN ok = Sessions /\ DOMAIN opened = Sessions
  BY AtAccount
<1>3. IsAcc(r) /\ b \in Seq(Nat) /\ Short(r, b) /\ r.queued \in Nat /\ r.written \in Nat /\ r.got \in Nat
  BY <1>2 DEF AccountInv, Account, IsAcc, IsSes
<1>4. /\ Ending(r, wpc[s], ok[s], opened[s]) /\ Fed(r, wpc[s], opened[s], b)
      /\ Marked(r, apc[s], paused[s], wpc[s])
  BY <1>2 DEF AccountInv, Account
<1>5. ASSUME NEW a, NEW p, NEW w, NEW k, NEW o,
             Becomes(apc, apc', s, a), Becomes(paused, paused', s, p), Becomes(wpc, wpc', s, w),
             Becomes(ok, ok', s, k), Becomes(opened, opened', s, o),
             Ending(r, w, k, o), Fed(r, w, o, b), Marked(r, a, p, w),
             \/ (Counts(wpc[s]) <=> Counts(w)) /\ active' = active
             \/ ~Counts(wpc[s]) /\ Counts(w) /\ active' = active + 1
      PROVE  AccountsInv'
  <2>1. Becomes(taken, taken', s, b)
    BY <1>1, <1>2, Assigned
  <2>2. Account(ses[s], a, p, w, k, o, b)
    BY <1>3, <1>5 DEF Account
  <2> HIDE DEF b
  <2> QED BY <1>1, <1>5, <2>1, <2>2, PlaceStep
<1> HIDE DEF r, b
<1>6. CASE CreateSession(s)
  <2>1. /\ wpc[s] = "none" /\ active' = active + 1
        /\ apc' = [apc EXCEPT ![s] = "idle"] /\ paused' = paused /\ wpc' = [wpc EXCEPT ![s] = "queued"] /\ ok' = ok /\ opened' = opened
    BY <1>6 DEF CreateSession, worker, At, Tries, Dropping, Good, Verdict, r
  <2>2. /\ Becomes(apc, apc', s, "idle") /\ Becomes(paused, paused', s, paused[s]) /\ Becomes(wpc, wpc', s, "queued")
        /\ Becomes(ok, ok', s, ok[s]) /\ Becomes(opened, opened', s, opened[s])
    BY <1>2, <2>1, Assigned
  <2>3. /\ Ending(r, "queued", ok[s], opened[s]) /\ Fed(r, "queued", opened[s], b)
        /\ Marked(r, "idle", paused[s], "queued")
    BY <1>3, <1>4, <2>1, UploadAssumption DEF Ending, Fed, Marked, Early, Held, Good
  <2> QED BY <1>5, <2>1, <2>2, <2>3 DEF Counts
<1>7. CASE HighCallback(s)
  <2>1. /\ apc[s] = "high" /\ active' = active
        /\ apc' = [apc EXCEPT ![s] = "idle"] /\ paused' = [paused EXCEPT ![s] = TRUE] /\ wpc' = wpc /\ ok' = ok /\ opened' = opened
    BY <1>7 DEF HighCallback, worker, At, Tries, Dropping, Good, Verdict, r
  <2>2. /\ Becomes(apc, apc', s, "idle") /\ Becomes(paused, paused', s, TRUE) /\ Becomes(wpc, wpc', s, wpc[s])
        /\ Becomes(ok, ok', s, ok[s]) /\ Becomes(opened, opened', s, opened[s])
    BY <1>2, <2>1, Assigned
  <2>3. /\ Ending(r, wpc[s], ok[s], opened[s]) /\ Fed(r, wpc[s], opened[s], b)
        /\ Marked(r, "idle", TRUE, wpc[s])
    BY <1>3, <1>4, <2>1, UploadAssumption DEF Ending, Fed, Marked, Early, Held, Good
  <2> QED BY <1>5, <2>1, <2>2, <2>3 DEF Counts
<1>8. CASE WorkerStarts(s)
  <2>1. /\ wpc[s] = "queued" /\ active' = active
        /\ apc' = apc /\ paused' = paused /\ wpc' = [wpc EXCEPT ![s] = "open"] /\ ok' = ok /\ opened' = opened
    BY <1>8 DEF WorkerStarts, worker, At, Tries, Dropping, Good, Verdict, r
  <2>2. /\ Becomes(apc, apc', s, apc[s]) /\ Becomes(paused, paused', s, paused[s]) /\ Becomes(wpc, wpc', s, "open")
        /\ Becomes(ok, ok', s, ok[s]) /\ Becomes(opened, opened', s, opened[s])
    BY <1>2, <2>1, Assigned
  <2>3. /\ Ending(r, "open", ok[s], opened[s]) /\ Fed(r, "open", opened[s], b)
        /\ Marked(r, apc[s], paused[s], "open")
    BY <1>3, <1>4, <2>1, UploadAssumption DEF Ending, Fed, Marked, Early, Held, Good
  <2> QED BY <1>5, <2>1, <2>2, <2>3 DEF Counts
<1>9. CASE WorkerOpens(s)
  <2>1. /\ wpc[s] = "open" /\ active' = active
        /\ apc' = apc /\ paused' = paused /\ wpc' = [wpc EXCEPT ![s] = "wait"]
        /\ \/ ok' = ok /\ opened' = [opened EXCEPT ![s] = TRUE]
           \/ ok' = [ok EXCEPT ![s] = FALSE] /\ opened' = opened
    BY <1>9 DEF WorkerOpens, worker, At, Tries, Dropping, Good, Verdict, r
  <2>2. CASE ok' = ok /\ opened' = [opened EXCEPT ![s] = TRUE]
    <3>1. /\ Becomes(apc, apc', s, apc[s]) /\ Becomes(paused, paused', s, paused[s]) /\ Becomes(wpc, wpc', s, "wait")
          /\ Becomes(ok, ok', s, ok[s]) /\ Becomes(opened, opened', s, TRUE)
      BY <1>2, <2>1, <2>2, Assigned
    <3>2. /\ Ending(r, "wait", ok[s], TRUE) /\ Fed(r, "wait", TRUE, b)
          /\ Marked(r, apc[s], paused[s], "wait")
      <4>1. /\ b = << >> /\ Len(b) = 0 /\ r.got <= r.queued /\ r.queued <= MaxUpload /\ MaxUpload \in Nat
            /\ BlockSize \in Nat /\ r.written = 0
        BY <1>3, <1>4, <2>1, UploadAssumption DEF Ending, Fed, Early
      <4>2. r.got <= MaxUpload + BlockSize /\ r.got <= r.written + r.queued + Len(b)
        BY <1>3, <4>1
      <4>3. Fed(r, "wait", TRUE, b)
        BY <4>1, <4>2 DEF Fed
      <4> QED BY <1>4, <2>1, <2>2, <4>3 DEF Ending, Marked, Early
    <3> QED BY <1>5, <2>1, <2>2, <3>1, <3>2 DEF Counts
  <2>3. CASE ok' = [ok EXCEPT ![s] = FALSE] /\ opened' = opened
    <3>1. /\ Becomes(apc, apc', s, apc[s]) /\ Becomes(paused, paused', s, paused[s]) /\ Becomes(wpc, wpc', s, "wait")
          /\ Becomes(ok, ok', s, FALSE) /\ Becomes(opened, opened', s, opened[s])
      BY <1>2, <2>1, <2>3, Assigned
    <3>2. /\ Ending(r, "wait", FALSE, opened[s]) /\ Fed(r, "wait", opened[s], b)
          /\ Marked(r, apc[s], paused[s], "wait")
      BY <1>3, <1>4, <2>1, <2>3, UploadAssumption DEF Ending, Fed, Marked, Early, Held, Good
    <3> QED BY <1>5, <2>1, <2>3, <3>1, <3>2 DEF Counts
  <2> QED BY <2>1, <2>2, <2>3
<1>10. CASE WorkerStops(s)
  <2>1. /\ wpc[s] = "wait" /\ r.ready = << >> /\ r.finished /\ Good(r) /\ ok[s] /\ active' = active
        /\ apc' = apc /\ paused' = paused /\ wpc' = [wpc EXCEPT ![s] = "close"] /\ ok' = ok /\ opened' = opened
    BY <1>10 DEF WorkerStops, worker, At, Tries, Dropping, Good, Verdict, r
  <2>2. /\ Becomes(apc, apc', s, apc[s]) /\ Becomes(paused, paused', s, paused[s]) /\ Becomes(wpc, wpc', s, "close")
        /\ Becomes(ok, ok', s, ok[s]) /\ Becomes(opened, opened', s, opened[s])
    BY <1>2, <2>1, Assigned
  <2>3. /\ Ending(r, "close", ok[s], opened[s]) /\ Fed(r, "close", opened[s], b)
        /\ Marked(r, apc[s], paused[s], "close")
    <3>1. r.block = << >>
      BY <1>4, <2>1 DEF Ending
    <3>2. FlattenSeq(r.ready) = << >> /\ Len(<< >>) = 0
      BY <2>1, FlattenType, EmptySeq
    <3>3. Held(r) = 0
      BY <3>1, <3>2 DEF Held
    <3> QED BY <1>3, <1>4, <2>1, <3>3 DEF Ending, Fed, Marked, Early
  <2> QED BY <1>5, <2>1, <2>2, <2>3 DEF Counts
<1>11. CASE WorkerResumes(s)
  <2>1. /\ wpc[s] = "low" /\ active' = active
        /\ apc' = apc /\ paused' = [paused EXCEPT ![s] = FALSE] /\ wpc' = [wpc EXCEPT ![s] = "write"] /\ ok' = ok /\ opened' = opened
    BY <1>11 DEF WorkerResumes, worker, At, Tries, Dropping, Good, Verdict, r
  <2>2. /\ Becomes(apc, apc', s, apc[s]) /\ Becomes(paused, paused', s, FALSE) /\ Becomes(wpc, wpc', s, "write")
        /\ Becomes(ok, ok', s, ok[s]) /\ Becomes(opened, opened', s, opened[s])
    BY <1>2, <2>1, Assigned
  <2>3. /\ Ending(r, "write", ok[s], opened[s]) /\ Fed(r, "write", opened[s], b)
        /\ Marked(r, apc[s], FALSE, "write")
    BY <1>3, <1>4, <2>1, UploadAssumption DEF Ending, Fed, Marked, Early, Held, Good
  <2> QED BY <1>5, <2>1, <2>2, <2>3 DEF Counts
<1>12. CASE WorkerCloses(s)
  <2>1. /\ wpc[s] = "close" /\ active' = active
        /\ apc' = apc /\ paused' = paused /\ wpc' = [wpc EXCEPT ![s] = "decide"] /\ opened' = opened
        /\ \/ ok' = ok
           \/ ok' = [ok EXCEPT ![s] = FALSE]
    BY <1>12 DEF WorkerCloses, worker, At, Tries, Dropping, Good, Verdict, r
  <2>2. CASE ok' = ok
    <3>1. /\ Becomes(apc, apc', s, apc[s]) /\ Becomes(paused, paused', s, paused[s]) /\ Becomes(wpc, wpc', s, "decide")
          /\ Becomes(ok, ok', s, ok[s]) /\ Becomes(opened, opened', s, opened[s])
      BY <1>2, <2>1, <2>2, Assigned
    <3>2. /\ Ending(r, "decide", ok[s], opened[s]) /\ Fed(r, "decide", opened[s], b)
          /\ Marked(r, apc[s], paused[s], "decide")
      BY <1>3, <1>4, <2>1, <2>2, UploadAssumption DEF Ending, Fed, Marked, Early, Held, Good
    <3> QED BY <1>5, <2>1, <2>2, <3>1, <3>2 DEF Counts
  <2>3. CASE ok' = [ok EXCEPT ![s] = FALSE]
    <3>1. /\ Becomes(apc, apc', s, apc[s]) /\ Becomes(paused, paused', s, paused[s]) /\ Becomes(wpc, wpc', s, "decide")
          /\ Becomes(ok, ok', s, FALSE) /\ Becomes(opened, opened', s, opened[s])
      BY <1>2, <2>1, <2>3, Assigned
    <3>2. /\ Ending(r, "decide", FALSE, opened[s]) /\ Fed(r, "decide", opened[s], b)
          /\ Marked(r, apc[s], paused[s], "decide")
      BY <1>3, <1>4, <2>1, <2>3, UploadAssumption DEF Ending, Fed, Marked, Early, Held, Good
    <3> QED BY <1>5, <2>1, <2>3, <3>1, <3>2 DEF Counts
  <2> QED BY <2>1, <2>2, <2>3
<1>13. CASE WorkerDecides(s)
  <2>1. /\ wpc[s] = "decide" /\ active' = active
        /\ apc' = apc /\ paused' = paused /\ ok' = ok /\ opened' = opened
        /\ \/ wpc' = [wpc EXCEPT ![s] = "rename"]
           \/ wpc' = [wpc EXCEPT ![s] = "release"]
    BY <1>13 DEF WorkerDecides, worker, At, Tries, Dropping, Good, Verdict, r
  <2>2. CASE wpc' = [wpc EXCEPT ![s] = "rename"]
    <3>1. /\ Becomes(apc, apc', s, apc[s]) /\ Becomes(paused, paused', s, paused[s]) /\ Becomes(wpc, wpc', s, "rename")
          /\ Becomes(ok, ok', s, ok[s]) /\ Becomes(opened, opened', s, opened[s])
      BY <1>2, <2>1, <2>2, Assigned
    <3>2. /\ Ending(r, "rename", ok[s], opened[s]) /\ Fed(r, "rename", opened[s], b)
          /\ Marked(r, apc[s], paused[s], "rename")
      BY <1>3, <1>4, <2>1, <2>2, UploadAssumption DEF Ending, Fed, Marked, Early, Held, Good
    <3> QED BY <1>5, <2>1, <2>2, <3>1, <3>2 DEF Counts
  <2>3. CASE wpc' = [wpc EXCEPT ![s] = "release"]
    <3>1. /\ Becomes(apc, apc', s, apc[s]) /\ Becomes(paused, paused', s, paused[s]) /\ Becomes(wpc, wpc', s, "release")
          /\ Becomes(ok, ok', s, ok[s]) /\ Becomes(opened, opened', s, opened[s])
      BY <1>2, <2>1, <2>3, Assigned
    <3>2. /\ Ending(r, "release", ok[s], opened[s]) /\ Fed(r, "release", opened[s], b)
          /\ Marked(r, apc[s], paused[s], "release")
      BY <1>3, <1>4, <2>1, <2>3, UploadAssumption DEF Ending, Fed, Marked, Early, Held, Good
    <3> QED BY <1>5, <2>1, <2>3, <3>1, <3>2 DEF Counts
  <2> QED BY <2>1, <2>2, <2>3
<1>14. CASE WorkerRenames(s)
  <2>1. /\ wpc[s] = "rename" /\ active' = active
        /\ apc' = apc /\ paused' = paused /\ wpc' = [wpc EXCEPT ![s] = "release"] /\ ok' = ok /\ opened' = opened
    BY <1>14 DEF WorkerRenames, worker, At, Tries, Dropping, Good, Verdict, r
  <2>2. /\ Becomes(apc, apc', s, apc[s]) /\ Becomes(paused, paused', s, paused[s]) /\ Becomes(wpc, wpc', s, "release")
        /\ Becomes(ok, ok', s, ok[s]) /\ Becomes(opened, opened', s, opened[s])
    BY <1>2, <2>1, Assigned
  <2>3. /\ Ending(r, "release", ok[s], opened[s]) /\ Fed(r, "release", opened[s], b)
        /\ Marked(r, apc[s], paused[s], "release")
    BY <1>3, <1>4, <2>1, UploadAssumption DEF Ending, Fed, Marked, Early, Held, Good
  <2> QED BY <1>5, <2>1, <2>2, <2>3 DEF Counts
<1> QED BY <1>6, <1>7, <1>8, <1>9, <1>10, <1>11, <1>12, <1>13, <1>14
\* The counts that append's copy and fail_locked change.
LEMMA FillCounts ==
  ASSUME NEW r, IsAcc(r), NEW n \in Nat
  PROVE  LET q == Fill(r, n)
         IN  /\ IsAcc(q) /\ q.got = r.got + n /\ q.queued = r.queued + n /\ q.written = r.written
             /\ q.above <=> r.above \/ r.queued + n >= HighMark
             /\ q.finished = r.finished /\ q.canceled = r.canceled /\ q.failed = r.failed
<1> DEFINE q == Fill(r, n)
<1>1. /\ IsSes(q) /\ q.got = r.got + n
      /\ q.finished = r.finished /\ q.canceled = r.canceled /\ q.failed = r.failed
  BY FillShape DEF IsAcc
<1>2. DOMAIN r = SesFields /\ r.queued \in Nat /\ r.written \in Nat
  BY DEF IsAcc, IsSes
<1>3. /\ q.queued = r.queued + n /\ q.written = r.written
      /\ q.above <=> r.above \/ r.queued + n >= HighMark
  BY <1>2 DEF Fill, SesFields
<1> HIDE DEF q
<1>4. q.queued \in Nat /\ q.written \in Nat
  BY <1>2, <1>3
<1> QED BY <1>1, <1>3, <1>4 DEF IsAcc, q

LEMMA FailCounts ==
  ASSUME NEW r, IsAcc(r)
  PROVE  LET q == Fail(r)
         IN  /\ IsAcc(q) /\ q.got = r.got /\ q.queued = r.queued /\ q.written = r.written
             /\ q.above = r.above /\ q.canceled = r.canceled /\ Held(q) = Held(r)
             /\ \A b : Short(r, b) => Short(q, b)
             /\ q = r \/ (q.failed /\ q.finished)
             /\ (r.canceled \/ r.failed => r.finished) => q.finished
<1> DEFINE q == Fail(r)
<1>1. DOMAIN r = SesFields /\ IsSes(r) /\ r.queued \in Nat /\ r.written \in Nat
  BY DEF IsAcc, IsSes
<1>2. /\ IsSes(q) /\ q.block = r.block /\ q.ready = r.ready /\ q.got = r.got
      /\ q = r \/ (q.failed /\ q.finished)
      /\ (r.canceled \/ r.failed => r.finished) => q.finished
  BY <1>1, FailShape DEF Fail, SesFields
<1>3. /\ q.queued = r.queued /\ q.written = r.written /\ q.above = r.above /\ q.canceled = r.canceled
  BY <1>1 DEF Fail, SesFields
<1> HIDE DEF q
<1>4. Held(q) = Held(r) /\ \A b : Short(r, b) => Short(q, b)
  BY <1>2 DEF Held, Short
<1> QED BY <1>1, <1>2, <1>3, <1>4 DEF IsAcc, q

\* The parts of a session's account, and its numbers.
LEMMA AccountIs ==
  ASSUME AccountsInv, NEW s \in Sessions
  PROVE  LET r == ses[s]
         IN  /\ IsAcc(r) /\ IsSes(r) /\ taken[s] \in Seq(Nat) /\ Len(taken[s]) \in Nat /\ Short(r, taken[s])
             /\ r.queued \in Nat /\ r.written \in Nat /\ r.got \in Nat
             /\ Ending(r, wpc[s], ok[s], opened[s]) /\ Fed(r, wpc[s], opened[s], taken[s])
             /\ Marked(r, apc[s], paused[s], wpc[s])
             /\ BlockSize \in Nat \ {0} /\ MaxUpload \in Nat /\ HighMark \in Nat \ {0} /\ LowMark \in Nat
             /\ LowMark < HighMark /\ Chunks \subseteq Nat \ {0}
             /\ total \in Nat /\ r.queued <= total
<1>1. AccountInv(s) /\ IsAcc(ses[s]) /\ IsSes(ses[s]) /\ taken[s] \in Seq(Nat) /\ DOMAIN ses = Sessions
  BY AtAccount
<1>2. Len(taken[s]) \in Nat
  BY <1>1, LenProperties
<1>3. total \in Nat /\ ses[s].queued <= total
  <2>1. \A t \in Sessions : ses[t].queued \in Nat
    BY AtAccount DEF IsAcc
  <2> DEFINE f == [t \in Sessions |-> ses[t].queued]
  <2>2. total = SumFunctionOnSet(f, Sessions)
    BY DEF AccountsInv, SumFunction, Queued
  <2>3. (\A t \in Sessions : f[t] \in Nat) /\ f[s] = ses[s].queued
    BY <2>1
  <2> HIDE DEF f
  <2>4. SumFunctionOnSet(f, Sessions) \in Nat /\ f[s] <= SumFunctionOnSet(f, Sessions)
    BY <2>3, UploadAssumption, SumType, SumMoves
  <2> QED BY <2>2, <2>3, <2>4
<1>4. /\ BlockSize \in Nat \ {0} /\ MaxUpload \in Nat /\ HighMark \in Nat \ {0} /\ LowMark \in Nat
      /\ LowMark < HighMark /\ Chunks \subseteq Nat \ {0}
  BY UploadAssumption
<1> QED BY <1>1, <1>2, <1>3, <1>4 DEF AccountInv, Account, IsAcc, IsSes

\* append: what it takes is counted, or the session fails.
LEMMA AppendCounts == ASSUME AccountsInv, NEW s \in Sessions, AppendData(s) PROVE AccountsInv'
<1> DEFINE r == ses[s]
           b == taken[s]
<1>1. /\ IsAcc(r) /\ IsSes(r) /\ b \in Seq(Nat) /\ Len(b) \in Nat /\ Short(r, b)
      /\ r.queued \in Nat /\ r.written \in Nat /\ r.got \in Nat
      /\ Ending(r, wpc[s], ok[s], opened[s]) /\ Fed(r, wpc[s], opened[s], b)
      /\ Marked(r, apc[s], paused[s], wpc[s])
      /\ BlockSize \in Nat \ {0} /\ MaxUpload \in Nat /\ HighMark \in Nat \ {0} /\ Chunks \subseteq Nat \ {0}
      /\ total \in Nat
  BY AccountIs
<1>2. DOMAIN ses = Sessions /\ DOMAIN apc = Sessions
  BY AtAccount
<1>3. PICK n \in Chunks :
        /\ Open(s)
        /\ \/ ses' = [ses EXCEPT ![s] = Fail(r)] /\ apc' = apc /\ total' = total
           \/ /\ ~OverLimit(s, n) /\ total' = total + n /\ ses' = [ses EXCEPT ![s] = Fill(r, n)]
              /\ apc' = [apc EXCEPT ![s] = IF ses'[s].above /\ ~r.above THEN "high" ELSE "idle"]
  BY <1>2 DEF AppendData
<1>4. n \in Nat /\ UNCHANGED <<paused, wpc, ok, opened, taken, active>> /\ apc[s] = "idle" /\ ~paused[s]
  BY <1>1 DEF AppendData, worker
<1>5. ~r.finished /\ ~r.canceled /\ ~r.failed
  BY <1>3 DEF Open
<1>6. ~r.above /\ wpc[s] # "none" /\ wpc[s] # "low" /\ r.queued < HighMark
  BY <1>1, <1>4 DEF Marked
<1>7. CASE ses' = [ses EXCEPT ![s] = Fail(r)] /\ apc' = apc /\ total' = total
  <2> DEFINE q == Fail(r)
  <2>1. /\ IsAcc(q) /\ q.got = r.got /\ q.queued = r.queued /\ q.written = r.written
        /\ q.above = r.above /\ Held(q) = Held(r) /\ Short(q, b) /\ (q = r \/ (q.failed /\ q.finished))
    BY <1>1, FailCounts
  <2>2. Becomes(ses, ses', s, q) /\ Becomes(apc, apc', s, apc[s])
    BY <1>2, <1>7, Assigned
  <2> HIDE DEF q, b, r
  <2>3. /\ Ending(q, wpc[s], ok[s], opened[s]) /\ Fed(q, wpc[s], opened[s], b)
        /\ Marked(q, apc[s], paused[s], wpc[s])
    BY <1>1, <2>1 DEF Ending, Fed, Marked, Good
  <2>4. Account(q, apc[s], paused[s], wpc[s], ok[s], opened[s], b)
    BY <1>1, <2>1, <2>3 DEF Account
  <2>5. total' = total - r.queued + q.queued
    BY <1>1, <1>7, <2>1
  <2> QED BY <1>4, <2>2, <2>4, <2>5, RecordStep DEF r, b
<1>8. CASE /\ ~OverLimit(s, n) /\ total' = total + n /\ ses' = [ses EXCEPT ![s] = Fill(r, n)]
           /\ apc' = [apc EXCEPT ![s] = IF ses'[s].above /\ ~r.above THEN "high" ELSE "idle"]
  <2> DEFINE q == Fill(r, n)
             a == IF ses'[s].above /\ ~r.above THEN "high" ELSE "idle"
  <2>1. /\ IsAcc(q) /\ q.got = r.got + n /\ q.queued = r.queued + n /\ q.written = r.written
        /\ q.above <=> r.above \/ r.queued + n >= HighMark
        /\ q.finished = r.finished /\ q.canceled = r.canceled /\ q.failed = r.failed
    BY <1>1, <1>4, FillCounts
  <2>2. Held(q) = Held(r) + n /\ Short(q, b)
    BY <1>1, <1>4, FillHolds
  <2>3. Becomes(ses, ses', s, q) /\ Becomes(apc, apc', s, a)
    BY <1>2, <1>8, Assigned
  <2>4. r.written + r.queued + n <= MaxUpload
    BY <1>1, <1>4, <1>8 DEF OverLimit
  <2>5. q.above => a = "high"
    BY <1>6, <2>3 DEF Becomes
  <2>6. Len(b) <= BlockSize
    BY <1>1 DEF Short
  <2> HIDE DEF q, b, r, a
  <2>7. Ending(q, wpc[s], ok[s], opened[s])
    BY <1>1, <1>4, <1>5, <2>1, <2>2 DEF Ending
  <2>8. Fed(q, wpc[s], opened[s], b)
    <3>1. ~(opened[s] /\ wpc[s] \notin Early)
      BY <1>1, <1>5 DEF Ending
    <3> DEFINE m == IF wpc[s] \in Early THEN 0 ELSE MaxUpload
    <3>2. m \in Nat /\ Len(b) \in Nat /\ r.got \in Nat /\ r.queued \in Nat /\ r.written \in Nat
      BY <1>1
    <3>3. ASSUME ~opened[s]
          PROVE  q.written = 0 /\ b = << >> /\ q.queued <= MaxUpload /\ q.got <= m + q.queued
      <4>1. r.written = 0 /\ b = << >> /\ r.got <= m + r.queued
        BY <1>1, <3>3 DEF Fed
      <4> HIDE DEF m
      <4> QED BY <1>1, <1>4, <2>1, <2>4, <3>2, <4>1
    <3>4. ASSUME opened[s]
          PROVE  q.got <= MaxUpload + BlockSize /\ q.got <= q.written + q.queued + Len(b)
      <4>1. r.got <= r.written + r.queued + Len(b)
        BY <1>1, <3>1, <3>4 DEF Fed
      <4> DEFINE l == Len(b)
      <4>2. l \in Nat /\ l <= BlockSize /\ r.got <= r.written + r.queued + l
        BY <2>6, <3>2, <4>1
      <4> HIDE DEF l
      <4>3. q.got <= MaxUpload + BlockSize /\ q.got <= q.written + q.queued + l
        BY <1>1, <1>4, <2>1, <2>4, <3>2, <4>2
      <4> QED BY <4>3 DEF l
    <3>5. wpc[s] \notin {"low", "write"} => b = << >>
      BY <1>1 DEF Fed
    <3> QED BY <3>3, <3>4, <3>5 DEF Fed
  <2>9. Marked(q, a, paused[s], wpc[s])
    BY <1>1, <1>4, <1>6, <2>1, <2>5 DEF Marked
  <2>10. Account(q, a, paused[s], wpc[s], ok[s], opened[s], b)
    BY <1>1, <2>1, <2>2, <2>7, <2>8, <2>9 DEF Account
  <2>11. total' = total - r.queued + q.queued
    BY <1>1, <1>4, <1>8, <2>1
  <2> QED BY <1>4, <2>3, <2>10, <2>11, RecordStep DEF r, b
<1> QED BY <1>3, <1>7, <1>8

\* finish and cancel: the counts stay.
LEMMA FinishCounts ==
  ASSUME AccountsInv, NEW s \in Sessions, FinishUpload(s) \/ CancelUpload(s)
  PROVE  AccountsInv'
<1> DEFINE r == ses[s]
           b == taken[s]
<1>1. /\ IsAcc(r) /\ b \in Seq(Nat) /\ Short(r, b) /\ r.queued \in Nat
      /\ Ending(r, wpc[s], ok[s], opened[s]) /\ Fed(r, wpc[s], opened[s], b)
      /\ Marked(r, apc[s], paused[s], wpc[s]) /\ total \in Nat
  BY AccountIs
<1>2. DOMAIN ses = Sessions /\ DOMAIN apc = Sessions
  BY AtAccount
<1>3. UNCHANGED <<apc, paused, wpc, ok, opened, taken, active>> /\ total' = total
  BY DEF FinishUpload, CancelUpload, worker
<1>4. ASSUME NEW q, ses' = [ses EXCEPT ![s] = q], IsAcc(q), Held(q) = Held(r), Short(q, b),
             q.got = r.got, q.queued = r.queued, q.written = r.written, q.above = r.above,
             q.finished, q.block = << >> \/ ~Good(q)
      PROVE  AccountsInv'
  <2>1. Becomes(ses, ses', s, q) /\ Becomes(apc, apc', s, apc[s])
    BY <1>2, <1>3, <1>4, Assigned
  <2> HIDE DEF b, r
  <2>2. /\ Ending(q, wpc[s], ok[s], opened[s]) /\ Fed(q, wpc[s], opened[s], b)
        /\ Marked(q, apc[s], paused[s], wpc[s])
    BY <1>1, <1>4 DEF Ending, Fed, Marked
  <2>3. Account(q, apc[s], paused[s], wpc[s], ok[s], opened[s], b)
    BY <1>1, <1>4, <2>2 DEF Account
  <2>4. total' = total - r.queued + q.queued
    BY <1>1, <1>3, <1>4
  <2> QED BY <1>3, <2>1, <2>3, <2>4, RecordStep DEF r, b
<1>5. CASE FinishUpload(s)
  <2> DEFINE f == FlushPending(r)
             q == [f EXCEPT !.finished = TRUE]
  <2>1. /\ IsAcc(f) /\ Held(f) = Held(r) /\ Short(f, b) /\ f.block = << >>
        /\ f.got = r.got /\ f.queued = r.queued /\ f.written = r.written /\ f.above = r.above
    BY <1>1, FlushHolds
  <2>2. ses' = [ses EXCEPT ![s] = q]
    BY <1>2, <1>5 DEF FinishUpload
  <2> HIDE DEF f, r
  <2>3. /\ IsAcc(q) /\ q.block = f.block /\ q.ready = f.ready /\ q.finished
        /\ q.got = f.got /\ q.queued = f.queued /\ q.written = f.written /\ q.above = f.above
    BY <2>1 DEF IsAcc, IsSes, SesFields
  <2> HIDE DEF q
  <2>4. Held(q) = Held(f) /\ Short(q, b)
    BY <2>1, <2>3 DEF Held, Short
  <2> QED BY <1>4, <2>1, <2>2, <2>3, <2>4
<1>6. CASE CancelUpload(s)
  <2> DEFINE q == [r EXCEPT !.canceled = TRUE, !.finished = TRUE]
  <2>1. ses' = [ses EXCEPT ![s] = q]
    BY <1>2, <1>6 DEF CancelUpload
  <2> HIDE DEF r
  <2>2. /\ IsAcc(q) /\ q.block = r.block /\ q.ready = r.ready /\ q.finished /\ q.canceled
        /\ q.got = r.got /\ q.queued = r.queued /\ q.written = r.written /\ q.above = r.above
    BY <1>1 DEF IsAcc, IsSes, SesFields
  <2> HIDE DEF q
  <2>3. Held(q) = Held(r) /\ Short(q, b)
    BY <1>1, <2>2 DEF Held, Short
  <2> QED BY <1>4, <2>1, <2>2, <2>3 DEF Good
<1> QED BY <1>5, <1>6
\* The worker's discard: nothing is queued any more.
LEMMA DropsCounts == ASSUME AccountsInv, NEW s \in Sessions, WorkerDrops(s) PROVE AccountsInv'
<1> DEFINE r == ses[s]
           b == taken[s]
           q == [r EXCEPT !.queued = 0, !.block = << >>, !.ready = << >>]
<1>1. /\ IsAcc(r) /\ b \in Seq(Nat) /\ Len(b) \in Nat /\ Short(r, b) /\ r.queued \in Nat /\ r.got \in Nat
      /\ Ending(r, wpc[s], ok[s], opened[s]) /\ Fed(r, wpc[s], opened[s], b)
      /\ Marked(r, apc[s], paused[s], wpc[s]) /\ total \in Nat
      /\ BlockSize \in Nat \ {0} /\ MaxUpload \in Nat /\ HighMark \in Nat \ {0} /\ Chunks \subseteq Nat \ {0}
  BY AccountIs
<1>2. DOMAIN ses = Sessions /\ DOMAIN apc = Sessions /\ DOMAIN paused = Sessions /\ DOMAIN wpc = Sessions
      /\ DOMAIN ok = Sessions /\ DOMAIN opened = Sessions /\ DOMAIN taken = Sessions
  BY AtAccount
<1>3. /\ wpc[s] = "wait" /\ wpc' = [wpc EXCEPT ![s] = "close"] /\ (r.canceled \/ r.failed \/ ~ok[s])
      /\ UNCHANGED <<apc, paused, ok, opened, taken, active>>
      /\ ses' = [ses EXCEPT ![s] = q] /\ total' = total - r.queued
  BY <1>2 DEF WorkerDrops, At, Dropping, Discard
<1>4. /\ Becomes(ses, ses', s, q) /\ Becomes(apc, apc', s, apc[s]) /\ Becomes(paused, paused', s, paused[s])
      /\ Becomes(wpc, wpc', s, "close") /\ Becomes(ok, ok', s, ok[s]) /\ Becomes(opened, opened', s, opened[s])
      /\ Becomes(taken, taken', s, b)
  BY <1>2, <1>3, Assigned
<1> HIDE DEF r, b
<1>5. /\ IsAcc(q) /\ q.block = << >> /\ q.ready = << >> /\ q.queued = 0 /\ q.got = r.got
      /\ q.written = r.written /\ q.above = r.above /\ q.finished = r.finished
      /\ q.canceled = r.canceled /\ q.failed = r.failed
  <2>1. << >> \in Seq(Nat) /\ << >> \in Seq(Seq(Nat))
    BY EmptySeq
  <2> QED BY <1>1, <2>1 DEF IsAcc, IsSes, SesFields
<1> HIDE DEF q
<1>6. Held(q) = 0 /\ Short(q, b)
  <2>1. FlattenSeq(q.ready) = << >> /\ Len(<< >>) = 0
    BY <1>5, FlattenType, EmptySeq
  <2>2. Len(q.block) = 0 /\ Len(q.ready) = 0
    BY <1>5
  <2>3. Held(q) = 0
    BY <1>5, <2>1 DEF Held
  <2>4. Short(q, b)
    BY <1>1, <2>2 DEF Short
  <2> QED BY <2>3, <2>4
<1>7. Ending(q, "close", ok[s], opened[s])
  BY <1>1, <1>3, <1>5, <1>6 DEF Ending, Early
<1>8. Fed(q, "close", opened[s], b)
  <2>1. b = << >> /\ q.queued <= MaxUpload
    BY <1>1, <1>3, <1>5 DEF Fed
  <2>2. ASSUME ~opened[s] PROVE q.written = 0 /\ q.got <= MaxUpload + q.queued
    <3>1. r.written = 0 /\ r.queued <= MaxUpload /\ r.got <= 0 + r.queued
      BY <1>1, <1>3, <2>2 DEF Fed, Early
    <3> QED BY <1>1, <1>5, <3>1
  <2>3. opened[s] => q.got <= MaxUpload + BlockSize
    BY <1>1, <1>5 DEF Fed
  <2>4. "close" \notin Early
    BY DEF Early
  <2> QED BY <2>1, <2>2, <2>3, <2>4 DEF Fed
<1>9. Marked(q, apc[s], paused[s], "close")
  BY <1>1, <1>3, <1>5 DEF Marked
<1>10. Account(q, apc[s], paused[s], "close", ok[s], opened[s], b)
  BY <1>1, <1>5, <1>6, <1>7, <1>8, <1>9 DEF Account
<1>11. total' = total - r.queued + q.queued
  BY <1>1, <1>3, <1>5
<1> QED BY <1>3, <1>4, <1>10, <1>11, AccountStep DEF Counts, r

\* The worker's pop: the block leaves the counts, and the low mark may be reached.
LEMMA TakesCounts == ASSUME AccountsInv, NEW s \in Sessions, WorkerTakes(s) PROVE AccountsInv'
<1> DEFINE r == ses[s]
           h == Head(r.ready)
           n == r.queued - Len(h)
           low == LowNow(r, n)
           q == [r EXCEPT !.ready = Tail(r.ready), !.queued = n, !.above = r.above /\ ~low]
           w == IF low THEN "low" ELSE "write"
<1>1. /\ IsAcc(r) /\ IsSes(r) /\ Short(r, taken[s]) /\ r.queued \in Nat /\ r.got \in Nat /\ r.written \in Nat
      /\ Ending(r, wpc[s], ok[s], opened[s]) /\ Fed(r, wpc[s], opened[s], taken[s])
      /\ Marked(r, apc[s], paused[s], wpc[s]) /\ total \in Nat
      /\ HighMark \in Nat \ {0} /\ LowMark \in Nat /\ LowMark < HighMark /\ Chunks \subseteq Nat \ {0}
  BY AccountIs
<1>2. DOMAIN ses = Sessions /\ DOMAIN apc = Sessions /\ DOMAIN paused = Sessions /\ DOMAIN wpc = Sessions
      /\ DOMAIN ok = Sessions /\ DOMAIN opened = Sessions /\ DOMAIN taken = Sessions
  BY AtAccount
<1>3. /\ wpc[s] = "wait" /\ wpc' = [wpc EXCEPT ![s] = w] /\ Good(r) /\ ok[s] /\ r.ready # << >>
      /\ UNCHANGED <<apc, paused, ok, opened, active>> /\ taken' = [taken EXCEPT ![s] = h]
      /\ total' = total - Len(h)
  BY DEF WorkerTakes, Dropping, Good
<1>4. ses' = [ses EXCEPT ![s] = q]
  BY <1>1, <1>2 DEF WorkerTakes, IsSes, SesFields
<1>5. /\ Becomes(ses, ses', s, q) /\ Becomes(apc, apc', s, apc[s]) /\ Becomes(paused, paused', s, paused[s])
      /\ Becomes(wpc, wpc', s, w) /\ Becomes(ok, ok', s, ok[s]) /\ Becomes(opened, opened', s, opened[s])
      /\ Becomes(taken, taken', s, h)
  BY <1>2, <1>3, <1>4, Assigned
<1> HIDE DEF r
<1>6. r.queued = Held(r) /\ opened[s] /\ taken[s] = << >> /\ r.got <= r.written + r.queued
  <2>1. r.queued = Held(r) /\ opened[s] /\ taken[s] = << >>
    BY <1>1, <1>3 DEF Ending, Fed
  <2>2. Len(taken[s]) = 0
    BY <2>1
  <2>3. r.got <= r.written + r.queued + Len(taken[s])
    BY <1>1, <1>3, <2>1 DEF Fed, Early
  <2> QED BY <1>1, <2>1, <2>2, <2>3
<1> HIDE DEF n, low, w
<1>7. Tail(r.ready) \in Seq(Seq(Nat))
  BY <1>1, <1>3, HeadTailProperties DEF IsSes
<1>8. /\ IsSes(q) /\ q.ready = Tail(r.ready) /\ q.block = r.block /\ q.queued = n /\ q.got = r.got
      /\ q.written = r.written /\ q.above = (r.above /\ ~low) /\ q.finished = r.finished
      /\ q.canceled = r.canceled /\ q.failed = r.failed
  BY <1>1, <1>7 DEF IsSes, SesFields
<1> HIDE DEF q
<1>9. h \in Seq(Nat) /\ Len(h) \in Nat /\ Held(r) = Held(q) + Len(h) /\ Short(q, h) /\ Held(q) \in Nat
  BY <1>1, <1>3, <1>8, TakeHolds, HeldType
<1> DEFINE l == Len(h)
<1>10. /\ l \in Nat /\ Held(q) \in Nat /\ r.queued = Held(q) + l /\ n = r.queued - l
  BY <1>6, <1>9 DEF n
<1> HIDE DEF l
<1>11. n = Held(q) /\ n \in Nat /\ n <= r.queued /\ r.queued = n + l
  BY <1>10
<1>12. low <=> r.above /\ n <= LowMark
  BY DEF low, LowNow
<1>13. Ending(q, w, ok[s], opened[s])
  BY <1>1, <1>3, <1>6, <1>8, <1>11 DEF Ending, Early, Good, w
<1>14. Fed(q, w, opened[s], h)
  <2>1. q.got <= q.written + q.queued + Len(h)
    BY <1>1, <1>6, <1>8, <1>11 DEF l
  <2>2. q.got <= MaxUpload + BlockSize
    BY <1>1, <1>6, <1>8 DEF Fed
  <2>3. w \in {"low", "write"}
    BY DEF w
  <2> QED BY <1>6, <2>1, <2>2, <2>3 DEF Fed
<1>15. Marked(q, apc[s], paused[s], w)
  <2>1. r.above => apc[s] = "high" \/ paused[s]
    BY <1>1 DEF Marked
  <2>2. ASSUME q.queued >= HighMark PROVE q.above
    <3>1. n >= HighMark /\ r.queued >= HighMark
      BY <1>1, <1>8, <1>11, <2>2
    <3>2. r.above
      BY <1>1, <3>1 DEF Marked
    <3>3. ~(n <= LowMark)
      BY <1>1, <1>11, <3>1
    <3> QED BY <1>8, <1>12, <3>2, <3>3
  <2>3. w = "low" <=> low
    BY DEF w
  <2>4. ASSUME NEW c \in Chunks, \A m \in Chunks : m <= c PROVE q.queued < HighMark + c
    <3>1. r.queued < HighMark + c /\ c \in Nat
      BY <1>1, <2>4 DEF Marked
    <3> QED BY <1>1, <1>8, <1>11, <3>1
  <2>5. w # "none"
    BY DEF w
  <2> QED BY <1>8, <1>12, <2>1, <2>2, <2>3, <2>4, <2>5 DEF Marked
<1>16. Account(q, apc[s], paused[s], w, ok[s], opened[s], h)
  BY <1>1, <1>8, <1>9, <1>11, <1>13, <1>14, <1>15 DEF Account, IsAcc
<1>17. total' = total - r.queued + q.queued
  BY <1>1, <1>3, <1>8, <1>10, <1>11 DEF l
<1>18. Counts(wpc[s]) <=> Counts(w)
  BY <1>3 DEF Counts, w
<1> HIDE DEF h
<1> QED BY <1>3, <1>5, <1>16, <1>17, <1>18, AccountStep DEF r

\* The block is written, or the write fails; either way it counts.
LEMMA WritesCounts == ASSUME AccountsInv, NEW s \in Sessions, WorkerWrites(s) PROVE AccountsInv'
<1> DEFINE r == ses[s]
           b == taken[s]
<1>1. /\ IsAcc(r) /\ IsSes(r) /\ Len(b) \in Nat /\ Short(r, b)
      /\ r.queued \in Nat /\ r.got \in Nat /\ r.written \in Nat
      /\ Ending(r, wpc[s], ok[s], opened[s]) /\ Fed(r, wpc[s], opened[s], b)
      /\ Marked(r, apc[s], paused[s], wpc[s]) /\ total \in Nat /\ BlockSize \in Nat
  BY AccountIs
<1>2. DOMAIN ses = Sessions /\ DOMAIN apc = Sessions /\ DOMAIN paused = Sessions /\ DOMAIN wpc = Sessions
      /\ DOMAIN ok = Sessions /\ DOMAIN opened = Sessions /\ DOMAIN taken = Sessions
  BY AtAccount
<1> DEFINE l == Len(b)
<1>3. /\ wpc[s] = "write" /\ wpc' = [wpc EXCEPT ![s] = "wait"] /\ taken' = [taken EXCEPT ![s] = << >>]
      /\ UNCHANGED <<apc, paused, opened, active>> /\ total' = total
      /\ \/ ok' = ok /\ ses' = [ses EXCEPT ![s] = Counted(r, l)]
         \/ ok' = [ok EXCEPT ![s] = FALSE] /\ ses' = [ses EXCEPT ![s] = Counted(Fail(r), l)]
  BY <1>2 DEF WorkerWrites, At, Tries
<1>4. ok[s] /\ opened[s] /\ r.got <= r.written + r.queued + l
  BY <1>1, <1>3 DEF Ending, Fed, Early
<1> HIDE DEF r, b
<1>5. ASSUME NEW f, NEW k, IsAcc(f), f.got = r.got, f.queued = r.queued, f.written = r.written, f.above = r.above,
             Held(f) = Held(r), Short(f, b), f.finished \/ f = r, k \/ f.finished,
             f.canceled \/ f.failed => f.finished, f.finished /\ Good(f) => f.block = << >>,
             ses' = [ses EXCEPT ![s] = Counted(f, l)], Becomes(ok, ok', s, k)
      PROVE  AccountsInv'
  <2> DEFINE q == Counted(f, l)
  <2>1. /\ Becomes(ses, ses', s, q) /\ Becomes(apc, apc', s, apc[s]) /\ Becomes(paused, paused', s, paused[s])
        /\ Becomes(wpc, wpc', s, "wait") /\ Becomes(opened, opened', s, opened[s])
        /\ Becomes(taken, taken', s, << >>)
    BY <1>2, <1>3, <1>5, Assigned
  <2>2. l \in Nat
    BY <1>1
  <2> HIDE DEF l
  <2>3. /\ IsAcc(q) /\ q.block = f.block /\ q.ready = f.ready /\ q.queued = f.queued /\ q.got = f.got
        /\ q.written = f.written + l /\ q.above = f.above /\ q.finished = f.finished
        /\ q.canceled = f.canceled /\ q.failed = f.failed
    <3>1. /\ DOMAIN q = SesFields /\ q.block = f.block /\ q.ready = f.ready /\ q.queued = f.queued /\ q.got = f.got
          /\ q.written = f.written + l /\ q.above = f.above /\ q.finished = f.finished
          /\ q.canceled = f.canceled /\ q.failed = f.failed
      BY <1>5, <2>2 DEF Counted, IsAcc, IsSes, SesFields
    <3>2. f.written + l \in Nat
      BY <1>5, <2>2 DEF IsAcc
    <3> HIDE DEF q
    <3> QED BY <1>5, <3>1, <3>2 DEF IsAcc, IsSes
  <2> HIDE DEF q
  <2>4. Held(q) = Held(r) /\ Short(q, << >>)
    <3>1. Len(<< >>) = 0 /\ 0 <= BlockSize
      BY <1>1
    <3>2. Held(q) = Held(r)
      BY <1>5, <2>3 DEF Held
    <3>3. Short(q, << >>)
      BY <1>5, <2>3, <3>1 DEF Short
    <3> QED BY <3>2, <3>3
  <2>5. Ending(q, "wait", k, opened[s])
    BY <1>1, <1>3, <1>4, <1>5, <2>3, <2>4 DEF Ending, Good, Early
  <2>6. Fed(q, "wait", opened[s], << >>)
    <3>1. q.got <= q.written + q.queued + Len(<< >>)
      <4>1. q.got <= (r.written + l) + r.queued /\ Len(<< >>) = 0
        BY <1>1, <1>4, <1>5, <2>2, <2>3
      <4> QED BY <1>1, <1>5, <2>2, <2>3, <4>1
    <3>2. q.got <= MaxUpload + BlockSize
      BY <1>1, <1>4, <1>5, <2>3 DEF Fed
    <3> QED BY <1>4, <3>1, <3>2 DEF Fed
  <2>7. Marked(q, apc[s], paused[s], "wait")
    BY <1>1, <1>3, <1>5, <2>3 DEF Marked
  <2>8. Account(q, apc[s], paused[s], "wait", k, opened[s], << >>)
    <3>1. << >> \in Seq(Nat)
      BY EmptySeq
    <3> QED BY <2>3, <2>4, <2>5, <2>6, <2>7, <3>1 DEF Account
  <2>9. total' = total - r.queued + q.queued
    BY <1>1, <1>3, <1>5, <2>3
  <2> QED BY <1>3, <1>5, <2>1, <2>8, <2>9, AccountStep DEF Counts, r
<1>6. CASE ok' = ok /\ ses' = [ses EXCEPT ![s] = Counted(r, l)]
  <2>1. Becomes(ok, ok', s, ok[s])
    BY <1>2, <1>6, Assigned
  <2>2. (r.canceled \/ r.failed => r.finished) /\ (r.finished /\ Good(r) => r.block = << >>)
    BY <1>1 DEF Ending
  <2> QED BY <1>1, <1>4, <1>5, <1>6, <2>1, <2>2
<1>7. CASE ok' = [ok EXCEPT ![s] = FALSE] /\ ses' = [ses EXCEPT ![s] = Counted(Fail(r), l)]
  <2> DEFINE f == Fail(r)
  <2>1. Becomes(ok, ok', s, FALSE)
    BY <1>2, <1>7, Assigned
  <2>2. r.canceled \/ r.failed => r.finished
    BY <1>1 DEF Ending
  <2>3. /\ IsAcc(f) /\ f.got = r.got /\ f.queued = r.queued /\ f.written = r.written
        /\ f.above = r.above /\ Held(f) = Held(r) /\ Short(f, b)
        /\ f = r \/ (f.failed /\ f.finished)
        /\ f.finished
    BY <1>1, <2>2, FailCounts
  <2> HIDE DEF f
  <2>4. f.finished /\ Good(f) => f.block = << >>
    BY <1>1, <2>3 DEF Good, Ending
  <2> QED BY <1>5, <1>7, <2>1, <2>3, <2>4 DEF f
<1> QED BY <1>3, <1>6, <1>7

\* finish_worker_state: the session leaves, and then it is done.
LEMMA LeavesCounts ==
  ASSUME AccountsInv, NEW s \in Sessions, WorkerReleases(s) \/ WorkerReports(s)
  PROVE  AccountsInv'
<1> DEFINE r == ses[s]
           b == taken[s]
<1>1. /\ IsAcc(r) /\ b \in Seq(Nat) /\ Short(r, b) /\ r.queued \in Nat /\ r.got \in Nat
      /\ Ending(r, wpc[s], ok[s], opened[s]) /\ Fed(r, wpc[s], opened[s], b)
      /\ Marked(r, apc[s], paused[s], wpc[s]) /\ total \in Nat /\ BlockSize \in Nat \ {0}
  BY AccountIs
<1>2. DOMAIN ses = Sessions /\ DOMAIN apc = Sessions /\ DOMAIN paused = Sessions /\ DOMAIN wpc = Sessions
      /\ DOMAIN ok = Sessions /\ DOMAIN opened = Sessions /\ DOMAIN taken = Sessions
  BY AtAccount
<1>3. UNCHANGED <<apc, paused, ok, opened, taken>> /\ total' = total
  BY DEF WorkerReleases, WorkerReports
<1>4. ASSUME NEW q, NEW w, ses' = [ses EXCEPT ![s] = q], wpc' = [wpc EXCEPT ![s] = w], IsAcc(q), Short(q, b),
             q.got = r.got, q.queued = r.queued, q.written = r.written, q.above = r.above,
             q.finished = r.finished, q.canceled = r.canceled, q.failed = r.failed,
             q.block = << >> \/ q.block = r.block, opened[s] => q.queued = Held(q),
             <<wpc[s], w>> \in {<<"release", "report">>, <<"report", "ended">>},
             active' = active - (IF w = "report" THEN 1 ELSE 0)
      PROVE  AccountsInv'
  <2>1. /\ Becomes(ses, ses', s, q) /\ Becomes(apc, apc', s, apc[s]) /\ Becomes(paused, paused', s, paused[s])
        /\ Becomes(wpc, wpc', s, w) /\ Becomes(ok, ok', s, ok[s]) /\ Becomes(opened, opened', s, opened[s])
        /\ Becomes(taken, taken', s, b)
    BY <1>2, <1>3, <1>4, Assigned
  <2> HIDE DEF b, r
  <2>2. Ending(q, w, ok[s], opened[s])
    BY <1>1, <1>4 DEF Ending, Early, Good
  <2>3. Fed(q, w, opened[s], b) /\ Marked(q, apc[s], paused[s], w)
    BY <1>1, <1>4 DEF Fed, Marked, Early
  <2>4. Account(q, apc[s], paused[s], w, ok[s], opened[s], b)
    BY <1>1, <1>4, <2>2, <2>3 DEF Account
  <2>5. total' = total - r.queued + q.queued
    BY <1>1, <1>3, <1>4
  <2>6. \/ (Counts(wpc[s]) <=> Counts(w)) /\ active' = active
        \/ Counts(wpc[s]) /\ ~Counts(w) /\ active' = active - 1
    <3>1. active \in Nat
      <4>1. IsFiniteSet({t \in Sessions : Live(t)})
        BY UploadAssumption, FS_Subset
      <4> QED BY <4>1, FS_CardinalityType DEF AccountsInv
    <3> QED BY <1>4, <3>1 DEF Counts
  <2> QED BY <2>1, <2>4, <2>5, <2>6, AccountStep DEF r
<1>5. CASE WorkerReleases(s)
  <2> DEFINE q == [r EXCEPT !.block = << >>, !.ready = << >>]
  <2>1. /\ wpc[s] = "release" /\ wpc' = [wpc EXCEPT ![s] = "report"] /\ ses' = [ses EXCEPT ![s] = q]
        /\ active' = active - 1
    BY <1>2, <1>5 DEF WorkerReleases, At
  <2> HIDE DEF r
  <2>2. /\ IsAcc(q) /\ q.block = << >> /\ q.ready = << >>
        /\ q.got = r.got /\ q.queued = r.queued /\ q.written = r.written /\ q.above = r.above
        /\ q.finished = r.finished /\ q.canceled = r.canceled /\ q.failed = r.failed
    <3>1. << >> \in Seq(Nat) /\ << >> \in Seq(Seq(Nat))
      BY EmptySeq
    <3> QED BY <1>1, <3>1 DEF IsAcc, IsSes, SesFields
  <2> HIDE DEF q
  <2>3. Held(q) = 0 /\ Short(q, b)
    <3>1. FlattenSeq(q.ready) = << >> /\ Len(<< >>) = 0
      BY <2>2, FlattenType, EmptySeq
    <3>2. Len(q.block) = 0 /\ Len(q.ready) = 0
      BY <2>2
    <3>3. Held(q) = 0
      BY <2>2, <3>1 DEF Held
    <3> QED BY <1>1, <3>2, <3>3 DEF Short
  <2>4. opened[s] => q.queued = Held(q)
    BY <1>1, <2>1, <2>2, <2>3 DEF Ending, Early
  <2> QED BY <1>4, <2>1, <2>2, <2>3, <2>4
<1>6. CASE WorkerReports(s)
  <2> DEFINE q == [r EXCEPT !.done = TRUE]
  <2>1. /\ wpc[s] = "report" /\ wpc' = [wpc EXCEPT ![s] = "ended"] /\ ses' = [ses EXCEPT ![s] = q]
        /\ active' = active
    BY <1>2, <1>6 DEF WorkerReports, At
  <2> HIDE DEF r
  <2>2. /\ IsAcc(q) /\ q.block = r.block /\ q.ready = r.ready
        /\ q.got = r.got /\ q.queued = r.queued /\ q.written = r.written /\ q.above = r.above
        /\ q.finished = r.finished /\ q.canceled = r.canceled /\ q.failed = r.failed
    BY <1>1 DEF IsAcc, IsSes, SesFields
  <2> HIDE DEF q
  <2>3. Held(q) = Held(r) /\ Short(q, b)
    BY <1>1, <2>2 DEF Held, Short
  <2>4. opened[s] => q.queued = Held(q)
    BY <1>1, <2>2, <2>3 DEF Ending
  <2>5. active' = active - 0
    <3>1. IsFiniteSet({t \in Sessions : Live(t)})
      BY UploadAssumption, FS_Subset
    <3>2. active \in Nat
      BY <3>1, FS_CardinalityType DEF AccountsInv
    <3> QED BY <2>1, <3>2
  <2> QED BY <1>4, <2>1, <2>2, <2>3, <2>4, <2>5
<1> QED BY <1>5, <1>6
\* A pool that nobody has used holds nothing.
LEMMA AccountsStart == Init => AccountsInv
<1> SUFFICES ASSUME Init PROVE AccountsInv
  OBVIOUS
<1>1. /\ DOMAIN ses = Sessions /\ DOMAIN apc = Sessions /\ DOMAIN paused = Sessions
      /\ DOMAIN wpc = Sessions /\ DOMAIN ok = Sessions /\ DOMAIN opened = Sessions
      /\ DOMAIN taken = Sessions /\ total = 0 /\ active = 0
  BY DEF Init
<1>2. /\ BlockSize \in Nat \ {0} /\ MaxUpload \in Nat /\ HighMark \in Nat \ {0}
      /\ Chunks \subseteq Nat \ {0} /\ IsFiniteSet(Sessions)
  BY UploadAssumption
<1>3. ASSUME NEW s \in Sessions PROVE AccountInv(s) /\ Queued[s] = 0 /\ ~Live(s)
  <2> DEFINE r == ses[s]
  <2>1. /\ wpc[s] = "none" /\ apc[s] = "none" /\ ok[s] = TRUE /\ opened[s] = FALSE /\ taken[s] = << >>
        /\ DOMAIN r = SesFields /\ r.ready = << >> /\ r.block = << >> /\ r.got = 0 /\ r.queued = 0
        /\ r.written = 0 /\ r.above = FALSE /\ r.finished = FALSE /\ r.canceled = FALSE /\ r.failed = FALSE
    BY DEF Init, SesFields
  <2>2. Queued[s] = 0
    BY <2>1 DEF Queued
  <2> HIDE DEF r
  <2>3. << >> \in Seq(Nat) /\ << >> \in Seq(Seq(Nat)) /\ 0 \in Nat /\ Len(<< >>) = 0
    OBVIOUS
  <2>4. IsAcc(r)
    BY <2>1, <2>3 DEF IsAcc, IsSes
  <2>5. Short(r, << >>)
    BY <1>2, <2>1, <2>3 DEF Short
  <2>6. Held(r) = 0
    <3>1. FlattenSeq(<< >>) = << >>
      BY <2>3, FlattenType
    <3> QED BY <2>1, <2>3, <3>1 DEF Held
  <2>7. Ending(r, "none", TRUE, FALSE)
    BY <2>1, <2>6 DEF Ending, Early
  <2>8. Fed(r, "none", FALSE, << >>)
    BY <1>2, <2>1 DEF Fed, Early
  <2>9. Marked(r, "none", paused[s], "none")
    BY <1>2, <2>1 DEF Marked
  <2>10. AccountInv(s)
    BY <2>1, <2>3, <2>4, <2>5, <2>7, <2>8, <2>9 DEF AccountInv, Account, r
  <2> QED BY <2>1, <2>2, <2>10 DEF Live
<1>4. total = SumFunction(Queued)
  <2>1. DOMAIN Queued = Sessions
    BY DEF Queued
  <2>2. SumFunctionOnSet(Queued, Sessions) = 0
    BY <1>2, <1>3, SumType
  <2> QED BY <1>1, <2>1, <2>2 DEF SumFunction
<1>5. active = Cardinality({s \in Sessions : Live(s)})
  <2>1. {s \in Sessions : Live(s)} = {}
    BY <1>3
  <2> QED BY <1>1, <2>1, FS_EmptySet
<1> QED BY <1>1, <1>3, <1>4, <1>5 DEF AccountsInv

LEMMA AccountsKeep == ASSUME AccountsInv, [Next]_vars PROVE AccountsInv'
<1>1. CASE UNCHANGED vars
  <2>1. /\ ses' = ses /\ apc' = apc /\ paused' = paused /\ wpc' = wpc /\ ok' = ok /\ opened' = opened
        /\ taken' = taken /\ total' = total /\ active' = active
    BY <1>1 DEF vars, worker
  <2>2. Queued' = Queued /\ {s \in Sessions : Live(s)}' = {s \in Sessions : Live(s)}
    BY <2>1 DEF Queued, Live
  <2>3. \A s \in Sessions : AccountInv(s)' <=> AccountInv(s)
    BY <2>1 DEF AccountInv
  <2> QED BY <2>1, <2>2, <2>3 DEF AccountsInv
<1>2. ASSUME NEW s \in Sessions, CreateSession(s) \/ Feeding(s) \/ Working(s) PROVE AccountsInv'
  BY <1>2, PlacesKeep, AppendCounts, FinishCounts, DropsCounts, TakesCounts, WritesCounts, LeavesCounts
     DEF Feeding, Working
<1> QED BY <1>1, <1>2 DEF Next

\* append, the worker's pops and discards and finish_worker_state: what the counters say is
\* queued is what the sessions hold, no session holds more than the high mark and a chunk,
\* none takes more than the limit and a block, and the active ones are counted.
THEOREM UploadAccountsBalance == Spec => []QueueAccounted
<1>1. ASSUME AccountsInv PROVE QueueAccounted
  <2>1. ASSUME NEW s \in Sessions
        PROVE  /\ IsAcc(ses[s]) /\ Ending(ses[s], wpc[s], ok[s], opened[s])
               /\ Fed(ses[s], wpc[s], opened[s], taken[s]) /\ Marked(ses[s], apc[s], paused[s], wpc[s])
    BY <1>1 DEF AccountsInv, AccountInv, Account
  <2>2. AccountsAgree
    <3>1. ASSUME NEW s \in Sessions, Live(s) \/ opened[s]
          PROVE  ses[s].queued = Len(ses[s].block) + Len(FlattenSeq(ses[s].ready))
      BY <2>1, <3>1 DEF Ending, Held, Live
    <3>2. ASSUME NEW s \in Sessions, wpc[s] \in {"decide", "rename", "release", "report", "ended"}, opened[s]
          PROVE  ses[s].queued = 0
      BY <2>1, <3>2 DEF Ending, Early
    <3> QED BY <1>1, <3>1, <3>2 DEF AccountsInv, AccountsAgree
  <2>3. QueueBounded
    <3>1. ASSUME NEW s \in Sessions PROVE ses[s].got <= MaxUpload + (IF opened[s] THEN BlockSize ELSE MaxUpload)
      <4> DEFINE g == ses[s].got
                 q == ses[s].queued
      <4>1. g \in Nat /\ q \in Nat /\ MaxUpload \in Nat
        BY <2>1, UploadAssumption DEF IsAcc, IsSes
      <4>2. opened[s] => g <= MaxUpload + BlockSize
        BY <2>1 DEF Fed
      <4>3. ~opened[s] => q <= MaxUpload /\ g <= (IF wpc[s] \in Early THEN 0 ELSE MaxUpload) + q
        BY <2>1 DEF Fed
      <4> HIDE DEF g, q
      <4>4. ~opened[s] => g <= MaxUpload + MaxUpload
        BY <4>1, <4>3
      <4> QED BY <4>2, <4>4 DEF g
    <3>2. ASSUME NEW s \in Sessions, NEW n \in Chunks, \A m \in Chunks : m <= n
          PROVE  ses[s].queued < HighMark + n
      BY <2>1, <3>2 DEF Marked
    <3> QED BY <3>1, <3>2 DEF QueueBounded
  <2> QED BY <2>2, <2>3 DEF QueueAccounted
<1> QED BY <1>1, AccountsStart, AccountsKeep, PTL DEF Spec
=============================================================================
