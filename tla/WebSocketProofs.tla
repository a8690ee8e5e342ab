--------------------------- MODULE WebSocketProofs ---------------------------
(***************************************************************************)
(* Theorems about WebSocket, for every set of frames the peer may send and *)
(* every bound: what the two threads write around a close frame, and what  *)
(* the application's callbacks see.                                        *)
(***************************************************************************)
EXTENDS WebSocket, FoldLemmas, FiniteSetTheorems, TLAPS

-----------------------------------------------------------------------------
(* The invariant.                                                          *)

TcpFields == {"conn", "full", "waiting", "fin", "out", "closeSent", "acts"}
EpFields == {"shook", "zip", "frags", "notified", "timer", "parsing", "calls"}

Word == [op : {"http", "data", "ping", "pong", "close"}, by : {"loop", "off"}]
Posts == {"data", "close", "shutdown", "force"}

Has(q, x) == \E i \in 1..Len(q) : q[i] = x

\* A TcpConnection's record.
IsTcp(c) == DOMAIN c = TcpFields /\ c.conn \in {"up", "closing", "down"} /\ c.out \in Seq(Word)

LoopClose == Frame("close", "loop")
OffClose == Frame("close", "off")

\* Behind a close frame there is no other, and nothing by the thread that wrote it.
LastWord(out) ==
  \A i, j \in 1..Len(out) : i < j /\ out[i].op = "close" => out[j].op # "close" /\ out[j].by # out[i].by

\* The second thread has won the exchange on close_sent_, and its frame is not written yet.
Pending == off = "frame" \/ Has(queue, "close")

\* A close frame is in the output, or on its way there, of one thread, which has won the
\* exchange; after the loop's own one the connection is no longer up.
WordInv(c) ==
  /\ LastWord(c.out)
  /\ Has(c.out, LoopClose) => c.closeSent = TRUE /\ c.conn # "up" /\ ~Has(c.out, OffClose) /\ ~Pending
  /\ Has(c.out, OffClose) \/ Pending => c.closeSent = TRUE

\* The second thread's frames come in the order in which it queues them, the close last.
OffInv(c) ==
  /\ queue \in Seq(Posts)
  /\ off \in {"none", "idle", "queue", "sent", "frame", "shut", "done"}
  /\ Has(c.out, OffClose) => off \in {"shut", "done"} /\ ~Has(queue, "data") /\ ~Has(queue, "close")
  /\ Has(queue, "close") => off \in {"shut", "done"}
  /\ \A i, j \in 1..Len(queue) : queue[i] = "close" /\ queue[j] \in {"data", "close"} => j <= i

SaidInv == IsTcp(tcp) /\ WordInv(tcp) /\ OffInv(tcp)

\* What has been called so far.
Called(e, name) == \E i \in 1..Len(e.calls) : e.calls[i].cb = name
Once(e, name) == \A i, j \in 1..Len(e.calls) : e.calls[i].cb = name /\ e.calls[j].cb = name => i = j

IsEp(e) == DOMAIN e = EpFields /\ \E S : e.calls \in Seq(S)

\* on_open is the first callback, on_close reports once, and the timer stops with it.
CallBase(e) ==
  /\ IsEp(e) /\ Once(e, "open") /\ Once(e, "close")
  /\ Called(e, "close") <=> e.notified
  /\ e.notified => ~e.timer
  /\ e.shook => e.calls # <<>> /\ e.calls[1].cb = "open"
  /\ ~e.shook => ~Called(e, "open") /\ ~e.notified /\ ~e.timer

\* ... and an error on an open connection has been followed by its on_close.
CallInv(e) == CallBase(e) /\ (e.shook /\ Called(e, "error") => e.notified)

\* Nothing is handled of a connection that is down, whose close has been reported; nor of a
\* client whose handshake was refused, which is being closed.
DownInv ==
  /\ tcp.conn = "down" => Idle /\ (ep.shook => ep.notified)
  /\ ~ep.shook => batch = <<>>
  /\ ~ep.shook /\ ep.calls # <<>> => ~ep.parsing /\ (tcp.conn = "down" \/ Has(queue, "force"))

EndpointInv == SaidInv /\ CallInv(ep) /\ DownInv

-----------------------------------------------------------------------------
(* Sequences: the output and the loop's queue.                             *)

\* What is appended comes last.
LEMMA AppendFacts ==
  ASSUME NEW S, NEW q \in Seq(S), NEW x \in S
  PROVE  /\ Append(q, x) \in Seq(S) /\ Len(Append(q, x)) = Len(q) + 1 /\ Len(q) \in Nat
         /\ \A i \in 1..Len(q) : Append(q, x)[i] = q[i] /\ i \in 1..Len(q) + 1 /\ i < Len(q) + 1
         /\ Append(q, x)[Len(q) + 1] = x /\ Len(q) + 1 \in 1..Len(q) + 1
         /\ \A i \in 1..Len(q) + 1 : i \in 1..Len(q) \/ i = Len(q) + 1
         /\ \A y : Has(Append(q, x), y) <=> Has(q, y) \/ y = x
<1>1. /\ Append(q, x) \in Seq(S) /\ Len(Append(q, x)) = Len(q) + 1 /\ Len(q) \in Nat
      /\ \A i \in 1..Len(q) : Append(q, x)[i] = q[i]
      /\ Append(q, x)[Len(q) + 1] = x
  OBVIOUS
<1>2. /\ \A i \in 1..Len(q) : i \in 1..Len(q) + 1 /\ i < Len(q) + 1
      /\ Len(q) + 1 \in 1..Len(q) + 1
      /\ \A i \in 1..Len(q) + 1 : i \in 1..Len(q) \/ i = Len(q) + 1
  BY <1>1
<1>3. \A y : Has(Append(q, x), y) <=> Has(q, y) \/ y = x
  BY <1>1, <1>2 DEF Has
<1> QED BY <1>1, <1>2, <1>3

\* What is taken from the front was first.
LEMMA TailFacts ==
  ASSUME NEW S, NEW q \in Seq(S), q # <<>>
  PROVE  /\ Tail(q) \in Seq(S) /\ Len(Tail(q)) = Len(q) - 1 /\ Len(q) \in Nat /\ 1 \in 1..Len(q)
         /\ \A i \in 1..Len(q) - 1 : Tail(q)[i] = q[i + 1] /\ i + 1 \in 1..Len(q) /\ i + 1 > 1
         /\ \A y : Has(Tail(q), y) => Has(q, y)
         /\ \A y : Has(q, y) /\ y # q[1] => Has(Tail(q), y)
<1>1. /\ Tail(q) \in Seq(S) /\ Len(q) \in Nat \ {0} /\ Len(Tail(q)) = Len(q) - 1
      /\ \A i \in 1..Len(q) - 1 : Tail(q)[i] = q[i + 1]
  OBVIOUS
<1>2. /\ 1 \in 1..Len(q)
      /\ \A i \in 1..Len(q) - 1 : i + 1 \in 1..Len(q) /\ i + 1 > 1
      /\ \A i \in 1..Len(q) : i # 1 => i - 1 \in 1..Len(q) - 1 /\ (i - 1) + 1 = i
  BY <1>1
<1>3. \A y : Has(Tail(q), y) => Has(q, y)
  BY <1>1, <1>2 DEF Has
<1>4. ASSUME NEW y, Has(q, y), y # q[1]
      PROVE  Has(Tail(q), y)
  <2>1. PICK i \in 1..Len(q) : q[i] = y
    BY <1>4 DEF Has
  <2>2. i - 1 \in 1..Len(q) - 1 /\ Tail(q)[i - 1] = y
    BY <1>1, <1>2, <1>4, <2>1
  <2> QED BY <1>1, <2>2 DEF Has
<1> QED BY <1>1, <1>2, <1>3, <1>4

\* A frame that is no second close, and not by a thread that has closed, may be written.
LEMMA WordAppended ==
  ASSUME NEW out \in Seq(Word), NEW f \in Word, LastWord(out),
         \A i \in 1..Len(out) : out[i].op = "close" => f.op # "close" /\ f.by # out[i].by
  PROVE  LastWord(Append(out, f))
<1> SUFFICES ASSUME NEW i \in 1..Len(Append(out, f)), NEW j \in 1..Len(Append(out, f)), i < j,
                    Append(out, f)[i].op = "close"
             PROVE  Append(out, f)[j].op # "close" /\ Append(out, f)[j].by # Append(out, f)[i].by
  BY DEF LastWord
<1>1. /\ Len(Append(out, f)) = Len(out) + 1 /\ Len(out) \in Nat
      /\ \A k \in 1..Len(out) : Append(out, f)[k] = out[k]
      /\ Append(out, f)[Len(out) + 1] = f
      /\ \A k \in 1..Len(out) + 1 : k \in 1..Len(out) \/ k = Len(out) + 1
  BY AppendFacts
<1>2. i \in 1..Len(out)
  BY <1>1
<1>3. CASE j \in 1..Len(out)
  BY <1>1, <1>2, <1>3 DEF LastWord
<1>4. CASE j = Len(out) + 1
  BY <1>1, <1>2, <1>4
<1> QED BY <1>1, <1>3, <1>4

\* A close frame in the output is the loop's or the second thread's.
LEMMA CloseWords ==
  ASSUME NEW out \in Seq(Word), NEW i \in 1..Len(out), out[i].op = "close"
  PROVE  Has(out, Frame("close", out[i].by)) /\ out[i].by \in {"loop", "off"}
<1>1. out[i] \in Word
  OBVIOUS
<1>2. out[i] = Frame("close", out[i].by)
  BY <1>1 DEF Word, Frame
<1> QED BY <1>1, <1>2 DEF Has, Word

-----------------------------------------------------------------------------
(* The connection's and the channel's functions.                           *)

\* send_in_loop writes one frame or none.
LEMMA WriteShape ==
  ASSUME NEW c, IsTcp(c), NEW f \in Word
  PROVE  /\ IsTcp(Write(c, f)) /\ Write(c, f).conn = c.conn /\ Write(c, f).closeSent = c.closeSent
         /\ Write(c, f).acts = c.acts
         /\ Write(c, f).out = c.out \/ Write(c, f).out = Append(c.out, f)
<1>1. Append(c.out, f) \in Seq(Word)
  BY DEF IsTcp
<1> QED BY <1>1 DEF Write, IsTcp, TcpFields

\* shutdown() leaves the output and close_sent_ alone, and the connection not up.
LEMMA ShutdownShape ==
  ASSUME NEW c, IsTcp(c)
  PROVE  /\ IsTcp(ShutdownInLoop(c)) /\ ShutdownInLoop(c).conn = c.conn
         /\ ShutdownInLoop(c).out = c.out /\ ShutdownInLoop(c).closeSent = c.closeSent
         /\ IsTcp(Shutdown(c)) /\ Shutdown(c).out = c.out /\ Shutdown(c).closeSent = c.closeSent
         /\ Shutdown(c).conn = IF c.conn = "up" THEN "closing" ELSE c.conn
<1> DEFINE d == [c EXCEPT !.conn = "closing"]
<1>1. IsTcp(d) /\ d.conn = "closing" /\ d.out = c.out /\ d.closeSent = c.closeSent
  BY DEF IsTcp, TcpFields
<1>2. ASSUME NEW e, IsTcp(e)
      PROVE  /\ IsTcp(ShutdownInLoop(e)) /\ ShutdownInLoop(e).conn = e.conn
             /\ ShutdownInLoop(e).out = e.out /\ ShutdownInLoop(e).closeSent = e.closeSent
  BY <1>2 DEF ShutdownInLoop, IsTcp, TcpFields
<1>3. Shutdown(c) = IF c.conn = "up" THEN ShutdownInLoop(d) ELSE c
  BY DEF Shutdown
<1> HIDE DEF d
<1> QED BY <1>1, <1>2, <1>3

\* d is what the loop's thread has made of c: the invariant holds and the connection is
\* down only if it was.
Kept(c, d) == IsTcp(d) /\ WordInv(d) /\ OffInv(d) /\ (d.conn = "down" <=> c.conn = "down")

\* What neither writes nor opens keeps the invariant.
LEMMA SameWords ==
  ASSUME NEW c, NEW d, WordInv(c), OffInv(c), IsTcp(d), d.out = c.out,
         d.closeSent = c.closeSent, d.conn = "up" => c.conn = "up", d.conn = "down" <=> c.conn = "down"
  PROVE  Kept(c, d)
BY DEF Kept, WordInv, OffInv

\* A frame of the loop that is no close: it is sent only while the connection is up.
LEMMA SendFrameKeeps ==
  ASSUME NEW c, IsTcp(c), WordInv(c), OffInv(c), NEW f \in Word, f.by = "loop", f.op # "close"
  PROVE  Kept(c, SendFrame(c, f)) /\ SendFrame(c, f).closeSent = c.closeSent
<1>1. CASE c.conn # "up"
  BY <1>1 DEF SendFrame, Kept
<1>2. CASE c.conn = "up"
  <2> DEFINE d == Write(c, f)
  <2>1. SendFrame(c, f) = d
    BY <1>2 DEF SendFrame
  <2>2. /\ IsTcp(d) /\ d.conn = c.conn /\ d.closeSent = c.closeSent
        /\ d.out = c.out \/ d.out = Append(c.out, f)
    BY WriteShape
  <2> HIDE DEF d
  <2>3. CASE d.out = c.out
    BY <2>1, <2>2, <2>3, SameWords
  <2>4. CASE d.out = Append(c.out, f)
    <3>1. c.out \in Seq(Word)
      BY DEF IsTcp
    <3>2. \A y : Has(d.out, y) <=> Has(c.out, y) \/ y = f
      <4> HIDE DEF Word
      <4> QED BY <2>4, <3>1, AppendFacts
    <3>3. f # LoopClose /\ f # OffClose
      BY DEF LoopClose, OffClose, Frame
    <3>4. ~Has(c.out, LoopClose)
      BY <1>2 DEF WordInv
    <3>5. ASSUME NEW i \in 1..Len(c.out), c.out[i].op = "close"
          PROVE  c.out[i].by # "loop"
      BY <3>1, <3>4, <3>5, CloseWords DEF LoopClose
    <3>6. LastWord(d.out)
      BY <2>4, <3>1, <3>5, WordAppended DEF WordInv
    <3>7. WordInv(d) /\ OffInv(d)
      BY <2>2, <3>2, <3>3, <3>6 DEF WordInv, OffInv
    <3> QED BY <2>1, <2>2, <3>7 DEF Kept
  <2> QED BY <2>2, <2>3, <2>4
<1> QED BY <1>1, <1>2

\* close() on the loop's thread: the one that wins the exchange writes the frame.
LEMMA CloseKeeps ==
  ASSUME NEW c, IsTcp(c), WordInv(c), OffInv(c)
  PROVE  Kept(c, Close(c))
<1>1. CASE c.closeSent
  BY <1>1 DEF Close, Kept
<1>2. CASE ~c.closeSent
  <2> DEFINE b == [c EXCEPT !.closeSent = TRUE]
             d == SendFrame(b, LoopClose)
             e == Shutdown(d)
  <2>1. Close(c) = e
    BY <1>2 DEF Close, LoopClose
  <2>2. IsTcp(b) /\ b.conn = c.conn /\ b.out = c.out /\ b.closeSent = TRUE
    BY DEF IsTcp, TcpFields
  <2>3. ~Has(c.out, LoopClose) /\ ~Has(c.out, OffClose) /\ ~Pending
    BY <1>2 DEF WordInv
  <2>4. LoopClose \in Word
    BY DEF LoopClose, Frame, Word
  <2> HIDE DEF b
  <2>5. /\ IsTcp(d) /\ d.conn = c.conn /\ d.closeSent = TRUE
        /\ d.out = c.out \/ (c.conn = "up" /\ d.out = Append(c.out, LoopClose))
    <3>1. CASE c.conn = "up"
      <4>1. d = Write(b, LoopClose)
        BY <2>2, <3>1 DEF SendFrame
      <4> QED BY <2>2, <2>4, <3>1, <4>1, WriteShape
    <3>2. CASE c.conn # "up"
      BY <2>2, <3>2 DEF SendFrame
    <3> QED BY <3>1, <3>2
  <2> HIDE DEF d
  <2>6. /\ IsTcp(e) /\ e.out = d.out /\ e.closeSent = TRUE
        /\ e.conn # "up" /\ (e.conn = "down" <=> c.conn = "down")
    BY <2>5, ShutdownShape
  <2> HIDE DEF e
  <2>7. CASE d.out = c.out
    BY <2>1, <2>3, <2>6, <2>7 DEF Kept, WordInv, OffInv
  <2>8. CASE d.out = Append(c.out, LoopClose)
    <3>1. c.out \in Seq(Word)
      BY DEF IsTcp
    <3>2. \A y : Has(e.out, y) <=> Has(c.out, y) \/ y = LoopClose
      <4> HIDE DEF Word, LoopClose
      <4> QED BY <2>4, <2>6, <2>8, <3>1, AppendFacts
    <3>3. LoopClose # OffClose
      BY DEF LoopClose, OffClose, Frame
    <3>4. ASSUME NEW i \in 1..Len(c.out), c.out[i].op = "close"
          PROVE  FALSE
      BY <2>3, <3>1, <3>4, CloseWords DEF LoopClose, OffClose
    <3>5. LastWord(e.out)
      <4> HIDE DEF Word, LoopClose
      <4> QED BY <2>4, <2>6, <2>8, <3>1, <3>4, WordAppended DEF WordInv
    <3>6. WordInv(e) /\ OffInv(e)
      BY <2>3, <2>6, <3>2, <3>3, <3>5 DEF WordInv, OffInv
    <3> QED BY <2>1, <2>6, <3>6 DEF Kept
  <2> QED BY <2>5, <2>7, <2>8
<1> QED BY <1>1, <1>2

\* A callback that uses the channel.
LEMMA ReactKeeps ==
  ASSUME NEW c, IsTcp(c), WordInv(c), OffInv(c), NEW r \in {"nothing", "text", "close", "stop"}
  PROVE  Kept(c, React(c, r))
<1> DEFINE b == [c EXCEPT !.acts = @ + 1]
<1>1. IsTcp(b) /\ b.conn = c.conn /\ b.out = c.out /\ b.closeSent = c.closeSent
  BY DEF IsTcp, TcpFields
<1>2. React(c, r) = CASE r = "nothing" -> c
                      [] r = "text"    -> SendFrame(b, Frame("data", "loop"))
                      [] r = "close"   -> Close(b)
                      [] r = "stop"    -> Shutdown(b)
  BY DEF React
<1> HIDE DEF b
<1>3. WordInv(b) /\ OffInv(b)
  BY <1>1 DEF WordInv, OffInv
<1>4. CASE r = "nothing"
  BY <1>2, <1>4 DEF Kept
<1>5. CASE r = "text"
  <2>1. Frame("data", "loop") \in Word /\ Frame("data", "loop").by = "loop"
        /\ Frame("data", "loop").op # "close"
    BY DEF Frame, Word
  <2>2. Kept(b, SendFrame(b, Frame("data", "loop")))
    BY <1>1, <1>3, <2>1, SendFrameKeeps
  <2> QED BY <1>1, <1>2, <1>5, <2>2 DEF Kept
<1>6. CASE r = "close"
  <2>1. Kept(b, Close(b))
    BY <1>1, <1>3, CloseKeeps
  <2> QED BY <1>1, <1>2, <1>6, <2>1 DEF Kept
<1>7. CASE r = "stop"
  <2>1. Kept(b, Shutdown(b))
    BY <1>1, <1>3, ShutdownShape, SameWords
  <2> QED BY <1>1, <1>2, <1>7, <2>1 DEF Kept
<1> QED BY <1>4, <1>5, <1>6, <1>7

\* The steps of the loop's thread one after another.
LEMMA KeptTwice ==
  ASSUME NEW c, NEW d, NEW e, Kept(c, d), Kept(d, e)
  PROVE  Kept(c, e)
BY DEF Kept

-----------------------------------------------------------------------------
(* The callbacks.                                                          *)

\* d is e with one more call.
OneMore(e, d, name) ==
  /\ IsEp(d) /\ d.shook = e.shook /\ d.notified = e.notified /\ d.timer = e.timer
  /\ d.parsing = e.parsing
  /\ d.calls # <<>> /\ d.calls[1].cb = (IF e.calls = <<>> THEN name ELSE e.calls[1].cb)
  /\ \A m : Called(d, m) <=> Called(e, m) \/ m = name
  /\ \A m : Once(e, m) /\ (m = name => ~Called(e, m)) => Once(d, m)

\* A callback is one more call.
LEMMA CallShape ==
  ASSUME NEW e, IsEp(e), NEW name, NEW arg
  PROVE  OneMore(e, Call(e, name, arg), name)
<1> DEFINE d == Call(e, name, arg)
<1> DEFINE x == [cb |-> name, arg |-> arg]
<1>1. PICK T : e.calls \in Seq(T)
  BY DEF IsEp
<1>2. e.calls \in Seq(T \cup {x})
  BY <1>1
<1>3. /\ DOMAIN d = EpFields /\ d.calls = Append(e.calls, x)
      /\ d.shook = e.shook /\ d.notified = e.notified /\ d.timer = e.timer /\ d.parsing = e.parsing
  BY DEF Call, IsEp, EpFields
<1>4. x.cb = name /\ x \in T \cup {x}
  OBVIOUS
<1> HIDE DEF x, d
<1>5. /\ d.calls \in Seq(T \cup {x}) /\ Len(d.calls) = Len(e.calls) + 1 /\ Len(e.calls) \in Nat
      /\ \A i \in 1..Len(e.calls) : d.calls[i] = e.calls[i] /\ i \in 1..Len(e.calls) + 1
      /\ d.calls[Len(e.calls) + 1] = x /\ Len(e.calls) + 1 \in 1..Len(e.calls) + 1
      /\ \A i \in 1..Len(e.calls) + 1 : i \in 1..Len(e.calls) \/ i = Len(e.calls) + 1
  BY <1>2, <1>3, <1>4, AppendFacts
<1>6. d.calls # <<>> /\ d.calls[1].cb = (IF e.calls = <<>> THEN name ELSE e.calls[1].cb)
  <2>1. d.calls # <<>>
    BY <1>5
  <2>2. CASE e.calls = <<>>
    <3>1. Len(e.calls) + 1 = 1
      BY <2>2
    <3> QED BY <1>4, <1>5, <2>1, <2>2, <3>1
  <2>3. CASE e.calls # <<>>
    <3>1. 1 \in 1..Len(e.calls)
      BY <1>1, <2>3
    <3> QED BY <1>5, <2>1, <2>3, <3>1
  <2> QED BY <2>2, <2>3
<1>7. \A m : Called(d, m) <=> Called(e, m) \/ m = name
  BY <1>4, <1>5 DEF Called
<1>8. ASSUME NEW m, Once(e, m), m = name => ~Called(e, m)
      PROVE  Once(d, m)
  <2> SUFFICES ASSUME NEW i \in 1..Len(d.calls), NEW j \in 1..Len(d.calls),
                      d.calls[i].cb = m, d.calls[j].cb = m
               PROVE  i = j
    BY DEF Once
  <2>1. /\ i \in 1..Len(e.calls) \/ (i = Len(e.calls) + 1 /\ m = name)
        /\ j \in 1..Len(e.calls) \/ (j = Len(e.calls) + 1 /\ m = name)
    BY <1>4, <1>5
  <2>2. CASE i \in 1..Len(e.calls) /\ j \in 1..Len(e.calls)
    BY <1>5, <1>8, <2>2 DEF Once
  <2>3. ASSUME NEW k \in 1..Len(e.calls), d.calls[k].cb = m
        PROVE  Called(e, m)
    BY <1>5, <2>3 DEF Called
  <2> QED BY <1>8, <2>1, <2>2, <2>3
<1>9. OneMore(e, d, name)
  BY <1>3, <1>5, <1>6, <1>7, <1>8 DEF IsEp, OneMore
<1> QED BY <1>9 DEF d

\* Fields the callbacks do not depend on.
LEMMA SameCalls ==
  ASSUME NEW e, CallInv(e), NEW d, DOMAIN d = EpFields, d.calls = e.calls, d.shook = e.shook,
         d.notified = e.notified, d.timer = e.timer
  PROVE  CallInv(d)
BY DEF CallInv, CallBase, IsEp, Called, Once

\* notify_close on an open connection.
LEMMA NotifyKeeps ==
  ASSUME NEW e, CallBase(e), e.shook, NEW code
  PROVE  /\ CallInv(NotifyClose(e, code)) /\ NotifyClose(e, code).shook
         /\ NotifyClose(e, code).notified /\ NotifyClose(e, code).parsing = e.parsing
<1>1. CASE e.notified
  <2> DEFINE d == [e EXCEPT !.timer = FALSE]
  <2>1. NotifyClose(e, code) = d
    BY <1>1 DEF NotifyClose
  <2>2. /\ DOMAIN d = EpFields /\ d.calls = e.calls /\ d.shook = e.shook /\ d.notified = e.notified
        /\ d.timer = FALSE /\ d.parsing = e.parsing
    BY DEF CallBase, IsEp, EpFields
  <2> HIDE DEF d
  <2> QED BY <1>1, <2>1, <2>2 DEF CallInv, CallBase, IsEp, Called, Once
<1>2. CASE ~e.notified
  <2> DEFINE b == [e EXCEPT !.timer = FALSE, !.notified = TRUE]
             d == Call(b, "close", code)
  <2>1. NotifyClose(e, code) = d
    BY <1>2 DEF NotifyClose
  <2>2. /\ DOMAIN b = EpFields /\ b.calls = e.calls /\ b.shook = e.shook /\ b.notified = TRUE
        /\ b.timer = FALSE /\ b.parsing = e.parsing
    BY DEF CallBase, IsEp, EpFields
  <2> HIDE DEF b
  <2>3. IsEp(b) /\ Once(b, "open") /\ ~Called(b, "close") /\ Once(b, "close")
        /\ b.calls # <<>> /\ b.calls[1].cb = "open"
    BY <1>2, <2>2 DEF CallBase, IsEp, Once, Called
  <2>4. OneMore(b, d, "close")
    BY <2>3, CallShape
  <2> HIDE DEF d
  <2>5. /\ IsEp(d) /\ d.shook = b.shook /\ d.notified = b.notified /\ d.timer = b.timer
        /\ d.parsing = b.parsing
        /\ d.calls # <<>> /\ d.calls[1].cb = "open" /\ Called(d, "close")
        /\ Once(d, "open") /\ Once(d, "close")
    BY <2>3, <2>4 DEF OneMore
  <2> QED BY <2>1, <2>2, <2>5 DEF CallInv, CallBase
<1> QED BY <1>1, <1>2

\* on_error and the close after it.
LEMMA ErrorKeeps ==
  ASSUME NEW e, CallInv(e), e.shook, NEW code
  PROVE  /\ CallInv(NotifyClose(Call(e, "error", code), code))
         /\ NotifyClose(Call(e, "error", code), code).shook
         /\ NotifyClose(Call(e, "error", code), code).notified
         /\ NotifyClose(Call(e, "error", code), code).parsing = e.parsing
<1> DEFINE d == Call(e, "error", code)
<1>1. OneMore(e, d, "error")
  BY CallShape DEF CallInv, CallBase
<1> HIDE DEF d
<1>2. CallBase(d) /\ d.shook /\ d.parsing = e.parsing
  BY <1>1 DEF CallInv, CallBase, OneMore
<1>3. CallInv(NotifyClose(d, code)) /\ NotifyClose(d, code).shook /\ NotifyClose(d, code).notified
      /\ NotifyClose(d, code).parsing = d.parsing
  BY <1>2, NotifyKeeps
<1> QED BY <1>2, <1>3 DEF d

\* The callbacks' record with other fields changed.
LEMMA EpShape ==
  ASSUME NEW e, IsEp(e), NEW v
  PROVE  /\ LET d == [e EXCEPT !.parsing = v] IN
              /\ DOMAIN d = EpFields /\ d.calls = e.calls /\ d.shook = e.shook
              /\ d.notified = e.notified /\ d.timer = e.timer /\ d.parsing = v
         /\ LET d == [e EXCEPT !.frags = v] IN
              /\ DOMAIN d = EpFields /\ d.calls = e.calls /\ d.shook = e.shook
              /\ d.notified = e.notified /\ d.timer = e.timer /\ d.parsing = e.parsing
BY DEF IsEp, EpFields

-----------------------------------------------------------------------------
(* What the steps have in common.                                          *)

\* A step of the loop's thread that leaves its queue and the second thread alone.
LEMMA LoopSays ==
  ASSUME SaidInv, Kept(tcp, tcp'), UNCHANGED <<queue, off>>
  PROVE  SaidInv' /\ (tcp'.conn = "down" <=> tcp.conn = "down")
BY DEF SaidInv, Kept, WordInv, OffInv, Pending

\* What neither calls back nor parses leaves a connection that is down as it is.
LEMMA DownSame ==
  ASSUME DownInv, UNCHANGED <<ep, batch>>, tcp'.conn = "down" <=> tcp.conn = "down",
         Has(queue, "force") => Has(queue', "force")
  PROVE  DownInv'
BY DEF DownInv, Idle

\* An open connection that is not down.
LEMMA OpenUp ==
  ASSUME ep'.shook, tcp'.conn # "down"
  PROVE  DownInv'
BY DEF DownInv

\* close_for_error on an open connection, whatever on_error does with the channel.
LEMMA ErrorStep ==
  ASSUME EndpointInv, ep.shook, tcp.conn # "down", UNCHANGED <<queue, off>>,
         NEW e, CallInv(e), e.shook, NEW code, NEW r \in Reactions, CloseForError(e, code, r)
  PROVE  EndpointInv'
<1>1. r \in {"nothing", "text", "close", "stop"}
  BY DEF Reactions
<1>2. IsTcp(tcp) /\ WordInv(tcp) /\ OffInv(tcp) /\ SaidInv
  BY DEF EndpointInv, SaidInv
<1> DEFINE b == React(tcp, r)
<1>3. Kept(tcp, b)
  BY <1>1, <1>2, ReactKeeps
<1>4. tcp' = Close(b) /\ ep' = NotifyClose(Call(e, "error", code), code)
  BY DEF CloseForError
<1> HIDE DEF b
<1>5. Kept(b, Close(b))
  BY <1>3, CloseKeeps DEF Kept
<1>6. Kept(tcp, tcp')
  BY <1>3, <1>4, <1>5, KeptTwice
<1>7. SaidInv' /\ tcp'.conn # "down"
  BY <1>2, <1>6, LoopSays
<1>8. CallInv(ep') /\ ep'.shook
  BY <1>4, ErrorKeeps
<1>9. DownInv'
  BY <1>7, <1>8, OpenUp
<1> QED BY <1>7, <1>8, <1>9 DEF EndpointInv

\* A functor that is run leaves the second thread's frames in order.
LEMMA TailSays ==
  ASSUME SaidInv, queue # <<>>, queue' = Tail(queue), off' = off, IsTcp(tcp'),
         tcp'.out = tcp.out, tcp'.closeSent = tcp.closeSent, tcp'.conn = "up" => tcp.conn = "up"
  PROVE  SaidInv'
<1>1. queue \in Seq(Posts)
  BY DEF SaidInv, OffInv
<1>2. /\ queue' \in Seq(Posts) /\ Len(queue') = Len(queue) - 1 /\ Len(queue) \in Nat
      /\ \A i \in 1..Len(queue) - 1 : queue'[i] = queue[i + 1] /\ i + 1 \in 1..Len(queue)
      /\ \A y : Has(queue', y) => Has(queue, y)
  <2> HIDE DEF Posts
  <2> QED BY <1>1, TailFacts
<1>3. WordInv(tcp)'
  BY <1>2 DEF SaidInv, WordInv, Pending
<1>4. ASSUME NEW i \in 1..Len(queue'), NEW j \in 1..Len(queue'),
             queue'[i] = "close", queue'[j] \in {"data", "close"}
      PROVE  j <= i
  <2>1. j + 1 <= i + 1
    BY <1>2, <1>4 DEF SaidInv, OffInv
  <2> QED BY <2>1
<1>5. OffInv(tcp)'
  BY <1>2, <1>4 DEF SaidInv, OffInv
<1> QED BY <1>3, <1>5 DEF SaidInv

\* A functor that the second thread queues, or the loop's own force_close.
LEMMA PostSays ==
  ASSUME SaidInv, NEW x \in {"data", "shutdown", "force"}, queue' = Append(queue, x), IsTcp(tcp'),
         tcp'.out = tcp.out, tcp'.closeSent = tcp.closeSent, tcp'.conn # "up" \/ tcp'.conn = tcp.conn,
         off' \in {"none", "idle", "queue", "sent", "frame", "shut", "done"},
         off' = "frame" <=> off = "frame", off \in {"shut", "done"} => off' \in {"shut", "done"},
         x = "data" => off \notin {"shut", "done"}
  PROVE  SaidInv'
<1>1. queue \in Seq(Posts) /\ x \in Posts
  BY DEF SaidInv, OffInv, Posts
<1>2. /\ queue' \in Seq(Posts) /\ Len(queue') = Len(queue) + 1 /\ Len(queue) \in Nat
      /\ \A i \in 1..Len(queue) : queue'[i] = queue[i]
      /\ queue'[Len(queue) + 1] = x
      /\ \A i \in 1..Len(queue) + 1 : i \in 1..Len(queue) \/ i = Len(queue) + 1
      /\ \A y : Has(queue', y) <=> Has(queue, y) \/ y = x
  <2> HIDE DEF Posts
  <2> QED BY <1>1, AppendFacts
<1>3. WordInv(tcp)'
  BY <1>2 DEF SaidInv, WordInv, Pending
<1>4. ASSUME NEW i \in 1..Len(queue'), NEW j \in 1..Len(queue'),
             queue'[i] = "close", queue'[j] \in {"data", "close"}
      PROVE  j <= i
  <2>1. i \in 1..Len(queue) /\ queue[i] = "close"
    BY <1>2, <1>4
  <2>2. x # "data"
    BY <2>1 DEF SaidInv, OffInv, Has
  <2>3. j \in 1..Len(queue) /\ queue[j] \in {"data", "close"}
    BY <1>2, <1>4, <2>2
  <2> QED BY <2>1, <2>3 DEF SaidInv, OffInv
<1>5. OffInv(tcp)'
  BY <1>2, <1>4 DEF SaidInv, OffInv
<1> QED BY <1>3, <1>5 DEF SaidInv

-----------------------------------------------------------------------------
(* The actions.                                                            *)

\* Nothing has been read of the opening, and nothing was written, called or queued.
LEMMA InitWhole == Init => EndpointInv
<1> SUFFICES ASSUME Init PROVE EndpointInv
  OBVIOUS
<1>1. IsTcp(tcp) /\ tcp.conn = "up" /\ tcp.out = <<>>
  BY DEF Init, IsTcp, TcpFields
<1>2. SaidInv
  BY <1>1 DEF Init, SaidInv, WordInv, OffInv, LastWord, Pending, Has
<1>3. /\ DOMAIN ep = EpFields /\ ep.calls = <<>> /\ ~ep.shook /\ ~ep.notified /\ ~ep.timer
      /\ ~ep.parsing
  BY DEF Init, EpFields
<1>4. IsEp(ep)
  <2>1. ep.calls \in Seq({})
    BY <1>3
  <2> QED BY <1>3, <2>1 DEF IsEp
<1>5. CallInv(ep)
  BY <1>3, <1>4 DEF CallInv, CallBase, Once, Called
<1>6. DownInv
  BY <1>1, <1>3 DEF Init, DownInv
<1> QED BY <1>2, <1>5, <1>6 DEF EndpointInv

\* handle_read: there are bytes only for a connection that is still there.
LEMMA ReadKeeps == ASSUME EndpointInv, Read PROVE EndpointInv'
<1>1. tcp.conn # "down" /\ ep' = [ep EXCEPT !.parsing = TRUE] /\ UNCHANGED <<tcp, batch, queue, off>>
  BY DEF Read
<1>2. ~Has(queue, "force")
  <2>1. queue \in Seq({"data", "close", "shutdown"})
    BY DEF Read
  <2> QED BY <2>1 DEF Has
<1>3. CallInv(ep) /\ IsEp(ep) /\ SaidInv /\ DownInv
  BY DEF EndpointInv, CallInv, CallBase
<1>4. DOMAIN ep' = EpFields /\ ep'.calls = ep.calls /\ ep'.shook = ep.shook
      /\ ep'.notified = ep.notified /\ ep'.timer = ep.timer
  BY <1>1, <1>3, EpShape
<1>5. CallInv(ep')
  BY <1>3, <1>4, SameCalls
<1>6. SaidInv'
  BY <1>1, <1>3 DEF SaidInv, WordInv, OffInv, Pending
<1>7. DownInv'
  BY <1>1, <1>2, <1>3, <1>4 DEF DownInv
<1> QED BY <1>5, <1>6, <1>7 DEF EndpointInv

\* A frame the handshake is answered with.
LEMMA HttpKeeps ==
  ASSUME EndpointInv
  PROVE  Kept(tcp, SendFrame(tcp, Frame("http", "loop")))
<1>1. /\ Frame("http", "loop") \in Word /\ Frame("http", "loop").by = "loop"
      /\ Frame("http", "loop").op # "close"
  BY DEF Frame, Word
<1> QED BY <1>1, SendFrameKeeps DEF EndpointInv, SaidInv

\* The upgrade, and on_open: the first callback there is.
LEMMA UpgradeKeeps == ASSUME EndpointInv, Upgrade PROVE EndpointInv'
<1>1. /\ CallBase(ep) /\ IsEp(ep) /\ SaidInv /\ IsTcp(tcp) /\ WordInv(tcp) /\ OffInv(tcp)
      /\ ep.calls = <<>> /\ tcp.conn # "down" /\ ~ep.notified /\ ~ep.shook
  BY DEF Upgrade, EndpointInv, CallInv, CallBase, SaidInv, DownInv, Idle
<1> DEFINE c == IF role = "server" THEN SendFrame(tcp, Frame("http", "loop")) ELSE tcp
<1>2. PICK r \in Reactions : tcp' = React(c, r)
  BY DEF Upgrade
<1>3. Kept(tcp, c)
  <2>1. Kept(tcp, tcp)
    BY <1>1 DEF Kept
  <2> QED BY <2>1, HttpKeeps
<1> HIDE DEF c
<1>4. Kept(c, tcp')
  <2>1. r \in {"nothing", "text", "close", "stop"}
    BY DEF Reactions
  <2> QED BY <1>2, <1>3, <2>1, ReactKeeps DEF Kept
<1>5. SaidInv' /\ tcp'.conn # "down"
  <2>1. Kept(tcp, tcp')
    BY <1>3, <1>4, KeptTwice
  <2> QED BY <1>1, <2>1, LoopSays DEF Upgrade
<1>6. PICK zip : ep' = Opened(zip)
  BY DEF Upgrade
<1> DEFINE e == [ep EXCEPT !.shook = TRUE, !.zip = zip, !.timer = (role = "server"),
                           !.parsing = Tail(inbuf) # <<>>]
<1>7. /\ DOMAIN e = EpFields /\ e.calls = ep.calls /\ e.shook = TRUE /\ e.notified = ep.notified
  BY <1>1 DEF IsEp, EpFields
<1>8. ep' = Call(e, "open", 0)
  BY <1>6 DEF Opened
<1> HIDE DEF e
<1>9. IsEp(e) /\ \A m : ~Called(e, m) /\ Once(e, m)
  BY <1>1, <1>7 DEF IsEp, Called, Once
<1>10. OneMore(e, ep', "open")
  BY <1>8, <1>9, CallShape
<1>11. CallInv(ep') /\ ep'.shook
  BY <1>1, <1>7, <1>9, <1>10 DEF OneMore, CallInv, CallBase
<1> QED BY <1>5, <1>11, OpenUp DEF EndpointInv

\* A refused handshake: an answer, or on_error and the force_close behind it.
LEMMA RefusedKeeps == ASSUME EndpointInv, HandshakeRefused PROVE EndpointInv'
<1>1. /\ CallBase(ep) /\ CallInv(ep) /\ IsEp(ep) /\ SaidInv /\ IsTcp(tcp) /\ WordInv(tcp)
      /\ ep.calls = <<>> /\ tcp.conn # "down" /\ ~ep.shook /\ batch = <<>> /\ OffInv(tcp)
      /\ batch' = batch /\ off' = off
  BY DEF HandshakeRefused, EndpointInv, CallInv, CallBase, SaidInv, DownInv, Idle
<1> DEFINE e == [ep EXCEPT !.parsing = FALSE]
<1>2. /\ DOMAIN e = EpFields /\ e.calls = ep.calls /\ e.shook = ep.shook
      /\ e.notified = ep.notified /\ e.timer = ep.timer /\ e.parsing = FALSE
  BY <1>1, EpShape
<1>3. CASE role = "server"
  <2> DEFINE c == SendFrame(tcp, Frame("http", "loop"))
  <2>1. tcp' = Shutdown(c) /\ ep' = e /\ queue' = queue
    BY <1>3 DEF HandshakeRefused
  <2>2. Kept(tcp, c)
    BY HttpKeeps
  <2> HIDE DEF c, e
  <2>3. Kept(c, tcp')
    BY <2>1, <2>2, ShutdownShape, SameWords DEF Kept
  <2>4. SaidInv' /\ tcp'.conn # "down"
    BY <1>1, <2>1, <2>2, <2>3, KeptTwice, LoopSays
  <2>5. CallInv(ep')
    BY <1>1, <1>2, <2>1, SameCalls
  <2>6. DownInv'
    BY <1>1, <1>2, <2>1, <2>4 DEF DownInv
  <2> QED BY <2>4, <2>5, <2>6 DEF EndpointInv
<1>4. CASE role # "server"
  <2>1. /\ ep' = Call(e, "error", 0) /\ tcp' = [tcp EXCEPT !.conn = "closing"]
        /\ queue' = Append(queue, "force")
    BY <1>4 DEF HandshakeRefused
  <2> HIDE DEF e
  <2>2. IsTcp(tcp') /\ tcp'.conn = "closing" /\ tcp'.out = tcp.out /\ tcp'.closeSent = tcp.closeSent
    BY <1>1, <2>1 DEF IsTcp, TcpFields
  <2>3. SaidInv'
    BY <1>1, <2>1, <2>2, PostSays DEF OffInv
  <2>4. CallInv(e) /\ IsEp(e)
    BY <1>1, <1>2, SameCalls DEF CallInv, CallBase
  <2>5. OneMore(e, ep', "error")
    BY <2>1, <2>4, CallShape
  <2>6. CallInv(ep') /\ ~ep'.shook /\ ~ep'.parsing
    BY <1>1, <1>2, <2>4, <2>5 DEF OneMore, CallInv, CallBase
  <2>7. Has(queue', "force")
    BY <1>1, <2>1, AppendFacts DEF OffInv, Posts
  <2>8. DownInv'
    BY <1>1, <2>2, <2>6, <2>7 DEF DownInv
  <2> QED BY <2>3, <2>6, <2>8 DEF EndpointInv
<1> QED BY <1>3, <1>4

\* An ordinary request is answered, and may end the connection.
LEMMA PlainKeeps == ASSUME EndpointInv, PlainRequest PROVE EndpointInv'
<1>1. /\ CallInv(ep) /\ IsEp(ep) /\ SaidInv
      /\ ep.calls = <<>> /\ tcp.conn # "down" /\ ~ep.shook /\ batch = <<>>
      /\ batch' = batch /\ UNCHANGED <<queue, off>>
  BY DEF PlainRequest, EndpointInv, CallInv, CallBase, SaidInv, DownInv, Idle
<1> DEFINE c == SendFrame(tcp, Frame("http", "loop"))
<1>2. tcp' = Shutdown(c) \/ tcp' = c
  BY DEF PlainRequest
<1>3. PICK more : ep' = [ep EXCEPT !.parsing = more]
  BY DEF PlainRequest
<1>4. /\ DOMAIN ep' = EpFields /\ ep'.calls = ep.calls /\ ep'.shook = ep.shook
      /\ ep'.notified = ep.notified /\ ep'.timer = ep.timer
  BY <1>1, <1>3, EpShape
<1>5. Kept(tcp, c)
  BY HttpKeeps
<1> HIDE DEF c
<1>6. Kept(c, tcp')
  <2>1. Kept(c, c)
    BY <1>5 DEF Kept
  <2>2. Kept(c, Shutdown(c))
    BY <1>5, ShutdownShape, SameWords DEF Kept
  <2> QED BY <1>2, <2>1, <2>2
<1>7. SaidInv' /\ tcp'.conn # "down"
  BY <1>1, <1>5, <1>6, KeptTwice, LoopSays
<1>8. CallInv(ep')
  BY <1>1, <1>4, SameCalls
<1>9. DownInv'
  BY <1>1, <1>4, <1>7 DEF DownInv
<1> QED BY <1>7, <1>8, <1>9 DEF EndpointInv

\* A server that has shut down gives up the bytes it has read.
LEMMA IgnoreKeeps == ASSUME EndpointInv, IgnoreRequests PROVE EndpointInv'
<1>1. /\ CallInv(ep) /\ IsEp(ep) /\ SaidInv /\ ep.calls = <<>> /\ ~ep.shook /\ batch = <<>>
      /\ tcp.conn # "down" /\ UNCHANGED <<tcp, queue, off, batch>> /\ ep' = [ep EXCEPT !.parsing = FALSE]
  BY DEF IgnoreRequests, EndpointInv, CallInv, CallBase, DownInv, Idle
<1>2. /\ DOMAIN ep' = EpFields /\ ep'.calls = ep.calls /\ ep'.shook = ep.shook
      /\ ep'.notified = ep.notified /\ ep'.timer = ep.timer
  BY <1>1, EpShape
<1>3. CallInv(ep')
  BY <1>1, <1>2, SameCalls
<1>4. SaidInv'
  BY <1>1 DEF SaidInv, WordInv, OffInv, Pending
<1>5. DownInv'
  BY <1>1, <1>2 DEF DownInv
<1> QED BY <1>3, <1>4, <1>5 DEF EndpointInv

\* The frames of one read, or the error of the first bad one.
LEMMA ParseKeeps == ASSUME EndpointInv, ParseFrames PROVE EndpointInv'
<1>1. /\ CallInv(ep) /\ IsEp(ep) /\ SaidInv /\ ep.shook /\ tcp.conn # "down"
      /\ UNCHANGED <<queue, off>>
  BY DEF ParseFrames, EndpointInv, CallInv, CallBase, DownInv, Idle
<1> DEFINE e == [ep EXCEPT !.parsing = FALSE]
<1>2. /\ DOMAIN e = EpFields /\ e.calls = ep.calls /\ e.shook = ep.shook
      /\ e.notified = ep.notified /\ e.timer = ep.timer
  BY <1>1 DEF IsEp, EpFields
<1>3. (ep' = e /\ tcp' = tcp) \/ \E code : \E r \in Reactions : CloseForError(e, code, r)
  BY DEF ParseFrames
<1> HIDE DEF e
<1>4. CallInv(e)
  BY <1>1, <1>2, SameCalls
<1>5. CASE ep' = e /\ tcp' = tcp
  <2>1. SaidInv'
    BY <1>1, <1>5 DEF SaidInv, WordInv, OffInv, Pending
  <2>2. DownInv'
    BY <1>1, <1>2, <1>5, OpenUp
  <2> QED BY <1>4, <1>5, <2>1, <2>2 DEF EndpointInv
<1>6. ASSUME NEW code, NEW r \in Reactions, CloseForError(e, code, r)
      PROVE  EndpointInv'
  BY <1>1, <1>2, <1>4, <1>6, ErrorStep
<1> QED BY <1>3, <1>5, <1>6

\* A frame of the batch is handled on an open connection that is not down.
LEMMA AtBatch ==
  ASSUME EndpointInv, batch # <<>>
  PROVE  /\ CallInv(ep) /\ CallBase(ep) /\ IsEp(ep) /\ SaidInv /\ IsTcp(tcp) /\ WordInv(tcp)
         /\ OffInv(tcp) /\ ep.shook /\ tcp.conn # "down"
BY DEF EndpointInv, CallInv, CallBase, SaidInv, DownInv, Idle

\* The assembler's own fields.
LEMMA FragsKeep ==
  ASSUME EndpointInv, batch # <<>>, NEW v, NEW e, e = [ep EXCEPT !.frags = v]
  PROVE  CallInv(e) /\ e.shook
<1>1. /\ DOMAIN e = EpFields /\ e.calls = ep.calls /\ e.shook = ep.shook
      /\ e.notified = ep.notified /\ e.timer = ep.timer
  BY AtBatch, EpShape
<1> QED BY <1>1, AtBatch, SameCalls

\* A frame the assembler refuses.
LEMMA BadFrameKeeps == ASSUME EndpointInv, HandleBadFrame PROVE EndpointInv'
<1>1. batch # <<>> /\ UNCHANGED <<queue, off>>
  BY DEF HandleBadFrame
<1>2. PICK v, code, r : r \in Reactions /\ CloseForError([ep EXCEPT !.frags = v], code, r)
  BY DEF HandleBadFrame
<1> DEFINE e == [ep EXCEPT !.frags = v]
<1>3. CallInv(e) /\ e.shook
  BY <1>1, FragsKeep
<1>4. CloseForError(e, code, r)
  BY <1>2
<1> HIDE DEF e
<1> QED BY <1>1, <1>2, <1>3, <1>4, AtBatch, ErrorStep

\* A ping is answered by a pong while the connection is up.
LEMMA PingKeeps == ASSUME EndpointInv, HandlePing PROVE EndpointInv'
<1>1. /\ batch # <<>> /\ UNCHANGED <<queue, off>> /\ tcp' = SendFrame(tcp, Frame("pong", "loop"))
      /\ ep' = [ep EXCEPT !.frags = Consume(ep.frags, batch[1]).frags]
  BY AtBatch DEF HandlePing, AtFrame, IsEp, EpFields
<1>2. /\ Frame("pong", "loop") \in Word /\ Frame("pong", "loop").by = "loop"
      /\ Frame("pong", "loop").op # "close"
  BY DEF Frame, Word
<1>3. Kept(tcp, tcp')
  BY <1>1, <1>2, AtBatch, SendFrameKeeps
<1>4. SaidInv' /\ tcp'.conn # "down"
  BY <1>1, <1>3, AtBatch, LoopSays
<1>5. CallInv(ep') /\ ep'.shook
  BY <1>1, FragsKeep
<1> QED BY <1>4, <1>5, OpenUp DEF EndpointInv

\* A pong or a fragment.
LEMMA QuietKeeps == ASSUME EndpointInv, HandleQuietFrame PROVE EndpointInv'
<1>1. /\ batch # <<>> /\ UNCHANGED <<tcp, queue, off>>
      /\ ep' = [ep EXCEPT !.frags = Consume(ep.frags, batch[1]).frags]
  BY DEF HandleQuietFrame, AtFrame
<1>2. SaidInv' /\ tcp'.conn # "down"
  BY <1>1, AtBatch DEF SaidInv, WordInv, OffInv, Pending
<1>3. CallInv(ep') /\ ep'.shook
  BY <1>1, FragsKeep
<1> QED BY <1>2, <1>3, OpenUp DEF EndpointInv

\* The peer's close is answered, unless a close frame has gone out, and reported.
LEMMA PeerCloseKeeps == ASSUME EndpointInv, HandleClose PROVE EndpointInv'
<1>1. /\ batch # <<>> /\ UNCHANGED <<queue, off>> /\ tcp' = Close(tcp)
      /\ ep' = NotifyClose(ep, batch[1][2].code)
  BY DEF HandleClose, AtFrame
<1>2. SaidInv' /\ tcp'.conn # "down"
  BY <1>1, AtBatch, CloseKeeps, LoopSays
<1>3. CallInv(ep') /\ ep'.shook
  BY <1>1, AtBatch, NotifyKeeps
<1> QED BY <1>2, <1>3, OpenUp DEF EndpointInv

\* A close frame of one byte is an error.
LEMMA BadCloseKeeps == ASSUME EndpointInv, HandleBadClose PROVE EndpointInv'
<1>1. batch # <<>> /\ UNCHANGED <<queue, off>>
  BY DEF HandleBadClose, AtFrame
<1>2. PICK r \in Reactions : CloseForError(ep, 1002, r)
  BY DEF HandleBadClose
<1> QED BY <1>1, <1>2, AtBatch, ErrorStep

\* A message is delivered, or is unreadable, which is an error.
LEMMA MessageKeeps == ASSUME EndpointInv, HandleMessage PROVE EndpointInv'
<1>1. batch # <<>> /\ UNCHANGED <<queue, off>>
  BY DEF HandleMessage, AtFrame
<1> DEFINE e == [ep EXCEPT !.frags = Consume(ep.frags, batch[1]).frags]
<1>2. CallInv(e) /\ e.shook
  BY <1>1, FragsKeep
<1>3. PICK r \in Reactions :
        \/ \E code : CloseForError(e, code, r)
        \/ tcp' = React(tcp, r) /\ \E arg : ep' = Call(e, "message", arg)
  BY DEF HandleMessage
<1> HIDE DEF e
<1>4. ASSUME NEW code, CloseForError(e, code, r)
      PROVE  EndpointInv'
  BY <1>1, <1>2, <1>4, AtBatch, ErrorStep
<1>5. ASSUME NEW arg, tcp' = React(tcp, r), ep' = Call(e, "message", arg)
      PROVE  EndpointInv'
  <2>1. r \in {"nothing", "text", "close", "stop"}
    BY DEF Reactions
  <2>2. SaidInv' /\ tcp'.conn # "down"
    BY <1>1, <1>5, <2>1, AtBatch, ReactKeeps, LoopSays
  <2>3. OneMore(e, ep', "message")
    BY <1>2, <1>5, CallShape DEF CallInv, CallBase
  <2>4. CallInv(ep') /\ ep'.shook
    BY <1>2, <2>3 DEF OneMore, CallInv, CallBase
  <2> QED BY <2>2, <2>4, OpenUp DEF EndpointInv
<1> QED BY <1>3, <1>4, <1>5

\* A frame of the second thread reaches the socket.
LEMMA RunSendKeeps == ASSUME EndpointInv, RunSend PROVE EndpointInv'
<1>1. PICK op \in {"data", "close"} : Functor(op) /\ tcp' = Write(tcp, Frame(op, "off"))
  BY DEF RunSend
<1>2. /\ queue # <<>> /\ queue[1] = op /\ queue' = Tail(queue) /\ UNCHANGED <<ep, batch, off>> /\ Idle
      /\ IsTcp(tcp) /\ WordInv(tcp) /\ OffInv(tcp) /\ SaidInv /\ tcp.out \in Seq(Word)
      /\ queue \in Seq(Posts) /\ CallInv(ep) /\ DownInv
  BY <1>1 DEF RunSend, Functor, EndpointInv, SaidInv, IsTcp, OffInv
<1> DEFINE f == Frame(op, "off")
<1>3. f \in Word /\ f.op = op /\ f.by = "off"
  BY DEF Frame, Word
<1>4. f # LoopClose /\ (op = "close" => f = OffClose) /\ (op # "close" => f # OffClose)
  BY DEF LoopClose, OffClose, Frame
<1>5. tcp' = Write(tcp, f)
  BY <1>1
<1> HIDE DEF f
<1>6. /\ IsTcp(tcp') /\ tcp'.conn = tcp.conn /\ tcp'.closeSent = tcp.closeSent
      /\ tcp'.out = tcp.out \/ tcp'.out = Append(tcp.out, f)
  BY <1>2, <1>3, <1>5, WriteShape
<1>7. /\ 1 \in 1..Len(queue) /\ Len(queue) \in Nat
      /\ queue' \in Seq(Posts) /\ Len(queue') = Len(queue) - 1
      /\ \A i \in 1..Len(queue) - 1 : queue'[i] = queue[i + 1] /\ i + 1 \in 1..Len(queue) /\ i + 1 > 1
      /\ \A y : Has(queue', y) => Has(queue, y)
      /\ \A y : Has(queue, y) /\ y # queue[1] => Has(queue', y)
  <2> HIDE DEF Posts
  <2> QED BY <1>2, TailFacts
<1>8. Has(queue, op)
  BY <1>2, <1>7 DEF Has
<1>9. SaidInv'
  <2>1. CASE tcp'.out = tcp.out
    BY <1>2, <1>6, <2>1, TailSays
  <2>2. CASE tcp'.out = Append(tcp.out, f)
    <3>1. \A y : Has(tcp'.out, y) <=> Has(tcp.out, y) \/ y = f
      <4> HIDE DEF Word
      <4> QED BY <1>2, <1>3, <2>2, AppendFacts
    <3>2. ~Has(tcp.out, OffClose) /\ (op = "close" => ~Has(tcp.out, LoopClose) /\ tcp.closeSent = TRUE)
      BY <1>2, <1>8 DEF WordInv, OffInv, Pending
    <3>3. ASSUME NEW i \in 1..Len(tcp.out), tcp.out[i].op = "close"
          PROVE  f.op # "close" /\ f.by # tcp.out[i].by
      <4>1. Has(tcp.out, Frame("close", tcp.out[i].by)) /\ tcp.out[i].by \in {"loop", "off"}
        BY <1>2, <3>3, CloseWords
      <4> QED BY <1>3, <3>2, <4>1 DEF LoopClose, OffClose
    <3>4. LastWord(tcp'.out)
      <4> HIDE DEF Word
      <4> QED BY <1>2, <1>3, <2>2, <3>3, WordAppended DEF WordInv
    <3>5. WordInv(tcp)'
      BY <1>2, <1>4, <1>6, <1>7, <3>1, <3>2, <3>4 DEF WordInv, Pending
    <3>6. ASSUME op = "close", NEW y \in {"data", "close"}
          PROVE  ~Has(queue', y)
      BY <1>2, <1>7, <3>6 DEF OffInv, Has
    <3>7. ASSUME NEW i \in 1..Len(queue'), NEW j \in 1..Len(queue'),
                 queue'[i] = "close", queue'[j] \in {"data", "close"}
          PROVE  j <= i
      <4>1. j + 1 <= i + 1
        BY <1>2, <1>7, <3>7 DEF OffInv
      <4> QED BY <4>1
    <3>8. OffInv(tcp)'
      <4>1. Has(tcp'.out, OffClose) => /\ off' \in {"shut", "done"} /\ op = "close"
        BY <1>2, <1>4, <1>8, <3>1, <3>2 DEF OffInv
      <4>2. Has(tcp'.out, OffClose) => ~Has(queue', "data") /\ ~Has(queue', "close")
        BY <3>6, <4>1
      <4> QED BY <1>2, <1>7, <3>7, <4>1, <4>2 DEF OffInv
    <3> QED BY <1>6, <3>5, <3>8 DEF SaidInv
  <2> QED BY <1>6, <2>1, <2>2
<1>10. DownInv'
  BY <1>2, <1>6, <1>7, DownSame
<1> QED BY <1>2, <1>9, <1>10 DEF EndpointInv

\* A shutdown that was queued.
LEMMA RunShutdownKeeps == ASSUME EndpointInv, RunShutdown PROVE EndpointInv'
<1>1. /\ queue # <<>> /\ queue[1] = "shutdown" /\ queue' = Tail(queue) /\ UNCHANGED <<ep, batch, off>>
      /\ IsTcp(tcp) /\ SaidInv /\ queue \in Seq(Posts) /\ CallInv(ep) /\ DownInv
      /\ tcp' = ShutdownInLoop(tcp)
  BY DEF RunShutdown, Functor, EndpointInv, SaidInv, OffInv
<1>2. IsTcp(tcp') /\ tcp'.conn = tcp.conn /\ tcp'.out = tcp.out /\ tcp'.closeSent = tcp.closeSent
  BY <1>1, ShutdownShape
<1>3. SaidInv'
  BY <1>1, <1>2, TailSays
<1>4. Has(queue, "force") => Has(queue', "force")
  <2>1. "force" # queue[1]
    BY <1>1
  <2> HIDE DEF Posts
  <2> QED BY <1>1, <2>1, TailFacts
<1>5. DownInv'
  BY <1>1, <1>2, <1>4, DownSame
<1> QED BY <1>1, <1>3, <1>5 DEF EndpointInv

\* The connection goes down: its close is reported, if it was open.
LEMMA GoneCalls ==
  ASSUME EndpointInv, Idle, Gone
  PROVE  CallInv(ep') /\ DownInv'
<1>1. /\ CallInv(ep) /\ CallBase(ep) /\ batch' = batch /\ IsTcp(tcp)
      /\ tcp' = [tcp EXCEPT !.conn = "down"] /\ batch = <<>> /\ ~ep.parsing
  BY DEF Gone, EndpointInv, CallInv, SaidInv, Idle
<1>2. tcp'.conn = "down"
  BY <1>1 DEF IsTcp, TcpFields
<1>3. CASE ep.shook
  <2>1. PICK code : ep' = NotifyClose(ep, code)
    BY <1>3 DEF Gone
  <2>2. CallInv(ep') /\ ep'.shook /\ ep'.notified /\ ep'.parsing = ep.parsing
    BY <1>1, <1>3, <2>1, NotifyKeeps
  <2> QED BY <1>1, <1>2, <2>2 DEF DownInv, Idle
<1>4. CASE ~ep.shook
  <2>1. ep' = ep
    BY <1>4 DEF Gone
  <2> QED BY <1>1, <1>2, <1>4, <2>1 DEF DownInv, Idle
<1> QED BY <1>3, <1>4

\* force_close, and a peer that is gone.
LEMMA GoneKeeps == ASSUME EndpointInv, RunForceClose \/ PeerGone PROVE EndpointInv'
<1>1. /\ Idle /\ Gone /\ tcp' = [tcp EXCEPT !.conn = "down"] /\ off' = off /\ SaidInv /\ IsTcp(tcp)
      /\ queue' = queue \/ (queue # <<>> /\ queue' = Tail(queue))
  BY DEF RunForceClose, PeerGone, Functor, Gone, EndpointInv, SaidInv
<1>2. IsTcp(tcp') /\ tcp'.conn = "down" /\ tcp'.out = tcp.out /\ tcp'.closeSent = tcp.closeSent
  BY <1>1 DEF IsTcp, TcpFields
<1>3. SaidInv'
  <2>1. CASE queue' = queue
    BY <1>1, <1>2, <2>1 DEF SaidInv, WordInv, OffInv, Pending
  <2>2. CASE queue # <<>> /\ queue' = Tail(queue)
    BY <1>1, <1>2, <2>2, TailSays
  <2> QED BY <1>1, <2>1, <2>2
<1> QED BY <1>1, <1>3, GoneCalls DEF EndpointInv

\* The socket fills and empties.
LEMMA PeerReadingKeeps == ASSUME EndpointInv, PeerStalls \/ PeerReads PROVE EndpointInv'
<1>1. UNCHANGED <<ep, batch, queue, off>> /\ SaidInv /\ IsTcp(tcp) /\ CallInv(ep) /\ DownInv
  BY DEF PeerStalls, PeerReads, EndpointInv, SaidInv
<1>2. IsTcp(tcp') /\ tcp'.conn = tcp.conn /\ tcp'.out = tcp.out /\ tcp'.closeSent = tcp.closeSent
  <2>1. CASE PeerStalls
    BY <1>1, <2>1 DEF PeerStalls, IsTcp, TcpFields
  <2>2. CASE PeerReads
    <3> DEFINE c == [tcp EXCEPT !.full = FALSE, !.waiting = FALSE]
    <3>1. tcp' = c \/ tcp' = ShutdownInLoop(c)
      BY <2>2 DEF PeerReads
    <3>2. IsTcp(c) /\ c.conn = tcp.conn /\ c.out = tcp.out /\ c.closeSent = tcp.closeSent
      BY <1>1 DEF IsTcp, TcpFields
    <3> HIDE DEF c
    <3> QED BY <3>1, <3>2, ShutdownShape
  <2> QED BY <2>1, <2>2
<1>3. SaidInv'
  BY <1>1, <1>2 DEF SaidInv, WordInv, OffInv, Pending
<1>4. DownInv'
  BY <1>1, <1>2, DownSame
<1> QED BY <1>1, <1>3, <1>4 DEF EndpointInv

\* A ping of the timer.
LEMMA TimerKeeps == ASSUME EndpointInv, PingTimer PROVE EndpointInv'
<1>1. /\ UNCHANGED <<ep, batch, queue, off>> /\ SaidInv /\ CallInv(ep) /\ DownInv
      /\ IsTcp(tcp) /\ WordInv(tcp) /\ OffInv(tcp)
      /\ tcp' = SendFrame(tcp, Frame("ping", "loop")) \/ tcp' = tcp
  BY DEF PingTimer, EndpointInv, SaidInv
<1>2. /\ Frame("ping", "loop") \in Word /\ Frame("ping", "loop").by = "loop"
      /\ Frame("ping", "loop").op # "close"
  BY DEF Frame, Word
<1>3. Kept(tcp, tcp')
  <2>1. Kept(tcp, tcp)
    BY <1>1 DEF Kept
  <2> QED BY <1>1, <1>2, <2>1, SendFrameKeeps
<1>4. SaidInv' /\ (tcp'.conn = "down" <=> tcp.conn = "down")
  BY <1>1, <1>3, LoopSays
<1>5. DownInv'
  BY <1>1, <1>4, DownSame
<1> QED BY <1>1, <1>4, <1>5 DEF EndpointInv

\* The second thread's steps: each of them finds the frames before it in order.
LEMMA OffKeeps == ASSUME EndpointInv, OffStep PROVE EndpointInv'
<1>1. UNCHANGED <<ep, batch>> /\ SaidInv /\ IsTcp(tcp) /\ CallInv(ep) /\ DownInv
      /\ queue \in Seq(Posts)
  BY DEF OffStep, OffSend, OffCloseBegin, OffCloseFrame, OffShutdown, Off, EndpointInv, SaidInv, OffInv
<1>2. ASSUME SaidInv', tcp'.conn = "down" <=> tcp.conn = "down",
             \A y : Has(queue, y) => Has(queue', y)
      PROVE  EndpointInv'
  BY <1>1, <1>2, DownSame DEF EndpointInv
<1>3. \A x \in Posts : \A y : Has(Append(queue, x), y) <=> Has(queue, y) \/ y = x
  <2> HIDE DEF Posts
  <2> QED BY <1>1, AppendFacts
<1>4. CASE OffSend
  <2>1. CASE Off("idle", IF Connected THEN "queue" ELSE "sent") /\ UNCHANGED <<tcp, queue>>
    BY <1>1, <1>2, <2>1 DEF Off, SaidInv, WordInv, OffInv, Pending
  <2>2. CASE Off("queue", "sent") /\ queue' = Append(queue, "data") /\ UNCHANGED tcp
    <3>1. SaidInv'
      BY <1>1, <2>2, PostSays DEF Off
    <3> QED BY <1>2, <1>3, <2>2, <3>1 DEF Posts
  <2> QED BY <1>4, <2>1, <2>2 DEF OffSend
<1>5. CASE OffCloseBegin
  <2>1. /\ off = "sent" /\ queue' = queue /\ tcp' = [tcp EXCEPT !.closeSent = TRUE]
        /\ off' \in {"done", "frame", "shut"} /\ (off' = "frame" => ~tcp.closeSent)
    BY <1>5 DEF OffCloseBegin, Off
  <2>2. IsTcp(tcp') /\ tcp'.conn = tcp.conn /\ tcp'.out = tcp.out /\ tcp'.closeSent = TRUE
    BY <1>1, <2>1 DEF IsTcp, TcpFields
  <2>3. SaidInv'
    BY <1>1, <2>1, <2>2 DEF SaidInv, WordInv, OffInv, Pending
  <2> QED BY <1>2, <2>1, <2>2, <2>3
<1>6. CASE OffCloseFrame
  <2>1. off = "frame" /\ off' = "shut" /\ queue' = Append(queue, "close") /\ tcp' = tcp
    BY <1>6 DEF OffCloseFrame, Off
  <2>2. /\ queue' \in Seq(Posts) /\ Len(queue') = Len(queue) + 1 /\ Len(queue) \in Nat
        /\ \A i \in 1..Len(queue) : queue'[i] = queue[i]
        /\ \A i \in 1..Len(queue) + 1 : i \in 1..Len(queue) \/ i = Len(queue) + 1
    <3>1. "close" \in Posts
      BY DEF Posts
    <3> HIDE DEF Posts
    <3> QED BY <1>1, <2>1, <3>1, AppendFacts
  <2>3. \A y : Has(queue', y) <=> Has(queue, y) \/ y = "close"
    BY <1>3, <2>1 DEF Posts
  <2>4. ~Has(queue, "close") /\ ~Has(tcp.out, OffClose)
    BY <1>1, <2>1 DEF SaidInv, OffInv
  <2>5. ASSUME NEW i \in 1..Len(queue'), NEW j \in 1..Len(queue'), queue'[i] = "close"
        PROVE  j <= i
    <3>1. i = Len(queue) + 1
      BY <2>2, <2>4, <2>5 DEF Has
    <3> QED BY <2>2, <3>1
  <2>6. SaidInv'
    BY <1>1, <2>1, <2>2, <2>3, <2>4, <2>5 DEF SaidInv, WordInv, OffInv, Pending
  <2> QED BY <1>2, <2>1, <2>3, <2>6
<1>7. CASE OffShutdown
  <2>1. off = "shut" /\ off' = "done"
    BY <1>7 DEF OffShutdown, Off
  <2>2. CASE Connected
    <3>1. tcp' = [tcp EXCEPT !.conn = "closing"] /\ queue' = Append(queue, "shutdown") /\ tcp.conn = "up"
      BY <1>7, <2>2 DEF OffShutdown, Connected
    <3>2. IsTcp(tcp') /\ tcp'.conn = "closing" /\ tcp'.out = tcp.out /\ tcp'.closeSent = tcp.closeSent
      BY <1>1, <3>1 DEF IsTcp, TcpFields
    <3>3. SaidInv'
      BY <1>1, <2>1, <3>1, <3>2, PostSays
    <3> QED BY <1>2, <1>3, <3>1, <3>2, <3>3 DEF Posts
  <2>3. CASE ~Connected
    <3>1. UNCHANGED <<tcp, queue>>
      BY <1>7, <2>3 DEF OffShutdown
    <3>2. SaidInv'
      BY <1>1, <2>1, <3>1 DEF SaidInv, WordInv, OffInv, Pending
    <3> QED BY <1>2, <3>1, <3>2
  <2> QED BY <2>2, <2>3
<1> QED BY <1>4, <1>5, <1>6, <1>7 DEF OffStep

\* Every step, and the steps that change nothing here.
LEMMA StepKeeps == ASSUME EndpointInv, [Next]_vars PROVE EndpointInv'
<1>1. CASE OpenStep
  BY <1>1, UpgradeKeeps, RefusedKeeps, PlainKeeps, IgnoreKeeps DEF OpenStep
<1>2. CASE FrameStep
  BY <1>2, BadFrameKeeps, PingKeeps, QuietKeeps, PeerCloseKeeps, BadCloseKeeps, MessageKeeps
     DEF FrameStep
<1>3. CASE FunctorStep
  BY <1>3, RunSendKeeps, RunShutdownKeeps, GoneKeeps DEF FunctorStep
<1>4. CASE UNCHANGED vars
  BY <1>4 DEF vars, EndpointInv, SaidInv, WordInv, OffInv, Pending, DownInv, Idle
<1> QED BY <1>1, <1>2, <1>3, <1>4, ReadKeeps, ParseKeeps, GoneKeeps, PeerReadingKeeps, TimerKeeps, OffKeeps
        DEF Next

-----------------------------------------------------------------------------
(* The theorems.                                                           *)

\* A set of natural numbers without two different members has at most one.
LEMMA AtMostOne ==
  ASSUME NEW n \in Nat, NEW S, S \subseteq 1..n, \A i, j \in S : i = j
  PROVE  IsFiniteSet(S) /\ Cardinality(S) <= 1
<1>1. CASE S = {}
  BY <1>1, FS_EmptySet
<1>2. CASE S # {}
  <2>1. PICK i \in S : TRUE
    BY <1>2
  <2>2. S = {i}
    BY <2>1
  <2> QED BY <2>2, FS_Singleton
<1> QED BY <1>1, <1>2

\* WebSocketChannel::close and send_frame on two threads: whoever wins the exchange on
\* close_sent_ writes the only close frame, and then nothing.
THEOREM ClosingIsFinal == Spec => []CloseIsLastWord
<1>1. ASSUME EndpointInv PROVE CloseIsLastWord
  <2> DEFINE closes == {i \in 1..Len(tcp.out) : tcp.out[i].op = "close"}
  <2>1. tcp.out \in Seq(Word) /\ LastWord(tcp.out) /\ Len(tcp.out) \in Nat
    BY <1>1 DEF EndpointInv, SaidInv, IsTcp, WordInv
  <2>2. \A i, j \in closes : i = j
    BY <2>1 DEF LastWord
  <2>3. Cardinality(closes) <= 1
    <3>1. closes \subseteq 1..Len(tcp.out)
      OBVIOUS
    <3> HIDE DEF closes
    <3> QED BY <2>1, <2>2, <3>1, AtMostOne
  <2>4. \A i \in closes : \A j \in (i + 1)..Len(tcp.out) : tcp.out[j].by # tcp.out[i].by
    BY <2>1 DEF LastWord
  <2> QED BY <2>3, <2>4 DEF CloseIsLastWord
<1> QED BY <1>1, InitWhole, StepKeeps, PTL DEF Spec

\* on_websocket_open, on_websocket_close and on_websocket_error: open first and once, one
\* close, reported whenever the connection is down and after every error.
LEMMA OnceNow == ASSUME EndpointInv PROVE CallbacksOnce
<1>1. CallInv(ep) /\ CallBase(ep) /\ Len(ep.calls) \in Nat
  BY DEF EndpointInv, CallInv, CallBase, IsEp
<1>2. ASSUME NEW name, Once(ep, name)
      PROVE  Cardinality(Calls(name)) <= 1
  <2>1. Calls(name) \subseteq 1..Len(ep.calls) /\ \A i, j \in Calls(name) : i = j
    BY <1>2 DEF Calls, Once
  <2> QED BY <1>1, <2>1, AtMostOne
<1>3. \A name : Calls(name) # {} <=> Called(ep, name)
  BY DEF Calls, Called
<1>4. ASSUME ep.shook, NEW i \in 1..Len(ep.calls)
      PROVE  \E j \in Calls("open") : j <= i
  <2>1. 1 \in Calls("open") /\ 1 <= i
    BY <1>1, <1>4 DEF CallBase, Calls
  <2> QED BY <2>1
<1>5. ep.shook /\ tcp.conn = "down" => Calls("close") # {} /\ ~ep.timer
  BY <1>1, <1>3 DEF EndpointInv, DownInv, CallBase
<1>6. ep.shook /\ Calls("error") # {} => Calls("close") # {}
  BY <1>1, <1>3 DEF CallInv, CallBase
<1> QED BY <1>1, <1>2, <1>4, <1>5, <1>6 DEF CallbacksOnce, CallBase

-----------------------------------------------------------------------------
(* The messages of what was read.                                          *)

Item == Openings \cup FrameHeaders

\* Only a data or a continuation frame changes which message is the last, and of what parts.
LEMMA MessageNext ==
  ASSUME NEW h, NEW n \in Nat
  PROVE  /\ h[n + 1].op = "data" => Starts(h, n + 1) # {} /\ MessageAt(h, n + 1) = {n + 1}
         /\ h[n + 1].op = "cont" =>
              /\ Starts(h, n + 1) = {} <=> Starts(h, n) = {}
              /\ Starts(h, n) # {} => MessageAt(h, n + 1) = MessageAt(h, n) \cup {n + 1}
         /\ ~IsData(h[n + 1]) => MessageAt(h, n + 1) = MessageAt(h, n)
         /\ MessageAt(h, n) # {} => Starts(h, n) # {}
         /\ MessageAt(h, n) \in SUBSET (1..n) /\ n + 1 \notin MessageAt(h, n)
<1>1. /\ \A i \in 1..n + 1 : i \in 1..n \/ i = n + 1
      /\ \A i \in 1..n : i \in 1..n + 1 /\ i <= n + 1 /\ n + 1 \in i + 1..n + 1 /\ ~(n + 1 <= i) /\ i # n + 1
      /\ n + 1 \in 1..n + 1 /\ n + 1 <= n + 1 /\ (n + 1) + 1..n + 1 = {}
      /\ \A i \in 1..n : \A k \in i + 1..n + 1 : k \in i + 1..n \/ k = n + 1
      /\ \A i \in 1..n : \A k \in i + 1..n : k \in i + 1..n + 1
  OBVIOUS
<1>2. ASSUME h[n + 1].op # "data" PROVE Starts(h, n + 1) = Starts(h, n)
  <2>1. ASSUME NEW i PROVE i \in Starts(h, n + 1) <=> i \in Starts(h, n)
    BY <1>1, <1>2 DEF Starts
  <2> QED BY <2>1
<1>3. ASSUME h[n + 1].op = "data" PROVE Starts(h, n + 1) = {n + 1}
  <2>1. ASSUME NEW i PROVE i \in Starts(h, n + 1) <=> i = n + 1
    BY <1>1, <1>3 DEF Starts
  <2> QED BY <2>1
<1>4. ASSUME h[n + 1].op = "data" PROVE MessageAt(h, n + 1) = {n + 1}
  <2>1. IsData(h[n + 1])
    BY <1>4 DEF IsData
  <2>2. ASSUME NEW k PROVE k \in MessageAt(h, n + 1) <=> k = n + 1
    BY <1>1, <1>3, <1>4, <2>1 DEF MessageAt
  <2> QED BY <2>2
<1>5. ASSUME h[n + 1].op = "cont", Starts(h, n) # {} PROVE MessageAt(h, n + 1) = MessageAt(h, n) \cup {n + 1}
  <2>1. IsData(h[n + 1]) /\ Starts(h, n + 1) = Starts(h, n)
    BY <1>2, <1>5 DEF IsData
  <2>2. \E i \in Starts(h, n) : i <= n + 1
    BY <1>1, <1>5 DEF Starts
  <2>3. ASSUME NEW k PROVE k \in MessageAt(h, n + 1) <=> k \in MessageAt(h, n) \/ k = n + 1
    BY <1>1, <2>1, <2>2 DEF MessageAt
  <2> QED BY <2>3
<1>6. ASSUME ~IsData(h[n + 1]) PROVE MessageAt(h, n + 1) = MessageAt(h, n)
  <2>1. Starts(h, n + 1) = Starts(h, n)
    BY <1>2, <1>6 DEF IsData
  <2>2. ASSUME NEW k PROVE k \in MessageAt(h, n + 1) <=> k \in MessageAt(h, n)
    BY <1>1, <1>6, <2>1 DEF MessageAt
  <2> QED BY <2>2
<1>7. MessageAt(h, n) # {} => Starts(h, n) # {}
  BY DEF MessageAt
<1>8. MessageAt(h, n) \in SUBSET (1..n) /\ n + 1 \notin MessageAt(h, n)
  BY <1>1 DEF MessageAt
<1> QED BY <1>2, <1>3, <1>4, <1>5, <1>6, <1>7, <1>8

\* The data or continuation frame before the next item.
LEMMA PriorNext ==
  ASSUME NEW h, NEW n \in Nat
  PROVE  /\ IsData(h[n + 1]) => Prior(h, n + 2) = {n + 1}
         /\ ~IsData(h[n + 1]) => Prior(h, n + 2) = Prior(h, n + 1)
<1>1. /\ n + 2 - 1 = n + 1 /\ n + 1 - 1 = n
      /\ \A i \in 1..n + 1 : i \in 1..n \/ i = n + 1
      /\ \A i \in 1..n : i \in 1..n + 1 /\ n + 1 \in i + 1..n + 1
      /\ n + 1 \in 1..n + 1 /\ (n + 1) + 1..n + 1 = {}
      /\ \A i \in 1..n : \A k \in i + 1..n + 1 : k \in i + 1..n \/ k = n + 1
      /\ \A i \in 1..n : \A k \in i + 1..n : k \in i + 1..n + 1
  OBVIOUS
<1>2. ASSUME IsData(h[n + 1]) PROVE Prior(h, n + 2) = {n + 1}
  <2>1. ASSUME NEW j PROVE j \in Prior(h, n + 2) <=> j = n + 1
    BY <1>1, <1>2 DEF Prior
  <2> QED BY <2>1
<1>3. ASSUME ~IsData(h[n + 1]) PROVE Prior(h, n + 2) = Prior(h, n + 1)
  <2>1. ASSUME NEW j PROVE j \in Prior(h, n + 2) <=> j \in Prior(h, n + 1)
    BY <1>1, <1>3 DEF Prior
  <2> QED BY <2>1
<1> QED BY <1>2, <1>3

\* The messages that have ended.
EndsTo(h, n) == {j \in Ends(h) : j <= n}

\* A last frame of a message ends one message more.
LEMMA EndsNext ==
  ASSUME NEW h, NEW n \in Nat, n + 1 <= Len(h), Len(h) \in Nat
  PROVE  /\ IsData(h[n + 1]) /\ h[n + 1].fin /\ Starts(h, n + 1) # {} =>
              Cardinality(EndsTo(h, n + 1)) = Cardinality(EndsTo(h, n)) + 1
         /\ ~(IsData(h[n + 1]) /\ h[n + 1].fin) => EndsTo(h, n + 1) = EndsTo(h, n)
         /\ IsFiniteSet(EndsTo(h, n)) /\ Cardinality(EndsTo(h, n)) \in Nat
<1>1. IsFiniteSet(EndsTo(h, n))
  <2>1. EndsTo(h, n) \in SUBSET (1..Len(h)) /\ IsFiniteSet(1..Len(h))
    BY FS_Interval DEF EndsTo, Ends
  <2> QED BY <2>1, FS_Subset
<1>2. n + 1 \notin EndsTo(h, n)
  BY DEF EndsTo, Ends
<1>3. ASSUME IsData(h[n + 1]), h[n + 1].fin, Starts(h, n + 1) # {}
      PROVE  EndsTo(h, n + 1) = EndsTo(h, n) \cup {n + 1}
  BY <1>3 DEF EndsTo, Ends
<1>4. ASSUME ~(IsData(h[n + 1]) /\ h[n + 1].fin) PROVE EndsTo(h, n + 1) = EndsTo(h, n)
  <2>1. ASSUME NEW j PROVE j \in EndsTo(h, n + 1) <=> j \in EndsTo(h, n)
    BY <1>4 DEF EndsTo, Ends
  <2> QED BY <2>1
<1>5. Cardinality(EndsTo(h, n) \cup {n + 1}) = Cardinality(EndsTo(h, n)) + 1 /\ Cardinality(EndsTo(h, n)) \in Nat
  BY <1>1, <1>2, FS_AddElement, FS_CardinalityType
<1> QED BY <1>1, <1>3, <1>4, <1>5

\* The bytes of a message's frames.
SumAt(h, S) == SumFunctionOnSet([k \in S |-> h[k].size], S)

\* A frame's bytes are added to those of the message so far.
LEMMA SumNext ==
  ASSUME NEW h, NEW S, IsFiniteSet(S), NEW k, k \notin S, \A x \in S \cup {k} : h[x].size \in Nat
  PROVE  /\ SumAt(h, S) \in Nat /\ SumAt(h, S \cup {k}) = SumAt(h, S) + h[k].size
         /\ SumAt(h, {k}) = h[k].size
<1> DEFINE f(T) == [x \in T |-> h[x].size]
<1>1. ASSUME NEW T, IsFiniteSet(T), T \subseteq S, NEW U, U = T \cup {k}
      PROVE  SumAt(h, T) \in Nat /\ SumAt(h, U) = h[k].size + SumAt(h, T)
  <2>1. IsFiniteSet(U) /\ k \in U /\ U \ {k} = T /\ \A x \in U : f(U)[x] \in Nat
    BY <1>1, FS_AddElement
  <2>2. SumFunctionOnSet(f(U), U) = f(U)[k] + SumFunctionOnSet(f(U), U \ {k})
    BY <2>1, SumWithout
  <2>3. SumFunctionOnSet(f(U), T) = SumFunctionOnSet(f(T), T)
    <3>1. \A x \in T : f(U)[x] = f(T)[x]
      BY <1>1
    <3> HIDE DEF f
    <3> QED BY <1>1, <3>1, SumSame
  <2>4. SumFunctionOnSet(f(T), T) \in Nat
    <3>1. \A x \in T : f(T)[x] \in Nat
      BY <1>1
    <3> HIDE DEF f
    <3> QED BY <1>1, <3>1, SumType
  <2> QED BY <2>1, <2>2, <2>3, <2>4 DEF SumAt
<1>2. SumAt(h, S) \in Nat /\ SumAt(h, S \cup {k}) = h[k].size + SumAt(h, S) /\ h[k].size \in Nat
  BY <1>1
<1>3. SumAt(h, {k}) = h[k].size + SumAt(h, {})
  BY <1>1, FS_EmptySet
<1>4. SumAt(h, {}) = 0
  BY FS_EmptySet, SumType DEF SumAt
<1> QED BY <1>2, <1>3, <1>4

-----------------------------------------------------------------------------
(* The assembler's fragments.                                              *)

Part == Nat \X FrameHeaders

\* consume counts a fragment's bytes once.
LEMMA SizeOfAppend ==
  ASSUME NEW q \in Seq(Part), NEW p \in Part
  PROVE  SizeOf(Append(q, p)) = SizeOf(q) + p[2].size /\ SizeOf(q) \in Nat /\ SizeOf(<<>>) = 0
<1> DEFINE n == Len(q)
           w == Append(q, p)
           f == [i \in DOMAIN q |-> q[i][2].size]
           g == [i \in DOMAIN w |-> w[i][2].size]
<1>1. /\ n \in Nat /\ w \in Seq(Part) /\ Len(w) = n + 1 /\ w[n + 1] = p
      /\ \A i \in 1..n : w[i] = q[i]
  BY AppendProperties, LenProperties
<1>2. DOMAIN q = 1..n /\ DOMAIN w = 1..n + 1 /\ IsFiniteSet(1..n) /\ IsFiniteSet(1..n + 1)
  <2>1. n + 1 \in Int /\ n \in Int /\ 1 \in Int
    BY <1>1
  <2> HIDE DEF w
  <2> QED BY <1>1, <2>1, LenProperties, FS_Interval
<1> HIDE DEF w
<1>3. /\ \A i \in 1..n : f[i] = g[i] /\ f[i] \in Nat
      /\ \A i \in 1..n + 1 : g[i] \in Nat
      /\ g[n + 1] = p[2].size /\ n + 1 \in 1..n + 1
  <2>1. \A i \in 1..n + 1 : w[i] \in Part
    BY <1>1, ElementOfSeq
  <2>2. \A i \in 1..n + 1 : w[i][2].size \in Nat
    BY <2>1 DEF Part, FrameHeaders
  <2>3. \A i \in 1..n : i \in 1..n + 1
    BY <1>1
  <2> QED BY <1>1, <1>2, <2>2, <2>3
<1>4. SizeOf(q) = SumFunctionOnSet(f, 1..n) /\ SizeOf(w) = SumFunctionOnSet(g, 1..n + 1)
  BY <1>2 DEF SizeOf, SumFunction
<1>5. SizeOf(<<>>) = 0
  <2> DEFINE z == [i \in DOMAIN <<>> |-> <<>>[i][2].size]
  <2>1. DOMAIN <<>> = {} /\ DOMAIN z = {}
    OBVIOUS
  <2>2. SumFunctionOnSet(z, {}) = 0
    BY FS_EmptySet, SumType
  <2>3. SizeOf(<<>>) = SumFunctionOnSet(z, DOMAIN z)
    BY DEF SizeOf, SumFunction
  <2> QED BY <2>1, <2>2, <2>3
<1> HIDE DEF f, g, n
<1>6. (1..n + 1) \ {n + 1} = 1..n
  BY <1>1
<1>7. SumFunctionOnSet(g, 1..n + 1) = g[n + 1] + SumFunctionOnSet(g, 1..n)
  <2> DEFINE U == 1..n + 1
  <2>1. IsFiniteSet(U) /\ (\A i \in U : g[i] \in Nat) /\ n + 1 \in U
    BY <1>2, <1>3
  <2> HIDE DEF U
  <2>2. SumFunctionOnSet(g, U) = g[n + 1] + SumFunctionOnSet(g, U \ {n + 1})
    BY <2>1, SumWithout
  <2> QED BY <1>6, <2>2 DEF U
<1>8. SumFunctionOnSet(f, 1..n) = SumFunctionOnSet(g, 1..n)
  <2>1. \A i \in 1..n : f[i] = g[i]
    BY <1>3
  <2> QED BY <1>2, <2>1, SumSame
<1>9. SumFunctionOnSet(f, 1..n) \in Nat
  BY <1>2, <1>3, SumType
<1>10. p[2].size \in Nat
  BY DEF Part, FrameHeaders
<1> QED BY <1>3, <1>4, <1>5, <1>7, <1>8, <1>9, <1>10 DEF w

Positions(fs) == {fs[k][1] : k \in 1..Len(fs)}
Climbing(fs) == \A k, l \in 1..Len(fs) : k < l => fs[k][1] < fs[l][1]

\* fs are frames that were read, at or before position n, in order.
Taken(h, fs, n) ==
  /\ fs \in Seq(Part) /\ Climbing(fs)
  /\ \A k \in 1..Len(fs) : fs[k][1] \in 1..n /\ fs[k][2] = h[fs[k][1]]

\* fs are the fragments of a message that is open behind position n, all of them; none if
\* the last message has ended.
Held(h, fs, n) ==
  /\ Taken(h, fs, n) /\ \A k \in 1..Len(fs) : ~fs[k][2].fin
  /\ fs # <<>> => Positions(fs) = MessageAt(h, n) /\ SizeOf(fs) = SumAt(h, MessageAt(h, n))
  /\ fs = <<>> => \A j \in Prior(h, n + 1) : h[j].fin

\* While a message is open the frame before is one of its fragments, not the last.
LEMMA HeldPrior ==
  ASSUME NEW h, NEW n \in Nat, NEW fs, Held(h, fs, n), fs # <<>>
  PROVE  MessageAt(h, n) # {} /\ \E j \in Prior(h, n + 1) : ~h[j].fin
<1> DEFINE m == Len(fs)
           j == fs[m][1]
<1>1. fs \in Seq(Part) /\ m \in Nat \ {0} /\ m \in 1..m /\ \A k \in 1..m : k <= m
  <2>1. fs \in Seq(Part)
    BY DEF Held, Taken
  <2>2. m \in Nat /\ m # 0
    BY <2>1, EmptySeq, LenProperties
  <2> HIDE DEF m
  <2> QED BY <2>1, <2>2
<1>2. /\ j \in 1..n /\ ~h[j].fin /\ j \in MessageAt(h, n)
      /\ MessageAt(h, n) = {fs[k][1] : k \in 1..m}
  BY <1>1 DEF Held, Taken, Positions
<1>3. \A k \in 1..m : fs[k][1] <= j
  <2>1. ASSUME NEW k \in 1..m PROVE fs[k][1] <= j
    <3>1. k = m \/ k < m
      BY <1>1
    <3>2. fs[k][1] \in 1..n
      BY DEF Held, Taken
    <3>3. k < m => fs[k][1] < fs[m][1]
      BY <1>1 DEF Held, Taken, Climbing
    <3> QED BY <1>2, <3>1, <3>2, <3>3
  <2> QED BY <2>1
<1>4. PICK i \in Starts(h, n) : i <= j
  BY <1>2 DEF MessageAt
<1>5. i \in 1..n /\ IsData(h[j])
  BY <1>2 DEF Starts, MessageAt
<1> HIDE DEF m, j
<1>6. ASSUME NEW k \in j + 1..n, IsData(h[k]) PROVE FALSE
  <2>1. k \in 1..n /\ i <= k /\ ~(k <= j)
    BY <1>2, <1>4, <1>5, <1>6
  <2>2. k \in MessageAt(h, n)
    BY <1>4, <1>6, <2>1 DEF MessageAt
  <2> QED BY <1>2, <1>3, <2>1, <2>2
<1>7. j \in Prior(h, n + 1)
  <2>1. n + 1 - 1 = n
    OBVIOUS
  <2> QED BY <1>2, <1>5, <1>6, <2>1 DEF Prior
<1> QED BY <1>2, <1>7

\* What is left of a frame's rules when it is at position i of what was read.
LEMMA ProperAt ==
  ASSUME Proper, NEW i \in 1..Len(heard), heard[i] \in FrameHeaders
  PROVE  /\ Lawful(heard[i]) /\ (heard[i].op = "close" => i = Len(heard))
         /\ IsData(heard[i]) => /\ (heard[i].op = "data") <=> \A j \in Prior(heard, i) : heard[j].fin
                         /\ SumAt(heard, MessageAt(heard, i)) <= MaxMessage
<1>1. heard[i].op \notin {"good", "bad", "plain", "plainclose"}
  BY DEF FrameHeaders, Controls
<1> QED BY <1>1 DEF Proper, SumAt

\* One more frame of the open message, or the first of the next.
Grows(h, fs, n, all) ==
  /\ Taken(h, all, n + 1) /\ all # <<>> /\ Positions(all) = MessageAt(h, n + 1)
  /\ SizeOf(all) = SumAt(h, MessageAt(h, n + 1)) /\ Starts(h, n + 1) # {}
  /\ ~h[n + 1].fin => Held(h, all, n + 1)
  /\ h[n + 1].fin => Held(h, <<>>, n + 1)

\* consume with a data or continuation frame that may come now: the message grows by it.
LEMMA FragmentGrows ==
  ASSUME NEW h, NEW n \in Nat, NEW fs, Held(h, fs, n), IsData(h[n + 1]), h[n + 1] \in FrameHeaders,
         (h[n + 1].op = "data") <=> (fs = <<>>)
  PROVE  Grows(h, fs, n, Append(fs, <<n + 1, h[n + 1]>>))
<1> DEFINE f == h[n + 1]
           p == <<n + 1, f>>
           all == Append(fs, p)
           m == Len(fs)
<1>1. p \in Part /\ p[1] = n + 1 /\ p[2] = f /\ fs \in Seq(Part) /\ n + 1 \in Nat
  BY DEF Part, Held, Taken
<1>2. f.size \in Nat /\ f.op \in {"data", "cont"}
  BY DEF FrameHeaders, IsData
<1> HIDE DEF p, f
<1>3. /\ all \in Seq(Part) /\ m \in Nat /\ Len(all) = m + 1 /\ all[m + 1] = p
      /\ \A i \in 1..m : all[i] = fs[i]
  BY <1>1, AppendProperties, LenProperties
<1> HIDE DEF all, m
<1>4. /\ \A k \in 1..m + 1 : k \in 1..m \/ k = m + 1
      /\ \A k \in 1..m : k \in 1..m + 1 /\ k < m + 1 /\ ~(m + 1 < k)
      /\ m + 1 \in 1..m + 1 /\ ~(m + 1 < m + 1)
      /\ n + 1 \in 1..n + 1 /\ \A j \in 1..n : j \in 1..n + 1 /\ j < n + 1
  BY <1>3
<1>5. Taken(h, all, n + 1)
  <2>1. ASSUME NEW k \in 1..m + 1
        PROVE  all[k][1] \in 1..n + 1 /\ all[k][2] = h[all[k][1]]
    <3>1. CASE k \in 1..m
      BY <1>3, <1>4, <3>1 DEF Held, Taken, m
    <3>2. CASE k = m + 1
      BY <1>1, <1>3, <1>4, <3>2 DEF f
    <3> QED BY <1>4, <3>1, <3>2
  <2>2. ASSUME NEW k \in 1..m + 1, NEW l \in 1..m + 1, k < l
        PROVE  all[k][1] < all[l][1]
    <3>1. k \in 1..m
      BY <1>4, <2>2
    <3>2. fs[k][1] \in 1..n /\ all[k] = fs[k]
      BY <1>3, <3>1 DEF Held, Taken, m
    <3>3. CASE l \in 1..m
      BY <1>3, <2>2, <3>1, <3>3 DEF Held, Taken, Climbing, m
    <3>4. CASE l = m + 1
      BY <1>1, <1>3, <1>4, <3>2, <3>4
    <3> QED BY <1>4, <3>3, <3>4
  <2> QED BY <1>3, <2>1, <2>2 DEF Taken, Climbing
<1>6. Positions(all) = Positions(fs) \cup {n + 1}
  <2>1. ASSUME NEW x PROVE x \in Positions(all) <=> x \in Positions(fs) \/ x = n + 1
    <3>1. x \in Positions(all) <=> \E k \in 1..m + 1 : x = all[k][1]
      BY <1>3 DEF Positions
    <3>2. x \in Positions(fs) <=> \E k \in 1..m : x = fs[k][1]
      BY DEF Positions, m
    <3>3. all[m + 1][1] = n + 1 /\ \A k \in 1..m : all[k][1] = fs[k][1]
      BY <1>1, <1>3
    <3> HIDE DEF m
    <3> QED BY <1>4, <3>1, <3>2, <3>3
  <2> QED BY <2>1
<1>7. all # <<>>
  <2>1. Len(all) # 0
    BY <1>3
  <2> QED BY <2>1
<1>8. SizeOf(all) = SizeOf(fs) + f.size /\ SizeOf(fs) \in Nat /\ SizeOf(<<>>) = 0
  BY <1>1, SizeOfAppend DEF all
<1>9. Positions(all) = MessageAt(h, n + 1) /\ SizeOf(all) = SumAt(h, MessageAt(h, n + 1)) /\ Starts(h, n + 1) # {}
  <2>1. CASE fs = <<>>
    <3>1. f.op = "data" /\ Positions(fs) = {}
      <4>1. Len(<<>>) = 0 /\ 1..0 = {}
        OBVIOUS
      <4> QED BY <2>1, <4>1 DEF Positions, f
    <3>2. MessageAt(h, n + 1) = {n + 1} /\ Starts(h, n + 1) # {}
      BY <3>1, MessageNext DEF f
    <3>3. SumAt(h, {n + 1}) = f.size
      <4>1. IsFiniteSet({}) /\ n + 1 \notin {} /\ \A x \in {} \cup {n + 1} : h[x].size \in Nat
        BY <1>2, FS_EmptySet DEF f
      <4> QED BY <4>1, SumNext DEF f
    <3>4. Positions(all) = {n + 1}
      BY <1>6, <3>1
    <3>5. SizeOf(fs) = 0 /\ SizeOf(all) = f.size
      BY <1>2, <1>8, <2>1
    <3> QED BY <3>2, <3>3, <3>4, <3>5
  <2>2. CASE fs # <<>>
    <3>1. f.op = "cont"
      BY <1>2, <2>2 DEF f
    <3>2. MessageAt(h, n) # {} /\ Positions(fs) = MessageAt(h, n) /\ SizeOf(fs) = SumAt(h, MessageAt(h, n))
      BY <2>2, HeldPrior DEF Held
    <3>3. /\ Starts(h, n + 1) # {} /\ MessageAt(h, n + 1) = MessageAt(h, n) \cup {n + 1}
          /\ MessageAt(h, n) \in SUBSET (1..n) /\ n + 1 \notin MessageAt(h, n)
      BY <3>1, <3>2, MessageNext DEF f
    <3>4. \A x \in MessageAt(h, n) \cup {n + 1} : h[x].size \in Nat
      <4>1. ASSUME NEW x \in MessageAt(h, n) PROVE h[x].size \in Nat
        <5>1. PICK k \in 1..m : x = fs[k][1]
          BY <3>2 DEF Positions, m
        <5>2. fs[k] \in Part /\ fs[k][2] = h[x]
          BY <1>1, <5>1, ElementOfSeq DEF Held, Taken, m
        <5> QED BY <5>2 DEF Part, FrameHeaders
      <4> QED BY <1>2, <4>1 DEF f
    <3>5. IsFiniteSet(MessageAt(h, n))
      <4>1. IsFiniteSet(1..n)
        BY FS_Interval
      <4> QED BY <3>3, <4>1, FS_Subset
    <3>6. SumAt(h, MessageAt(h, n) \cup {n + 1}) = SumAt(h, MessageAt(h, n)) + h[n + 1].size
      <4> DEFINE S == MessageAt(h, n)
                 k == n + 1
      <4>1. IsFiniteSet(S) /\ k \notin S /\ \A x \in S \cup {k} : h[x].size \in Nat
        BY <3>3, <3>4, <3>5
      <4> HIDE DEF S, k
      <4>2. SumAt(h, S \cup {k}) = SumAt(h, S) + h[k].size
        BY ONLY <4>1, SumNext
      <4> QED BY <4>2 DEF S, k
    <3> QED BY <1>6, <1>8, <3>2, <3>3, <3>6 DEF f
  <2> QED BY <2>1, <2>2
<1>10. ASSUME ~f.fin PROVE Held(h, all, n + 1)
  <2>1. ASSUME NEW k \in 1..m + 1 PROVE ~all[k][2].fin
    <3>1. CASE k \in 1..m
      BY <1>3, <3>1 DEF Held, m
    <3>2. CASE k = m + 1
      BY <1>1, <1>3, <1>10, <3>2
    <3> QED BY <1>4, <3>1, <3>2
  <2> QED BY <1>3, <1>5, <1>7, <1>9, <2>1 DEF Held
<1>11. ASSUME f.fin PROVE Held(h, <<>>, n + 1)
  <2>1. n + 1 + 1 = n + 2 /\ Prior(h, n + 2) = {n + 1}
    BY PriorNext
  <2>2. <<>> \in Seq(Part) /\ Len(<<>>) = 0 /\ 1..0 = {}
    OBVIOUS
  <2> QED BY <1>11, <2>1, <2>2 DEF Held, Taken, Climbing, f
<1>12. Grows(h, fs, n, all)
  BY <1>5, <1>7, <1>9, <1>10, <1>11 DEF Grows, f
<1> QED BY <1>12 DEF all, p, f

\* A control frame, or any that belongs to no message, leaves the fragments as they are.
LEMMA FragmentsStay ==
  ASSUME NEW h, NEW n \in Nat, NEW fs, Held(h, fs, n), ~IsData(h[n + 1])
  PROVE  Held(h, fs, n + 1)
<1>1. MessageAt(h, n + 1) = MessageAt(h, n)
  BY MessageNext
<1>2. Prior(h, n + 2) = Prior(h, n + 1) /\ n + 1 + 1 = n + 2
  BY PriorNext
<1>3. \A j \in 1..n : j \in 1..n + 1
  OBVIOUS
<1> QED BY <1>1, <1>2, <1>3 DEF Held, Taken

\* What consume makes of the next frame: an error only if the peer broke a rule, and else the
\* message that ends with it, or the fragments so far.
Consumes(n, got, fs) ==
  /\ got.status # 0 => ~Proper
  /\ got.status = 0 => Held(heard, got.frags, n + 1)
  /\ got.status = 0 /\ got.message = <<>> => ~(IsData(heard[n + 1]) /\ heard[n + 1].fin)
  /\ got.status = 0 /\ got.message # <<>> =>
       /\ IsData(heard[n + 1]) /\ heard[n + 1].fin /\ Grows(heard, fs, n, got.message)

\* A frame of a message that is not UTF-8, or does not inflate, is no proper peer's.
LEMMA BadContent ==
  ASSUME Proper, NEW n \in Nat, n + 1 <= Len(heard), Len(heard) \in Nat, NEW all, Taken(heard, all, n + 1),
         Positions(all) = MessageAt(heard, n + 1), NEW i \in 1..Len(all)
  PROVE  /\ all[i][2].content = "ok" /\ (all[i][2].rsv1 => ep.zip)
<1> DEFINE x == all[i][1]
           f == all[i][2]
<1>1. x \in 1..n + 1 /\ f = heard[x] /\ all[i] \in Part
  BY ElementOfSeq DEF Taken
<1>2. x \in 1..Len(heard) /\ heard[x] \in FrameHeaders
  BY <1>1 DEF Part
<1>3. IsData(heard[x])
  BY DEF Positions, MessageAt
<1>4. Lawful(heard[x])
  BY <1>2, ProperAt
<1> QED BY <1>1, <1>3, <1>4 DEF Lawful, IsData

\* WebSocketMessageAssembler::consume, frame by frame.
LEMMA ConsumeIs ==
  ASSUME NEW n \in Nat, n + 1 <= Len(heard), Len(heard) \in Nat, heard[n + 1] \in FrameHeaders,
         heard[n + 1].op # "reserved", NEW fs, Held(heard, fs, n)
  PROVE  Consumes(n, Consume(fs, <<n + 1, heard[n + 1]>>), fs)
<1> DEFINE f == heard[n + 1]
           p == <<n + 1, f>>
           all == Append(fs, p)
           got == Consume(fs, p)
<1>1. n + 1 \in 1..Len(heard) /\ f \in FrameHeaders
  OBVIOUS
<1>2. Proper => /\ Lawful(f)
                /\ IsData(heard[n + 1]) => /\ (f.op = "data") <=> \A j \in Prior(heard, n + 1) : heard[j].fin
                                    /\ SumAt(heard, MessageAt(heard, n + 1)) <= MaxMessage
  BY <1>1, ProperAt
<1>3. p[2] = f
  OBVIOUS
<1>4. ASSUME IsData(heard[n + 1]), (f.op = "data") <=> (fs = <<>>) PROVE Grows(heard, fs, n, all)
  BY <1>4, FragmentGrows
<1>5. IsData(heard[n + 1]) <=> f.op \notin Controls
  BY DEF IsData, FrameHeaders, Controls
<1>6. ~IsData(heard[n + 1]) => Held(heard, fs, n + 1)
  BY FragmentsStay
<1> HIDE DEF p, all, f
<1>7. got = IF f.op \in Controls
            THEN Consumed(IF f.op # "close" \/ f.code \in {1, 1005} THEN 0
                          ELSE IF ~ValidCloseCode(f.code) THEN 1002
                          ELSE IF f.content = "badutf8" THEN 1007 ELSE 0,
                          fs, <<>>)
            ELSE IF (f.op = "data") = (fs # <<>>)  THEN Consumed(1002, fs, <<>>)
            ELSE IF SizeOf(all) > MaxMessage          THEN Consumed(1009, fs, <<>>)
            ELSE IF ~f.fin                            THEN Consumed(0, all, <<>>)
            ELSE IF BadText(all) /\ ~Zipped(all)
            THEN Consumed(1007, IF f.op = "data" THEN fs ELSE all, <<>>)
            ELSE Consumed(0, <<>>, all)
  BY <1>3 DEF Consume, all
<1> HIDE DEF got
<1>8. \A s, t, u : Consumed(s, t, u).status = s /\ Consumed(s, t, u).frags = t /\ Consumed(s, t, u).message = u
  BY DEF Consumed
<1>9. ASSUME f.op \in Controls PROVE Consumes(n, got, fs)
  <2>1. ~IsData(heard[n + 1]) /\ Held(heard, fs, n + 1)
    BY <1>5, <1>6, <1>9
  <2>2. got.frags = fs /\ got.message = <<>>
    BY <1>7, <1>8, <1>9
  <2>3. ASSUME Proper PROVE got.status = 0
    <3>1. f.op = "close" => (f.code = 1005 \/ ValidCloseCode(f.code)) /\ f.content = "ok"
      BY <1>2, <2>3 DEF Lawful
    <3> QED BY <1>7, <1>8, <1>9, <3>1
  <2> QED BY <2>1, <2>2, <2>3 DEF Consumes
<1>10. ASSUME f.op \notin Controls, (f.op = "data") = (fs # <<>>) PROVE Consumes(n, got, fs)
  <2>1. got.status = 1002
    BY <1>7, <1>8, <1>10
  <2>2. ASSUME Proper PROVE FALSE
    <3>1. IsData(heard[n + 1])
      BY <1>5, <1>10
    <3>2. CASE fs = <<>>
      BY <1>2, <1>10, <2>2, <3>1, <3>2 DEF Held
    <3>3. CASE fs # <<>>
      <4>1. \E j \in Prior(heard, n + 1) : ~heard[j].fin
        BY <3>3, HeldPrior
      <4> QED BY <1>2, <1>10, <2>2, <3>1, <3>3, <4>1
    <3> QED BY <3>2, <3>3
  <2> QED BY <2>1, <2>2 DEF Consumes
<1>11. ASSUME f.op \notin Controls, ~((f.op = "data") = (fs # <<>>)) PROVE Consumes(n, got, fs)
  <2>1. IsData(heard[n + 1]) /\ ((f.op = "data") <=> (fs = <<>>))
    BY <1>5, <1>11
  <2>2. Grows(heard, fs, n, all)
    BY <1>4, <2>1
  <2>3. CASE SizeOf(all) > MaxMessage
    <3>1. got.status = 1009
      BY <1>7, <1>8, <1>11, <2>3
    <3>2. ASSUME Proper PROVE FALSE
      <4>1. SizeOf(all) = SumAt(heard, MessageAt(heard, n + 1)) /\ SumAt(heard, MessageAt(heard, n + 1)) <= MaxMessage
        BY <1>2, <2>1, <2>2, <3>2 DEF Grows
      <4>2. SizeOf(all) \in Nat
        <5>1. all \in Seq(Part) /\ <<1, f>> \in Part
          BY <1>1, <2>2 DEF Grows, Taken, Part, f
        <5> QED BY <5>1, SizeOfAppend
      <4> QED BY <2>3, <4>1, <4>2, BoundsAssumption
    <3> QED BY <3>1, <3>2 DEF Consumes
  <2>4. CASE ~(SizeOf(all) > MaxMessage) /\ ~f.fin
    <3>1. got = Consumed(0, all, <<>>)
      BY <1>7, <1>11, <2>4
    <3>2. got.status = 0 /\ got.frags = all /\ got.message = <<>>
      BY <1>8, <3>1
    <3>3. Held(heard, all, n + 1)
      BY <2>2, <2>4 DEF Grows, f
    <3> QED BY <2>4, <3>2, <3>3 DEF Consumes, f
  <2>5. CASE ~(SizeOf(all) > MaxMessage) /\ f.fin /\ BadText(all) /\ ~Zipped(all)
    <3>1. got.status = 1007
      BY <1>7, <1>8, <1>11, <2>5
    <3>2. ASSUME Proper PROVE FALSE
      <4>1. PICK i \in 1..Len(all) : all[i][2].content = "badutf8"
        BY <2>5 DEF BadText
      <4>2. all[i][2].content = "ok"
        BY <2>2, <3>2, BadContent DEF Grows
      <4> QED BY <4>1, <4>2
    <3> QED BY <3>1, <3>2 DEF Consumes
  <2>6. CASE ~(SizeOf(all) > MaxMessage) /\ f.fin /\ ~(BadText(all) /\ ~Zipped(all))
    <3>1. got = Consumed(0, <<>>, all)
      BY <1>7, <1>11, <2>6
    <3>2. got.status = 0 /\ got.frags = <<>> /\ got.message = all
      BY <1>8, <3>1
    <3>3. all # <<>> /\ Held(heard, <<>>, n + 1)
      BY <2>2, <2>6 DEF Grows, f
    <3> QED BY <2>1, <2>2, <2>6, <3>2, <3>3 DEF Consumes, f
  <2> QED BY <2>3, <2>4, <2>5, <2>6
<1>12. Consumes(n, got, fs)
  BY <1>9, <1>10, <1>11
<1> QED BY <1>12 DEF got, p, f

\* What inflates badly, or to no UTF-8, no proper peer has sent.
LEMMA InflateIs ==
  ASSUME NEW n \in Nat, n + 1 <= Len(heard), Len(heard) \in Nat, NEW fs, NEW all, Grows(heard, fs, n, all), Proper
  PROVE  InflateError(all) = 0
<1>1. Taken(heard, all, n + 1) /\ Positions(all) = MessageAt(heard, n + 1) /\ all # <<>>
  BY DEF Grows
<1>2. \A i \in 1..Len(all) : all[i][2].content = "ok" /\ (all[i][2].rsv1 => ep.zip)
  BY <1>1, BadContent
<1>3. 1 \in 1..Len(all)
  <2>1. all \in Seq(Part)
    BY <1>1 DEF Taken
  <2>2. Len(all) \in Nat /\ Len(all) # 0
    BY <1>1, <2>1, EmptySeq, LenProperties
  <2> QED BY <2>2
<1> QED BY <1>2, <1>3 DEF InflateError, Zipped, BadText

-----------------------------------------------------------------------------
(* What the callbacks were given.                                          *)

CallsIn(q, name) == {i \in 1..Len(q) : q[i].cb = name}
GivenIn(q) == {i \in CallsIn(q, "message") : \A j \in CallsIn(q, "close") : i < j}

\* A message's positions, in order.
Sound(h, ids) ==
  /\ ids # <<>> /\ Last(ids) \in 1..Len(h) /\ Range(ids) = MessageAt(h, Last(ids))
  /\ \A k, l \in DOMAIN ids : k < l => ids[k] < ids[l]

\* Before on_close the k-th on_message gets the k-th message.
Answered(h, q) ==
  \A i \in GivenIn(q) :
    /\ Sound(h, q[i].arg)
    /\ Cardinality(EndsTo(h, Last(q[i].arg))) = Cardinality({k \in GivenIn(q) : k <= i})

\* r is q with one callback more, x.
Further(S, q, x, r) ==
  LET n == Len(q) IN
  /\ n \in Nat /\ Len(r) = n + 1 /\ r \in Seq(S \cup {x}) /\ r[n + 1] = x /\ \A i \in 1..n : r[i] = q[i]
  /\ \A m : CallsIn(r, m) = CallsIn(q, m) \cup {i \in {n + 1} : x.cb = m}
  /\ \A i \in 1..n : i \in GivenIn(r) <=> i \in GivenIn(q)
  /\ GivenIn(q) \in SUBSET (1..n) /\ GivenIn(r) \in SUBSET (1..n + 1)
  /\ n + 1 \in GivenIn(r) <=> x.cb = "message" /\ CallsIn(q, "close") = {}

\* One callback more is the last.
LEMMA CallsMore ==
  ASSUME NEW S, NEW q \in Seq(S), NEW x
  PROVE  Further(S, q, x, Append(q, x))
<1> DEFINE n == Len(q)
           r == Append(q, x)
<1>1. /\ n \in Nat /\ r \in Seq(S \cup {x}) /\ Len(r) = n + 1 /\ r[n + 1] = x
      /\ \A i \in 1..n : r[i] = q[i]
  <2>1. q \in Seq(S \cup {x}) /\ x \in S \cup {x}
    OBVIOUS
  <2> QED BY <2>1, AppendProperties, LenProperties
<1> HIDE DEF n, r
<1>2. /\ \A i \in 1..n + 1 : i \in 1..n \/ i = n + 1
      /\ \A i \in 1..n : i \in 1..n + 1 /\ i # n + 1 /\ i < n + 1 /\ ~(n + 1 < i)
      /\ n + 1 \in 1..n + 1 /\ ~(n + 1 < n + 1)
  BY <1>1
<1>3. ASSUME NEW m PROVE CallsIn(r, m) = CallsIn(q, m) \cup {i \in {n + 1} : x.cb = m}
  <2>1. ASSUME NEW i PROVE i \in CallsIn(r, m) <=> i \in CallsIn(q, m) \/ (i = n + 1 /\ x.cb = m)
    <3>1. i \in CallsIn(r, m) <=> i \in 1..n + 1 /\ r[i].cb = m
      BY <1>1 DEF CallsIn
    <3>2. i \in CallsIn(q, m) <=> i \in 1..n /\ q[i].cb = m
      BY DEF CallsIn, n
    <3> QED BY <1>1, <1>2, <3>1, <3>2
  <2> QED BY <2>1
<1>4. /\ CallsIn(q, "message") \in SUBSET (1..n) /\ CallsIn(q, "close") \in SUBSET (1..n)
  BY DEF CallsIn, n
<1>5. ASSUME NEW i \in 1..n PROVE i \in GivenIn(r) <=> i \in GivenIn(q)
  BY <1>2, <1>3, <1>4 DEF GivenIn
<1>6. n + 1 \in GivenIn(r) <=> x.cb = "message" /\ CallsIn(q, "close") = {}
  BY <1>2, <1>3, <1>4 DEF GivenIn
<1>7. GivenIn(q) \in SUBSET (1..n) /\ GivenIn(r) \in SUBSET (1..n + 1)
  BY <1>2, <1>3, <1>4 DEF GivenIn
<1>8. Further(S, q, x, r)
  BY <1>1, <1>3, <1>5, <1>6, <1>7 DEF Further, n
<1> QED BY <1>8 DEF r

\* A callback that is no message, or comes after on_close, gives nothing.
LEMMA AnsweredStays ==
  ASSUME NEW h, NEW S, NEW q \in Seq(S), NEW x, Answered(h, q), x.cb # "message" \/ CallsIn(q, "close") # {}
  PROVE  Answered(h, Append(q, x))
<1> DEFINE r == Append(q, x)
           n == Len(q)
<1>1. /\ n \in Nat /\ \A i \in 1..n : r[i] = q[i]
      /\ \A i \in 1..n : i \in GivenIn(r) <=> i \in GivenIn(q)
      /\ GivenIn(q) \in SUBSET (1..n) /\ GivenIn(r) \in SUBSET (1..n + 1) /\ n + 1 \notin GivenIn(r)
  <2>1. Further(S, q, x, r)
    BY CallsMore
  <2> HIDE DEF r
  <2> QED BY <2>1 DEF Further
<1> HIDE DEF r, n
<1>2. \A i \in 1..n + 1 : i \in 1..n \/ i = n + 1
  BY <1>1
<1>3. GivenIn(r) = GivenIn(q)
  BY <1>1, <1>2
<1>4. Answered(h, r)
  BY <1>1, <1>3 DEF Answered
<1> QED BY <1>4 DEF r

\* The next message.
LEMMA AnsweredNext ==
  ASSUME NEW h, NEW S, NEW q \in Seq(S), NEW x, Answered(h, q), x.cb = "message", CallsIn(q, "close") = {},
         Sound(h, x.arg), Cardinality(EndsTo(h, Last(x.arg))) = Cardinality(CallsIn(q, "message")) + 1
  PROVE  /\ Answered(h, Append(q, x))
         /\ Cardinality(CallsIn(Append(q, x), "message")) = Cardinality(CallsIn(q, "message")) + 1
<1> DEFINE r == Append(q, x)
           n == Len(q)
           M == CallsIn(q, "message")
<1>1. /\ n \in Nat /\ r[n + 1] = x /\ \A i \in 1..n : r[i] = q[i]
      /\ \A i \in 1..n : i \in GivenIn(r) <=> i \in GivenIn(q)
      /\ GivenIn(q) \in SUBSET (1..n) /\ GivenIn(r) \in SUBSET (1..n + 1) /\ n + 1 \in GivenIn(r)
      /\ CallsIn(r, "message") = M \cup {n + 1}
  <2>1. Further(S, q, x, r)
    BY CallsMore
  <2> HIDE DEF r
  <2>2. CallsIn(r, "message") = CallsIn(q, "message") \cup {i \in {n + 1} : x.cb = "message"}
    BY <2>1 DEF Further
  <2>3. {i \in {n + 1} : x.cb = "message"} = {n + 1}
    OBVIOUS
  <2> QED BY <2>1, <2>2, <2>3 DEF Further
<1>2. M \in SUBSET (1..n) /\ GivenIn(q) = M /\ IsFiniteSet(M)
  <2>1. M \in SUBSET (1..n) /\ IsFiniteSet(1..n)
    BY <1>1, FS_Interval DEF CallsIn
  <2> QED BY <2>1, FS_Subset DEF GivenIn
<1> HIDE DEF r, n, M
<1>3. /\ \A i \in 1..n + 1 : i \in 1..n \/ i = n + 1
      /\ \A i \in 1..n : i \in 1..n + 1 /\ i # n + 1 /\ i <= n + 1 /\ ~(n + 1 <= i)
      /\ n + 1 <= n + 1 /\ n + 1 \in 1..n + 1
  BY <1>1
<1>4. GivenIn(r) = M \cup {n + 1}
  BY <1>1, <1>2, <1>3
<1>5. n + 1 \notin M /\ Cardinality(M \cup {n + 1}) = Cardinality(M) + 1
  <2>1. n + 1 \notin M
    BY <1>2, <1>3
  <2> QED BY <1>2, <2>1, FS_AddElement
<1>6. ASSUME NEW i \in M PROVE {k \in GivenIn(r) : k <= i} = {k \in GivenIn(q) : k <= i}
  BY <1>2, <1>3, <1>4, <1>6
<1>7. {k \in GivenIn(r) : k <= n + 1} = M \cup {n + 1}
  BY <1>2, <1>3, <1>4
<1>8. Answered(h, r)
  <2>1. ASSUME NEW i \in GivenIn(r)
        PROVE  /\ Sound(h, r[i].arg)
               /\ Cardinality(EndsTo(h, Last(r[i].arg))) = Cardinality({k \in GivenIn(r) : k <= i})
    <3>1. CASE i \in M
      BY <1>1, <1>2, <1>6, <3>1 DEF Answered
    <3>2. CASE i = n + 1
      BY <1>1, <1>5, <1>7, <3>2 DEF M
    <3> QED BY <1>4, <3>1, <3>2
  <2> QED BY <2>1 DEF Answered
<1> QED BY <1>1, <1>5, <1>8 DEF r, M

-----------------------------------------------------------------------------
(* The second invariant: where the endpoint is in what was read.           *)

\* q are the last items of h, with their positions.
Rest(q, h) ==
  /\ q \in Seq(Nat \X Item) /\ Len(q) <= Len(h)
  /\ \A k \in 1..Len(q) : q[k] = <<Len(h) - Len(q) + k, h[Len(h) - Len(q) + k]>>

PlaceInv ==
  /\ heard \in Seq(Item) /\ Rest(inbuf, heard) /\ Rest(batch, heard) /\ role \in {"server", "client"}
  /\ \A k \in 1..Len(batch) : batch[k][2] \in FrameHeaders /\ batch[k][2].op # "reserved"
  /\ batch # <<>> => inbuf = <<>> /\ ~ep.parsing
  /\ ep.shook => \A k \in 1..Len(inbuf) : inbuf[k][2] \in FrameHeaders
  /\ role = "client" => \A i \in 1..Len(heard) : heard[i].op \notin {"plain", "plainclose"}

\* An endpoint that may still be opened has seen handshakes only, and what is behind one that
\* it may accept are frames.
OpeningInv ==
  ~ep.shook /\ ep.calls = <<>> /\ (role = "server" => tcp.conn = "up") =>
    /\ ep.frags = <<>> /\ (~ep.parsing => inbuf = <<>>)
    /\ \A i \in 1..(Len(heard) - Len(inbuf)) : heard[i] \in Openings
    /\ \A l \in 1..Len(inbuf) : inbuf[l][2] \in Openings \/ \E k \in 1..(l - 1) : inbuf[k][2].op = "good"
    /\ \A k, l \in 1..Len(inbuf) : k < l /\ inbuf[k][2].op = "good" => inbuf[l][2] \in FrameHeaders

\* Behind position n: the fragments are those of the open message, and on_message has had the others.
Agree(h, n, e) ==
  Held(h, e.frags, n) /\ Cardinality(CallsIn(e.calls, "message")) = Cardinality(EndsTo(h, n))

OpenedInv ==
  ep.shook /\ ~ep.notified =>
    /\ Agree(heard, Len(heard) - Len(inbuf) - Len(batch), ep)
    /\ ~ep.parsing => inbuf = <<>>

\* After on_close nothing is left to handle, unless the peer broke the rules.
OverInv ==
  /\ ep.notified /\ tcp.conn # "down" =>
       ~Proper \/ (batch = <<>> /\ inbuf = <<>> /\ heard # <<>> /\ heard[Len(heard)].op = "close")
  /\ Called(ep, "error") => ~Proper
  /\ Proper => \A j \in CallsIn(ep.calls, "close") : j = Len(ep.calls)

PeerInv == PlaceInv /\ OpeningInv /\ OpenedInv /\ Answered(heard, ep.calls) /\ OverInv

\* Whether the peer is proper depends on what was read, and on the handshake.
LEMMA ProperSame ==
  ASSUME UNCHANGED <<heard, role>>, ep'.zip = ep.zip
  PROVE  Proper' <=> Proper
BY DEF Proper, Lawful, Refuse

\* What neither reads, handles nor calls.
LEMMA OtherStep ==
  ASSUME PeerInv, UNCHANGED <<role, heard, inbuf, batch, ep>>,
         tcp'.conn = "up" => tcp.conn = "up", tcp.conn = "down" => tcp'.conn = "down"
  PROVE  PeerInv'
<1>1. Proper' <=> Proper
  BY ProperSame
<1>2. PlaceInv'
  BY DEF PeerInv, PlaceInv
<1>3. OpeningInv'
  BY DEF PeerInv, OpeningInv
<1>4. OpenedInv'
  BY DEF PeerInv, OpenedInv
<1>5. OverInv'
  BY <1>1 DEF PeerInv, OverInv, Called
<1> QED BY <1>2, <1>3, <1>4, <1>5 DEF PeerInv

\* Nothing is left of the items.
LEMMA RestNone ==
  ASSUME NEW h, Len(h) \in Nat
  PROVE  Rest(<<>>, h)
<1>1. <<>> \in Seq(Nat \X Item) /\ Len(<<>>) = 0 /\ 1..0 = {}
  OBVIOUS
<1> QED BY <1>1 DEF Rest

\* The first item is taken from the front.
LEMMA RestTail ==
  ASSUME NEW h, Len(h) \in Nat, NEW q, Rest(q, h), q # <<>>
  PROVE  /\ Rest(Tail(q), h) /\ Len(Tail(q)) = Len(q) - 1 /\ Len(q) \in Nat \ {0} /\ Len(q) <= Len(h)
         /\ q[1] = <<Len(h) - Len(q) + 1, h[Len(h) - Len(q) + 1]>>
         /\ \A k \in 1..Len(q) - 1 : Tail(q)[k] = q[k + 1] /\ k + 1 \in 1..Len(q)
<1> DEFINE T == Tail(q)
           n == Len(q)
           m == Len(h)
<1>1. /\ q \in Seq(Nat \X Item) /\ n <= m
      /\ \A k \in 1..n : q[k] = <<m - n + k, h[m - n + k]>>
  BY DEF Rest
<1>2. /\ T \in Seq(Nat \X Item) /\ n \in Nat \ {0} /\ Len(T) = n - 1
      /\ \A k \in 1..n - 1 : T[k] = q[k + 1]
  <2>1. n \in Nat /\ n # 0
    BY <1>1, EmptySeq, LenProperties
  <2> QED BY <1>1, <2>1, HeadTailProperties
<1>3. m \in Nat
  OBVIOUS
<1> HIDE DEF n, m, T
<1>4. /\ 1 \in 1..n /\ n - 1 <= m
      /\ \A k \in 1..n - 1 : k + 1 \in 1..n /\ m - n + (k + 1) = m - (n - 1) + k
  BY <1>1, <1>2, <1>3
<1>5. \A k \in 1..n - 1 : T[k] = <<m - (n - 1) + k, h[m - (n - 1) + k]>>
  <2>1. ASSUME NEW k \in 1..n - 1 PROVE T[k] = <<m - (n - 1) + k, h[m - (n - 1) + k]>>
    <3>1. T[k] = q[k + 1] /\ q[k + 1] = <<m - n + (k + 1), h[m - n + (k + 1)]>>
      BY <1>1, <1>2, <1>4
    <3> QED BY <1>4, <3>1, Zenon
  <2> QED BY <2>1
<1>6. Rest(T, h)
  BY <1>2, <1>4, <1>5 DEF Rest, m
<1> QED BY <1>1, <1>2, <1>4, <1>6 DEF n, m, T

\* A bad frame stays at the front.
LEMMA RestFrom ==
  ASSUME NEW h, Len(h) \in Nat, NEW q, Rest(q, h), NEW i \in 1..Len(q)
  PROVE  LET r == SubSeq(q, i, Len(q)) IN
         /\ Rest(r, h)
         /\ \A k \in 1..Len(r) : \E l \in 1..Len(q) : r[k] = q[l]
<1> DEFINE n == Len(q)
           m == Len(h)
           r == SubSeq(q, i, n)
<1>1. /\ q \in Seq(Nat \X Item) /\ n <= m /\ n \in Nat /\ m \in Nat
      /\ \A k \in 1..n : q[k] = <<m - n + k, h[m - n + k]>>
  BY LenProperties DEF Rest
<1>2. /\ r \in Seq(Nat \X Item) /\ Len(r) = n - i + 1
      /\ \A k \in 1..n - i + 1 : r[k] = q[i + k - 1]
  BY <1>1, SubSeqProperties
<1> HIDE DEF n, m, r
<1>3. i \in 1..n
  BY DEF n
<1>4. /\ n - i + 1 <= m
      /\ \A k \in 1..n - i + 1 : i + k - 1 \in 1..n /\ m - n + (i + k - 1) = m - (n - i + 1) + k
  BY <1>1, <1>3
<1>5. \A k \in 1..n - i + 1 : r[k] = <<m - (n - i + 1) + k, h[m - (n - i + 1) + k]>>
  <2>1. ASSUME NEW k \in 1..n - i + 1 PROVE r[k] = <<m - (n - i + 1) + k, h[m - (n - i + 1) + k]>>
    <3>1. r[k] = q[i + k - 1] /\ q[i + k - 1] = <<m - n + (i + k - 1), h[m - n + (i + k - 1)]>>
      BY <1>1, <1>2, <1>4
    <3> QED BY <1>4, <3>1, Zenon
  <2> QED BY <2>1
<1>6. Rest(r, h)
  BY <1>2, <1>4, <1>5 DEF Rest, m
<1>7. \A k \in 1..Len(r) : \E l \in 1..n : r[k] = q[l]
  BY <1>2, <1>4
<1> QED BY <1>6, <1>7 DEF n, r

\* The i-th of what is appended.
LEMMA ConcatAt ==
  ASSUME NEW S, NEW p \in Seq(S), NEW q \in Seq(S), NEW i \in 1..Len(q)
  PROVE  (p \o q)[Len(p) + i] = q[i]
<1> DEFINE g == p \o q
           a == Len(p)
           n == Len(q)
           j == a + i
<1>1. a \in Nat /\ n \in Nat /\ i \in 1..n
  BY LenProperties
<1>2. \A k \in a + 1..a + n : g[k] = q[k - a]
  BY ConcatProperties
<1> HIDE DEF g, a, n
<1>3. j \in a + 1..a + n /\ j - a = i
  BY <1>1
<1> HIDE DEF j
<1>4. g[j] = q[j - a]
  BY ONLY <1>2, <1>3
<1>5. g[j] = q[i]
  BY ONLY <1>3, <1>4
<1> QED BY <1>5 DEF g, a, j

\* g is h, and r is q, with n items more.
Longer(h, q, n, items, g, r) ==
  /\ g \in Seq(Item) /\ Len(g) = Len(h) + n /\ Len(r) = Len(q) + n /\ Len(q) \in Nat /\ Len(h) \in Nat
  /\ \A i \in 1..Len(h) : g[i] = h[i]
  /\ \A i \in 1..n : g[Len(h) + i] = items[i]
  /\ \A k \in 1..Len(q) : r[k] = q[k]
  /\ \A i \in 1..n : r[Len(q) + i] = <<Len(h) + i, items[i]>>
  /\ Rest(r, g)

\* A read adds to both.
LEMMA RestMore ==
  ASSUME NEW h \in Seq(Item), NEW q, Rest(q, h), NEW n \in Nat, NEW items, items \in [1..n -> Item]
  PROVE  Longer(h, q, n, items, h \o items, q \o [i \in 1..n |-> <<Len(h) + i, items[i]>>])
<1> DEFINE a == Len(h)
           b == Len(q)
           w == [i \in 1..n |-> <<a + i, items[i]>>]
           g == h \o items
           r == q \o w
<1>1. q \in Seq(Nat \X Item) /\ b <= a /\ a \in Nat /\ b \in Nat
      /\ \A k \in 1..b : q[k] = <<a - b + k, h[a - b + k]>>
  BY LenProperties DEF Rest
<1>2. items \in Seq(Item) /\ Len(items) = n
  BY IsASeq, LenProperties
<1>3. w \in Seq(Nat \X Item) /\ Len(w) = n /\ \A i \in 1..n : w[i] = <<a + i, items[i]>>
  <2>1. \A i \in 1..n : <<a + i, items[i]>> \in Nat \X Item
    BY <1>1
  <2> HIDE DEF a
  <2>2. w \in Seq(Nat \X Item)
    BY <2>1, IsASeq
  <2> QED BY <2>2, LenProperties
<1> HIDE DEF w
<1>4. /\ g \in Seq(Item) /\ Len(g) = a + n /\ \A i \in 1..a : g[i] = h[i]
      /\ \A i \in a + 1..a + n : g[i] = items[i - a]
  <2>1. h \in Seq(Item)
    OBVIOUS
  <2>2. /\ g \in Seq(Item) /\ Len(g) = a + Len(items) /\ \A i \in 1..a : g[i] = h[i]
        /\ \A i \in a + 1..a + Len(items) : g[i] = items[i - a]
    BY ONLY <1>2, <2>1, ConcatProperties
  <2> QED BY <1>2, <2>2
<1>5. /\ r \in Seq(Nat \X Item) /\ Len(r) = b + n /\ \A i \in 1..b : r[i] = q[i]
      /\ \A i \in b + 1..b + n : r[i] = w[i - b]
  <2>1. q \in Seq(Nat \X Item) /\ w \in Seq(Nat \X Item)
    BY <1>1, <1>3
  <2>2. /\ r \in Seq(Nat \X Item) /\ Len(r) = b + Len(w) /\ \A i \in 1..b : r[i] = q[i]
        /\ \A i \in b + 1..b + Len(w) : r[i] = w[i - b]
    BY ONLY <2>1, ConcatProperties
  <2> QED BY <1>3, <2>2
<1> HIDE DEF a, b, g, r
<1>6. /\ \A i \in 1..n : /\ a + i \in a + 1..a + n /\ a + i - a = i
                         /\ b + i \in b + 1..b + n /\ b + i - b = i
      /\ \A k \in 1..b + n : k \in 1..b \/ (k - b \in 1..n /\ b + (k - b) = k)
      /\ a + n - (b + n) = a - b /\ \A k \in 1..b : a - b + k \in 1..a
      /\ \A i \in 1..n : a - b + (b + i) = a + i
      /\ b + n <= a + n
  BY <1>1
<1>7. /\ \A i \in 1..n : g[a + i] = items[i]
      /\ \A i \in 1..n : r[b + i] = <<a + i, items[i]>>
  <2>1. ASSUME NEW i \in 1..n PROVE g[a + i] = items[i]
    BY <1>2, ConcatAt DEF a, g
  <2>2. ASSUME NEW i \in 1..n PROVE r[b + i] = w[i]
    BY <1>1, <1>3, ConcatAt DEF b, r
  <2> QED BY <1>3, <2>1, <2>2
<1>8. \A k \in 1..b + n : r[k] = <<a - b + k, g[a - b + k]>>
  <2>1. ASSUME NEW k \in 1..b PROVE r[k] = <<a - b + k, g[a - b + k]>>
    BY <1>1, <1>4, <1>5, <1>6
  <2>2. ASSUME NEW i \in 1..n PROVE r[b + i] = <<a - b + (b + i), g[a - b + (b + i)]>>
    BY <1>6, <1>7
  <2>3. ASSUME NEW k \in 1..b + n, k - b \in 1..n, b + (k - b) = k
        PROVE  r[k] = <<a - b + k, g[a - b + k]>>
    BY <2>2, <2>3
  <2> QED BY <1>6, <2>1, <2>3
<1>9. Rest(r, g)
  <2>1. \A k \in 1..b + n : r[k] = <<(a + n) - (b + n) + k, g[(a + n) - (b + n) + k]>>
    <3> SUFFICES ASSUME NEW k \in 1..b + n
                 PROVE  r[k] = <<(a + n) - (b + n) + k, g[(a + n) - (b + n) + k]>>
      OBVIOUS
    <3>1. (a + n) - (b + n) = a - b
      BY <1>1
    <3>2. r[k] = <<a - b + k, g[a - b + k]>>
      BY <1>8
    <3> QED BY ONLY <3>1, <3>2, Zenon
  <2> QED BY <1>4, <1>5, <1>6, <2>1 DEF Rest
<1>10. Longer(h, q, n, items, g, r)
  BY <1>1, <1>4, <1>5, <1>7, <1>9 DEF Longer, a, b
<1> QED BY <1>10 DEF a, g, r, w

-----------------------------------------------------------------------------
(* The steps, and what they do to the second invariant.                    *)

\* d is e after on_close, the first or not.
Told(e, d) ==
  /\ d.shook = e.shook /\ d.zip = e.zip /\ d.parsing = e.parsing /\ d.notified
  /\ e.notified => d.calls = e.calls
  /\ ~e.notified => \E y : y.cb = "close" /\ d.calls = Append(e.calls, y)

\* notify_close reports a close unless one has been.
LEMMA ToldIs ==
  ASSUME NEW e, DOMAIN e = EpFields, NEW code
  PROVE  Told(e, NotifyClose(e, code))
<1>1. CASE e.notified
  <2> DEFINE d == [e EXCEPT !.timer = FALSE]
  <2>1. NotifyClose(e, code) = d
    BY <1>1 DEF NotifyClose
  <2>2. /\ d.shook = e.shook /\ d.zip = e.zip /\ d.parsing = e.parsing /\ d.notified = e.notified
        /\ d.calls = e.calls
    BY DEF EpFields
  <2> HIDE DEF d
  <2> QED BY <1>1, <2>1, <2>2, Zenon DEF Told
<1>2. CASE ~e.notified
  <2> DEFINE b == [e EXCEPT !.timer = FALSE, !.notified = TRUE]
             y == [cb |-> "close", arg |-> code]
             d == [b EXCEPT !.calls = Append(@, y)]
  <2>1. NotifyClose(e, code) = d
    BY <1>2 DEF NotifyClose, Call
  <2>2. /\ b.shook = e.shook /\ b.zip = e.zip /\ b.parsing = e.parsing /\ b.notified = TRUE
        /\ b.calls = e.calls /\ DOMAIN b = EpFields
    BY DEF EpFields
  <2> HIDE DEF b
  <2>3. /\ d.shook = b.shook /\ d.zip = b.zip /\ d.parsing = b.parsing /\ d.notified = b.notified
        /\ d.calls = Append(b.calls, y)
    BY <2>2 DEF EpFields
  <2>4. y.cb = "close"
    OBVIOUS
  <2> HIDE DEF d, y
  <2> QED BY <1>2, <2>1, <2>2, <2>3, <2>4, Zenon DEF Told
<1> QED BY <1>1, <1>2

\* d is e after the call x.
Added(e, d, x) ==
  /\ DOMAIN d = EpFields /\ d.shook = e.shook /\ d.zip = e.zip /\ d.parsing = e.parsing
  /\ d.notified = e.notified /\ d.frags = e.frags /\ d.calls = Append(e.calls, x)

\* A callback is added to the calls.
LEMMA CallIs ==
  ASSUME NEW e, DOMAIN e = EpFields, NEW name, NEW arg
  PROVE  Added(e, Call(e, name, arg), [cb |-> name, arg |-> arg])
BY DEF Call, EpFields, Added

\* close_for_error, of a peer that has broken the rules: nothing else is asked of the endpoint.
LEMMA ErrorPeer ==
  ASSUME PeerInv, IsEp(ep), ep.shook, UNCHANGED <<role, heard>>, ~Proper, PlaceInv',
         NEW e, DOMAIN e = EpFields, e.calls = ep.calls, e.shook = ep.shook, e.zip = ep.zip,
         NEW code, ep' = NotifyClose(Call(e, "error", code), code)
  PROVE  PeerInv'
<1> DEFINE x == [cb |-> "error", arg |-> code]
           d == Call(e, "error", code)
<1>1. /\ DOMAIN d = EpFields /\ d.shook = ep.shook /\ d.zip = ep.zip
      /\ d.calls = Append(ep.calls, x) /\ x.cb = "error"
  <2>1. Added(e, d, x)
    BY CallIs
  <2>2. x.cb = "error"
    OBVIOUS
  <2> HIDE DEF d, x
  <2> QED BY <2>1, <2>2 DEF Added
<1> HIDE DEF d, x
<1>2. Told(d, ep')
  BY <1>1, ToldIs DEF d
<1>3. ep'.shook /\ ep'.notified /\ ep'.zip = ep.zip
  BY <1>1, <1>2, Zenon DEF Told
<1>4. ~Proper'
  BY <1>3, ProperSame
<1>5. PICK S : ep.calls \in Seq(S)
  BY DEF IsEp
<1>6. Answered(heard, d.calls) /\ d.calls \in Seq(S \cup {x})
  <2>1. ep.calls \in Seq(S \cup {x}) /\ x \in S \cup {x}
    BY <1>5
  <2>2. Append(ep.calls, x) \in Seq(S \cup {x})
    BY <2>1
  <2> QED BY <1>1, <1>5, <2>2, AnsweredStays DEF PeerInv
<1>7. Answered(heard, ep'.calls)
  <2>1. CASE d.notified
    BY <1>2, <1>6, <2>1 DEF Told
  <2>2. CASE ~d.notified
    <3>1. PICK y : y.cb = "close" /\ ep'.calls = Append(d.calls, y)
      BY <1>2, <2>2 DEF Told
    <3> QED BY <1>6, <3>1, AnsweredStays
  <2> QED BY <2>1, <2>2
<1>8. Answered(heard, ep.calls)'
  BY <1>7
<1> QED BY <1>3, <1>4, <1>8 DEF PeerInv, OpeningInv, OpenedInv, OverInv

\* A close that was asked for, or the connection's end.
LEMMA ToldPeer ==
  ASSUME PeerInv, CallBase(ep), ep.shook, UNCHANGED <<role, heard>>, PlaceInv', Told(ep, ep'),
         tcp'.conn # "down" => tcp.conn # "down",
         tcp'.conn # "down" /\ ~ep.notified /\ Proper =>
           batch' = <<>> /\ inbuf' = <<>> /\ heard # <<>> /\ heard[Len(heard)].op = "close",
         tcp'.conn # "down" /\ batch = <<>> /\ inbuf = <<>> => batch' = <<>> /\ inbuf' = <<>>
  PROVE  PeerInv'
<1>1. ep'.shook /\ ep'.notified /\ ep'.zip = ep.zip
  BY Zenon DEF Told
<1>2. Proper' <=> Proper
  BY <1>1, ProperSame
<1>3. PICK S : ep.calls \in Seq(S)
  BY DEF CallBase, IsEp
<1>4. CASE ep.notified
  <2>1. ep'.calls = ep.calls
    BY <1>4 DEF Told
  <2>2. Answered(heard, ep.calls)'
    BY <2>1 DEF PeerInv
  <2>3. OverInv'
    BY <1>1, <1>2, <1>4, <2>1 DEF PeerInv, OverInv, Called
  <2> QED BY <1>1, <2>2, <2>3 DEF PeerInv, OpeningInv, OpenedInv
<1>5. CASE ~ep.notified
  <2>1. PICK y : y.cb = "close" /\ ep'.calls = Append(ep.calls, y)
    BY <1>5 DEF Told
  <2>2. Further(S, ep.calls, y, ep'.calls)
    BY <1>3, <2>1, CallsMore
  <2>3. ~Called(ep, "close")
    BY <1>5 DEF CallBase
  <2>4. CallsIn(ep.calls, "close") = {}
    BY <2>3 DEF Called, CallsIn
  <2>5. Answered(heard, ep.calls)'
    BY <1>3, <2>1, AnsweredStays DEF PeerInv
  <2>6. \A j \in CallsIn(ep'.calls, "close") : j = Len(ep'.calls)
    BY <2>2, <2>4 DEF Further
  <2>7. Called(ep', "error") <=> Called(ep, "error")
    <3>1. CallsIn(ep'.calls, "error") = CallsIn(ep.calls, "error")
      BY <2>1, <2>2 DEF Further
    <3>2. \A e : Called(e, "error") <=> CallsIn(e.calls, "error") # {}
      BY DEF Called, CallsIn
    <3> QED BY <3>1, <3>2
  <2>8. OverInv'
    <3>1. Called(ep, "error")' => ~Proper'
      BY <1>2, <2>7 DEF PeerInv, OverInv
    <3>2. (\A j \in CallsIn(ep.calls, "close") : j = Len(ep.calls))'
      BY <2>6
    <3>3. tcp'.conn # "down" => ~Proper' \/ (batch' = <<>> /\ inbuf' = <<>> /\ heard' # <<>> /\ heard'[Len(heard')].op = "close")
      BY <1>2, <1>5
    <3> QED BY <3>1, <3>2, <3>3 DEF OverInv
  <2> QED BY <1>1, <2>5, <2>8 DEF PeerInv, OpeningInv, OpenedInv
<1> QED BY <1>4, <1>5

\* Where the batch stands: its first frame is the next of what was read, and the fragments agree
\* with those before it, unless a close has been reported to a peer that broke the rules.
AtNext(n) ==
  /\ n \in Nat /\ n + 1 <= Len(heard) /\ Len(heard) \in Nat /\ n = Len(heard) - Len(batch)
  /\ inbuf = <<>> /\ ep.shook /\ tcp.conn # "down"
  /\ batch[1] = <<n + 1, heard[n + 1]>> /\ heard[n + 1] \in FrameHeaders /\ heard[n + 1].op # "reserved"
  /\ Len(Tail(batch)) = Len(batch) - 1 /\ Len(batch) \in Nat
  /\ ep.notified => ~Proper
  /\ ~ep.notified => Agree(heard, n, ep) /\ Consumes(n, Consume(ep.frags, batch[1]), ep.frags)

\* The batch is the end of what was read.
LEMMA FirstFrame ==
  ASSUME PeerInv, EndpointInv, batch # <<>>
  PROVE  AtNext(Len(heard) - Len(batch))
<1> DEFINE n == Len(heard) - Len(batch)
<1>1. /\ Len(heard) \in Nat /\ Rest(batch, heard) /\ inbuf = <<>>
      /\ \A k \in 1..Len(batch) : batch[k][2] \in FrameHeaders /\ batch[k][2].op # "reserved"
  BY LenProperties DEF PeerInv, PlaceInv
<1>2. ep.shook /\ tcp.conn # "down"
  BY DEF EndpointInv, DownInv, Idle
<1>3. /\ Len(Tail(batch)) = Len(batch) - 1 /\ Len(batch) \in Nat \ {0} /\ Len(batch) <= Len(heard)
      /\ batch[1] = <<Len(heard) - Len(batch) + 1, heard[Len(heard) - Len(batch) + 1]>>
  BY <1>1, RestTail
<1>4. n \in Nat /\ n + 1 <= Len(heard) /\ 1 \in 1..Len(batch) /\ Len(heard) - 0 - Len(batch) = n
  BY <1>1, <1>3
<1>5. batch[1] = <<n + 1, heard[n + 1]>>
  BY <1>3
<1> HIDE DEF n
<1>6. heard[n + 1] \in FrameHeaders /\ heard[n + 1].op # "reserved"
  BY <1>1, <1>4, <1>5
<1>7. ep.notified => ~Proper
  BY <1>2 DEF PeerInv, OverInv
<1>8. ASSUME ~ep.notified PROVE Agree(heard, n, ep)
  <2>1. Len(inbuf) = 0
    BY <1>1
  <2> QED BY <1>2, <1>4, <1>8, <2>1 DEF PeerInv, OpenedInv
<1>9. ASSUME ~ep.notified PROVE Consumes(n, Consume(ep.frags, batch[1]), ep.frags)
  BY <1>1, <1>4, <1>5, <1>6, <1>8, <1>9, ConsumeIs DEF Agree
<1>10. AtNext(n)
  BY <1>1, <1>2, <1>3, <1>4, <1>5, <1>6, <1>7, <1>8, <1>9 DEF AtNext, n
<1> QED BY <1>10 DEF n

\* The handler takes the frame, or drops the batch.
LEMMA PlaceAfter ==
  ASSUME PlaceInv, batch # <<>>, UNCHANGED <<role, heard, inbuf>>, batch' \in {Tail(batch), <<>>},
         ep'.shook = ep.shook, ep'.parsing = ep.parsing
  PROVE  PlaceInv'
<1>1. Len(heard) \in Nat /\ Rest(batch, heard) /\ inbuf = <<>> /\ heard \in Seq(Item)
  BY LenProperties DEF PlaceInv
<1>2. CASE batch' = <<>>
  <2>1. Len(batch') = 0 /\ Rest(batch', heard) /\ 1..0 = {}
    BY <1>1, <1>2, RestNone
  <2>2. Rest(batch, heard)' /\ \A k \in 1..Len(batch') : FALSE
    BY <2>1
  <2> QED BY <1>1, <1>2, <2>2 DEF PlaceInv
<1>3. CASE batch' = Tail(batch)
  <2>1. /\ Rest(batch', heard) /\ Len(batch') = Len(batch) - 1
        /\ \A k \in 1..Len(batch) - 1 : batch'[k] = batch[k + 1] /\ k + 1 \in 1..Len(batch)
    BY <1>1, <1>3, RestTail
  <2>2. \A k \in 1..Len(batch') : batch'[k][2] \in FrameHeaders /\ batch'[k][2].op # "reserved"
    BY <2>1 DEF PlaceInv
  <2>3. Rest(batch, heard)' /\ Rest(inbuf, heard)'
    BY <2>1 DEF PlaceInv
  <2> QED BY <1>1, <2>2, <2>3 DEF PlaceInv
<1> QED BY <1>2, <1>3

\* A ping, a pong or a fragment: no callback.
LEMMA QuietPeer ==
  ASSUME PeerInv, EndpointInv, batch # <<>>, UNCHANGED <<role, heard, inbuf>>, batch' = Tail(batch),
         Consume(ep.frags, batch[1]).status = 0, Consume(ep.frags, batch[1]).message = <<>>,
         ep' = [ep EXCEPT !.frags = Consume(ep.frags, batch[1]).frags]
  PROVE  PeerInv'
<1> DEFINE n == Len(heard) - Len(batch)
           got == Consume(ep.frags, batch[1])
<1>1. AtNext(n)
  BY FirstFrame
<1> HIDE DEF n
<1>2. got.status = 0 /\ got.message = <<>> /\ ep' = [ep EXCEPT !.frags = got.frags]
  OBVIOUS
<1> HIDE DEF got
<1>3. DOMAIN ep = EpFields
  BY DEF EndpointInv, CallInv, CallBase, IsEp
<1>4. /\ ep'.shook = ep.shook /\ ep'.zip = ep.zip /\ ep'.parsing = ep.parsing /\ ep'.notified = ep.notified
      /\ ep'.calls = ep.calls /\ ep'.frags = got.frags
  BY <1>2, <1>3 DEF EpFields
<1>5. Proper' <=> Proper
  BY <1>4, ProperSame
<1>6. PlaceInv'
  BY <1>4, PlaceAfter DEF PeerInv
<1>7. (Answered(heard, ep.calls) /\ OverInv)'
  BY <1>1, <1>4, <1>5 DEF PeerInv, OverInv, Called, AtNext
<1>8. ep'.shook /\ (ep'.notified <=> ep.notified)
  BY <1>1, <1>4 DEF AtNext
<1>9. ASSUME ~ep.notified PROVE Agree(heard, n + 1, ep')
  <2>1. Agree(heard, n, ep) /\ Consumes(n, got, ep.frags) /\ n \in Nat /\ n + 1 <= Len(heard) /\ Len(heard) \in Nat
    BY <1>1, <1>9 DEF AtNext, got
  <2>2. Held(heard, got.frags, n + 1) /\ ~(IsData(heard[n + 1]) /\ heard[n + 1].fin)
    BY <1>2, <2>1 DEF Consumes
  <2>3. EndsTo(heard, n + 1) = EndsTo(heard, n)
    BY <2>1, <2>2, EndsNext
  <2> QED BY <1>4, <2>1, <2>2, <2>3 DEF Agree
<1>10. Len(heard') - Len(inbuf') - Len(batch') = n + 1 /\ inbuf' = <<>>
  BY <1>1 DEF AtNext
<1>11. OpenedInv'
  BY <1>8, <1>9, <1>10 DEF OpenedInv
<1> QED BY <1>6, <1>7, <1>8, <1>11 DEF PeerInv, OpeningInv

\* What inflate and the check of the text have let through: all of one message, in order.
LEMMA MessageSound ==
  ASSUME NEW h, NEW n \in Nat, n + 1 <= Len(h), Len(h) \in Nat, NEW fs, NEW all, Grows(h, fs, n, all), IsData(h[n + 1])
  PROVE  Sound(h, Assembled(all)) /\ Last(Assembled(all)) = n + 1
<1> DEFINE m == Len(all)
           ids == Assembled(all)
<1>1. /\ all \in Seq(Part) /\ all # <<>> /\ Climbing(all)
      /\ \A k \in 1..m : all[k][1] \in 1..n + 1
      /\ Positions(all) = MessageAt(h, n + 1) /\ Starts(h, n + 1) # {}
  BY DEF Grows, Taken
<1>2. m \in Nat \ {0} /\ m \in 1..m /\ \A k \in 1..m : k = m \/ k < m
  <2>1. m \in Nat /\ m # 0
    BY <1>1, EmptySeq, LenProperties
  <2> HIDE DEF m
  <2> QED BY <2>1
<1>3. /\ DOMAIN ids = 1..m /\ Len(ids) = m /\ \A k \in 1..m : ids[k] = all[k][1]
      /\ ids # <<>>
  <2>1. DOMAIN ids = 1..m /\ \A k \in 1..m : ids[k] = all[k][1]
    BY DEF Assembled
  <2>2. \A k \in 1..m : all[k][1] \in Nat
    BY <1>1
  <2>3. ids \in Seq(Nat)
    <3>1. ids = [k \in 1..m |-> all[k][1]]
      BY DEF Assembled
    <3> HIDE DEF m, ids
    <3> QED BY <1>2, <2>2, <3>1, IsASeq
  <2> HIDE DEF ids, m
  <2>4. Len(ids) = m
    BY <1>2, <2>1, <2>3, LenProperties
  <2>5. Len(<<>>) = 0
    OBVIOUS
  <2> QED BY <1>2, <2>1, <2>4, <2>5
<1>4. Range(ids) = MessageAt(h, n + 1)
  <2>1. Range(ids) = {ids[k] : k \in 1..m}
    BY <1>3 DEF Range
  <2>2. Positions(all) = {all[k][1] : k \in 1..m}
    BY DEF Positions
  <2> HIDE DEF m, ids
  <2>3. {ids[k] : k \in 1..m} = {all[k][1] : k \in 1..m}
    BY <1>3
  <2> QED BY <1>1, <2>1, <2>2, <2>3
<1>5. \A k, l \in 1..m : k < l => ids[k] < ids[l]
  BY <1>1, <1>3 DEF Climbing
<1>6. n + 1 \in MessageAt(h, n + 1)
  <2>1. PICK i \in Starts(h, n + 1) : TRUE
    BY <1>1
  <2>2. i \in 1..n + 1 /\ n + 1 \in 1..n + 1
    BY <2>1 DEF Starts
  <2>3. i <= n + 1
    BY <2>2
  <2> QED BY <2>1, <2>2, <2>3 DEF MessageAt
<1>7. PICK k \in 1..m : ids[k] = n + 1
  BY <1>1, <1>3, <1>6 DEF Positions
<1>8. ids[m] = n + 1
  <2>1. ids[m] \in 1..n + 1
    BY <1>1, <1>2, <1>3
  <2>2. k < m => ids[k] < ids[m]
    BY <1>2, <1>5
  <2>3. k = m \/ k < m
    BY <1>2
  <2> HIDE DEF ids, m
  <2> QED BY <1>7, <2>1, <2>2, <2>3
<1>9. Last(ids) = n + 1
  BY <1>3, <1>8 DEF Last
<1> HIDE DEF ids, m
<1>10. Sound(h, ids)
  <2>1. n + 1 \in 1..Len(h)
    OBVIOUS
  <2> QED BY <1>3, <1>4, <1>5, <1>9, <2>1 DEF Sound
<1> QED BY <1>9, <1>10 DEF ids

\* on_message: the next message of those that were sent.
LEMMA MessagePeer ==
  ASSUME PeerInv, EndpointInv, batch # <<>>, UNCHANGED <<role, heard, inbuf>>, batch' = Tail(batch),
         Consume(ep.frags, batch[1]).status = 0, Consume(ep.frags, batch[1]).message # <<>>,
         NEW kept, kept = [ep EXCEPT !.frags = Consume(ep.frags, batch[1]).frags],
         ep' = Call(kept, "message", Assembled(Consume(ep.frags, batch[1]).message))
  PROVE  PeerInv'
<1> DEFINE n == Len(heard) - Len(batch)
           got == Consume(ep.frags, batch[1])
           ids == Assembled(got.message)
           x == [cb |-> "message", arg |-> ids]
<1>1. AtNext(n)
  BY FirstFrame
<1> HIDE DEF n
<1>2. got.status = 0 /\ got.message # <<>> /\ kept = [ep EXCEPT !.frags = got.frags] /\ ep' = Call(kept, "message", ids)
  OBVIOUS
<1> HIDE DEF got
<1>3. DOMAIN ep = EpFields /\ \E S : ep.calls \in Seq(S)
  BY DEF EndpointInv, CallInv, CallBase, IsEp
<1>4. /\ kept.shook = ep.shook /\ kept.zip = ep.zip /\ kept.parsing = ep.parsing /\ kept.notified = ep.notified
      /\ kept.calls = ep.calls /\ kept.frags = got.frags /\ DOMAIN kept = EpFields
  BY <1>2, <1>3 DEF EpFields
<1> HIDE DEF ids
<1>5. /\ ep'.shook = ep.shook /\ ep'.zip = ep.zip /\ ep'.parsing = ep.parsing /\ ep'.notified = ep.notified
      /\ ep'.calls = Append(ep.calls, x) /\ ep'.frags = got.frags /\ x.cb = "message" /\ x.arg = ids
  <2>1. /\ ep'.shook = kept.shook /\ ep'.zip = kept.zip /\ ep'.parsing = kept.parsing
        /\ ep'.notified = kept.notified /\ ep'.calls = Append(kept.calls, x) /\ ep'.frags = kept.frags
    <3>1. Added(kept, ep', x)
      BY <1>2, <1>4, CallIs
    <3> HIDE DEF x
    <3> QED BY <3>1 DEF Added
  <2>2. x.cb = "message" /\ x.arg = ids
    OBVIOUS
  <2> HIDE DEF x
  <2> QED BY <1>4, <2>1, <2>2
<1> HIDE DEF x
<1>6. Proper' <=> Proper
  BY <1>5, ProperSame
<1>7. PlaceInv'
  BY <1>5, PlaceAfter DEF PeerInv
<1>8. ep'.shook /\ (ep'.notified <=> ep.notified)
  BY <1>1, <1>5 DEF AtNext
<1>9. PICK S : ep.calls \in Seq(S)
  BY <1>3
<1>10. Further(S, ep.calls, x, ep'.calls)
  BY <1>5, <1>9, CallsMore
<1>11. CallsIn(ep'.calls, "error") = CallsIn(ep.calls, "error")
       /\ CallsIn(ep'.calls, "close") = CallsIn(ep.calls, "close")
  <2>1. /\ CallsIn(ep'.calls, "error") = CallsIn(ep.calls, "error") \cup {i \in {Len(ep.calls) + 1} : x.cb = "error"}
        /\ CallsIn(ep'.calls, "close") = CallsIn(ep.calls, "close") \cup {i \in {Len(ep.calls) + 1} : x.cb = "close"}
    BY <1>10 DEF Further
  <2>2. x.cb # "error" /\ x.cb # "close"
    BY <1>5
  <2> QED BY <2>1, <2>2
<1>12. /\ \A e, m : Called(e, m) <=> CallsIn(e.calls, m) # {}
       /\ Called(ep, "close") <=> ep.notified
  BY DEF Called, CallsIn, EndpointInv, CallInv, CallBase
<1>13. OverInv'
  <2>1. Called(ep, "error")' <=> Called(ep, "error")
    <3>1. Called(ep', "error") <=> Called(ep, "error")
      BY <1>11, <1>12
    <3> QED BY <3>1
  <2>2. ep.notified => ~Proper
    BY <1>1 DEF AtNext
  <2>3. ~ep.notified => CallsIn(ep'.calls, "close") = {}
    BY <1>11, <1>12
  <2> QED BY <1>6, <1>8, <2>1, <2>2, <2>3 DEF PeerInv, OverInv
<1>14. CASE ep.notified
  <2>1. CallsIn(ep.calls, "close") # {}
    BY <1>12, <1>14
  <2>2. Answered(heard, ep.calls)'
    BY <1>5, <1>9, <2>1, AnsweredStays DEF PeerInv
  <2>3. OpenedInv'
    BY <1>8, <1>14 DEF OpenedInv
  <2> QED BY <1>7, <1>8, <1>13, <2>2, <2>3 DEF PeerInv, OpeningInv
<1>15. CASE ~ep.notified
  <2>1. /\ Agree(heard, n, ep) /\ Consumes(n, got, ep.frags) /\ n \in Nat /\ n + 1 <= Len(heard)
        /\ Len(heard) \in Nat
    BY <1>1, <1>15 DEF AtNext, got
  <2>2. /\ Held(heard, got.frags, n + 1) /\ IsData(heard[n + 1]) /\ heard[n + 1].fin
        /\ Grows(heard, ep.frags, n, got.message)
    BY <1>2, <2>1 DEF Consumes
  <2>3. Cardinality(EndsTo(heard, n + 1)) = Cardinality(EndsTo(heard, n)) + 1
    BY <2>1, <2>2, EndsNext DEF Grows
  <2>4. Sound(heard, ids) /\ Last(ids) = n + 1
    BY <2>1, <2>2, MessageSound DEF ids
  <2>5. Cardinality(CallsIn(ep.calls, "message")) = Cardinality(EndsTo(heard, n)) /\ CallsIn(ep.calls, "close") = {}
    BY <1>12, <1>15, <2>1 DEF Agree
  <2>6. /\ Answered(heard, ep'.calls)
        /\ Cardinality(CallsIn(ep'.calls, "message")) = Cardinality(CallsIn(ep.calls, "message")) + 1
    <3>1. Answered(heard, ep.calls) /\ ep.calls \in Seq(S)
      BY <1>9 DEF PeerInv
    <3>2. Cardinality(EndsTo(heard, Last(x.arg))) = Cardinality(CallsIn(ep.calls, "message")) + 1
      BY <1>5, <2>3, <2>4, <2>5
    <3>3. x.cb = "message" /\ Sound(heard, x.arg) /\ ep'.calls = Append(ep.calls, x)
      BY <1>5, <2>4
    <3> QED BY ONLY <2>5, <3>1, <3>2, <3>3, AnsweredNext
  <2>7. Agree(heard, n + 1, ep')
    BY <1>5, <2>2, <2>3, <2>5, <2>6 DEF Agree
  <2>8. Len(heard') - Len(inbuf') - Len(batch') = n + 1 /\ inbuf' = <<>>
    BY <1>1 DEF AtNext
  <2>9. OpenedInv'
    BY <2>7, <2>8 DEF OpenedInv
  <2>10. Answered(heard, ep.calls)'
    BY <2>6
  <2> QED BY <1>7, <1>8, <1>13, <2>9, <2>10 DEF PeerInv, OpeningInv
<1> QED BY <1>14, <1>15

\* An error of the frame: the peer has broken a rule.
LEMMA FrameErrorPeer ==
  ASSUME PeerInv, EndpointInv, batch # <<>>, UNCHANGED <<role, heard, inbuf>>, batch' = <<>>, ~Proper,
         NEW kept, DOMAIN kept = EpFields, kept.calls = ep.calls, kept.shook = ep.shook, kept.zip = ep.zip,
         kept.parsing = ep.parsing,
         NEW code, ep' = NotifyClose(Call(kept, "error", code), code)
  PROVE  PeerInv'
<1> DEFINE d == Call(kept, "error", code)
<1>1. IsEp(ep) /\ ep.shook
  BY FirstFrame DEF EndpointInv, CallInv, CallBase, AtNext
<1>2. DOMAIN d = EpFields /\ d.shook = ep.shook /\ d.parsing = ep.parsing
  <2>1. Added(kept, d, [cb |-> "error", arg |-> code])
    BY CallIs
  <2> HIDE DEF d
  <2> QED BY <2>1 DEF Added
<1> HIDE DEF d
<1>3. ep'.shook = ep.shook /\ ep'.parsing = ep.parsing
  BY <1>2, ToldIs DEF Told, d
<1>4. PlaceInv'
  BY <1>3, PlaceAfter DEF PeerInv
<1> QED BY <1>1, <1>4, ErrorPeer

\* on_websocket_message of a frame that consume refuses: close_for_error.
LEMMA HandleBadFramePeer == ASSUME PeerInv, EndpointInv, HandleBadFrame PROVE PeerInv'
<1> DEFINE got == Consume(ep.frags, batch[1])
           kept == [ep EXCEPT !.frags = got.frags]
<1>1. /\ batch # <<>> /\ batch' = <<>> /\ UNCHANGED <<role, heard, inbuf>>
      /\ got.status # 0 /\ ep' = NotifyClose(Call(kept, "error", got.status), got.status)
  BY DEF HandleBadFrame, CloseForError
<1>2. AtNext(Len(heard) - Len(batch))
  BY <1>1, FirstFrame
<1> HIDE DEF got
<1>3. ~Proper
  BY <1>1, <1>2 DEF AtNext, Consumes, got
<1>4. /\ DOMAIN kept = EpFields /\ kept.calls = ep.calls /\ kept.shook = ep.shook /\ kept.zip = ep.zip
      /\ kept.parsing = ep.parsing
  BY DEF EndpointInv, CallInv, CallBase, IsEp, EpFields
<1> HIDE DEF kept
<1> QED BY <1>1, <1>3, <1>4, FrameErrorPeer

\* A close frame of one byte: close_for_error.
LEMMA HandleBadClosePeer == ASSUME PeerInv, EndpointInv, HandleBadClose PROVE PeerInv'
<1> DEFINE n == Len(heard) - Len(batch)
<1>1. /\ batch # <<>> /\ batch' = <<>> /\ UNCHANGED <<role, heard, inbuf>>
      /\ batch[1][2].op = "close" /\ batch[1][2].code = 1
      /\ ep' = NotifyClose(Call(ep, "error", 1002), 1002)
  BY DEF HandleBadClose, CloseForError, AtFrame, CloseInfoOk
<1>2. AtNext(n)
  BY <1>1, FirstFrame
<1>3. n + 1 \in 1..Len(heard) /\ heard[n + 1] \in FrameHeaders /\ batch[1][2] = heard[n + 1]
  <2>1. n + 1 \in 1..Len(heard)
    BY <1>2 DEF AtNext
  <2> HIDE DEF n
  <2> QED BY <1>2, <2>1 DEF AtNext
<1> HIDE DEF n
<1>4. ~Proper
  <2>1. ~ValidCloseCode(1)
    BY DEF ValidCloseCode
  <2>2. Proper => Lawful(heard[n + 1])
    BY <1>3, ProperAt
  <2>3. heard[n + 1].op = "close" /\ heard[n + 1].code = 1
    BY <1>1, <1>3
  <2> QED BY <2>1, <2>2, <2>3 DEF Lawful
<1>5. DOMAIN ep = EpFields
  BY DEF EndpointInv, CallInv, CallBase, IsEp
<1> QED BY <1>1, <1>4, <1>5, FrameErrorPeer

\* The peer's close: answered and reported; if it kept the rules nothing comes behind it.
LEMMA HandleClosePeer == ASSUME PeerInv, EndpointInv, HandleClose PROVE PeerInv'
<1> DEFINE n == Len(heard) - Len(batch)
           m == Len(heard)
<1>1. /\ batch # <<>> /\ batch' = <<>> /\ UNCHANGED <<role, heard, inbuf>>
      /\ batch[1][2].op = "close" /\ ep' = NotifyClose(ep, batch[1][2].code)
  BY DEF HandleClose, AtFrame
<1>2. AtNext(n)
  BY <1>1, FirstFrame
<1>3. DOMAIN ep = EpFields /\ CallBase(ep)
  BY DEF EndpointInv, CallInv, CallBase, IsEp
<1>4. Told(ep, ep')
  BY <1>1, <1>3, ToldIs
<1>5. n + 1 \in 1..m /\ heard[n + 1] \in FrameHeaders /\ batch[1][2] = heard[n + 1] /\ inbuf = <<>>
      /\ ep.shook /\ tcp.conn # "down" /\ m \in Nat
  <2>1. n + 1 \in 1..m /\ m \in Nat
    BY <1>2 DEF AtNext
  <2> HIDE DEF n, m
  <2> QED BY <1>2, <2>1 DEF AtNext
<1> HIDE DEF n
<1>6. PlaceInv'
  BY <1>1, <1>4, PlaceAfter DEF PeerInv, Told
<1>7. ASSUME Proper PROVE heard # <<>> /\ heard[m] .op = "close"
  <2>1. n + 1 = m
    BY <1>1, <1>5, <1>7, ProperAt
  <2>2. Len(<<>>) = 0 /\ m # 0
    BY <1>5
  <2>3. heard # <<>>
    BY <2>2
  <2> QED BY <1>1, <1>5, <2>1, <2>3
<1>8. batch' = <<>> /\ inbuf' = <<>>
  BY <1>1, <1>5
<1> QED BY <1>1, <1>3, <1>4, <1>5, <1>6, <1>7, <1>8, ToldPeer

\* A ping is answered, and the message it came in the middle of goes on.
LEMMA HandlePingPeer == ASSUME PeerInv, EndpointInv, HandlePing PROVE PeerInv'
<1> DEFINE got == Consume(ep.frags, batch[1])
<1>1. /\ batch # <<>> /\ batch' = Tail(batch) /\ UNCHANGED <<role, heard, inbuf>>
      /\ got.status = 0 /\ batch[1][2].op \in Controls /\ ep' = [ep EXCEPT !.frags = got.frags]
  BY DEF HandlePing, AtFrame, Controls
<1>2. got.message = <<>>
  BY <1>1 DEF Consume, Consumed
<1> QED BY <1>1, <1>2, QuietPeer

\* A pong, or a fragment that is not the last.
LEMMA HandleQuietPeer == ASSUME PeerInv, EndpointInv, HandleQuietFrame PROVE PeerInv'
<1>1. /\ batch # <<>> /\ batch' = Tail(batch) /\ UNCHANGED <<role, heard, inbuf>>
      /\ Consume(ep.frags, batch[1]).status = 0 /\ Consume(ep.frags, batch[1]).message = <<>>
      /\ ep' = [ep EXCEPT !.frags = Consume(ep.frags, batch[1]).frags]
  BY DEF HandleQuietFrame, AtFrame
<1> QED BY <1>1, QuietPeer

\* The last frame of a message: on_message, or close_for_error if it does not inflate.
LEMMA HandleMessagePeer == ASSUME PeerInv, EndpointInv, HandleMessage PROVE PeerInv'
<1> DEFINE n == Len(heard) - Len(batch)
           got == Consume(ep.frags, batch[1])
           kept == [ep EXCEPT !.frags = got.frags]
           err == InflateError(got.message)
<1>1. /\ batch # <<>> /\ UNCHANGED <<role, heard, inbuf>> /\ got.status = 0 /\ got.message # <<>>
      /\ IF err # 0
         THEN ep' = NotifyClose(Call(kept, "error", err), err) /\ batch' = <<>>
         ELSE ep' = Call(kept, "message", Assembled(got.message)) /\ batch' = Tail(batch)
  BY DEF HandleMessage, CloseForError, AtFrame
<1>2. CASE err = 0
  BY <1>1, <1>2, MessagePeer
<1>3. CASE err # 0
  <2>1. AtNext(n)
    BY <1>1, FirstFrame
  <2>2. /\ DOMAIN kept = EpFields /\ kept.calls = ep.calls /\ kept.shook = ep.shook /\ kept.zip = ep.zip
        /\ kept.parsing = ep.parsing
    BY DEF EndpointInv, CallInv, CallBase, IsEp, EpFields
  <2> HIDE DEF n, got, kept
  <2>3. ASSUME Proper PROVE FALSE
    <3>1. /\ Consumes(n, got, ep.frags) /\ n \in Nat /\ n + 1 <= Len(heard) /\ Len(heard) \in Nat
      BY <2>1, <2>3 DEF AtNext, got
    <3>2. Grows(heard, ep.frags, n, got.message)
      BY <1>1, <3>1 DEF Consumes
    <3> QED BY <1>3, <2>3, <3>1, <3>2, InflateIs
  <2>4. ~Proper
    BY <2>3
  <2> HIDE DEF err
  <2> QED BY <1>1, <1>3, <2>2, <2>4, FrameErrorPeer
<1> QED BY <1>2, <1>3

-----------------------------------------------------------------------------
(* Reading on: what is said of the items so far stays true.                *)

\* g begins as h does.
Begins(g, h, n) == n \in Nat /\ \A i \in 1..n : g[i] = h[i]

\* The messages up to a position depend on the items up to it.
LEMMA SameSoFar ==
  ASSUME NEW g, NEW h, NEW n, Begins(g, h, n), NEW j \in 0..n
  PROVE  /\ Starts(g, j) = Starts(h, j) /\ MessageAt(g, j) = MessageAt(h, j)
         /\ Prior(g, j + 1) = Prior(h, j + 1) /\ SumAt(g, MessageAt(g, j)) = SumAt(h, MessageAt(h, j))
<1>1. /\ \A i \in 1..j : g[i] = h[i]
      /\ \A i \in 1..j : \A k \in i + 1..j : k \in 1..j
      /\ j + 1 - 1 = j
  <2>1. j \in Nat /\ n \in Nat /\ j <= n
    BY DEF Begins
  <2>2. \A i \in 1..j : i \in 1..n
    BY <2>1
  <2> QED BY <2>1, <2>2 DEF Begins
<1>2. Starts(g, j) = Starts(h, j)
  <2>1. ASSUME NEW i PROVE i \in Starts(g, j) <=> i \in Starts(h, j)
    BY <1>1 DEF Starts
  <2> QED BY <2>1
<1>3. MessageAt(g, j) = MessageAt(h, j)
  <2>1. ASSUME NEW i PROVE i \in MessageAt(g, j) <=> i \in MessageAt(h, j)
    BY <1>1, <1>2 DEF MessageAt
  <2> QED BY <2>1
<1>4. Prior(g, j + 1) = Prior(h, j + 1)
  <2>1. ASSUME NEW i PROVE i \in Prior(g, j + 1) <=> i \in Prior(h, j + 1)
    BY <1>1 DEF Prior
  <2> QED BY <2>1
<1>5. SumAt(g, MessageAt(g, j)) = SumAt(h, MessageAt(h, j))
  <2> DEFINE S == MessageAt(h, j)
  <2>1. \A k \in S : g[k] = h[k]
    BY <1>1 DEF MessageAt
  <2> HIDE DEF S
  <2>2. [k \in S |-> g[k].size] = [k \in S |-> h[k].size]
    BY <2>1
  <2>3. SumAt(g, S) = SumAt(h, S)
    BY <2>2 DEF SumAt
  <2> QED BY <1>3, <2>3 DEF S
<1> QED BY <1>2, <1>3, <1>4, <1>5

\* The fragments are those of the same message.
LEMMA HeldMore ==
  ASSUME NEW g, NEW h, NEW m, Begins(g, h, m), NEW n \in 0..m, NEW fs, Held(h, fs, n)
  PROVE  Held(g, fs, n)
<1>1. /\ MessageAt(g, n) = MessageAt(h, n) /\ Prior(g, n + 1) = Prior(h, n + 1)
      /\ SumAt(g, MessageAt(g, n)) = SumAt(h, MessageAt(h, n))
  BY SameSoFar
<1>2. \A i \in 1..n : g[i] = h[i] /\ i \in 1..m
  BY DEF Begins
<1>3. \A j \in Prior(h, n + 1) : j \in 1..n
  <2>1. n + 1 - 1 = n
    BY DEF Begins
  <2> QED BY <2>1 DEF Prior
<1>4. Taken(g, fs, n)
  BY <1>2 DEF Held, Taken
<1> QED BY <1>1, <1>2, <1>3, <1>4 DEF Held

\* The messages that have ended are the same.
LEMMA EndsMore ==
  ASSUME NEW g, NEW h, Begins(g, h, Len(h)), Len(g) \in Nat, Len(h) <= Len(g), NEW n \in 0..Len(h)
  PROVE  EndsTo(g, n) = EndsTo(h, n)
<1>1. ASSUME NEW j PROVE j \in EndsTo(g, n) <=> j \in EndsTo(h, n)
  <2>1. Len(h) \in Nat /\ n \in Nat /\ n <= Len(h)
    BY DEF Begins
  <2>2. j \in 1..Len(h) /\ j <= n => j \in 1..Len(g) /\ j \in 0..Len(h)
    BY <2>1
  <2>3. j \in 1..Len(g) /\ j <= n => j \in 1..Len(h) /\ j \in 0..Len(h)
    BY <2>1
  <2>4. j \in 1..Len(h) => g[j] = h[j]
    BY DEF Begins
  <2>5. j \in 0..Len(h) => Starts(g, j) = Starts(h, j)
    BY SameSoFar
  <2> QED BY <2>2, <2>3, <2>4, <2>5 DEF EndsTo, Ends
<1> QED BY <1>1

\* What on_message got stays what was sent.
LEMMA AnsweredMore ==
  ASSUME NEW g, NEW h, Begins(g, h, Len(h)), Len(g) \in Nat, Len(h) <= Len(g), NEW q, Answered(h, q)
  PROVE  Answered(g, q)
<1>1. ASSUME NEW ids, Sound(h, ids) PROVE Sound(g, ids) /\ EndsTo(g, Last(ids)) = EndsTo(h, Last(ids))
  <2> DEFINE j == Last(ids)
  <2>1. j \in 1..Len(h) /\ Len(h) \in Nat
    BY <1>1 DEF Sound, Begins
  <2> HIDE DEF j
  <2>2. j \in 1..Len(g) /\ j \in 0..Len(h)
    BY <2>1
  <2>3. MessageAt(g, j) = MessageAt(h, j)
    BY <2>2, SameSoFar
  <2>4. EndsTo(g, j) = EndsTo(h, j)
    BY <2>2, EndsMore
  <2> QED BY <1>1, <2>2, <2>3, <2>4 DEF Sound, j
<1> QED BY <1>1 DEF Answered

\* A peer that is proper has been so far, and has not closed before its last item.
LEMMA ProperLess ==
  ASSUME Begins(heard', heard, Len(heard)), Len(heard') \in Nat, Len(heard) < Len(heard'),
         role' = role, ep'.zip = ep.zip, Proper'
  PROVE  Proper /\ \A i \in 1..Len(heard) : heard[i].op # "close"
<1> DEFINE m == Len(heard)
<1>1. m \in Nat /\ m < Len(heard')
  BY DEF Begins
<1>2. ASSUME NEW i \in 1..m
      PROVE  /\ heard'[i] = heard[i] /\ i \in 1..Len(heard') /\ i # Len(heard')
             /\ MessageAt(heard', i) = MessageAt(heard, i) /\ Prior(heard', i) = Prior(heard, i)
             /\ SumAt(heard', MessageAt(heard', i)) = SumAt(heard, MessageAt(heard, i))
             /\ \A j \in Prior(heard, i) : heard'[j] = heard[j]
  <2>1. i \in 1..Len(heard') /\ i # Len(heard') /\ i \in 0..m /\ i - 1 \in 0..m /\ i - 1 + 1 = i
        /\ \A j \in 1..i - 1 : j \in 1..m
    BY <1>1
  <2>2. heard'[i] = heard[i]
    BY DEF Begins
  <2>3. /\ MessageAt(heard', i) = MessageAt(heard, i)
        /\ SumAt(heard', MessageAt(heard', i)) = SumAt(heard, MessageAt(heard, i))
    BY <2>1, SameSoFar
  <2>4. Prior(heard', i) = Prior(heard, i)
    <3>1. \A j \in 0..m : Prior(heard', j + 1) = Prior(heard, j + 1)
      BY SameSoFar
    <3>2. Prior(heard', i - 1 + 1) = Prior(heard, i - 1 + 1)
      BY <2>1, <3>1
    <3> QED BY <2>1, <3>2
  <2>5. \A j \in Prior(heard, i) : heard'[j] = heard[j]
    <3>1. \A j \in Prior(heard, i) : j \in 1..m
      BY <2>1 DEF Prior
    <3> QED BY <3>1 DEF Begins
  <2> QED BY <2>1, <2>2, <2>3, <2>4, <2>5
<1>3. ASSUME NEW i \in 1..m
      PROVE  /\ heard[i].op \in {"good", "bad"} => ~Refuse(heard[i])
             /\ heard[i].op \notin {"good", "bad", "plain", "plainclose"} => Lawful(heard[i])
             /\ heard[i].op # "close"
             /\ IsData(heard[i]) =>
                  /\ (heard[i].op = "data") <=> \A j \in Prior(heard, i) : heard[j].fin
                  /\ SumAt(heard, MessageAt(heard, i)) <= MaxMessage
  <2> DEFINE f == heard'[i]
  <2>1. f = heard[i] /\ i \in 1..Len(heard') /\ i # Len(heard')
    BY <1>2
  <2>2. f.op \in {"good", "bad"} => ~Refuse(heard[i])
    BY <2>1 DEF Proper, Refuse
  <2>3. f.op \notin {"good", "bad", "plain", "plainclose"} => Lawful(heard[i])
    <3>1. f.op \notin {"good", "bad", "plain", "plainclose"} => Lawful(heard[i])'
      BY <2>1 DEF Proper
    <3> DEFINE p == heard[i]
    <3>2. Lawful(p)' => Lawful(p)
      <4>1. p' = p /\ ep'.zip = ep.zip
        BY <2>1
      <4> HIDE DEF p, f
      <4> QED BY <4>1 DEF Lawful
    <3> QED BY <3>1, <3>2
  <2>4. f.op # "close"
    BY <2>1 DEF Proper
  <2>5. IsData(f) => /\ (f.op = "data") <=> \A j \in Prior(heard', i) : heard'[j].fin
                     /\ SumAt(heard', MessageAt(heard', i)) <= MaxMessage
    BY <2>1 DEF Proper, SumAt
  <2> HIDE DEF f
  <2> QED BY <1>2, <2>1, <2>2, <2>3, <2>4, <2>5
<1>4. Proper
  BY <1>3 DEF Proper, SumAt
<1> QED BY <1>3, <1>4

\* handle_read: what was read comes behind what is left of it.
LEMMA ReadPeer == ASSUME PeerInv, EndpointInv, Read PROVE PeerInv'
<1>1. /\ batch = <<>> /\ ~ep.parsing /\ tcp.conn # "down" /\ UNCHANGED <<role, tcp, batch, queue, off, ticks>>
      /\ ep' = [ep EXCEPT !.parsing = TRUE]
  BY DEF Read, Idle
<1>2. PICK n \in 1..MaxRead :
        \E items \in [1..n -> (IF ep.shook THEN {} ELSE Openings)
                                  \cup (IF off = "none" THEN Frames ELSE FewFrames)] :
         /\ \A i \in 1..n : items[i] \in Openings <=>
              \/ ~ep.shook /\ \A j \in 1..(i - 1) : items[j].op # "good"
         /\ role = "client" => \A i \in 1..n : items[i].op \notin {"plain", "plainclose"}
         /\ heard' = heard \o items
         /\ inbuf' = inbuf \o [i \in 1..n |-> <<Len(heard) + i, items[i]>>]
  BY DEF Read
<1>3. PICK items \in [1..n -> (IF ep.shook THEN {} ELSE Openings)
                                  \cup (IF off = "none" THEN Frames ELSE FewFrames)] :
         /\ \A i \in 1..n : items[i] \in Openings <=>
              \/ ~ep.shook /\ \A j \in 1..(i - 1) : items[j].op # "good"
         /\ role = "client" => \A i \in 1..n : items[i].op \notin {"plain", "plainclose"}
         /\ heard' = heard \o items
         /\ inbuf' = inbuf \o [i \in 1..n |-> <<Len(heard) + i, items[i]>>]
  BY <1>2
<1>4. /\ items \in [1..n -> Item] /\ n \in Nat \ {0}
      /\ \A i \in 1..n : items[i] \in Openings \/ items[i] \in FrameHeaders
      /\ ep.shook => \A i \in 1..n : items[i] \in FrameHeaders
  BY BoundsAssumption, FramesAssumption DEF Item
<1> DEFINE a == Len(heard)
           b == Len(inbuf)
<1>5. heard \in Seq(Item) /\ Rest(inbuf, heard)
  BY DEF PeerInv, PlaceInv
<1>6. /\ heard' \in Seq(Item) /\ Len(heard') = a + n /\ Len(inbuf') = b + n /\ b \in Nat /\ a \in Nat
      /\ \A i \in 1..a : heard'[i] = heard[i]
      /\ \A i \in 1..n : heard'[a + i] = items[i]
      /\ \A k \in 1..b : inbuf'[k] = inbuf[k]
      /\ \A i \in 1..n : inbuf'[b + i] = <<a + i, items[i]>>
      /\ Rest(inbuf', heard')
  <2>1. Longer(heard, inbuf, n, items, heard', inbuf')
    <3> DEFINE g == heard \o items
               r == inbuf \o [i \in 1..n |-> <<Len(heard) + i, items[i]>>]
    <3>1. heard' = g /\ inbuf' = r
      BY <1>3, Zenon
    <3>2. n \in Nat /\ items \in [1..n -> Item]
      BY <1>4
    <3>3. Longer(heard, inbuf, n, items, g, r)
      BY ONLY <1>5, <3>2, RestMore
    <3> HIDE DEF g, r
    <3> QED BY <3>1, <3>3
  <2> QED BY <2>1 DEF Longer
<1>7. /\ ep'.shook = ep.shook /\ ep'.zip = ep.zip /\ ep'.notified = ep.notified /\ ep'.calls = ep.calls
      /\ ep'.frags = ep.frags /\ ep'.parsing = TRUE
  BY <1>1 DEF EndpointInv, CallInv, CallBase, IsEp, EpFields
<1>8. /\ Begins(heard', heard, a) /\ Len(heard') \in Nat /\ Len(heard) < Len(heard') /\ Len(heard) <= Len(heard')
      /\ batch' = <<>> /\ role' = role /\ tcp' = tcp
  BY <1>1, <1>4, <1>6 DEF Begins
<1>9. Proper' => Proper /\ \A i \in 1..a : heard[i].op # "close"
  BY <1>7, <1>8, ProperLess
<1> HIDE DEF a, b
<1>10. /\ \A k \in 1..b + n : k \in 1..b \/ \E i \in 1..n : k = b + i
       /\ \A k \in 1..a + n : k \in 1..a \/ \E i \in 1..n : k = a + i
  <2>1. \A k \in 1..b + n : k \in 1..b \/ (k - b \in 1..n /\ k = b + (k - b))
    BY <1>4, <1>6
  <2>2. \A k \in 1..a + n : k \in 1..a \/ (k - a \in 1..n /\ k = a + (k - a))
    BY <1>4, <1>6
  <2> QED BY <2>1, <2>2
<1>11. PlaceInv'
  <2>1. Rest(batch', heard') /\ Len(batch') = 0 /\ 1..0 = {}
    BY <1>8, RestNone
  <2>2. ep'.shook => \A k \in 1..Len(inbuf') : inbuf'[k][2] \in FrameHeaders
    <3>1. ASSUME ep.shook, NEW k \in 1..b + n PROVE inbuf'[k][2] \in FrameHeaders
      <4>1. CASE k \in 1..b
        BY <1>6, <3>1, <4>1 DEF PeerInv, PlaceInv, b
      <4>2. ASSUME NEW i \in 1..n, k = b + i PROVE inbuf'[k][2] \in FrameHeaders
        <5>1. inbuf'[k] = <<a + i, items[i]>> /\ items[i] \in FrameHeaders
          BY <1>4, <1>6, <3>1, <4>2
        <5> QED BY <5>1
      <4> QED BY <1>10, <4>1, <4>2
    <3> QED BY <1>6, <1>7, <3>1
  <2>3. role' = "client" => \A i \in 1..Len(heard') : heard'[i].op \notin {"plain", "plainclose"}
    <3>1. ASSUME role = "client", NEW k \in 1..a + n PROVE heard'[k].op \notin {"plain", "plainclose"}
      <4>1. CASE k \in 1..a
        BY <1>6, <3>1, <4>1 DEF PeerInv, PlaceInv, a
      <4>2. ASSUME NEW i \in 1..n, k = a + i PROVE heard'[k].op \notin {"plain", "plainclose"}
        BY <1>3, <1>6, <3>1, <4>2
      <4> QED BY <1>10, <4>1, <4>2
    <3> QED BY <1>6, <1>8, <3>1
  <2>4. role' \in {"server", "client"}
    BY <1>8 DEF PeerInv, PlaceInv
  <2>5. \A k \in 1..Len(batch') : FALSE
    BY <2>1
  <2>6. (Rest(inbuf, heard) /\ Rest(batch, heard) /\ heard \in Seq(Item))'
    BY <1>6, <2>1
  <2> QED BY <1>8, <2>2, <2>3, <2>4, <2>5, <2>6 DEF PlaceInv
<1>12. OpeningInv'
  <2> SUFFICES ASSUME ~ep.shook, ep.calls = <<>>, role = "server" => tcp.conn = "up"
               PROVE  OpeningInv'
    BY <1>7, <1>8 DEF OpeningInv
  <2>1. /\ ep.frags = <<>> /\ inbuf = <<>>
        /\ \A i \in 1..(a - Len(inbuf)) : heard[i] \in Openings
    BY <1>1 DEF PeerInv, OpeningInv, a
  <2>2. b = 0 /\ a - Len(inbuf) = a /\ Len(heard') - Len(inbuf') = a
    <3>1. Len(inbuf) = 0
      BY <2>1
    <3> QED BY <1>6, <3>1 DEF b
  <2>3. Len(inbuf') = n /\ \A i \in 1..n : inbuf'[i][2] = items[i]
    <3>1. \A i \in 1..n : b + i = i
      BY <2>2
    <3> QED BY <1>4, <1>6, <2>2, <3>1
  <2>4. \A i \in 1..Len(heard') - Len(inbuf') : heard'[i] \in Openings
    BY <1>6, <2>1, <2>2
  <2>5. \A l \in 1..Len(inbuf') : inbuf'[l][2] \in Openings \/ \E k \in 1..(l - 1) : inbuf'[k][2].op = "good"
    <3>1. ASSUME NEW l \in 1..n, items[l] \notin Openings PROVE \E k \in 1..(l - 1) : inbuf'[k][2].op = "good"
      <4>1. PICK k \in 1..(l - 1) : items[k].op = "good"
        BY <1>3, <3>1
      <4>2. k \in 1..n
        BY <1>4
      <4> QED BY <2>3, <4>1, <4>2
    <3> QED BY <2>3, <3>1
  <2>6. \A k, l \in 1..Len(inbuf') : k < l /\ inbuf'[k][2].op = "good" => inbuf'[l][2] \in FrameHeaders
    <3>1. ASSUME NEW k \in 1..n, NEW l \in 1..n, k < l, items[k].op = "good" PROVE items[l] \in FrameHeaders
      <4>1. k \in 1..(l - 1)
        BY <1>4, <3>1
      <4>2. items[l] \notin Openings
        BY <1>3, <3>1, <4>1
      <4> QED BY <1>4, <4>2
    <3> QED BY <2>3, <3>1
  <2> QED BY <1>7, <2>1, <2>4, <2>5, <2>6 DEF OpeningInv
<1>13. OpenedInv'
  <2> SUFFICES ASSUME ep.shook, ~ep.notified PROVE OpenedInv'
    BY <1>7 DEF OpenedInv
  <2>1. inbuf = <<>> /\ Agree(heard, a - b - Len(batch), ep)
    BY <1>1 DEF PeerInv, OpenedInv, a, b
  <2>2. a - b - Len(batch) = a /\ a \in 0..a /\ Len(heard') - Len(inbuf') - Len(batch') = a
    <3>1. Len(inbuf) = 0 /\ Len(batch) = 0 /\ Len(batch') = 0
      BY <1>1, <1>8, <2>1
    <3> QED BY <1>4, <1>6, <3>1 DEF b
  <2>3. Held(heard, ep.frags, a) /\ Cardinality(CallsIn(ep.calls, "message")) = Cardinality(EndsTo(heard, a))
    BY <2>1, <2>2 DEF Agree
  <2>4. Held(heard', ep.frags, a)
    BY <1>8, <2>2, <2>3, HeldMore
  <2>5. EndsTo(heard', a) = EndsTo(heard, a)
    BY <1>8, <2>2, EndsMore DEF a
  <2>6. Agree(heard', a, ep')
    BY <1>7, <2>3, <2>4, <2>5 DEF Agree
  <2> QED BY <1>7, <2>2, <2>6 DEF OpenedInv
<1>14. Answered(heard', ep'.calls)
  BY <1>7, <1>8, AnsweredMore DEF PeerInv, a
<1>15. Answered(heard, ep.calls)'
  BY <1>14
<1>16. OverInv'
  <2>1. ep.notified /\ Proper => heard # <<>> /\ heard[a].op = "close"
    BY <1>1 DEF PeerInv, OverInv, a
  <2>2. heard # <<>> => a \in 1..a
    <3>1. heard # <<>> => a # 0
      BY <1>5, EmptySeq DEF a
    <3> QED BY <1>6, <3>1
  <2>3. ep.notified => ~Proper'
    BY <1>9, <2>1, <2>2
  <2>4. Called(ep', "error") <=> Called(ep, "error")
    BY <1>7 DEF Called
  <2> QED BY <1>7, <1>9, <2>3, <2>4 DEF PeerInv, OverInv
<1> QED BY <1>11, <1>12, <1>13, <1>15, <1>16 DEF PeerInv

-----------------------------------------------------------------------------
(* The opening handshake.                                                  *)

\* The first item that is left, at a connection that is not open yet: nothing was called.
AtFront(p) ==
  /\ p = Len(heard) - Len(inbuf) + 1 /\ p \in 1..Len(heard) /\ inbuf[1] = <<p, heard[p]>> /\ heard[p] \in Item
  /\ batch = <<>> /\ ep.calls = <<>> /\ ~ep.notified /\ DOMAIN ep = EpFields
  /\ Rest(Tail(inbuf), heard) /\ Len(Tail(inbuf)) = Len(inbuf) - 1 /\ Len(inbuf) \in Nat \ {0} /\ Len(heard) \in Nat
  /\ \A k \in 1..Len(inbuf) - 1 : Tail(inbuf)[k] = inbuf[k + 1] /\ k + 1 \in 1..Len(inbuf)

\* What is left to parse is the end of what was read.
LEMMA FrontIs ==
  ASSUME PeerInv, EndpointInv, ep.parsing, ~ep.shook, inbuf # <<>>
  PROVE  AtFront(Len(heard) - Len(inbuf) + 1)
<1> DEFINE p == Len(heard) - Len(inbuf) + 1
<1>1. batch = <<>> /\ ep.calls = <<>> /\ ~ep.notified /\ DOMAIN ep = EpFields
  BY DEF EndpointInv, DownInv, CallInv, CallBase, IsEp
<1>2. Len(heard) \in Nat /\ Rest(inbuf, heard) /\ \A i \in 1..Len(heard) : heard[i] \in Item
  BY LenProperties, ElementOfSeq DEF PeerInv, PlaceInv
<1>3. /\ Rest(Tail(inbuf), heard) /\ Len(Tail(inbuf)) = Len(inbuf) - 1 /\ Len(inbuf) \in Nat \ {0}
      /\ Len(inbuf) <= Len(heard) /\ inbuf[1] = <<p, heard[p]>>
      /\ \A k \in 1..Len(inbuf) - 1 : Tail(inbuf)[k] = inbuf[k + 1] /\ k + 1 \in 1..Len(inbuf)
  BY <1>2, RestTail
<1>4. p \in 1..Len(heard)
  BY <1>2, <1>3
<1>5. heard[p] \in Item
  BY <1>2, <1>4
<1> HIDE DEF p
<1>6. AtFront(p)
  BY <1>1, <1>2, <1>3, <1>4, <1>5 DEF AtFront, p
<1> QED BY <1>6 DEF p

\* The item is taken.
LEMMA PlaceTail ==
  ASSUME PlaceInv, NEW p, AtFront(p), UNCHANGED <<role, heard, batch>>, inbuf' = Tail(inbuf),
         ep'.shook => \A k \in 1..Len(inbuf) - 1 : inbuf[k + 1][2] \in FrameHeaders
  PROVE  PlaceInv'
<1>1. /\ Rest(inbuf', heard) /\ Rest(batch', heard) /\ heard \in Seq(Item) /\ batch' = <<>>
      /\ role \in {"server", "client"}
      /\ role = "client" => \A i \in 1..Len(heard) : heard[i].op \notin {"plain", "plainclose"}
  BY DEF PlaceInv, AtFront
<1>2. ep'.shook => \A k \in 1..Len(inbuf') : inbuf'[k][2] \in FrameHeaders
  BY DEF AtFront
<1>3. \A k \in 1..Len(batch') : FALSE
  <2>1. Len(<<>>) = 0 /\ 1..0 = {}
    OBVIOUS
  <2> QED BY <1>1, <2>1
<1>4. (Rest(inbuf, heard) /\ Rest(batch, heard) /\ heard \in Seq(Item))'
  BY <1>1
<1> QED BY <1>1, <1>2, <1>3, <1>4 DEF PlaceInv

\* The connection is not opened: only what is said of openings is left to show.
LEMMA ShutPeer ==
  ASSUME PeerInv, ~ep.shook, ~ep.notified, UNCHANGED <<role, heard>>, ep'.shook = ep.shook, ep'.zip = ep.zip,
         ep'.notified = ep.notified, ep'.calls = ep.calls, PlaceInv', OpeningInv'
  PROVE  PeerInv'
<1>1. Proper' <=> Proper
  BY ProperSame
<1>2. (Answered(heard, ep.calls))'
  BY DEF PeerInv
<1>3. Called(ep', "error") <=> Called(ep, "error")
  BY DEF Called
<1>4. OverInv'
  BY <1>1, <1>3 DEF PeerInv, OverInv
<1> QED BY <1>2, <1>4 DEF PeerInv, OpenedInv

\* try_websocket_upgrade, or a 101 that is accepted: the bytes behind it are frames, and no
\* message has come before it.
LEMMA UpgradePeer == ASSUME PeerInv, EndpointInv, Upgrade PROVE PeerInv'
<1> DEFINE p == Len(heard) - Len(inbuf) + 1
           zip == inbuf[1][2].zip /\ Compression
           e == [ep EXCEPT !.shook = TRUE, !.zip = zip, !.timer = (role = "server"),
                           !.parsing = Tail(inbuf) # <<>>]
           x == [cb |-> "open", arg |-> 0]
<1>1. /\ ep.parsing /\ ~ep.shook /\ inbuf # <<>> /\ (role = "server" => tcp.conn = "up")
      /\ inbuf[1][2].op = "good" /\ ep' = Call(e, "open", 0)
      /\ inbuf' = Tail(inbuf) /\ UNCHANGED <<role, heard, batch>>
  BY DEF Upgrade, Opened, Connected
<1>2. AtFront(p)
  BY <1>1, FrontIs
<1> HIDE DEF p, zip
<1>3. /\ e.shook = TRUE /\ e.parsing = (Tail(inbuf) # <<>>) /\ e.notified = ep.notified /\ e.calls = ep.calls
      /\ e.frags = ep.frags /\ DOMAIN e = EpFields
  BY <1>2 DEF AtFront, EpFields
<1> HIDE DEF e
<1>4. /\ ep'.shook /\ ~ep'.notified /\ ep'.calls = Append(<<>>, x) /\ ep'.frags = ep.frags
      /\ ~ep'.parsing => inbuf' = <<>>
  <2>1. Added(e, ep', x)
    BY <1>1, <1>3, CallIs
  <2> HIDE DEF x
  <2>2. ep'.shook /\ ~ep'.notified
    BY <1>2, <1>3, <2>1, Zenon DEF Added, AtFront
  <2>3. ep'.calls = Append(<<>>, x) /\ ep'.frags = ep.frags
    BY <1>2, <1>3, <2>1 DEF Added, AtFront
  <2>4. ~ep'.parsing => inbuf' = <<>>
    BY <1>1, <1>3, <2>1, Zenon DEF Added
  <2> QED BY <2>2, <2>3, <2>4
<1>5. x.cb = "open"
  OBVIOUS
<1> HIDE DEF x
<1>6. /\ ep.frags = <<>>
      /\ \A i \in 1..(Len(heard) - Len(inbuf)) : heard[i] \in Openings
      /\ \A k, l \in 1..Len(inbuf) : k < l /\ inbuf[k][2].op = "good" => inbuf[l][2] \in FrameHeaders
  BY <1>1, <1>2 DEF PeerInv, OpeningInv, AtFront
<1>7. PlaceInv'
  <2>1. \A k \in 1..Len(inbuf) - 1 : k + 1 \in 1..Len(inbuf) /\ 1 < k + 1 /\ 1 \in 1..Len(inbuf)
    BY <1>2 DEF AtFront
  <2>2. \A k \in 1..Len(inbuf) - 1 : inbuf[k + 1][2] \in FrameHeaders
    BY <1>1, <1>6, <2>1
  <2> QED BY <1>1, <1>2, <2>2, PlaceTail DEF PeerInv
<1>8. \A i \in 1..p : ~IsData(heard[i])
  <2>1. \A i \in 1..p : i \in 1..(Len(heard) - Len(inbuf)) \/ i = p
    BY <1>2 DEF AtFront
  <2>2. heard[p].op = "good"
    BY <1>1, <1>2 DEF AtFront
  <2>3. \A f \in Openings : ~IsData(f)
    BY DEF Openings, IsData
  <2>4. ~IsData(heard[p])
    BY <2>2 DEF IsData
  <2> QED BY <1>6, <2>1, <2>3, <2>4
<1>9. p \in Nat /\ p + 1 - 1 = p /\ Len(heard') - Len(inbuf') - Len(batch') = p
  <2>1. p = Len(heard) - Len(inbuf) + 1 /\ p \in 1..Len(heard) /\ Len(heard) \in Nat /\ Len(inbuf) \in Nat
        /\ Len(inbuf') = Len(inbuf) - 1 /\ Len(batch') = 0 /\ heard' = heard
    BY <1>1, <1>2 DEF AtFront
  <2> QED BY <2>1
<1>10. Held(heard, <<>>, p)
  <2>1. Prior(heard, p + 1) = {}
    BY <1>8, <1>9 DEF Prior
  <2>2. <<>> \in Seq(Part) /\ Len(<<>>) = 0 /\ 1..0 = {}
    OBVIOUS
  <2> QED BY <2>1, <2>2 DEF Held, Taken, Climbing
<1>11. CallsIn(ep'.calls, "message") = {} /\ CallsIn(ep'.calls, "close") = {} /\ CallsIn(ep'.calls, "error") = {}
  <2>1. <<>> \in Seq({x}) /\ CallsIn(<<>>, "message") = {} /\ CallsIn(<<>>, "close") = {} /\ CallsIn(<<>>, "error") = {}
    <3>1. Len(<<>>) = 0 /\ 1..0 = {}
      OBVIOUS
    <3> QED BY <3>1 DEF CallsIn
  <2>2. Further({x}, <<>>, x, ep'.calls)
    BY <1>4, <2>1, CallsMore
  <2>3. /\ CallsIn(ep'.calls, "message") = CallsIn(<<>>, "message") \cup {i \in {Len(<<>>) + 1} : x.cb = "message"}
        /\ CallsIn(ep'.calls, "close") = CallsIn(<<>>, "close") \cup {i \in {Len(<<>>) + 1} : x.cb = "close"}
        /\ CallsIn(ep'.calls, "error") = CallsIn(<<>>, "error") \cup {i \in {Len(<<>>) + 1} : x.cb = "error"}
    BY <2>2 DEF Further
  <2> QED BY <1>5, <2>1, <2>3
<1>12. EndsTo(heard, p) = {}
  BY <1>8 DEF EndsTo, Ends
<1>13. Agree(heard, p, ep')
  BY <1>4, <1>6, <1>10, <1>11, <1>12 DEF Agree
<1>14. OpenedInv'
  <2>1. Agree(heard', p, ep')
    BY <1>1, <1>13
  <2> QED BY <1>4, <1>9, <2>1 DEF OpenedInv
<1>15. (Answered(heard, ep.calls))'
  <2>1. GivenIn(ep'.calls) = {}
    BY <1>11 DEF GivenIn
  <2> QED BY <2>1 DEF Answered
<1>16. ~Called(ep', "error")
  BY <1>11 DEF Called, CallsIn
<1> QED BY <1>4, <1>7, <1>11, <1>14, <1>15, <1>16 DEF PeerInv, OpeningInv, OverInv

\* A handshake that is refused is no proper peer's.
LEMMA HandshakeRefusedPeer == ASSUME PeerInv, EndpointInv, HandshakeRefused PROVE PeerInv'
<1> DEFINE p == Len(heard) - Len(inbuf) + 1
<1>1. /\ ep.parsing /\ ~ep.shook /\ inbuf # <<>> /\ Refuse(inbuf[1][2])
      /\ inbuf' = Tail(inbuf) /\ UNCHANGED <<role, heard, batch>>
  BY DEF HandshakeRefused
<1>2. AtFront(p) /\ SaidInv
  BY <1>1, FrontIs DEF EndpointInv
<1> HIDE DEF p
<1>3. CASE role = "server"
  <2>1. ep' = [ep EXCEPT !.parsing = FALSE] /\ tcp.conn = "up" /\ tcp' = Shutdown(SendFrame(tcp, Frame("http", "loop")))
    BY <1>3 DEF HandshakeRefused, Connected
  <2>2. /\ ep'.shook = ep.shook /\ ep'.zip = ep.zip /\ ep'.notified = ep.notified /\ ep'.calls = ep.calls
    BY <1>2, <2>1 DEF AtFront, EpFields
  <2>3. tcp'.conn = "closing"
    <3> DEFINE c == SendFrame(tcp, Frame("http", "loop"))
    <3>1. Frame("http", "loop") \in Word
      BY DEF Frame, Word
    <3>2. IsTcp(c) /\ c.conn = tcp.conn
      BY <1>2, <3>1, WriteShape DEF SaidInv, SendFrame
    <3> HIDE DEF c
    <3>3. Shutdown(c).conn = "closing"
      BY <2>1, <3>2, ShutdownShape
    <3> QED BY <2>1, <3>3 DEF c
  <2>4. PlaceInv'
    BY <1>1, <1>2, <2>2, PlaceTail DEF PeerInv
  <2>5. OpeningInv'
    BY <1>1, <1>3, <2>3 DEF OpeningInv
  <2> QED BY <1>1, <1>2, <2>2, <2>4, <2>5, ShutPeer DEF AtFront
<1>4. CASE role = "client"
  <2> DEFINE e == [ep EXCEPT !.parsing = FALSE]
             x == [cb |-> "error", arg |-> 0]
  <2>1. ep' = Call(e, "error", 0)
    BY <1>4 DEF HandshakeRefused
  <2>2. /\ e.shook = ep.shook /\ e.zip = ep.zip /\ e.notified = ep.notified /\ e.calls = <<>>
        /\ DOMAIN e = EpFields
    BY <1>2 DEF AtFront, EpFields
  <2> HIDE DEF e
  <2>3. x.cb = "error"
    OBVIOUS
  <2>4. Added(e, ep', x)
    BY <2>1, <2>2, CallIs
  <2> HIDE DEF x
  <2>5. /\ ep'.shook = ep.shook /\ ep'.zip = ep.zip /\ ep'.notified = ep.notified /\ ep'.calls = Append(<<>>, x)
    BY <2>2, <2>4 DEF Added
  <2>6. PlaceInv'
    BY <1>1, <1>2, <2>5, PlaceTail DEF PeerInv
  <2>7. heard[p].op \in {"good", "bad"} /\ Refuse(heard[p]) /\ p \in 1..Len(heard)
    <3>1. heard[p] \in Openings
      <4>1. /\ 1 \in 1..Len(inbuf) /\ 1 - 1 = 0 /\ 1..0 = {}
            /\ inbuf[1][2] = heard[p] /\ ep.calls = <<>>
        BY <1>2 DEF AtFront
      <4>2. \A l \in 1..Len(inbuf) : inbuf[l][2] \in Openings \/ \E k \in 1..(l - 1) : inbuf[k][2].op = "good"
        BY <1>1, <1>4, <4>1 DEF PeerInv, OpeningInv
      <4>3. inbuf[1][2] \in Openings \/ \E k \in 1..0 : inbuf[k][2].op = "good"
        BY <4>1, <4>2
      <4> QED BY <4>1, <4>3
    <3>2. Refuse(heard[p]) /\ p \in 1..Len(heard)
      BY <1>1, <1>2 DEF AtFront
    <3>3. heard[p].op \in {"good", "bad"}
      BY <3>1, <3>2 DEF Refuse, Openings
    <3> QED BY <3>2, <3>3
  <2>8. ~Proper
    BY <2>7 DEF Proper
  <2>9. ~Proper'
    BY <1>1, <2>5, <2>8, ProperSame
  <2>10. (Answered(heard, ep.calls))'
    <3>1. CallsIn(<<>>, "message") = {} /\ <<>> \in Seq({x})
      <4>1. Len(<<>>) = 0 /\ 1..0 = {}
        OBVIOUS
      <4> QED BY <4>1 DEF CallsIn
    <3>2. Further({x}, <<>>, x, ep'.calls)
      BY <2>5, <3>1, CallsMore
    <3>3. CallsIn(ep'.calls, "message") = CallsIn(<<>>, "message") \cup {i \in {Len(<<>>) + 1} : x.cb = "message"}
      BY <3>2 DEF Further
    <3>4. GivenIn(ep'.calls) = {}
      BY <2>3, <3>1, <3>3 DEF GivenIn
    <3> QED BY <3>4 DEF Answered
  <2>11. ep'.calls # <<>>
    BY <2>5
  <2>12. OverInv'
    BY <1>2, <2>5, <2>9 DEF OverInv, AtFront
  <2> QED BY <1>1, <1>2, <2>5, <2>6, <2>10, <2>11, <2>12 DEF PeerInv, OpeningInv, OpenedInv, AtFront
<1> QED BY <1>3, <1>4 DEF PeerInv, PlaceInv

\* An ordinary request, answered; the next is tried, unless the answer closes.
LEMMA PlainRequestPeer == ASSUME PeerInv, EndpointInv, PlainRequest PROVE PeerInv'
<1> DEFINE p == Len(heard) - Len(inbuf) + 1
           c == SendFrame(tcp, Frame("http", "loop"))
           next == inbuf[1][2].op = "plain" /\ Tail(inbuf) # <<>>
<1>1. /\ ep.parsing /\ ~ep.shook /\ inbuf # <<>> /\ tcp.conn = "up"
      /\ inbuf[1][2].op \in {"plain", "plainclose"}
      /\ tcp' = (IF inbuf[1][2].op = "plainclose" THEN Shutdown(c) ELSE c)
      /\ ep' = [ep EXCEPT !.parsing = next]
      /\ inbuf' = Tail(inbuf) /\ UNCHANGED <<role, heard, batch>>
  BY DEF PlainRequest, Connected
<1>2. AtFront(p) /\ SaidInv
  BY <1>1, FrontIs DEF EndpointInv
<1> HIDE DEF p
<1>3. /\ ep'.shook = ep.shook /\ ep'.zip = ep.zip /\ ep'.notified = ep.notified /\ ep'.calls = ep.calls
      /\ ep'.frags = ep.frags /\ ep'.parsing = next
  BY <1>1, <1>2 DEF AtFront, EpFields
<1>4. PlaceInv'
  BY <1>1, <1>2, <1>3, PlaceTail DEF PeerInv
<1>5. IsTcp(c) /\ c.conn = tcp.conn
  <2>1. Frame("http", "loop") \in Word
    BY DEF Frame, Word
  <2> QED BY <1>2, <2>1, WriteShape DEF SaidInv, SendFrame
<1> HIDE DEF c
<1>6. inbuf[1][2] = heard[p] /\ heard[p].op \in {"plain", "plainclose"} /\ heard[p] \in Openings
  <2>1. inbuf[1][2] = heard[p] /\ heard[p] \in Item
    BY <1>2 DEF AtFront
  <2> QED BY <1>1, <2>1 DEF Item, FrameHeaders, Controls
<1>7. OpeningInv'
  <2>1. CASE inbuf[1][2].op = "plainclose"
    <3>1. tcp'.conn = "closing"
      BY <1>1, <1>5, <2>1, ShutdownShape
    <3>2. role = "server"
      <4>1. p \in 1..Len(heard)
        BY <1>2 DEF AtFront
      <4> QED BY <1>6, <4>1 DEF PeerInv, PlaceInv
    <3> QED BY <1>1, <3>1, <3>2 DEF OpeningInv
  <2>2. CASE inbuf[1][2].op = "plain"
    <3>1. /\ ep.frags = <<>>
          /\ \A i \in 1..(Len(heard) - Len(inbuf)) : heard[i] \in Openings
          /\ \A l \in 1..Len(inbuf) : inbuf[l][2] \in Openings \/ \E k \in 1..(l - 1) : inbuf[k][2].op = "good"
          /\ \A k, l \in 1..Len(inbuf) : k < l /\ inbuf[k][2].op = "good" => inbuf[l][2] \in FrameHeaders
      BY <1>1, <1>2 DEF PeerInv, OpeningInv, AtFront
    <3>2. /\ Len(inbuf') = Len(inbuf) - 1 /\ Len(inbuf) \in Nat \ {0} /\ Len(heard) \in Nat
          /\ p = Len(heard) - Len(inbuf) + 1 /\ heard' = heard
          /\ \A k \in 1..Len(inbuf) - 1 : inbuf'[k] = inbuf[k + 1] /\ k + 1 \in 1..Len(inbuf)
      BY <1>1, <1>2 DEF AtFront
    <3> DEFINE m == Len(inbuf)
    <3>3. \A i \in 1..Len(heard') - Len(inbuf') : heard'[i] \in Openings
      <4>1. Len(heard') - Len(inbuf') = p /\ \A i \in 1..p : i \in 1..(Len(heard) - Len(inbuf)) \/ i = p
        BY <3>2
      <4> QED BY <1>6, <3>1, <3>2, <4>1
    <3>4. \A l \in 1..m - 1 : inbuf'[l][2] \in Openings \/ \E k \in 1..(l - 1) : inbuf'[k][2].op = "good"
      <4>1. ASSUME NEW l \in 1..m - 1, inbuf'[l][2] \notin Openings
            PROVE  \E k \in 1..(l - 1) : inbuf'[k][2].op = "good"
        <5>1. l + 1 \in 1..m /\ inbuf'[l] = inbuf[l + 1]
          BY <3>2
        <5>2. PICK k \in 1..(l + 1 - 1) : inbuf[k][2].op = "good"
          BY <3>1, <4>1, <5>1
        <5>3. k # 1
          BY <2>2, <5>2
        <5>4. k - 1 \in 1..(l - 1) /\ k - 1 \in 1..m - 1 /\ (k - 1) + 1 = k
          BY <3>2, <5>1, <5>2, <5>3
        <5>5. inbuf'[k - 1] = inbuf[(k - 1) + 1]
          BY <3>2, <5>4
        <5>6. inbuf'[k - 1][2].op = "good"
          BY <5>2, <5>4, <5>5
        <5> QED BY <5>4, <5>6
      <4> QED BY <4>1
    <3>5. \A k, l \in 1..m - 1 : k < l /\ inbuf'[k][2].op = "good" => inbuf'[l][2] \in FrameHeaders
      <4>1. ASSUME NEW k \in 1..m - 1, NEW l \in 1..m - 1, k < l, inbuf'[k][2].op = "good"
            PROVE  inbuf'[l][2] \in FrameHeaders
        <5>1. k + 1 \in 1..m /\ l + 1 \in 1..m /\ k + 1 < l + 1 /\ inbuf'[k] = inbuf[k + 1] /\ inbuf'[l] = inbuf[l + 1]
          BY <3>2, <4>1
        <5> QED BY <3>1, <4>1, <5>1
      <4> QED BY <4>1
    <3>6. ~ep'.parsing => inbuf' = <<>>
      BY <1>1, <1>3, <2>2, Zenon
    <3>7. Len(inbuf') = m - 1
      BY <3>2
    <3> HIDE DEF m
    <3> QED BY <1>3, <3>1, <3>3, <3>4, <3>5, <3>6, <3>7 DEF OpeningInv
  <2> QED BY <1>1, <2>1, <2>2
<1> QED BY <1>1, <1>2, <1>3, <1>4, <1>7, ShutPeer DEF AtFront

\* A server that has shut down parses no more.
LEMMA IgnoreRequestsPeer == ASSUME PeerInv, EndpointInv, IgnoreRequests PROVE PeerInv'
<1>1. /\ role = "server" /\ ~ep.shook /\ tcp.conn # "up" /\ ep' = [ep EXCEPT !.parsing = FALSE]
      /\ UNCHANGED <<role, tcp, heard, inbuf, batch>>
  BY DEF IgnoreRequests, Connected
<1>2. DOMAIN ep = EpFields /\ ~ep.notified /\ batch = <<>>
  BY <1>1 DEF EndpointInv, CallInv, CallBase, IsEp, DownInv
<1>3. /\ ep'.shook = ep.shook /\ ep'.zip = ep.zip /\ ep'.notified = ep.notified /\ ep'.calls = ep.calls
  BY <1>1, <1>2 DEF EpFields
<1>4. PlaceInv'
  BY <1>1, <1>2, <1>3 DEF PeerInv, PlaceInv
<1>5. OpeningInv'
  BY <1>1 DEF OpeningInv
<1> QED BY <1>1, <1>2, <1>3, <1>4, <1>5, ShutPeer

-----------------------------------------------------------------------------
(* The frame parser, and the other events of the loop.                     *)

\* WebSocketFrameParser::parse: all the frames of a read go to the handler, or the first bad one
\* is an error of a peer that broke the rules.
LEMMA ParseFramesPeer == ASSUME PeerInv, EndpointInv, ParseFrames PROVE PeerInv'
<1> DEFINE bad == {i \in 1..Len(inbuf) : FrameError(inbuf[i][2]) # 0}
           e == [ep EXCEPT !.parsing = FALSE]
<1>1. ep.parsing /\ ep.shook /\ UNCHANGED <<role, heard>>
  BY DEF ParseFrames
<1>2. /\ IsEp(ep) /\ DOMAIN ep = EpFields /\ tcp.conn # "down" /\ batch = <<>>
  BY <1>1 DEF EndpointInv, CallInv, CallBase, IsEp, DownInv, Idle, PeerInv, PlaceInv
<1>3. /\ Len(heard) \in Nat /\ Rest(inbuf, heard) /\ Len(inbuf) \in Nat
      /\ \A k \in 1..Len(inbuf) : inbuf[k][2] \in FrameHeaders
  <2>1. heard \in Seq(Item) /\ Rest(inbuf, heard) /\ inbuf \in Seq(Nat \X Item)
    BY DEF PeerInv, PlaceInv, Rest
  <2> QED BY <1>1, <2>1, LenProperties DEF PeerInv, PlaceInv
<1>4. /\ e.shook = ep.shook /\ e.zip = ep.zip /\ e.notified = ep.notified /\ e.calls = ep.calls
      /\ e.frags = ep.frags /\ e.parsing = FALSE /\ DOMAIN e = EpFields
  BY <1>2 DEF EpFields
<1>5. CASE bad = {}
  <2>1. batch' = inbuf /\ inbuf' = <<>> /\ ep' = e /\ UNCHANGED tcp
    BY <1>5 DEF ParseFrames
  <2>2. \A k \in 1..Len(inbuf) : inbuf[k][2].op # "reserved"
    <3>1. \A k \in 1..Len(inbuf) : FrameError(inbuf[k][2]) = 0
      BY <1>5
    <3> QED BY <3>1 DEF FrameError
  <2> HIDE DEF e
  <2>3. /\ ep'.shook = ep.shook /\ ep'.zip = ep.zip /\ ep'.notified = ep.notified /\ ep'.calls = ep.calls
        /\ ep'.frags = ep.frags /\ ep'.parsing = FALSE
    BY <1>4, <2>1
  <2>4. Rest(<<>>, heard) /\ Len(<<>>) = 0 /\ 1..0 = {}
    BY <1>3, RestNone
  <2>5. PlaceInv'
    <3>1. (Rest(inbuf, heard) /\ Rest(batch, heard))'
      BY <1>1, <1>3, <2>1, <2>4
    <3>2. /\ \A k \in 1..Len(batch') : batch'[k][2] \in FrameHeaders /\ batch'[k][2].op # "reserved"
          /\ \A k \in 1..Len(inbuf') : FALSE
      BY <1>3, <2>1, <2>2, <2>4
    <3>3. inbuf' = <<>> /\ ~ep'.parsing
      BY <2>1, <2>3, Zenon
    <3> QED BY <1>1, <3>1, <3>2, <3>3 DEF PeerInv, PlaceInv
  <2>6. Proper' <=> Proper
    BY <1>1, <2>3, ProperSame
  <2>7. OpenedInv'
    <3>1. ASSUME ~ep.notified PROVE Agree(heard, Len(heard') - Len(inbuf') - Len(batch'), ep')
      <4>1. Agree(heard, Len(heard) - Len(inbuf) - Len(batch), ep)
        BY <1>1, <3>1 DEF PeerInv, OpenedInv
      <4>2. Len(heard') - Len(inbuf') - Len(batch') = Len(heard) - Len(inbuf) - Len(batch)
        <5>1. Len(batch) = 0 /\ Len(inbuf') = 0 /\ batch' = inbuf /\ heard' = heard
          BY <1>1, <1>2, <2>1, <2>4
        <5> QED BY <1>3, <5>1
      <4>3. Agree(heard, Len(heard) - Len(inbuf) - Len(batch), ep')
        BY <2>3, <4>1 DEF Agree
      <4> QED BY <4>2, <4>3
    <3>2. ASSUME ~ep.notified PROVE Agree(heard', Len(heard') - Len(inbuf') - Len(batch'), ep')
      BY <1>1, <3>1, <3>2
    <3> QED BY <2>1, <2>3, <3>2 DEF OpenedInv
  <2>8. Called(ep', "error") <=> Called(ep, "error")
    BY <2>3 DEF Called
  <2>9. OverInv'
    <3>1. ep.notified => ~Proper \/ (batch' = <<>> /\ inbuf' = <<>> /\ heard # <<>> /\ heard[Len(heard)].op = "close")
      BY <1>2, <2>1 DEF PeerInv, OverInv
    <3> QED BY <1>1, <2>3, <2>6, <2>8, <3>1 DEF PeerInv, OverInv
  <2>10. (Answered(heard, ep.calls))'
    BY <1>1, <2>3 DEF PeerInv
  <2> QED BY <1>1, <2>3, <2>5, <2>7, <2>9, <2>10 DEF PeerInv, OpeningInv
<1>6. CASE bad # {}
  <2> DEFINE first == CHOOSE i \in bad : \A j \in bad : i <= j
  <2>1. first \in bad
    <3>1. bad \in SUBSET Nat
      BY <1>3
    <3> HIDE DEF bad
    <3>2. \E i \in bad : \A j \in bad : i <= j
      BY <1>6, <3>1, LeastOf
    <3> QED BY <3>2
  <2> DEFINE code == FrameError(inbuf[first][2])
  <2>2. /\ inbuf' = SubSeq(inbuf, first, Len(inbuf)) /\ batch' = batch
        /\ ep' = NotifyClose(Call(e, "error", code), code)
    BY <1>6 DEF ParseFrames, CloseForError
  <2>3. first \in 1..Len(inbuf) /\ FrameError(inbuf[first][2]) # 0
    BY <2>1
  <2> HIDE DEF first, code, bad, e
  <2>4. Rest(inbuf', heard) /\ \A k \in 1..Len(inbuf') : \E l \in 1..Len(inbuf) : inbuf'[k] = inbuf[l]
    BY <1>3, <2>2, <2>3, RestFrom
  <2>5. PlaceInv'
    <3>1. (Rest(inbuf, heard) /\ Rest(batch, heard))'
      BY <1>1, <2>2, <2>4 DEF PeerInv, PlaceInv
    <3>2. \A k \in 1..Len(inbuf') : inbuf'[k][2] \in FrameHeaders
      BY <1>3, <2>4
    <3> QED BY <1>1, <1>2, <2>2, <3>1, <3>2 DEF PeerInv, PlaceInv
  <2>6. ~Proper
    <3> DEFINE x == Len(heard) - Len(inbuf) + first
    <3>1. inbuf[first] = <<x, heard[x]>> /\ Len(inbuf) <= Len(heard)
      BY <1>3, <2>3 DEF Rest
    <3>2. x \in 1..Len(heard)
      BY <1>3, <2>3, <3>1
    <3> HIDE DEF x
    <3>3. heard[x] \in FrameHeaders /\ FrameError(heard[x]) # 0 /\ heard[x].size \in Nat
      BY <1>3, <2>3, <3>1 DEF FrameHeaders
    <3>4. ~Lawful(heard[x])
      BY <3>3, BoundsAssumption DEF FrameError, Lawful
    <3> QED BY <3>2, <3>3, <3>4, ProperAt
  <2> QED BY <1>1, <1>2, <1>4, <2>2, <2>5, <2>6, ErrorPeer
<1> QED BY <1>5, <1>6

\* on_connection of a connection that is no longer up.
LEMMA GonePeer ==
  ASSUME PeerInv, EndpointInv, Gone, UNCHANGED inbuf
  PROVE  PeerInv'
<1>1. UNCHANGED <<role, heard, batch, inbuf>> /\ CallBase(ep) /\ DOMAIN ep = EpFields /\ tcp'.conn = "down"
  <2>1. IsTcp(tcp) /\ tcp' = [tcp EXCEPT !.conn = "down"]
    BY DEF Gone, EndpointInv, SaidInv
  <2>2. tcp'.conn = "down"
    BY <2>1 DEF IsTcp, TcpFields
  <2> QED BY <2>2 DEF Gone, EndpointInv, CallInv, CallBase, IsEp
<1>2. CASE ep.shook
  <2>1. PICK code : ep' = NotifyClose(ep, code)
    BY <1>2 DEF Gone
  <2>2. Told(ep, ep')
    BY <1>1, <2>1, ToldIs
  <2>3. ep'.shook = ep.shook /\ ep'.parsing = ep.parsing
    BY <2>2 DEF Told
  <2>4. PlaceInv'
    BY <1>1, <2>3 DEF PeerInv, PlaceInv
  <2> QED BY <1>1, <1>2, <2>2, <2>4, ToldPeer
<1>3. CASE ~ep.shook
  <2>1. ep' = ep
    BY <1>3 DEF Gone
  <2> QED BY <1>1, <2>1, OtherStep
<1> QED BY <1>2, <1>3

\* The functors, the ping timer, the peer that reads or not, and the second thread.
LEMMA EventPeer ==
  ASSUME PeerInv, EndpointInv,
         RunSend \/ RunShutdown \/ PeerStalls \/ PeerReads \/ PingTimer \/ OffStep
  PROVE  PeerInv'
<1>1. IsTcp(tcp)
  BY DEF EndpointInv, SaidInv
<1>2. tcp'.conn = tcp.conn \/ (tcp.conn = "up" /\ tcp'.conn = "closing")
  <2>1. CASE RunSend
    <3>1. PICK op \in {"data", "close"} : tcp' = Write(tcp, Frame(op, "off"))
      BY <2>1 DEF RunSend
    <3>2. Frame(op, "off") \in Word
      BY DEF Frame, Word
    <3> QED BY <1>1, <3>1, <3>2, WriteShape
  <2>2. CASE RunShutdown
    BY <1>1, <2>2, ShutdownShape DEF RunShutdown
  <2>3. CASE PeerStalls
    BY <1>1, <2>3 DEF PeerStalls, IsTcp, TcpFields
  <2>4. CASE PeerReads
    <3> DEFINE c == [tcp EXCEPT !.full = FALSE, !.waiting = FALSE]
    <3>1. tcp' = c \/ tcp' = ShutdownInLoop(c)
      BY <2>4 DEF PeerReads
    <3>2. IsTcp(c) /\ c.conn = tcp.conn
      BY <1>1 DEF IsTcp, TcpFields
    <3> HIDE DEF c
    <3> QED BY <3>1, <3>2, ShutdownShape
  <2>5. CASE PingTimer
    <3>1. tcp' = SendFrame(tcp, Frame("ping", "loop")) \/ tcp' = tcp
      BY <2>5 DEF PingTimer
    <3>2. Frame("ping", "loop") \in Word
      BY DEF Frame, Word
    <3> QED BY <1>1, <3>1, <3>2, WriteShape DEF SendFrame
  <2>6. CASE OffStep
    <3>1. tcp' = tcp \/ tcp' = [tcp EXCEPT !.closeSent = TRUE]
          \/ (tcp.conn = "up" /\ tcp' = [tcp EXCEPT !.conn = "closing"])
      BY <2>6 DEF OffStep, OffSend, OffCloseBegin, OffCloseFrame, OffShutdown, Connected
    <3> QED BY <1>1, <3>1 DEF IsTcp, TcpFields
  <2> QED BY <2>1, <2>2, <2>3, <2>4, <2>5, <2>6
<1>3. UNCHANGED <<role, heard, inbuf, batch, ep>>
  BY DEF RunSend, RunShutdown, PeerStalls, PeerReads, PingTimer,
         OffStep, OffSend, OffCloseBegin, OffCloseFrame, OffShutdown, Off
<1> QED BY <1>2, <1>3, OtherStep

\* Nothing was read, and nothing called.
LEMMA InitPeer == Init => PeerInv
<1> SUFFICES ASSUME Init PROVE PeerInv
  OBVIOUS
<1>1. /\ heard = <<>> /\ inbuf = <<>> /\ batch = <<>> /\ role \in {"server", "client"}
      /\ ~ep.shook /\ ~ep.notified /\ ep.frags = <<>> /\ ep.calls = <<>>
  BY DEF Init
<1>2. Len(<<>>) = 0 /\ 1..0 = {} /\ 0 - 0 = 0 /\ Rest(<<>>, <<>>) /\ <<>> \in Seq(Item)
  BY RestNone
<1>3. PlaceInv
  <2>1. \A k \in 1..Len(<<>>) : FALSE
    BY <1>2
  <2> QED BY <1>1, <1>2, <2>1 DEF PlaceInv
<1>4. OpeningInv
  BY <1>1, <1>2 DEF OpeningInv
<1>5. CallsIn(<<>>, "close") = {} /\ CallsIn(<<>>, "message") = {} /\ ~Called(ep, "error")
  BY <1>1, <1>2 DEF CallsIn, Called
<1>6. Answered(heard, ep.calls)
  BY <1>1, <1>5 DEF Answered, GivenIn
<1> QED BY <1>1, <1>3, <1>4, <1>5, <1>6 DEF PeerInv, OpenedInv, OverInv

\* Every step keeps the second invariant.
LEMMA StepPeer == ASSUME PeerInv, EndpointInv, [Next]_vars PROVE PeerInv'
<1>1. CASE OpenStep
  BY <1>1, UpgradePeer, HandshakeRefusedPeer, PlainRequestPeer, IgnoreRequestsPeer DEF OpenStep
<1>2. CASE FrameStep
  BY <1>2, HandleBadFramePeer, HandlePingPeer, HandleQuietPeer, HandleClosePeer, HandleBadClosePeer,
     HandleMessagePeer DEF FrameStep
<1>3. CASE FunctorStep
  BY <1>3, EventPeer, GonePeer DEF FunctorStep, RunForceClose
<1>4. CASE PeerGone
  BY <1>4, GonePeer DEF PeerGone
<1>5. CASE UNCHANGED vars
  <2>1. UNCHANGED <<role, heard, inbuf, batch, ep, tcp>>
    BY <1>5 DEF vars
  <2> QED BY <2>1, OtherStep
<1> QED BY <1>1, <1>2, <1>3, <1>4, <1>5, ReadPeer, ParseFramesPeer, EventPeer DEF Next

-----------------------------------------------------------------------------
(* What the application sees, in order and whole.                          *)

\* on_websocket_open, on_websocket_message, on_websocket_close and on_websocket_error: open first
\* and once, one close, reported whenever the connection is down and after every error; and of a
\* peer that keeps the rules nothing comes after on_close.
THEOREM CallbacksStayOrdered == Spec => []CallbacksOrdered
<1>1. ASSUME EndpointInv, PeerInv PROVE CallbacksOrdered
  <2>1. CallbacksOnce
    BY <1>1, OnceNow
  <2>2. ASSUME Proper PROVE BeforeClose \cup Calls("close") = 1..Len(ep.calls)
    <3>1. \A j \in Calls("close") : j = Len(ep.calls)
      BY <1>1, <2>2 DEF PeerInv, OverInv, Calls, CallsIn
    <3>2. Len(ep.calls) \in Nat
      BY <1>1 DEF EndpointInv, CallInv, CallBase, IsEp
    <3>3. ASSUME NEW i \in 1..Len(ep.calls), i \notin Calls("close") PROVE i \in BeforeClose
      <4>1. ASSUME NEW j \in Calls("close") PROVE i < j
        <5>1. j = Len(ep.calls) /\ i # j
          BY <3>1, <3>3, <4>1
        <5> QED BY <3>2, <5>1
      <4> QED BY <4>1 DEF BeforeClose
    <3>4. BeforeClose \subseteq 1..Len(ep.calls) /\ Calls("close") \subseteq 1..Len(ep.calls)
      BY DEF BeforeClose, Calls
    <3> QED BY <3>3, <3>4
  <2> QED BY <2>1, <2>2 DEF CallbacksOrdered
<1>2. Init => EndpointInv /\ PeerInv
  BY InitWhole, InitPeer
<1>3. EndpointInv /\ PeerInv /\ [Next]_vars => (EndpointInv /\ PeerInv)'
  BY StepKeeps, StepPeer
<1> QED BY <1>1, <1>2, <1>3, PTL DEF Spec

\* consume and on_websocket_message: every message on_message gets before on_close is one the peer
\* sent, with all of its fragments and no other, in the order sent; none is missing once all that
\* was read is handled; and a peer that keeps the rules never meets an error.
THEOREM MessagesStayIntact == Spec => []MessagesIntact
<1>1. ASSUME EndpointInv, PeerInv PROVE MessagesIntact
  <2>1. Delivered = GivenIn(ep.calls)
    BY DEF Delivered, BeforeClose, Calls, GivenIn, CallsIn
  <2>2. ASSUME NEW i \in Delivered
        PROVE  LET ids == ep.calls[i].arg IN
               /\ Range(ids) = MessageAt(heard, Last(ids))
               /\ \A k, l \in DOMAIN ids : k < l => ids[k] < ids[l]
               /\ Cardinality({j \in Ends(heard) : j <= Last(ids)}) = Cardinality({k \in Delivered : k <= i})
    BY <1>1, <2>1 DEF PeerInv, Answered, Sound, EndsTo
  <2>3. Calls("error") # {} => ~Proper
    BY <1>1 DEF PeerInv, OverInv, Called, Calls
  <2>4. ASSUME Idle, ~ep.notified, ep.shook PROVE Cardinality(Delivered) = Cardinality(Ends(heard))
    <3>1. batch = <<>> /\ inbuf = <<>> /\ Agree(heard, Len(heard) - Len(inbuf) - Len(batch), ep)
      BY <1>1, <2>4 DEF Idle, PeerInv, OpenedInv
    <3>2. Len(heard) \in Nat /\ Len(heard) - Len(inbuf) - Len(batch) = Len(heard)
      <4>1. Len(heard) \in Nat
        BY <1>1, LenProperties DEF PeerInv, PlaceInv
      <4>2. Len(inbuf) = 0 /\ Len(batch) = 0
        BY <3>1
      <4> QED BY <4>1, <4>2
    <3>3. EndsTo(heard, Len(heard)) = Ends(heard)
      BY <3>2 DEF EndsTo, Ends
    <3>4. Delivered = CallsIn(ep.calls, "message")
      <4>1. CallsIn(ep.calls, "close") = {}
        BY <1>1, <2>4 DEF EndpointInv, CallInv, CallBase, Called, CallsIn
      <4> QED BY <2>1, <4>1 DEF GivenIn
    <3> QED BY <3>1, <3>2, <3>3, <3>4 DEF Agree
  <2> QED BY <2>2, <2>3, <2>4 DEF MessagesIntact
<1>2. Init => EndpointInv /\ PeerInv
  BY InitWhole, InitPeer
<1>3. EndpointInv /\ PeerInv /\ [Next]_vars => (EndpointInv /\ PeerInv)'
  BY StepKeeps, StepPeer
<1> QED BY <1>1, <1>2, <1>3, PTL DEF Spec
=============================================================================
