---------------------------- MODULE ServicesProofs ----------------------------
(***************************************************************************)
(* Theorems about the parts that MCServices checks: Connector, for any     *)
(* numbers of addresses, attempts and calls; TcpServer, for any numbers of *)
(* I/O loops and connections; and the three parts whose threads wait on a  *)
(* condition variable and are notified after the unlock, ThreadPool,       *)
(* BlockingQueue and AsyncLogger, for any finite sets of threads and any   *)
(* bounds, with the deliveries of AsyncLogger, for any files and sizes.    *)
(***************************************************************************)
EXTENDS Connector, TcpServer, ThreadPool, BlockingQueue, AsyncLogger,
        FoldLemmas, SequenceTheorems, FiniteSetTheorems, TLAPS

-----------------------------------------------------------------------------
(* Connector.  What its members hold, as a record m (Connector's Members). *)

Posts == {"start", "stop", "reset"}

MemberType ==
  [connect : BOOLEAN, state : {"disconnected", "connecting", "connected"}, address : Nat,
   delay : Nat, channel : 0..MaxAttempts, polled : SUBSET Sockets, fds : SUBSET Sockets,
   attempts : 0..MaxAttempts, queue : Seq(Posts), timers : Nat, young : Nat, settled : BOOLEAN]

ConnectorTypeOK ==
  /\ Members \in MemberType
  /\ upc \in {"idle", "start", "stop"}
  /\ connection \in 0..MaxAttempts /\ accepted \in 0..MaxAttempts
  /\ conns \in [Sockets -> {"none", "connected", "disconnecting", "disconnected"}]

\* f is queued.
Has(q, f) == \E i \in 1..Len(q) : q[i] = f

\* Nothing is watched, queued or due; a channel that is left will be reset.
Idle(m) ==
  /\ m.polled = {} /\ ~Has(m.queue, "start") /\ m.timers = 0 /\ m.young = 0
  /\ m.channel # None => Has(m.queue, "reset")

\* No attempt is ahead.
Quiet(m) == m.state # "connecting" /\ Idle(m)

\* ... and channel_ is free.
Free(m) == Quiet(m) /\ m.channel = None /\ ~Has(m.queue, "reset")

\* A connect is watched, and no functor is queued that would touch its channel but stop.
Watching(m) ==
  /\ m.state = "connecting" /\ m.channel # None /\ m.polled = {m.channel}
  /\ m.timers = 0 /\ m.young = 0 /\ ~Has(m.queue, "start") /\ ~Has(m.queue, "reset")

\* One start is queued, behind every reset.
Retrying(m) ==
  /\ m.state # "connecting" /\ m.polled = {} /\ m.timers = 0 /\ m.young = 0
  /\ m.channel # None => Has(m.queue, "reset")
  /\ \E i \in 1..Len(m.queue) : m.queue[i] = "start" /\
       \A j \in 1..Len(m.queue) : j # i => m.queue[j] # "start" /\ (m.queue[j] = "reset" => j < i)

\* One timer is set; it falls due when what was queued before it has run.
Timed(m) ==
  /\ m.state # "connecting" /\ m.polled = {} /\ ~Has(m.queue, "start")
  /\ m.channel # None => Has(m.queue, "reset")
  /\ \/ m.timers = 1 /\ m.young = 0 /\ ~Has(m.queue, "reset")
     \/ m.timers = 0 /\ m.young = 1 /\ m.queue # << >>

\* There is at most one attempt: a thread between its stores and its post counts.
OneAttempt(m) ==
  IF upc = "start" THEN Free(m) ELSE Quiet(m) \/ Watching(m) \/ Retrying(m) \/ Timed(m)

Underway(m) == upc = "start" \/ ~Quiet(m)

\* Sockets that belong to a connection, one that is about to be made included.
OpenConns == ({accepted} \ {None}) \cup Connections

Used(c) == conns[c] # "none" \/ c = accepted

\* No connection is in use or about to be made.
Unused == Established = {} /\ accepted = None

\* What the poller watches and what is open belong to the attempt and to connections; a
\* new attempt begins only when no connection is in use.
SocketInv(m) ==
  /\ OneAttempt(m)
  /\ m.fds = m.polled \cup OpenConns
  /\ \A c \in Sockets : Used(c) => c <= m.attempts /\ c \notin m.polled
  /\ \A c \in m.polled : c <= m.attempts
  /\ Underway(m) => Unused
  /\ accepted # None => Established = {}
  /\ Established \subseteq {connection}

ConnectorInv == ConnectorTypeOK /\ (~overlap => SocketInv(Members))

-----------------------------------------------------------------------------
(* What the pieces of the connector do to the record.                      *)

\* A functor that is posted is in the queue, and the others stay in it.
LEMMA HasAppend ==
  ASSUME NEW q \in Seq(Posts), NEW f \in Posts
  PROVE  /\ Append(q, f) \in Seq(Posts) /\ Append(q, f) # << >>
         /\ \A g : Has(Append(q, f), g) <=> Has(q, g) \/ g = f
<1>1. /\ Append(q, f) \in Seq(Posts) /\ Len(Append(q, f)) = Len(q) + 1 /\ Len(q) \in Nat
      /\ \A i \in 1..Len(q) : Append(q, f)[i] = q[i]
      /\ Append(q, f)[Len(q) + 1] = f
  OBVIOUS
<1>2. \A i \in 1..Len(q) + 1 : i \in 1..Len(q) \/ i = Len(q) + 1
  BY <1>1
<1>3. \A i \in 1..Len(q) : i \in 1..Len(q) + 1
  BY <1>1
<1>4. Len(q) + 1 \in 1..Len(q) + 1
  BY <1>1
<1>5. Append(q, f) # << >>
  BY <1>1
<1> HIDE DEF Posts
<1> QED BY <1>1, <1>2, <1>3, <1>4, <1>5 DEF Has

\* A functor that is taken from the queue was its first; the others stay in it.
LEMMA HasTail ==
  ASSUME NEW q \in Seq(Posts), q # << >>
  PROVE  /\ Tail(q) \in Seq(Posts) /\ Head(q) \in Posts /\ Has(q, Head(q))
         /\ Tail(q) = << >> <=> Len(q) = 1
         /\ \A g : Has(Tail(q), g) => Has(q, g)
         /\ \A g : Has(q, g) /\ g # Head(q) => Has(Tail(q), g)
<1>1. /\ Tail(q) \in Seq(Posts) /\ Head(q) \in Posts /\ Head(q) = q[1]
      /\ Len(q) \in Nat \ {0} /\ Len(Tail(q)) = Len(q) - 1
      /\ \A i \in 1..Len(q) - 1 : Tail(q)[i] = q[i + 1]
  OBVIOUS
<1>2. \A i \in 1..Len(q) : i # 1 => i - 1 \in 1..Len(q) - 1 /\ (i - 1) + 1 = i
  BY <1>1
<1>3. \A i \in 1..Len(q) - 1 : i + 1 \in 1..Len(q)
  BY <1>1
<1>4. 1 \in 1..Len(q)
  BY <1>1
<1>5. Tail(q) = << >> <=> Len(q) = 1
  <2>1. Len(Tail(q)) = 0 <=> Tail(q) = << >>
    BY <1>1, EmptySeq
  <2> QED BY <1>1, <2>1
<1>6. ASSUME NEW g, Has(Tail(q), g)
      PROVE  Has(q, g)
  BY <1>1, <1>3, <1>6 DEF Has
<1>7. ASSUME NEW g, Has(q, g), g # Head(q)
      PROVE  Has(Tail(q), g)
  <2>1. PICK i \in 1..Len(q) : q[i] = g
    BY <1>7 DEF Has
  <2>2. i # 1 /\ i - 1 \in 1..Len(q) - 1 /\ Tail(q)[i - 1] = q[i]
    BY <1>1, <1>2, <1>7, <2>1
  <2> QED BY <1>1, <2>1, <2>2 DEF Has
<1> QED BY <1>1, <1>4, <1>5, <1>6, <1>7 DEF Has

\* An empty queue has none.
LEMMA HasNone == \A g : ~Has(<< >>, g)
BY DEF Has

\* A step that assigns a record of the right type leaves the members equal to it.
LEMMA Assigned ==
  ASSUME NEW m \in MemberType, Assign(m)
  PROVE  Members' = m
BY DEF Assign, Members, MemberType

\* retry() keeps the types, the sockets and connect_.
LEMMA RetryTyped ==
  ASSUME NEW m \in MemberType
  PROVE  /\ RetryOf(m) \in MemberType
         /\ RetryOf(m).connect = m.connect /\ RetryOf(m).state = "disconnected"
         /\ RetryOf(m).channel = m.channel /\ RetryOf(m).polled = m.polled
         /\ RetryOf(m).fds = m.fds /\ RetryOf(m).attempts = m.attempts
         /\ \/ /\ RetryOf(m).queue = m.queue
               /\ RetryOf(m).timers = m.timers /\ RetryOf(m).young = m.young
            \/ /\ RetryOf(m).queue = Append(m.queue, "start")
               /\ RetryOf(m).timers = m.timers /\ RetryOf(m).young = m.young
            \/ /\ RetryOf(m).queue = m.queue /\ m.queue = << >>
               /\ RetryOf(m).timers = m.timers + 1 /\ RetryOf(m).young = m.young
            \/ /\ RetryOf(m).queue = m.queue /\ m.queue # << >>
               /\ RetryOf(m).timers = m.timers /\ RetryOf(m).young = m.young + 1
<1> DEFINE d == [m EXCEPT !.state = "disconnected"]
           e == [d EXCEPT !.address = @ + 1, !.queue = Append(@, "start")]
           v == Least(2 * m.delay, 30000)
           r == [d EXCEPT !.address = 0, !.delay = v]
           x == [d EXCEPT !.settled = TRUE]
<1>0. Addresses \in Nat \ {0} /\ Append(m.queue, "start") \in Seq(Posts)
  BY ConnectorAssumption, HasAppend DEF MemberType, Posts
<1>1. d \in MemberType /\ d.state = "disconnected"
      /\ d.connect = m.connect /\ d.channel = m.channel /\ d.polled = m.polled /\ d.fds = m.fds
      /\ d.attempts = m.attempts /\ d.queue = m.queue /\ d.timers = m.timers /\ d.young = m.young
  BY DEF MemberType
<1>6. RetryOf(m) \in {d, e, RunAfter(r), x}
  BY DEF RetryOf
<1>11. v \in Nat
  BY DEF MemberType, Least
<1> HIDE DEF d, v
<1>2. e \in MemberType /\ e.queue = Append(d.queue, "start") /\ e.state = d.state
      /\ e.connect = d.connect /\ e.channel = d.channel /\ e.polled = d.polled /\ e.fds = d.fds
      /\ e.attempts = d.attempts /\ e.timers = d.timers /\ e.young = d.young
  <2>1. d.address + 1 \in Nat /\ Append(d.queue, "start") \in Seq(Posts)
    BY <1>0, <1>1 DEF MemberType
  <2> QED BY <1>1, <2>1 DEF MemberType
<1>3. r \in MemberType /\ r.queue = d.queue /\ r.state = d.state
      /\ r.connect = d.connect /\ r.channel = d.channel /\ r.polled = d.polled /\ r.fds = d.fds
      /\ r.attempts = d.attempts /\ r.timers = d.timers /\ r.young = d.young
  BY <1>1, <1>11 DEF MemberType
<1>4. x \in MemberType /\ x.queue = d.queue /\ x.state = d.state
      /\ x.connect = d.connect /\ x.channel = d.channel /\ x.polled = d.polled /\ x.fds = d.fds
      /\ x.attempts = d.attempts /\ x.timers = d.timers /\ x.young = d.young
  <2>1. TRUE \in BOOLEAN
    BY Zenon
  <2> QED BY <1>1, <2>1 DEF MemberType
<1> HIDE DEF e, r, x
<1>5. /\ RunAfter(r) \in MemberType
      /\ RunAfter(r).queue = r.queue /\ RunAfter(r).state = r.state /\ RunAfter(r).connect = r.connect
      /\ RunAfter(r).channel = r.channel /\ RunAfter(r).polled = r.polled /\ RunAfter(r).fds = r.fds
      /\ RunAfter(r).attempts = r.attempts
      /\ IF r.queue = << >> THEN RunAfter(r).timers = r.timers + 1 /\ RunAfter(r).young = r.young
                            ELSE RunAfter(r).timers = r.timers /\ RunAfter(r).young = r.young + 1
  <2>1. r.timers + 1 \in Nat /\ r.young + 1 \in Nat
    <3>1. r.timers \in Nat /\ r.young \in Nat
      BY <1>3 DEF MemberType
    <3> QED BY <3>1
  <2>2. CASE r.queue = << >>
    BY <1>3, <2>1, <2>2 DEF RunAfter, MemberType
  <2>3. CASE r.queue # << >>
    BY <1>3, <2>1, <2>3 DEF RunAfter, MemberType
  <2> QED BY <2>2, <2>3
<1>7. CASE RetryOf(m) = d
  BY <1>1, <1>7
<1>8. CASE RetryOf(m) = e
  BY <1>1, <1>2, <1>8
<1>9. CASE RetryOf(m) = RunAfter(r)
  BY <1>1, <1>3, <1>5, <1>9
<1>10. CASE RetryOf(m) = x
  BY <1>1, <1>4, <1>10
<1> QED BY <1>6, <1>7, <1>8, <1>9, <1>10

\* retry() leaves at most one attempt ahead: a functor behind every reset, or a timer.
LEMMA RetryMode ==
  ASSUME NEW m \in MemberType, Idle(m)
  PROVE  Quiet(RetryOf(m)) \/ Retrying(RetryOf(m)) \/ Timed(RetryOf(m))
<1> DEFINE r == RetryOf(m)
<1>0. /\ m.queue \in Seq(Posts) /\ "start" \in Posts /\ m.timers = 0 /\ m.young = 0
      /\ r.state = "disconnected" /\ r.channel = m.channel /\ r.polled = {}
  BY RetryTyped DEF MemberType, Posts, Idle
<1>1. CASE r.queue = m.queue /\ r.timers = m.timers /\ r.young = m.young
  BY <1>0, <1>1 DEF Quiet, Idle
<1>2. CASE r.queue = Append(m.queue, "start") /\ r.timers = m.timers /\ r.young = m.young
  <2>1. m.channel # None => Has(r.queue, "reset")
    BY <1>0, <1>2, HasAppend DEF Idle
  <2>2. /\ Len(r.queue) = Len(m.queue) + 1 /\ Len(m.queue) \in Nat
        /\ \A i \in 1..Len(m.queue) : r.queue[i] = m.queue[i] /\ m.queue[i] # "start"
        /\ r.queue[Len(m.queue) + 1] = "start"
    BY <1>0, <1>2 DEF Idle, Has
  <2>3. \E i \in 1..Len(r.queue) : r.queue[i] = "start" /\
          \A j \in 1..Len(r.queue) : j # i => r.queue[j] # "start" /\ (r.queue[j] = "reset" => j < i)
    <3>1. Len(m.queue) + 1 \in 1..Len(r.queue)
      BY <2>2
    <3>2. \A j \in 1..Len(r.queue) : j # Len(m.queue) + 1 =>
            j \in 1..Len(m.queue) /\ j < Len(m.queue) + 1
      BY <2>2
    <3> QED BY <2>2, <3>1, <3>2
  <2> SUFFICES Retrying(r)
    OBVIOUS
  <2> HIDE DEF r
  <2> QED BY <1>0, <1>2, <2>1, <2>3 DEF Retrying
<1>3. CASE r.queue = m.queue /\ m.queue = << >> /\ r.timers = m.timers + 1 /\ r.young = m.young
  BY <1>0, <1>3, HasNone DEF Timed, Idle
<1>4. CASE r.queue = m.queue /\ m.queue # << >> /\ r.timers = m.timers /\ r.young = m.young + 1
  BY <1>0, <1>4 DEF Timed, Idle
<1> QED BY <1>1, <1>2, <1>3, <1>4, RetryTyped

\* start_in_loop() keeps the types; a new socket has the next number.
LEMMA StartTyped ==
  ASSUME NEW m \in MemberType, NEW works \in BOOLEAN, MayConnect(m)
  PROVE  /\ StartInLoop(m, works) \in MemberType
         /\ StartInLoop(m, works).connect = m.connect
         /\ \/ StartInLoop(m, works) = m
            \/ /\ StartInLoop(m, works).state = "connecting"
               /\ StartInLoop(m, works).channel = m.attempts + 1
               /\ StartInLoop(m, works).polled = m.polled \cup {m.attempts + 1}
               /\ StartInLoop(m, works).fds = m.fds \cup {m.attempts + 1}
               /\ StartInLoop(m, works).attempts = m.attempts + 1
               /\ StartInLoop(m, works).queue = m.queue
               /\ StartInLoop(m, works).timers = m.timers /\ StartInLoop(m, works).young = m.young
            \/ StartInLoop(m, works) = RetryOf([m EXCEPT !.attempts = @ + 1])
<1>1. CASE ~m.connect
  BY <1>1 DEF StartInLoop
<1>2. CASE m.connect
  <2> DEFINE s == m.attempts + 1
             n == [m EXCEPT !.attempts = s]
             w == [n EXCEPT !.state = "connecting", !.channel = s, !.polled = @ \cup {s},
                            !.fds = @ \cup {s}]
  <2>1. s \in Sockets /\ s \in 0..MaxAttempts
    BY <1>2, ConnectorAssumption DEF MayConnect, MemberType, Sockets
  <2>2. /\ StartInLoop(m, works) = (IF works THEN w ELSE RetryOf(n))
        /\ n = [m EXCEPT !.attempts = @ + 1]
    BY <1>2 DEF StartInLoop, Connected
  <2> HIDE DEF s
  <2>3. n \in MemberType /\ n.connect = m.connect /\ n.polled = m.polled /\ n.fds = m.fds
        /\ n.attempts = s /\ n.queue = m.queue /\ n.timers = m.timers /\ n.young = m.young
    BY <2>1 DEF MemberType
  <2> HIDE DEF n
  <2>4. w.state = "connecting" /\ w.channel = s /\ w.polled = n.polled \cup {s}
        /\ w.fds = n.fds \cup {s} /\ w.connect = n.connect
        /\ w.attempts = n.attempts /\ w.queue = n.queue /\ w.timers = n.timers /\ w.young = n.young
    BY <2>3 DEF MemberType
  <2>5. w \in MemberType
    BY <2>1, <2>3 DEF MemberType
  <2> HIDE DEF w
  <2>6. CASE works
    BY <2>2, <2>3, <2>4, <2>5, <2>6 DEF s
  <2>7. CASE ~works
    BY <2>2, <2>3, <2>7, RetryTyped
  <2> QED BY <2>6, <2>7
<1> QED BY <1>1, <1>2

\* From a free channel start_in_loop() leaves at most one attempt ahead, and its socket
\* is new.
LEMMA StartMode ==
  ASSUME NEW m \in MemberType, NEW works \in BOOLEAN, MayConnect(m), Free(m),
         NEW r, r = StartInLoop(m, works)
  PROVE  /\ Quiet(r) \/ Watching(r) \/ Retrying(r) \/ Timed(r)
         /\ r.fds = r.polled \cup m.fds
         /\ r.attempts >= m.attempts
         /\ \A c \in r.polled : c = m.attempts + 1 /\ c <= r.attempts
<1>0. m.attempts \in Nat /\ m.polled = {} /\ m.attempts + 1 # None
  BY DEF MemberType, Free, Quiet, Idle, None
<1>1. CASE r = m
  BY <1>0, <1>1 DEF Free, Quiet, Idle
<1>2. CASE /\ r.state = "connecting" /\ r.channel = m.attempts + 1
           /\ r.polled = m.polled \cup {m.attempts + 1} /\ r.fds = m.fds \cup {m.attempts + 1}
           /\ r.attempts = m.attempts + 1 /\ r.queue = m.queue
           /\ r.timers = m.timers /\ r.young = m.young
  BY <1>0, <1>2 DEF Free, Quiet, Idle, Watching
<1>3. CASE r = RetryOf([m EXCEPT !.attempts = @ + 1]) /\ r # m
  <2> DEFINE n == [m EXCEPT !.attempts = @ + 1]
  <2>1. m.attempts + 1 \in 0..MaxAttempts
    BY <1>3, ConnectorAssumption DEF MayConnect, StartInLoop, MemberType
  <2>2. n \in MemberType /\ n.attempts = m.attempts + 1 /\ n.polled = m.polled /\ n.fds = m.fds
        /\ n.queue = m.queue /\ n.timers = m.timers /\ n.young = m.young /\ n.channel = m.channel
    BY <2>1 DEF MemberType
  <2> HIDE DEF n
  <2>3. r = RetryOf(n)
    BY <1>3 DEF n
  <2>4. Idle(n)
    BY <2>2 DEF Free, Quiet, Idle
  <2>5. Quiet(r) \/ Retrying(r) \/ Timed(r)
    BY <2>2, <2>3, <2>4, RetryMode
  <2>6. r.polled = {} /\ r.fds = m.fds /\ r.attempts = m.attempts + 1
    BY <1>0, <2>2, <2>3, RetryTyped
  <2> QED BY <1>0, <2>5, <2>6
<1> QED BY <1>1, <1>2, <1>3, StartTyped

\* remove_and_reset_channel() keeps the types and takes the channel out of the poller.
LEMMA RemoveTyped ==
  ASSUME NEW m \in MemberType, NEW r, r = RemoveAndResetChannel(m)
  PROVE  /\ r \in MemberType
         /\ r.polled = m.polled \ {m.channel} /\ r.queue = Append(m.queue, "reset")
         /\ r.connect = m.connect /\ r.state = m.state /\ r.channel = m.channel /\ r.fds = m.fds
         /\ r.attempts = m.attempts /\ r.timers = m.timers /\ r.young = m.young
<1>1. Append(m.queue, "reset") \in Seq(Posts)
  BY HasAppend DEF MemberType, Posts
<1>2. r.polled = m.polled \ {m.channel} /\ r.queue = Append(m.queue, "reset")
      /\ r.connect = m.connect /\ r.state = m.state /\ r.channel = m.channel /\ r.fds = m.fds
      /\ r.attempts = m.attempts /\ r.timers = m.timers /\ r.young = m.young
  BY DEF RemoveAndResetChannel, MemberType
<1>3. r \in MemberType
  BY <1>1 DEF RemoveAndResetChannel, MemberType
<1> QED BY <1>2, <1>3

\* The attempt that is watched is over with it: the reset is queued and nothing else.
LEMMA RemoveMode ==
  ASSUME NEW m \in MemberType, Watching(m), NEW r, r = RemoveAndResetChannel(m)
  PROVE  Idle(r)
<1>1. m.queue \in Seq(Posts) /\ "reset" \in Posts
  BY DEF MemberType, Posts
<1>2. r.polled = {} /\ r.queue = Append(m.queue, "reset") /\ r.timers = 0 /\ r.young = 0
  BY RemoveTyped DEF Watching
<1>3. Has(r.queue, "reset") /\ ~Has(r.queue, "start")
  BY <1>1, <1>2, HasAppend DEF Watching
<1> QED BY <1>2, <1>3 DEF Idle

\* close() keeps the types and closes one socket.
LEMMA CloseTyped ==
  ASSUME NEW m \in MemberType, NEW s, NEW r, r = Close(m, s)
  PROVE  /\ r \in MemberType
         /\ r.fds = m.fds \ {s} /\ r.polled = m.polled /\ r.queue = m.queue
         /\ r.connect = m.connect /\ r.state = m.state /\ r.channel = m.channel
         /\ r.attempts = m.attempts /\ r.timers = m.timers /\ r.young = m.young
BY DEF Close, MemberType

\* What is left when the loop has taken a functor: timers set before the last one can
\* now fall due.
LEMMA TakenTyped ==
  ASSUME Members \in MemberType, queue # << >>, NEW r, r = Taken
  PROVE  /\ r \in MemberType
         /\ r.queue = Tail(queue)
         /\ IF r.queue = << >> THEN r.timers = timers + young /\ r.young = 0
                               ELSE r.timers = timers /\ r.young = young
         /\ r.connect = connect /\ r.state = state /\ r.channel = channel /\ r.polled = polled
         /\ r.fds = fds /\ r.attempts = attempts
<1> DEFINE m == Members
<1>1. m.queue = queue /\ m.timers = timers /\ m.young = young /\ m.connect = connect
      /\ m.state = state /\ m.channel = channel /\ m.polled = polled /\ m.fds = fds
      /\ m.attempts = attempts
  BY DEF Members
<1>2. r = IF Len(queue) = 1 THEN [m EXCEPT !.queue = << >>, !.timers = @ + young, !.young = 0]
          ELSE [m EXCEPT !.queue = Tail(queue)]
  BY DEF Taken
<1> HIDE DEF m
<1>3. m \in MemberType
  BY DEF m
<1>4. queue \in Seq(Posts) /\ timers \in Nat /\ young \in Nat /\ timers + young \in Nat
  BY <1>1, <1>3 DEF MemberType
<1>5. Tail(queue) \in Seq(Posts) /\ (Tail(queue) = << >> <=> Len(queue) = 1) /\ << >> \in Seq(Posts)
  BY <1>4, HasTail
<1>6. CASE Len(queue) = 1
  <2> DEFINE v == timers + young
  <2>1. r = [m EXCEPT !.queue = << >>, !.timers = v, !.young = 0]
    BY <1>1, <1>2, <1>3, <1>6 DEF MemberType
  <2>3. v \in Nat
    BY <1>4
  <2> HIDE DEF v
  <2>2. r \in MemberType
    <3> DEFINE a == [m EXCEPT !.queue = << >>]
               b == [a EXCEPT !.timers = v]
    <3>1. a \in MemberType
      BY <1>3, <1>5 DEF MemberType
    <3>2. r = [b EXCEPT !.young = 0]
      BY <1>3, <2>1 DEF MemberType
    <3> HIDE DEF a
    <3>3. b \in MemberType
      BY <2>3, <3>1 DEF MemberType
    <3> HIDE DEF b
    <3>4. ASSUME NEW z \in Nat
          PROVE  [b EXCEPT !.young = z] \in MemberType
      BY <3>3 DEF MemberType
    <3> QED BY <3>2, <3>4
  <2>4. r.queue = << >> /\ r.timers = v /\ r.young = 0 /\ r.connect = m.connect /\ r.state = m.state
        /\ r.channel = m.channel /\ r.polled = m.polled /\ r.fds = m.fds /\ r.attempts = m.attempts
    BY <1>3, <2>1 DEF MemberType
  <2> QED BY <1>1, <1>5, <1>6, <2>2, <2>4 DEF v
<1>7. CASE Len(queue) # 1
  <2>1. r \in MemberType
    BY <1>2, <1>3, <1>5, <1>7 DEF MemberType
  <2> QED BY <1>1, <1>2, <1>3, <1>5, <1>7, <2>1 DEF MemberType
<1> QED BY <1>6, <1>7

\* A start at the head of the queue is the one attempt ahead, and finds channel_ free.
LEMMA TakenStart ==
  ASSUME Members \in MemberType, OneAttempt(Members), queue # << >>, Head(queue) = "start",
         NEW r, r = Taken
  PROVE  upc # "start" /\ ~Quiet(Members) /\ Free(r)
<1>1. /\ Members.queue = queue /\ Members.channel = channel /\ Members.state = state
      /\ Members.timers = timers /\ Members.young = young /\ Members.polled = polled
  BY DEF Members
<1>2. queue \in Seq(Posts)
  BY <1>1 DEF MemberType
<1>3. Has(queue, "start")
  BY <1>2, HasTail
<1>4. upc # "start" /\ ~Quiet(Members) /\ Retrying(Members)
  BY <1>1, <1>3 DEF OneAttempt, Free, Quiet, Idle, Watching, Timed
<1>5. /\ r.queue = Tail(queue) /\ r.channel = channel /\ r.state = state /\ r.polled = polled
      /\ timers = 0 /\ young = 0 /\ r.timers = 0 /\ r.young = 0
  BY <1>1, <1>4, TakenTyped DEF Retrying
<1>6. PICK i \in 1..Len(queue) :
        queue[i] = "start" /\
        \A j \in 1..Len(queue) : j # i => queue[j] # "start" /\ (queue[j] = "reset" => j < i)
  BY <1>1, <1>4 DEF Retrying
<1>7. Len(queue) \in Nat /\ 1 \in 1..Len(queue) /\ queue[1] = "start"
  BY <1>2
<1>8. i = 1
  BY <1>6, <1>7
<1>9. ~Has(queue, "reset")
  BY <1>6, <1>7, <1>8 DEF Has
<1>10. ~Has(Tail(queue), "start")
  <2>1. /\ Len(Tail(queue)) = Len(queue) - 1
        /\ \A j \in 1..Len(queue) - 1 : Tail(queue)[j] = queue[j + 1]
    BY <1>2, <1>7
  <2>2. \A j \in 1..Len(queue) - 1 : j + 1 \in 1..Len(queue) /\ j + 1 # 1
    BY <1>7
  <2> QED BY <1>6, <1>8, <2>1, <2>2 DEF Has
<1>11. ~Has(Tail(queue), "reset")
  BY <1>2, <1>9, HasTail
<1> QED BY <1>1, <1>4, <1>5, <1>9, <1>10, <1>11 DEF Free, Quiet, Idle, Retrying

\* Another functor leaves the attempt as it is; x is what a reset or a stop then has.
LEMMA TakenOther ==
  ASSUME Members \in MemberType, OneAttempt(Members), queue # << >>, Head(queue) # "start",
         NEW x, NEW r, r = Taken,
         /\ x.queue = r.queue /\ x.state = r.state /\ x.polled = r.polled
         /\ x.timers = r.timers /\ x.young = r.young,
         x.channel = IF Head(queue) = "reset" THEN None ELSE r.channel
  PROVE  /\ OneAttempt(x)
         /\ Quiet(Members) => Quiet(x)
         /\ Watching(Members) => Watching(x) /\ Head(queue) # "reset"
<1>1. /\ Members.queue = queue /\ Members.channel = channel /\ Members.state = state
      /\ Members.timers = timers /\ Members.young = young /\ Members.polled = polled
  BY DEF Members
<1>2. queue \in Seq(Posts) /\ timers \in Nat /\ young \in Nat
  BY <1>1 DEF MemberType
<1>3. /\ x.queue = Tail(queue) /\ x.state = state /\ x.polled = polled
      /\ x.channel = IF Head(queue) = "reset" THEN None ELSE channel
      /\ IF x.queue = << >> THEN x.timers = timers + young /\ x.young = 0
                            ELSE x.timers = timers /\ x.young = young
  BY TakenTyped
<1>4. /\ \A g : Has(x.queue, g) => Has(queue, g)
      /\ \A g : Has(queue, g) /\ g # Head(queue) => Has(x.queue, g)
      /\ Has(queue, Head(queue))
  BY <1>2, <1>3, HasTail
<1>5. (channel # None => Has(queue, "reset")) => (x.channel # None => Has(x.queue, "reset"))
  BY <1>3, <1>4
<1>6. ASSUME Quiet(Members)
      PROVE  Quiet(x)
  BY <1>1, <1>3, <1>4, <1>5, <1>6 DEF Quiet, Idle
<1>7. ASSUME Free(Members)
      PROVE  Free(x)
  BY <1>1, <1>3, <1>4, <1>6, <1>7 DEF Free
<1>8. ASSUME Watching(Members)
      PROVE  Watching(x) /\ Head(queue) # "reset"
  <2>1. Head(queue) # "reset"
    BY <1>1, <1>4, <1>8 DEF Watching
  <2> QED BY <1>1, <1>3, <1>4, <1>8, <2>1 DEF Watching
<1>9. ASSUME Timed(Members)
      PROVE  Timed(x)
  <2>1. CASE timers = 1 /\ young = 0 /\ ~Has(queue, "reset")
    BY <1>1, <1>3, <1>4, <1>5, <1>9, <2>1 DEF Timed
  <2>2. CASE timers = 0 /\ young = 1 /\ x.queue = << >>
    <3>1. x.timers = 1 /\ x.young = 0 /\ ~Has(x.queue, "reset") /\ ~Has(x.queue, "start")
      <4>1. x.timers = timers + young /\ x.young = 0
        BY <1>3, <2>2
      <4>2. ~Has(x.queue, "reset") /\ ~Has(x.queue, "start")
        BY <2>2, HasNone, Zenon
      <4> QED BY <2>2, <4>1, <4>2
    <3>2. x.state # "connecting" /\ x.polled = {} /\ (x.channel # None => Has(x.queue, "reset"))
      BY <1>1, <1>3, <1>5, <1>9 DEF Timed
    <3> QED BY <3>1, <3>2 DEF Timed
  <2>3. CASE timers = 0 /\ young = 1 /\ x.queue # << >>
    BY <1>1, <1>3, <1>4, <1>5, <1>9, <2>3 DEF Timed
  <2> QED BY <1>1, <1>9, <2>1, <2>2, <2>3 DEF Timed
<1>10. ASSUME Retrying(Members)
       PROVE  Retrying(x)
  <2>1. PICK i \in 1..Len(queue) :
          queue[i] = "start" /\
          \A j \in 1..Len(queue) : j # i => queue[j] # "start" /\ (queue[j] = "reset" => j < i)
    BY <1>1, <1>10 DEF Retrying
  <2>2. /\ Len(queue) \in Nat /\ Len(x.queue) = Len(queue) - 1 /\ queue[1] = Head(queue)
        /\ \A j \in 1..Len(queue) - 1 : x.queue[j] = queue[j + 1]
    BY <1>2, <1>3
  <2>3. i # 1 /\ i - 1 \in 1..Len(x.queue) /\ x.queue[i - 1] = "start"
    BY <2>1, <2>2
  <2>4. ASSUME NEW j \in 1..Len(x.queue), j # i - 1
        PROVE  x.queue[j] # "start" /\ (x.queue[j] = "reset" => j < i - 1)
    <3>0. j \in 1..Len(queue) - 1 /\ i \in Nat
      BY <2>2
    <3>1. j + 1 \in 1..Len(queue) /\ j + 1 # i /\ (j + 1 < i => j < i - 1)
      BY <2>2, <2>4, <3>0
    <3>2. x.queue[j] = queue[j + 1]
      BY <2>2, <3>0
    <3> QED BY <2>1, <3>1, <3>2
  <2>5. timers = 0 /\ young = 0 /\ x.timers = 0 /\ x.young = 0
    BY <1>1, <1>3, <1>10 DEF Retrying
  <2> QED BY <1>1, <1>3, <1>5, <1>10, <2>3, <2>4, <2>5 DEF Retrying
<1> QED BY <1>6, <1>7, <1>8, <1>9, <1>10 DEF OneAttempt

-----------------------------------------------------------------------------
(* The connector's steps.                                                  *)

\* The parts of SocketInv that a step with the same connections has to look at.
LEMMA SocketsStay ==
  ASSUME NEW m \in MemberType, m = Members', UNCHANGED <<upc, conn>>, LoopFree,
         OneAttempt(m), m.fds = m.polled \cup OpenConns,
         \A c \in Sockets : Used(c) => c <= m.attempts /\ c \notin m.polled,
         \A c \in m.polled : c <= m.attempts,
         Underway(m) => Unused, Established \subseteq {connection}
  PROVE  SocketInv(Members)'
BY DEF SocketInv, OneAttempt, Underway, Unused, Used, OpenConns, Connections, Established, LoopFree,
       conn, Free, Quiet, Idle, Watching,
       Retrying, Timed

\* start_in_loop() on a free channel with no connection in use: t is what the members
\* were when it was called.
LEMMA FreshAttempt ==
  ASSUME ConnectorTypeOK, NEW t \in MemberType, NEW works \in BOOLEAN, MayConnect(t),
         Assign(StartInLoop(t, works)), UNCHANGED <<upc, conn>>, LoopFree,
         t.attempts = attempts, t.fds = fds, t.polled = polled
  PROVE  /\ ConnectorTypeOK' /\ connect' = t.connect
         /\ SocketInv(Members) /\ Free(t) /\ upc # "start" /\ Established = {} => SocketInv(Members)'
<1> DEFINE r == StartInLoop(t, works)
<1>1. r \in MemberType /\ r.connect = t.connect
  BY StartTyped
<1>2. Members' = r
  BY <1>1, Assigned
<1>3. ConnectorTypeOK' /\ connect' = t.connect
  <2> HIDE DEF r
  <2> QED BY <1>1, <1>2 DEF ConnectorTypeOK, Members, conn
<1>4. ASSUME SocketInv(Members), Free(t), upc # "start", Established = {}
      PROVE  SocketInv(Members)'
  <2>1. /\ Quiet(r) \/ Watching(r) \/ Retrying(r) \/ Timed(r)
        /\ r.fds = r.polled \cup fds /\ r.attempts >= attempts
        /\ \A c \in r.polled : c = attempts + 1 /\ c <= r.attempts
    BY <1>4, StartMode
  <2>2. OneAttempt(r)
    BY <1>4, <2>1 DEF OneAttempt
  <2>3. fds = OpenConns
    BY <1>4 DEF SocketInv, Members, Free, Quiet, Idle
  <2>4. attempts \in Nat /\ r.attempts \in Nat
    BY <1>1 DEF MemberType
  <2>5. \A c \in Sockets : Used(c) => c <= attempts
    BY <1>4 DEF SocketInv, Members
  <2>6. \A c \in Sockets : Used(c) => c <= r.attempts /\ c \notin r.polled
    BY <2>1, <2>4, <2>5, ConnectorAssumption DEF Sockets
  <2> HIDE DEF r
  <2> QED BY <1>1, <1>2, <1>4, <2>1, <2>2, <2>3, <2>6, SocketsStay DEF Unused, LoopFree
<1> QED BY <1>3, <1>4

\* The loop runs a start: the one ahead, so that no connection is in use.
LEMMA RunStartSound ==
  ASSUME ConnectorTypeOK, RunStart
  PROVE  ConnectorTypeOK' /\ (SocketInv(Members) => SocketInv(Members)') /\ connect' = connect
<1>1. queue # << >> /\ Head(queue) = "start" /\ MayConnect(Members) /\ UNCHANGED <<upc, conn>>
  BY DEF RunStart, Functor, calls
<1>0. LoopFree
  BY DEF RunStart, Functor
<1>2. PICK works \in BOOLEAN : Assign(StartInLoop(Taken, works))
  BY DEF RunStart
<1>3. PICK t : t = Taken
  OBVIOUS
<1>4. /\ t \in MemberType /\ t.connect = connect /\ t.attempts = attempts /\ t.fds = fds
      /\ t.polled = polled /\ Members \in MemberType
  BY <1>1, <1>3, TakenTyped DEF ConnectorTypeOK
<1>5. MayConnect(t)
  BY <1>1, <1>4 DEF MayConnect, Members
<1>6. SocketInv(Members) => Free(t) /\ upc # "start" /\ Established = {}
  BY <1>1, <1>3, <1>4, TakenStart DEF SocketInv, Underway, Unused
<1> QED BY <1>0, <1>1, <1>2, <1>3, <1>4, <1>5, <1>6, FreshAttempt

\* A retry timer falls due: the one that is set, when every reset has run.
LEMMA RetryTimerSound ==
  ASSUME ConnectorTypeOK, RetryTimer
  PROVE  ConnectorTypeOK' /\ (SocketInv(Members) => SocketInv(Members)') /\ connect' = connect
<1>1. timers > 0 /\ MayConnect(Members) /\ UNCHANGED <<upc, conn>> /\ LoopFree
  BY DEF RetryTimer, calls
<1>2. PICK t : t = [Members EXCEPT !.timers = @ - 1]
  OBVIOUS
<1>3. PICK works \in BOOLEAN : Assign(StartInLoop(t, works))
  BY <1>2 DEF RetryTimer
<1> DEFINE m == Members
           v == timers - 1
<1>4. m.timers = timers /\ m.connect = connect /\ m.attempts = attempts /\ m.fds = fds
      /\ m.polled = polled /\ m.young = young /\ m \in MemberType /\ m.queue = queue
      /\ m.state = state /\ m.channel = channel
  BY DEF ConnectorTypeOK, Members
<1>5. t = [m EXCEPT !.timers = v] /\ v \in Nat
  BY <1>1, <1>2, <1>4 DEF MemberType
<1> HIDE DEF m, v
<1>6. /\ t \in MemberType /\ t.connect = connect /\ t.attempts = attempts /\ t.fds = fds
      /\ t.polled = polled /\ t.timers = v /\ t.young = young /\ t.queue = queue
      /\ t.state = state /\ t.channel = channel
  BY <1>4, <1>5 DEF MemberType
<1>7. MayConnect(t)
  BY <1>1, <1>4, <1>6 DEF MayConnect, m
<1>8. ASSUME SocketInv(Members)
      PROVE  Free(t) /\ upc # "start" /\ Established = {}
  <2>1. timers # 0
    BY <1>1, <1>4 DEF MemberType
  <2>2. Timed(m) /\ ~Quiet(m) /\ upc # "start"
    BY <1>4, <1>8, <2>1 DEF SocketInv, OneAttempt, Free, Quiet, Idle, Watching, Retrying, m
  <2>3. timers = 1 /\ young = 0 /\ ~Has(queue, "reset") /\ v = 0
    BY <1>4, <2>1, <2>2 DEF Timed, v
  <2>4. Free(t)
    BY <1>4, <1>6, <2>2, <2>3 DEF Timed, Free, Quiet, Idle
  <2> QED BY <1>8, <2>2, <2>4 DEF SocketInv, Underway, Unused, m
<1> QED BY <1>1, <1>3, <1>6, <1>7, <1>8, FreshAttempt

\* The loop runs a stop: what is watched is closed and will be reset.
LEMMA RunStopSound ==
  ASSUME ConnectorTypeOK, RunStop
  PROVE  ConnectorTypeOK' /\ (SocketInv(Members) => SocketInv(Members)') /\ connect' = connect
<1>1. queue # << >> /\ Head(queue) = "stop" /\ UNCHANGED <<conn, calls>> /\ LoopFree
  BY DEF RunStop, Functor
<1> DEFINE t == Taken
           v == RemoveAndResetChannel(t)
           w == Close(v, channel)
           r == IF state = "connecting" THEN [w EXCEPT !.state = "disconnected"] ELSE t
<1>2. Assign(r)
  BY DEF RunStop
<1>3. /\ t \in MemberType /\ t.connect = connect /\ t.attempts = attempts /\ t.fds = fds
      /\ t.channel = channel /\ t.polled = polled /\ t.state = state
      /\ Members \in MemberType
  BY <1>1, TakenTyped DEF ConnectorTypeOK
<1> HIDE DEF t
<1>4. /\ v \in MemberType /\ v.connect = t.connect /\ v.attempts = t.attempts /\ v.fds = t.fds
      /\ v.polled = t.polled \ {t.channel} /\ v.queue = Append(t.queue, "reset")
      /\ v.channel = t.channel /\ v.timers = t.timers /\ v.young = t.young
  BY <1>3, RemoveTyped
<1> HIDE DEF v
<1>5. /\ w \in MemberType /\ w.connect = v.connect /\ w.attempts = v.attempts
      /\ w.fds = v.fds \ {channel} /\ w.polled = v.polled /\ w.queue = v.queue
      /\ w.channel = v.channel /\ w.timers = v.timers /\ w.young = v.young
  BY <1>4, CloseTyped
<1> HIDE DEF w
<1>6. r \in MemberType /\ r.connect = connect
  BY <1>3, <1>4, <1>5 DEF MemberType
<1>7. Members' = r
  BY <1>2, <1>6, Assigned
<1>8. ConnectorTypeOK' /\ connect' = connect
  <2> HIDE DEF r
  <2> QED BY <1>1, <1>6, <1>7 DEF ConnectorTypeOK, Members, conn, calls
<1>9. ASSUME SocketInv(Members)
      PROVE  SocketInv(Members)'
  <2>0. UNCHANGED <<upc, conn>> /\ LoopFree
    BY <1>1 DEF calls
  <2>1. /\ OneAttempt(t) /\ (Quiet(Members) => Quiet(t))
        /\ (Watching(Members) => Watching(t))
    BY <1>1, <1>3, <1>9, TakenOther DEF SocketInv, t
  <2>2. /\ fds = polled \cup OpenConns
        /\ \A c \in Sockets : Used(c) => c <= attempts /\ c \notin polled
        /\ \A c \in polled : c <= attempts
        /\ Established \subseteq {connection}
    BY <1>9 DEF SocketInv, Members
  <2>3. CASE state # "connecting"
    <3>1. r = t
      BY <2>3
    <3>2. Underway(t) => Unused
      BY <1>9, <2>1 DEF SocketInv, Underway
    <3> HIDE DEF r
    <3> QED BY <1>3, <1>7, <2>0, <2>1, <2>2, <3>1, <3>2, SocketsStay
  <2>4. CASE state = "connecting"
    <3>1. Watching(t) /\ upc # "start"
      BY <1>3, <2>1, <2>4 DEF OneAttempt, Free, Quiet, Retrying, Timed
    <3>2. Idle(v)
      BY <1>3, <3>1, RemoveMode DEF v
    <3>3. r = [w EXCEPT !.state = "disconnected"]
      BY <2>4
    <3>4. /\ r.state = "disconnected" /\ r.polled = w.polled /\ r.queue = w.queue
          /\ r.channel = w.channel /\ r.timers = w.timers /\ r.young = w.young
          /\ r.fds = w.fds /\ r.attempts = w.attempts
      BY <1>5, <3>3 DEF MemberType
    <3>5. Quiet(r)
      BY <1>5, <3>2, <3>4 DEF Quiet, Idle
    <3>6. polled = {channel}
      BY <1>3, <3>1 DEF Watching
    <3>7. OpenConns \cap polled = {}
      BY <2>0, <2>2 DEF OpenConns, Connections, Used, LoopFree
    <3>8. r.polled = {} /\ r.fds = OpenConns /\ r.attempts = attempts
      BY <1>3, <1>4, <1>5, <2>2, <3>4, <3>6, <3>7
    <3>9. OneAttempt(r) /\ ~Underway(r)
      BY <3>1, <3>5 DEF OneAttempt, Underway
    <3> HIDE DEF r
    <3> QED BY <1>6, <1>7, <2>0, <2>2, <3>8, <3>9, SocketsStay
  <2> QED BY <2>3, <2>4
<1> QED BY <1>8, <1>9

\* The loop runs a reset: channel_ is not that of a newer attempt.
LEMMA RunResetSound ==
  ASSUME ConnectorTypeOK, RunReset
  PROVE  ConnectorTypeOK' /\ (SocketInv(Members) => SocketInv(Members)') /\ connect' = connect
<1>1. queue # << >> /\ Head(queue) = "reset" /\ UNCHANGED <<conn, calls>> /\ LoopFree
  BY DEF RunReset, Functor
<1> DEFINE t == Taken
           r == [t EXCEPT !.channel = None]
<1>2. Assign(r)
  BY DEF RunReset
<1>3. /\ t \in MemberType /\ t.connect = connect /\ t.attempts = attempts /\ t.fds = fds
      /\ t.polled = polled /\ Members \in MemberType
  BY <1>1, TakenTyped DEF ConnectorTypeOK
<1>4. None \in 0..MaxAttempts
  BY ConnectorAssumption DEF None
<1>10. r = [Taken EXCEPT !.channel = None]
  OBVIOUS
<1> HIDE DEF t
<1>5. /\ r.connect = t.connect /\ r.attempts = t.attempts /\ r.fds = t.fds /\ r.polled = t.polled
      /\ r.queue = t.queue /\ r.timers = t.timers /\ r.young = t.young /\ r.state = t.state
      /\ r.channel = None
  BY <1>3 DEF MemberType
<1>6. r \in MemberType
  BY <1>3, <1>4 DEF MemberType
<1> HIDE DEF r
<1>7. Members' = r
  BY <1>2, <1>6, Assigned
<1>8. ConnectorTypeOK' /\ connect' = connect
  BY <1>1, <1>3, <1>5, <1>6, <1>7 DEF ConnectorTypeOK, Members, conn, calls
<1>9. ASSUME SocketInv(Members)
      PROVE  SocketInv(Members)'
  <2>0. UNCHANGED <<upc, conn>> /\ LoopFree
    BY <1>1 DEF calls
  <2>1. OneAttempt(r) /\ (Quiet(Members) => Quiet(r))
    BY <1>1, <1>3, <1>5, <1>9, TakenOther DEF SocketInv, t
  <2>2. /\ fds = polled \cup OpenConns
        /\ \A c \in Sockets : Used(c) => c <= attempts /\ c \notin polled
        /\ \A c \in polled : c <= attempts
        /\ Established \subseteq {connection}
    BY <1>9 DEF SocketInv, Members
  <2>3. Underway(r) => Unused
    BY <1>9, <2>1 DEF SocketInv, Underway
  <2> QED BY <1>3, <1>5, <1>6, <1>7, <2>0, <2>1, <2>2, <2>3, SocketsStay
<1> QED BY <1>8, <1>9

\* A connect has failed: its socket is closed, and retry() leaves one attempt ahead.
LEMMA FailureSound ==
  ASSUME ConnectorTypeOK, HandleFailure
  PROVE  ConnectorTypeOK' /\ (SocketInv(Members) => SocketInv(Members)') /\ connect' = connect
<1> DEFINE v == RemoveAndResetChannel(Members)
           w == Close(v, channel)
           r == RetryOf(w)
<1>1. Assign(r) /\ state = "connecting" /\ UNCHANGED <<upc, conn>> /\ LoopFree
  BY DEF HandleFailure, Ready, calls
<1>2. Members \in MemberType /\ Members.channel = channel /\ Members.polled = polled
      /\ Members.fds = fds /\ Members.attempts = attempts /\ Members.connect = connect
      /\ Members.state = state
  BY DEF ConnectorTypeOK, Members
<1>3. /\ v \in MemberType /\ v.connect = connect /\ v.attempts = attempts /\ v.fds = fds
      /\ v.polled = polled \ {channel}
  BY <1>2, RemoveTyped
<1>12. Watching(Members) => Idle(v)
  BY <1>2, RemoveMode
<1> HIDE DEF v
<1>4. /\ w \in MemberType /\ w.connect = connect /\ w.attempts = attempts
      /\ w.fds = fds \ {channel} /\ w.polled = v.polled /\ w.queue = v.queue
      /\ w.channel = v.channel /\ w.timers = v.timers /\ w.young = v.young
  BY <1>3, CloseTyped
<1> HIDE DEF w
<1>5. /\ r \in MemberType /\ r.connect = connect /\ r.attempts = attempts
      /\ r.fds = fds \ {channel} /\ r.polled = polled \ {channel}
  BY <1>3, <1>4, RetryTyped
<1>6. Idle(w) => Quiet(r) \/ Retrying(r) \/ Timed(r)
  BY <1>4, RetryMode
<1> HIDE DEF r
<1>7. Members' = r
  BY <1>1, <1>5, Assigned
<1>8. ConnectorTypeOK' /\ connect' = connect
  BY <1>1, <1>5, <1>7 DEF ConnectorTypeOK, Members, conn
<1>9. ASSUME SocketInv(Members)
      PROVE  SocketInv(Members)'
  <2>1. Watching(Members) /\ upc # "start"
    BY <1>1, <1>2, <1>9 DEF SocketInv, OneAttempt, Free, Quiet, Retrying, Timed
  <2>2. Idle(w)
    BY <1>4, <1>12, <2>1 DEF Idle
  <2>3. OneAttempt(r)
    BY <1>6, <2>1, <2>2 DEF OneAttempt
  <2>4. /\ fds = polled \cup OpenConns
        /\ \A c \in Sockets : Used(c) => c <= attempts /\ c \notin polled
        /\ Established \subseteq {connection}
    BY <1>9 DEF SocketInv, Members
  <2>5. Unused /\ Established = {}
    BY <1>1, <1>2, <1>9 DEF SocketInv, Underway, Unused, Quiet
  <2>6. polled = {channel}
    BY <1>2, <2>1 DEF Watching
  <2>7. OpenConns \cap polled = {}
    BY <1>1, <2>4 DEF OpenConns, Connections, Used, LoopFree
  <2>8. r.polled = {} /\ r.fds = OpenConns
    BY <1>5, <2>4, <2>6, <2>7
  <2> QED BY <1>1, <1>5, <1>7, <2>3, <2>4, <2>5, <2>8, SocketsStay
<1> QED BY <1>8, <1>9

\* A connect has succeeded: its socket is let past for a connection, or is closed if
\* stop() has been called.
LEMMA WriteSound ==
  ASSUME ConnectorTypeOK, HandleWrite
  PROVE  ConnectorTypeOK' /\ (SocketInv(Members) => SocketInv(Members)') /\ connect' = connect
<1> DEFINE v == RemoveAndResetChannel(Members)
           m == [v EXCEPT !.state = "connected"]
           r == IF connect THEN m ELSE Close(m, channel)
<1>1. /\ Assign(r) /\ state = "connecting" /\ channel \in polled /\ UNCHANGED <<upc, connection, conns>>
      /\ accepted' = (IF connect THEN channel ELSE accepted)
      /\ accepted = None
  BY DEF HandleWrite, Ready, calls, LoopFree
<1>2. Members \in MemberType /\ Members.channel = channel /\ Members.polled = polled
      /\ Members.fds = fds /\ Members.attempts = attempts /\ Members.connect = connect
      /\ Members.state = state
  BY DEF ConnectorTypeOK, Members
<1>3. /\ v \in MemberType /\ v.connect = connect /\ v.attempts = attempts /\ v.fds = fds
      /\ v.polled = polled \ {channel}
  BY <1>2, RemoveTyped
<1>4. Watching(Members) => Idle(v)
  BY <1>2, RemoveMode
<1> HIDE DEF v
<1>5. /\ m \in MemberType /\ m.connect = connect /\ m.attempts = attempts /\ m.fds = fds
      /\ m.polled = v.polled /\ m.queue = v.queue /\ m.state = "connected"
      /\ m.channel = v.channel /\ m.timers = v.timers /\ m.young = v.young
  BY <1>3 DEF MemberType
<1> HIDE DEF m
<1>6. /\ r \in MemberType /\ r.connect = connect /\ r.attempts = attempts
      /\ r.fds = IF connect THEN fds ELSE fds \ {channel}
      /\ r.polled = v.polled /\ r.queue = v.queue /\ r.state = "connected"
      /\ r.channel = v.channel /\ r.timers = v.timers /\ r.young = v.young
  <2>1. CASE connect
    BY <1>5, <2>1
  <2>2. CASE ~connect
    BY <1>5, <2>2, CloseTyped
  <2> QED BY <2>1, <2>2
<1> HIDE DEF r
<1>7. Members' = r
  BY <1>1, <1>6, Assigned
<1>8. channel \in Sockets /\ channel \in 0..MaxAttempts /\ channel # None
  BY <1>1, <1>2, ConnectorAssumption DEF MemberType, Sockets, None
<1>9. ConnectorTypeOK' /\ connect' = connect
  BY <1>1, <1>6, <1>7, <1>8 DEF ConnectorTypeOK, Members
<1>10. ASSUME SocketInv(Members)
       PROVE  SocketInv(Members)'
  <2>1. Watching(Members) /\ upc # "start"
    BY <1>1, <1>2, <1>10 DEF SocketInv, OneAttempt, Free, Quiet, Retrying, Timed
  <2>2. Quiet(r)
    BY <1>4, <1>6, <2>1 DEF Quiet, Idle
  <2>3. OneAttempt(Members)' /\ ~Underway(Members)'
    BY <1>1, <1>7, <2>1, <2>2 DEF OneAttempt, Underway, Quiet, Idle
  <2>4. /\ fds = polled \cup OpenConns
        /\ \A c \in Sockets : Used(c) => c <= attempts /\ c \notin polled
        /\ \A c \in polled : c <= attempts
        /\ Established \subseteq {connection}
    BY <1>10 DEF SocketInv, Members
  <2>5. Established' = {}
    BY <1>1, <1>2, <1>10 DEF SocketInv, Underway, Unused, Quiet, Established
  <2>6. polled = {channel} /\ r.polled = {}
    BY <1>2, <1>3, <1>6, <2>1 DEF Watching
  <2>7. OpenConns = Connections /\ Connections' = Connections /\ channel \notin Connections
    BY <1>1, <2>4, <2>6 DEF OpenConns, Connections, Used
  <2>8. OpenConns' = IF connect THEN Connections \cup {channel} ELSE Connections
    BY <1>1, <1>8, <2>7 DEF OpenConns
  <2>9. r.fds = OpenConns'
    BY <1>6, <2>4, <2>6, <2>7, <2>8
  <2>10. \A c \in Sockets : Used(c)' => c <= attempts
    BY <1>1, <2>4, <2>6 DEF Used
  <2> QED BY <1>6, <1>7, <2>3, <2>5, <2>6, <2>9, <2>10 DEF SocketInv
<1> QED BY <1>9, <1>10

\* The socket that was let past becomes the connection in use, the only one.
LEMMA NewConnectionSound ==
  ASSUME ConnectorTypeOK, NewConnection
  PROVE  ConnectorTypeOK' /\ (SocketInv(Members) => SocketInv(Members)') /\ connect' = connect
<1> DEFINE m == Members
           r == [m EXCEPT !.settled = TRUE]
<1>1. /\ accepted # None /\ accepted' = None /\ connection' = accepted
      /\ conns' = [conns EXCEPT ![accepted] = "connected"] /\ Assign(r) /\ UNCHANGED upc
  BY DEF NewConnection, calls
<1>2. m \in MemberType /\ m.connect = connect
  BY DEF ConnectorTypeOK, Members
<1> HIDE DEF m
<1>3. /\ r \in MemberType /\ r.connect = m.connect /\ r.attempts = m.attempts /\ r.fds = m.fds
      /\ r.polled = m.polled /\ r.queue = m.queue /\ r.state = m.state
      /\ r.channel = m.channel /\ r.timers = m.timers /\ r.young = m.young
  <2>1. TRUE \in BOOLEAN
    BY Zenon
  <2> QED BY <1>2, <2>1 DEF MemberType
<1> HIDE DEF r
<1>4. Members' = r
  BY <1>1, <1>3, Assigned
<1>5. accepted \in Sockets /\ accepted \in 0..MaxAttempts /\ None \in 0..MaxAttempts
  BY <1>1, ConnectorAssumption DEF ConnectorTypeOK, Sockets, None
<1>6. connect' = connect
  BY <1>2, <1>3, <1>4 DEF Members
<1>7. \A d \in Sockets : conns'[d] = IF d = accepted THEN "connected" ELSE conns[d]
  BY <1>1 DEF ConnectorTypeOK
<1>8. ConnectorTypeOK'
  BY <1>1, <1>3, <1>4, <1>5 DEF ConnectorTypeOK
<1>9. ASSUME SocketInv(Members)
      PROVE  SocketInv(Members)'
  <2>1. OneAttempt(m) /\ ~Underway(m) /\ Established = {}
    BY <1>1, <1>9 DEF SocketInv, Unused, m
  <2>2. OneAttempt(Members)' /\ ~Underway(Members)'
    BY <1>1, <1>3, <1>4, <2>1 DEF OneAttempt, Underway, Free, Quiet, Idle, Watching, Retrying, Timed
  <2>3. Connections' = Connections \cup {accepted} /\ Established' = {accepted}
    BY <1>5, <1>7, <2>1 DEF Connections, Established
  <2>4. OpenConns' = OpenConns
    BY <1>1, <2>3 DEF OpenConns
  <2>5. \A c \in Sockets : Used(c)' => Used(c)
    BY <1>1, <1>7 DEF Used, None, Sockets
  <2> QED BY <1>1, <1>3, <1>4, <1>9, <2>2, <2>3, <2>4, <2>5 DEF SocketInv, m
<1> QED BY <1>6, <1>8, <1>9

\* A connection is closed: its socket goes with it.
LEMMA ConnectionClosesSound ==
  ASSUME ConnectorTypeOK, NEW c \in Sockets, ConnectionCloses(c)
  PROVE  ConnectorTypeOK' /\ (SocketInv(Members) => SocketInv(Members)') /\ connect' = connect
<1> DEFINE r == Close(Members, c)
<1>1. /\ conns[c] \in {"connected", "disconnecting"} /\ conns' = [conns EXCEPT ![c] = "disconnected"]
      /\ connection' = (IF connection = c THEN None ELSE connection)
      /\ Assign(r) /\ UNCHANGED <<upc, accepted>> /\ accepted = None
  BY DEF ConnectionCloses, calls, LoopFree
<1>2. /\ Members \in MemberType /\ Members.polled = polled /\ Members.fds = fds
      /\ Members.attempts = attempts /\ Members.connect = connect
  BY DEF ConnectorTypeOK, Members
<1>3. /\ r \in MemberType
      /\ r.fds = fds \ {c} /\ r.polled = Members.polled /\ r.queue = Members.queue
      /\ r.connect = connect /\ r.state = Members.state /\ r.channel = Members.channel
      /\ r.attempts = Members.attempts /\ r.timers = Members.timers /\ r.young = Members.young
  BY <1>2, CloseTyped
<1> HIDE DEF r
<1>4. Members' = r
  BY <1>1, <1>3, Assigned
<1>5. \A d \in Sockets : conns'[d] = IF d = c THEN "disconnected" ELSE conns[d]
  BY <1>1 DEF ConnectorTypeOK
<1>6. None \in 0..MaxAttempts
  BY ConnectorAssumption DEF None
<1>7. connect' = connect
  BY <1>3, <1>4 DEF Members
<1>8. ConnectorTypeOK'
  BY <1>1, <1>3, <1>4, <1>6 DEF ConnectorTypeOK
<1>9. ASSUME SocketInv(Members)
      PROVE  SocketInv(Members)'
  <2>1. (OneAttempt(Members) => OneAttempt(r)) /\ (Underway(r) => Underway(Members))
    BY <1>3 DEF OneAttempt, Underway, Free, Quiet, Idle, Watching, Retrying, Timed
  <2>2. (OneAttempt(r) => OneAttempt(Members)') /\ (Underway(Members)' => Underway(r))
    BY <1>1, <1>4 DEF OneAttempt, Underway, Free, Quiet, Idle, Watching, Retrying, Timed
  <2>3. OpenConns' = OpenConns \ {c} /\ Established' = Established \ {c}
    BY <1>1, <1>5 DEF OpenConns, Connections, Established
  <2>4. c \notin polled
    BY <1>1, <1>2, <1>9 DEF SocketInv, Used
  <2>5. r.fds = r.polled \cup OpenConns'
    BY <1>2, <1>3, <1>9, <2>3, <2>4 DEF SocketInv
  <2>6. \A d \in Sockets : Used(d)' => d <= r.attempts /\ d \notin r.polled
    BY <1>1, <1>3, <1>5, <1>9 DEF SocketInv, Used
  <2>7. \A d \in r.polled : d <= r.attempts
    BY <1>3, <1>9 DEF SocketInv
  <2>8. Established' \subseteq {connection'}
    BY <1>1, <1>9, <2>3 DEF SocketInv
  <2>9. Underway(Members)' => Unused'
    BY <1>1, <1>9, <2>1, <2>2, <2>3 DEF SocketInv, Unused
  <2>10. OneAttempt(Members)'
    BY <1>9, <2>1, <2>2 DEF SocketInv
  <2>11. accepted' # None => Established' = {}
    BY <1>1
  <2> QED BY <1>4, <2>5, <2>6, <2>7, <2>8, <2>9, <2>10, <2>11 DEF SocketInv
<1> QED BY <1>5, <1>7, <1>8, <1>9

\* The stores of start() and stop() keep the types and touch no socket.
LEMMA StoresTyped ==
  ASSUME NEW m \in MemberType, NEW b \in BOOLEAN, NEW d \in BOOLEAN, NEW a \in Nat,
         NEW r, r \in {[m EXCEPT !.connect = b, !.address = a, !.settled = d],
                      [m EXCEPT !.connect = b, !.settled = d]}
  PROVE  /\ r \in MemberType /\ r.connect = b
         /\ r.fds = m.fds /\ r.polled = m.polled /\ r.queue = m.queue /\ r.state = m.state
         /\ r.channel = m.channel /\ r.attempts = m.attempts /\ r.timers = m.timers
         /\ r.young = m.young
<1>1. CASE r = [m EXCEPT !.connect = b, !.address = a, !.settled = d]
  BY <1>1 DEF MemberType
<1>2. CASE r = [m EXCEPT !.connect = b, !.settled = d]
  BY <1>2 DEF MemberType
<1> QED BY <1>1, <1>2

\* A post keeps the types.
LEMMA PostTyped ==
  ASSUME NEW m \in MemberType, NEW q \in Seq(Posts), NEW r, r = [m EXCEPT !.queue = q]
  PROVE  /\ r \in MemberType /\ r.queue = q /\ r.connect = m.connect
         /\ r.fds = m.fds /\ r.polled = m.polled /\ r.state = m.state
         /\ r.channel = m.channel /\ r.attempts = m.attempts /\ r.timers = m.timers
         /\ r.young = m.young
BY DEF MemberType

\* A stop that is posted leaves what is ahead as it is.
LEMMA StopPosted ==
  ASSUME NEW m \in MemberType, NEW x,
         x.queue = Append(m.queue, "stop"), x.state = m.state, x.polled = m.polled,
         x.channel = m.channel, x.timers = m.timers, x.young = m.young
  PROVE  /\ Quiet(m) => Quiet(x)
         /\ Free(m) => Free(x)
         /\ Watching(m) => Watching(x)
         /\ Retrying(m) => Retrying(x)
         /\ Timed(m) => Timed(x)
<1>1. m.queue \in Seq(Posts) /\ "stop" \in Posts
  BY DEF MemberType, Posts
<1>2. /\ x.queue # << >>
      /\ Has(x.queue, "start") <=> Has(m.queue, "start")
      /\ Has(x.queue, "reset") <=> Has(m.queue, "reset")
  BY <1>1, HasAppend
<1>3. Quiet(m) => Quiet(x)
  BY <1>2 DEF Quiet, Idle
<1>4. Free(m) => Free(x)
  BY <1>2, <1>3 DEF Free
<1>5. Watching(m) => Watching(x)
  BY <1>2 DEF Watching
<1>6. Timed(m) => Timed(x)
  BY <1>2 DEF Timed
<1>7. ASSUME Retrying(m)
      PROVE  Retrying(x)
  <2>1. PICK i \in 1..Len(m.queue) : m.queue[i] = "start" /\
          \A j \in 1..Len(m.queue) : j # i => m.queue[j] # "start" /\ (m.queue[j] = "reset" => j < i)
    BY <1>7 DEF Retrying
  <2>2. /\ Len(m.queue) \in Nat /\ Len(x.queue) = Len(m.queue) + 1
        /\ \A j \in 1..Len(m.queue) : x.queue[j] = m.queue[j]
        /\ x.queue[Len(m.queue) + 1] = "stop"
    BY <1>1
  <2>3. i \in 1..Len(x.queue) /\ x.queue[i] = "start"
    BY <2>1, <2>2
  <2>4. \A j \in 1..Len(x.queue) : j \in 1..Len(m.queue) \/ j = Len(m.queue) + 1
    BY <2>2
  <2>5. \A j \in 1..Len(x.queue) : j # i => x.queue[j] # "start" /\ (x.queue[j] = "reset" => j < i)
    BY <2>1, <2>2, <2>4
  <2> QED BY <1>2, <1>7, <2>3, <2>5 DEF Retrying
<1> QED BY <1>3, <1>4, <1>5, <1>6, <1>7

\* A start that is posted when nothing is ahead is the one attempt ahead.
LEMMA StartPosted ==
  ASSUME NEW m \in MemberType, NEW x, Free(m),
         x.queue = Append(m.queue, "start"), x.state = m.state, x.polled = m.polled,
         x.channel = m.channel, x.timers = m.timers, x.young = m.young
  PROVE  Retrying(x)
<1>1. m.queue \in Seq(Posts)
  BY DEF MemberType
<1>2. /\ Len(m.queue) \in Nat /\ Len(x.queue) = Len(m.queue) + 1
      /\ \A j \in 1..Len(m.queue) : x.queue[j] = m.queue[j]
      /\ x.queue[Len(m.queue) + 1] = "start"
  BY <1>1
<1>3. \A j \in 1..Len(m.queue) : m.queue[j] # "start" /\ m.queue[j] # "reset"
  BY DEF Free, Quiet, Idle, Has
<1>4. Len(m.queue) + 1 \in 1..Len(x.queue)
  BY <1>2
<1>5. \A j \in 1..Len(x.queue) : j # Len(m.queue) + 1 => j \in 1..Len(m.queue)
  BY <1>2
<1>6. \E i \in 1..Len(x.queue) : x.queue[i] = "start" /\
        \A j \in 1..Len(x.queue) : j # i => x.queue[j] # "start" /\ (x.queue[j] = "reset" => j < i)
  BY <1>2, <1>3, <1>4, <1>5
<1> QED BY <1>6 DEF Retrying, Free, Quiet, Idle

\* Nothing of an earlier attempt is left where a start() is not an overlap.
LEMMA OverIsFree ==
  ASSUME Members \in MemberType, SocketInv(Members), Over, NEW x,
         x.queue = queue, x.state = state, x.polled = polled,
         x.channel = channel, x.timers = timers, x.young = young
  PROVE  Free(x) /\ Unused /\ upc = "idle"
<1>1. polled = {}
  BY DEF SocketInv, OneAttempt, Over, Members, Free, Quiet, Idle, Watching, Retrying, Timed
<1>2. ~Has(x.queue, "start") /\ ~Has(x.queue, "reset")
  BY HasNone DEF Over
<1> QED BY <1>1, <1>2 DEF Over, Unused, Free, Quiet, Idle

\* start() has stored connect_ and next_address_index_.
LEMMA StartStores ==
  ASSUME ConnectorTypeOK, NEW t,
         t = [Members EXCEPT !.connect = TRUE, !.address = 0, !.settled = FALSE]
  PROVE  /\ t \in MemberType /\ t.connect = TRUE /\ t.fds = fds /\ t.polled = polled
         /\ t.queue = queue /\ t.state = state /\ t.channel = channel /\ t.attempts = attempts
         /\ t.timers = timers /\ t.young = young
<1> DEFINE m == Members
<1>1. TRUE \in BOOLEAN /\ FALSE \in BOOLEAN /\ 0 \in Nat
  <2>1. TRUE \in BOOLEAN /\ FALSE \in BOOLEAN
    BY Zenon
  <2> QED BY <2>1
<1>2. /\ m \in MemberType /\ m.fds = fds /\ m.polled = polled
      /\ m.queue = queue /\ m.state = state /\ m.channel = channel /\ m.attempts = attempts
      /\ m.timers = timers /\ m.young = young
  BY DEF ConnectorTypeOK, Members
<1>3. t = [m EXCEPT !.connect = TRUE, !.address = 0, !.settled = FALSE]
  OBVIOUS
<1> HIDE DEF m
<1>4. ASSUME NEW b \in BOOLEAN, NEW d \in BOOLEAN, NEW a \in Nat,
             t = [m EXCEPT !.connect = b, !.address = a, !.settled = d]
      PROVE  /\ t \in MemberType /\ t.connect = b
             /\ t.fds = m.fds /\ t.polled = m.polled /\ t.queue = m.queue /\ t.state = m.state
             /\ t.channel = m.channel /\ t.attempts = m.attempts /\ t.timers = m.timers
             /\ t.young = m.young
  BY <1>2, <1>4 DEF MemberType
<1>5. /\ t \in MemberType /\ t.connect = TRUE
      /\ t.fds = m.fds /\ t.polled = m.polled /\ t.queue = m.queue /\ t.state = m.state
      /\ t.channel = m.channel /\ t.attempts = m.attempts /\ t.timers = m.timers
      /\ t.young = m.young
  BY <1>1, <1>3, <1>4, Zenon
<1> QED BY <1>2, <1>5

\* start() on the loop's thread: unless it overlaps, channel_ is free.
LEMMA LoopStartSound ==
  ASSUME ConnectorTypeOK, LoopStart
  PROVE  /\ ConnectorTypeOK' /\ connect' = TRUE
         /\ SocketInv(Members) /\ ~overlap' => SocketInv(Members)'
<1>1. attempts < MaxAttempts /\ UNCHANGED <<upc, conn>> /\ (~overlap' => Over) /\ LoopFree
  BY DEF LoopStart, Begins
<1>2. PICK t : t = [Members EXCEPT !.connect = TRUE, !.address = 0, !.settled = FALSE]
  OBVIOUS
<1>3. PICK works \in BOOLEAN : Assign(StartInLoop(t, works))
  BY <1>2 DEF LoopStart
<1>4. TRUE \in BOOLEAN /\ FALSE \in BOOLEAN
  BY Zenon
<1>5. Members \in MemberType /\ Members.fds = fds /\ Members.polled = polled
      /\ Members.queue = queue /\ Members.state = state /\ Members.channel = channel
      /\ Members.attempts = attempts /\ Members.timers = timers /\ Members.young = young
  BY DEF ConnectorTypeOK, Members
<1>6. /\ t \in MemberType /\ t.connect = TRUE /\ t.fds = fds /\ t.polled = polled
      /\ t.queue = queue /\ t.state = state /\ t.channel = channel /\ t.attempts = attempts
      /\ t.timers = timers /\ t.young = young
  BY <1>2, StartStores
<1>7. MayConnect(t)
  BY <1>1, <1>6 DEF MayConnect
<1>8. SocketInv(Members) /\ ~overlap' => Free(t) /\ Established = {} /\ upc # "start"
  BY <1>1, <1>5, <1>6, OverIsFree DEF Unused
<1> QED BY <1>1, <1>3, <1>6, <1>7, <1>8, FreshAttempt

\* The stores of start() on another thread.
LEMMA OtherStartSound ==
  ASSUME ConnectorTypeOK, OtherStart
  PROVE  /\ ConnectorTypeOK' /\ connect' = TRUE
         /\ SocketInv(Members) /\ ~overlap' => SocketInv(Members)'
<1>1. UNCHANGED conn /\ (~overlap' => Over) /\ upc' = "start"
  BY DEF OtherStart, Begins
<1>2. PICK t : t = [Members EXCEPT !.connect = TRUE, !.address = 0, !.settled = FALSE]
  OBVIOUS
<1>3. TRUE \in BOOLEAN /\ FALSE \in BOOLEAN
  BY Zenon
<1>4. Members \in MemberType /\ Members.fds = fds /\ Members.polled = polled
      /\ Members.queue = queue /\ Members.state = state /\ Members.channel = channel
      /\ Members.attempts = attempts /\ Members.timers = timers /\ Members.young = young
  BY DEF ConnectorTypeOK, Members
<1>5. /\ t \in MemberType /\ t.connect = TRUE /\ t.fds = fds /\ t.polled = polled
      /\ t.queue = queue /\ t.state = state /\ t.channel = channel /\ t.attempts = attempts
      /\ t.timers = timers /\ t.young = young
  BY <1>2, StartStores
<1>6. Members' = t
  BY <1>2, <1>5, Assigned DEF OtherStart
<1>7. ConnectorTypeOK' /\ connect' = TRUE
  BY <1>1, <1>5, <1>6 DEF ConnectorTypeOK, Members, conn
<1>8. ASSUME SocketInv(Members), ~overlap'
      PROVE  SocketInv(Members)'
  <2>1. Free(t) /\ Unused
    BY <1>1, <1>4, <1>5, <1>8, OverIsFree
  <2>2. OneAttempt(Members)'
    BY <1>1, <1>6, <2>1 DEF OneAttempt, Free, Quiet, Idle
  <2>3. OpenConns' = OpenConns /\ Established' = {} /\ Unused'
    BY <1>1, <2>1 DEF OpenConns, Connections, Established, Unused, conn
  <2>4. t.fds = t.polled \cup OpenConns /\ \A c \in t.polled : c <= t.attempts
    BY <1>4, <1>5, <1>8 DEF SocketInv
  <2>5. \A c \in Sockets : Used(c)' => c <= t.attempts /\ c \notin t.polled
    BY <1>1, <1>4, <1>5, <1>8 DEF SocketInv, Used, conn
  <2> QED BY <1>6, <2>2, <2>3, <2>4, <2>5 DEF SocketInv
<1> QED BY <1>7, <1>8

\* A step that leaves connections and sockets alone and nothing more ahead than before.
LEMMA NothingNew ==
  ASSUME ConnectorTypeOK, SocketInv(Members), NEW r \in MemberType, Members' = r, UNCHANGED conn,
         r.fds = fds, r.polled = polled, r.attempts = attempts,
         IF upc' = "start" THEN Free(r) ELSE Quiet(r) \/ Watching(r) \/ Retrying(r) \/ Timed(r),
         (upc' = "start" \/ ~Quiet(r)) => (upc = "start" \/ ~Quiet(Members))
  PROVE  SocketInv(Members)'
<1>1. OneAttempt(Members)'
  BY DEF OneAttempt, Free, Quiet, Idle, Watching, Retrying, Timed
<1>2. Underway(Members)' => Underway(Members)
  BY DEF Underway, Quiet, Idle
<1>3. OpenConns' = OpenConns /\ Established' = Established
  BY DEF OpenConns, Connections, Established, conn
<1>4. Members.fds = fds /\ Members.polled = polled /\ Members.attempts = attempts
  BY DEF Members
<1>5. \A c \in Sockets : Used(c)' => c <= r.attempts /\ c \notin r.polled
  BY <1>4 DEF SocketInv, Used, conn
<1>6. r.fds = r.polled \cup OpenConns' /\ \A c \in r.polled : c <= r.attempts
  BY <1>3, <1>4 DEF SocketInv
<1>7. (Underway(Members)' => Unused') /\ Established' \subseteq {connection'}
  BY <1>2, <1>3 DEF SocketInv, Unused, conn
<1>8. accepted' # None => Established' = {}
  BY <1>3 DEF SocketInv, conn
<1> QED BY <1>1, <1>5, <1>6, <1>7, <1>8 DEF SocketInv

\* stop() on the loop's thread.
LEMMA LoopStopSound ==
  ASSUME ConnectorTypeOK, LoopStop
  PROVE  ConnectorTypeOK' /\ connect' = FALSE /\ (SocketInv(Members) => SocketInv(Members)')
<1> DEFINE m == Members
           q == Append(m.queue, "stop")
           t == [m EXCEPT !.connect = FALSE, !.settled = TRUE]
           r == [t EXCEPT !.queue = q]
<1>1. TRUE \in BOOLEAN /\ FALSE \in BOOLEAN
  BY Zenon
<1>2. m \in MemberType /\ m.fds = fds /\ m.polled = polled /\ m.attempts = attempts
  BY DEF ConnectorTypeOK, Members
<1>3. [m EXCEPT !.connect = FALSE, !.settled = TRUE, !.queue = Append(@, "stop")] = r
  <2> HIDE DEF m
  <2> QED BY <1>2 DEF MemberType
<1>4. Assign(r) /\ UNCHANGED <<conn, upc>>
  BY <1>3 DEF LoopStop
<1> HIDE DEF m
<1>5. /\ t \in MemberType /\ t.connect = FALSE
      /\ t.fds = m.fds /\ t.polled = m.polled /\ t.queue = m.queue /\ t.state = m.state
      /\ t.channel = m.channel /\ t.attempts = m.attempts /\ t.timers = m.timers
      /\ t.young = m.young
  <2>1. 0 \in Nat
    OBVIOUS
  <2> QED BY <1>1, <1>2, <2>1, StoresTyped
<1> HIDE DEF t
<1>6. q \in Seq(Posts)
  BY <1>2, HasAppend DEF MemberType, Posts
<1> HIDE DEF q
<1>7. /\ r \in MemberType /\ r.queue = q /\ r.connect = FALSE
      /\ r.fds = m.fds /\ r.polled = m.polled /\ r.state = m.state
      /\ r.channel = m.channel /\ r.attempts = m.attempts /\ r.timers = m.timers
      /\ r.young = m.young
  BY <1>5, <1>6, PostTyped
<1> HIDE DEF r
<1>8. Members' = r
  BY <1>4, <1>7, Assigned
<1>9. ConnectorTypeOK' /\ connect' = FALSE
  BY <1>4, <1>7, <1>8 DEF ConnectorTypeOK, Members, conn
<1>10. ASSUME SocketInv(Members)
       PROVE  SocketInv(Members)'
  <2>1. /\ Quiet(m) => Quiet(r)
        /\ Free(m) => Free(r)
        /\ Watching(m) => Watching(r)
        /\ Retrying(m) => Retrying(r)
        /\ Timed(m) => Timed(r)
    BY <1>2, <1>7, StopPosted DEF q
  <2>2. IF upc' = "start" THEN Free(r) ELSE Quiet(r) \/ Watching(r) \/ Retrying(r) \/ Timed(r)
    BY <1>4, <1>10, <2>1 DEF SocketInv, OneAttempt, m
  <2> QED BY <1>2, <1>4, <1>7, <1>8, <1>10, <2>1, <2>2, NothingNew DEF m
<1> QED BY <1>9, <1>10

\* The store of stop() on another thread.
LEMMA OtherStopSound ==
  ASSUME ConnectorTypeOK, OtherStop
  PROVE  ConnectorTypeOK' /\ connect' = FALSE /\ (SocketInv(Members) => SocketInv(Members)')
<1> DEFINE m == Members
           r == [m EXCEPT !.connect = FALSE, !.settled = TRUE]
<1>1. TRUE \in BOOLEAN /\ FALSE \in BOOLEAN
  BY Zenon
<1>2. m \in MemberType /\ m.fds = fds /\ m.polled = polled /\ m.attempts = attempts
  BY DEF ConnectorTypeOK, Members
<1>3. Assign(r) /\ UNCHANGED conn /\ upc = "idle" /\ upc' = "stop"
  BY DEF OtherStop
<1> HIDE DEF m
<1>4. /\ r \in MemberType /\ r.connect = FALSE
      /\ r.fds = m.fds /\ r.polled = m.polled /\ r.queue = m.queue /\ r.state = m.state
      /\ r.channel = m.channel /\ r.attempts = m.attempts /\ r.timers = m.timers
      /\ r.young = m.young
  <2>1. 0 \in Nat
    OBVIOUS
  <2> QED BY <1>1, <1>2, <2>1, StoresTyped
<1> HIDE DEF r
<1>5. Members' = r
  BY <1>3, <1>4, Assigned
<1>6. ConnectorTypeOK' /\ connect' = FALSE
  BY <1>3, <1>4, <1>5 DEF ConnectorTypeOK, Members, conn
<1>7. ASSUME SocketInv(Members)
      PROVE  SocketInv(Members)'
  <2>1. (Quiet(m) => Quiet(r)) /\ (Quiet(r) \/ Watching(r) \/ Retrying(r) \/ Timed(r))
    BY <1>3, <1>4, <1>7 DEF SocketInv, OneAttempt, Quiet, Idle, Watching, Retrying, Timed, m
  <2> QED BY <1>2, <1>3, <1>4, <1>5, <1>7, <2>1, NothingNew DEF m
<1> QED BY <1>6, <1>7

\* The post of start() or stop() on another thread.
LEMMA OtherPostsSound ==
  ASSUME ConnectorTypeOK, OtherPosts
  PROVE  ConnectorTypeOK' /\ connect' = connect /\ (SocketInv(Members) => SocketInv(Members)')
<1> DEFINE m == Members
           q == Append(m.queue, upc)
           r == [m EXCEPT !.queue = q]
<1>2. m \in MemberType /\ m.fds = fds /\ m.polled = polled /\ m.attempts = attempts
      /\ m.connect = connect
  BY DEF ConnectorTypeOK, Members
<1>3. Assign(r) /\ UNCHANGED conn /\ upc \in {"start", "stop"} /\ upc' = "idle"
  BY DEF OtherPosts, ConnectorTypeOK
<1> HIDE DEF m
<1>4. q \in Seq(Posts)
  BY <1>2, <1>3, HasAppend DEF MemberType, Posts
<1>5. /\ r \in MemberType /\ r.queue = q /\ r.connect = connect
      /\ r.fds = m.fds /\ r.polled = m.polled /\ r.state = m.state
      /\ r.channel = m.channel /\ r.attempts = m.attempts /\ r.timers = m.timers
      /\ r.young = m.young
  <2> HIDE DEF q
  <2> QED BY <1>2, <1>4, PostTyped
<1> HIDE DEF r
<1>6. Members' = r
  BY <1>3, <1>5, Assigned
<1>7. ConnectorTypeOK' /\ connect' = connect
  BY <1>3, <1>5, <1>6 DEF ConnectorTypeOK, Members, conn
<1>8. ASSUME SocketInv(Members)
      PROVE  SocketInv(Members)'
  <2>1. CASE upc = "start"
    <3>1. Free(m)
      BY <1>8, <2>1 DEF SocketInv, OneAttempt, m
    <3>2. Retrying(r)
      BY <1>2, <1>5, <2>1, <3>1, StartPosted
    <3> QED BY <1>2, <1>3, <1>5, <1>6, <1>8, <2>1, <3>2, NothingNew
  <2>2. CASE upc = "stop"
    <3>1. /\ Quiet(m) => Quiet(r)
          /\ Watching(m) => Watching(r)
          /\ Retrying(m) => Retrying(r)
          /\ Timed(m) => Timed(r)
      BY <1>2, <1>5, <2>2, StopPosted
    <3>2. Quiet(r) \/ Watching(r) \/ Retrying(r) \/ Timed(r)
      BY <1>8, <2>2, <3>1 DEF SocketInv, OneAttempt, m
    <3> QED BY <1>2, <1>3, <1>5, <1>6, <1>8, <3>1, <3>2, NothingNew DEF m
  <2> QED BY <1>3, <2>1, <2>2
<1> QED BY <1>7, <1>8

\* disconnect(): the connection is given up, its socket still open.
LEMMA DisconnectSound ==
  ASSUME ConnectorTypeOK, Disconnect
  PROVE  ConnectorTypeOK' /\ connect' = connect /\ (SocketInv(Members) => SocketInv(Members)')
<1>1. /\ Members' = Members /\ UNCHANGED <<upc, accepted, connection, connect>>
      /\ connection # None /\ conns[connection] = "connected"
      /\ conns' = [conns EXCEPT ![connection] = "disconnecting"]
  BY DEF Disconnect, Members, chan
<1>2. connection \in Sockets
  BY <1>1, ConnectorAssumption DEF ConnectorTypeOK, Sockets, None
<1>3. \A d \in Sockets : conns'[d] = IF d = connection THEN "disconnecting" ELSE conns[d]
  BY <1>1 DEF ConnectorTypeOK
<1>4. ConnectorTypeOK'
  BY <1>1 DEF ConnectorTypeOK
<1>5. OpenConns' = OpenConns /\ Established' \subseteq Established
  BY <1>1, <1>2, <1>3 DEF OpenConns, Connections, Established
<1>6. ASSUME SocketInv(Members)
      PROVE  SocketInv(Members)'
  <2>1. OneAttempt(Members)' /\ (Underway(Members)' => Underway(Members))
    BY <1>1, <1>6 DEF SocketInv, OneAttempt, Underway, Free, Quiet, Idle, Watching, Retrying, Timed
  <2>2. \A c \in Sockets : Used(c)' => c <= Members.attempts /\ c \notin Members.polled
    BY <1>1, <1>3, <1>6 DEF SocketInv, Used
  <2>3. Underway(Members)' => Unused'
    BY <1>1, <1>5, <1>6, <2>1 DEF SocketInv, Unused
  <2> QED BY <1>1, <1>5, <1>6, <2>1, <2>2, <2>3 DEF SocketInv
<1> QED BY <1>1, <1>3, <1>4, <1>6

-----------------------------------------------------------------------------
(* The connector's invariant and what follows from it.                     *)

\* The last of start() and stop() decides connect_.
WantedInv == connect = wanted

\* Once a stop() is through, nothing is being connected and nothing is let past.
StopInv == ~wanted /\ ~StopUnderWay => state # "connecting" /\ accepted = None

ConnectorWhole == ConnectorInv /\ WantedInv /\ StopInv

\* The first state.
LEMMA ConnectorStarts == ConnectorInit => ConnectorWhole
<1> SUFFICES ASSUME ConnectorInit
             PROVE  ConnectorWhole
  OBVIOUS
<1>1. TRUE \in BOOLEAN /\ FALSE \in BOOLEAN
  BY Zenon
<1>2. << >> \in Seq(Posts) /\ 0 \in 0..MaxAttempts
  BY ConnectorAssumption
<1>3. ConnectorTypeOK
  <2>1. /\ connect \in BOOLEAN /\ settled \in BOOLEAN /\ queue \in Seq(Posts)
        /\ channel \in 0..MaxAttempts /\ attempts \in 0..MaxAttempts
    BY <1>1, <1>2 DEF ConnectorInit, None
  <2>2. /\ state \in {"disconnected", "connecting", "connected"} /\ address \in Nat /\ delay \in Nat
        /\ polled \in SUBSET Sockets /\ fds \in SUBSET Sockets /\ timers \in Nat /\ young \in Nat
    BY DEF ConnectorInit
  <2>3. Members \in MemberType
    BY <2>1, <2>2 DEF Members, MemberType
  <2>4. /\ upc \in {"idle", "start", "stop"} /\ connection \in 0..MaxAttempts
        /\ accepted \in 0..MaxAttempts
        /\ conns \in [Sockets -> {"none", "connected", "disconnecting", "disconnected"}]
    BY <1>2 DEF ConnectorInit, None
  <2> QED BY <2>3, <2>4 DEF ConnectorTypeOK
<1>4. Established = {} /\ OpenConns = {} /\ \A c \in Sockets : ~Used(c)
  BY ConnectorAssumption DEF ConnectorInit, Established, Connections, OpenConns, Used, Sockets, None
<1>5. Quiet(Members)
  BY HasNone DEF ConnectorInit, Members, Quiet, Idle, None
<1>6. SocketInv(Members)
  BY <1>4, <1>5 DEF ConnectorInit, SocketInv, OneAttempt, Underway, Members
<1> QED BY <1>3, <1>6 DEF ConnectorInit, ConnectorWhole, ConnectorInv, WantedInv, StopInv

\* A stop() is under way from its store until the loop has run its functor.
LEMMA UnderWay == StopUnderWay <=> upc = "stop" \/ Has(queue, "stop")
BY DEF StopUnderWay, Has

\* Nothing starts a connect or lets a socket past while connect_ is FALSE, and the functor
\* of a stop() ends the connect that is under way.
LEMMA StopSteps ==
  ASSUME ConnectorTypeOK, WantedInv, StopInv, ConnectorNext
  PROVE  StopInv'
<1>0. /\ Members.queue = queue /\ Members \in MemberType /\ Members.connect = connect
      /\ Members.state = state
  BY DEF ConnectorTypeOK, Members
<1>1. queue \in Seq(Posts)
  BY <1>0 DEF MemberType
<1>2. ASSUME UNCHANGED <<upc, wanted>>, accepted = None, UNCHANGED accepted,
             queue # << >>, Head(queue) # "stop", queue' = Tail(queue), UNCHANGED state
      PROVE  StopInv'
  <2>1. StopUnderWay => StopUnderWay'
    BY <1>1, <1>2, HasTail, UnderWay DEF StopUnderWay, Has
  <2> QED BY <1>2, <2>1 DEF StopInv
<1>3. ASSUME UNCHANGED <<upc, wanted, queue, state, accepted>>
      PROVE  StopInv'
  BY <1>3 DEF StopInv, StopUnderWay
<1>4. ASSUME state' # "connecting", accepted' = None
      PROVE  StopInv'
  BY <1>4 DEF StopInv
<1>5. ASSUME wanted' = TRUE
      PROVE  StopInv'
  BY <1>5 DEF StopInv
<1>6. CASE RunStart
  <2>1. /\ queue # << >> /\ Head(queue) = "start" /\ UNCHANGED <<upc, wanted, accepted>>
        /\ accepted = None
    BY <1>6 DEF RunStart, Functor, LoopFree, calls, conn
  <2>2. CASE connect
    BY <2>1, <2>2, <1>5 DEF WantedInv
  <2>3. CASE ~connect
    <3>1. /\ Taken.connect = connect /\ Taken.queue = Tail(queue) /\ Taken.state = state
      BY <1>0, <2>1, TakenTyped
    <3>2. Assign(Taken)
      BY <1>6, <2>3, <3>1 DEF RunStart, StartInLoop
    <3>3. queue' = Tail(queue) /\ state' = state
      BY <3>1, <3>2 DEF Assign
    <3> QED BY <1>2, <2>1, <3>3
  <2> QED BY <2>2, <2>3 DEF ConnectorTypeOK
<1>7. CASE RunStop
  <2>1. queue # << >> /\ UNCHANGED accepted /\ accepted = None
    BY <1>7 DEF RunStop, Functor, LoopFree, conn
  <2>2. CASE state = "connecting"
    <3> DEFINE w == Close(RemoveAndResetChannel(Taken), channel)
    <3>1. Taken \in MemberType
      BY <1>0, <2>1, TakenTyped
    <3>2. w \in MemberType
      BY <3>1, RemoveTyped, CloseTyped
    <3>3. state' = [w EXCEPT !.state = "disconnected"].state
      BY <1>7, <2>2 DEF RunStop, Assign
    <3> HIDE DEF w
    <3>4. state' = "disconnected"
      BY <3>2, <3>3 DEF MemberType
    <3> QED BY <1>4, <2>1, <3>4
  <2>3. CASE state # "connecting"
    <3>1. Taken.state = state
      BY <1>0, <2>1, TakenTyped
    <3>2. state' = Taken.state
      BY <1>7, <2>3 DEF RunStop, Assign
    <3> QED BY <1>4, <2>1, <2>3, <3>1, <3>2
  <2> QED BY <2>2, <2>3
<1>8. CASE RunReset
  <2>1. /\ queue # << >> /\ Head(queue) = "reset" /\ UNCHANGED <<upc, wanted, accepted>>
        /\ accepted = None
    BY <1>8 DEF RunReset, Functor, LoopFree, calls, conn
  <2>2. Taken \in MemberType /\ Taken.queue = Tail(queue) /\ Taken.state = state
    BY <1>0, <2>1, TakenTyped
  <2> DEFINE r == [Taken EXCEPT !.channel = None]
  <2>3. r.queue = Taken.queue /\ r.state = Taken.state
    BY <2>2 DEF MemberType
  <2>4. queue' = r.queue /\ state' = r.state
    BY <1>8 DEF RunReset, Assign
  <2> QED BY <1>2, <2>1, <2>2, <2>3, <2>4
<1>9. CASE RetryTimer
  <2>1. UNCHANGED <<upc, wanted, accepted>>
    BY <1>9 DEF RetryTimer, calls, conn
  <2>2. CASE connect
    BY <2>1, <2>2, <1>5 DEF WantedInv
  <2>3. CASE ~connect
    <3> DEFINE m == Members
               r == [m EXCEPT !.timers = @ - 1]
    <3>1. m \in MemberType
      BY <1>0
    <3>2. \E works \in BOOLEAN : Assign(StartInLoop(r, works))
      BY <1>9 DEF RetryTimer
    <3> HIDE DEF m
    <3>3. r.connect = m.connect /\ r.queue = m.queue /\ r.state = m.state
      BY <3>1 DEF MemberType
    <3>4. m.connect = connect /\ m.queue = queue /\ m.state = state
      BY <1>0 DEF m
    <3> HIDE DEF r
    <3>5. Assign(r)
      BY <2>3, <3>2, <3>3, <3>4 DEF StartInLoop
    <3>6. queue' = queue /\ state' = state
      BY <3>3, <3>4, <3>5 DEF Assign
    <3> QED BY <1>3, <2>1, <3>6
  <2> QED BY <2>2, <2>3 DEF ConnectorTypeOK
<1>10. CASE HandleFailure
  <2> DEFINE w == Close(RemoveAndResetChannel(Members), channel)
  <2>1. accepted' = None /\ Assign(RetryOf(w))
    BY <1>10 DEF HandleFailure, Ready, LoopFree, conn
  <2>2. w \in MemberType
    BY <1>0, RemoveTyped, CloseTyped
  <2> HIDE DEF w
  <2>3. state' = "disconnected"
    BY <2>1, <2>2, RetryTyped DEF Assign
  <2> QED BY <1>4, <2>1, <2>3
<1>11. CASE HandleWrite
  <2>1. UNCHANGED wanted
    BY <1>11 DEF HandleWrite, calls
  <2>2. CASE connect
    BY <2>1, <2>2, <1>5 DEF WantedInv
  <2>3. CASE ~connect
    <3> DEFINE v == RemoveAndResetChannel(Members)
               m == [v EXCEPT !.state = "connected"]
    <3>1. v \in MemberType
      BY <1>0, RemoveTyped
    <3>2. Assign(Close(m, channel)) /\ accepted' = None
      BY <1>11, <2>3 DEF HandleWrite, Ready, LoopFree
    <3> HIDE DEF v
    <3>3. m \in MemberType /\ m.state = "connected"
      BY <3>1 DEF MemberType
    <3> HIDE DEF m
    <3>4. state' = "connected"
      BY <3>2, <3>3, CloseTyped DEF Assign
    <3> QED BY <1>4, <3>2, <3>4
  <2> QED BY <2>2, <2>3 DEF ConnectorTypeOK
<1>12. CASE NewConnection
  <2> DEFINE m == Members
             r == [m EXCEPT !.settled = TRUE]
  <2>1. /\ accepted # None /\ UNCHANGED <<upc, wanted>> /\ Assign(r)
    BY <1>12 DEF NewConnection, calls
  <2>2. m \in MemberType /\ m.queue = queue /\ m.state = state
    BY <1>0
  <2> HIDE DEF m
  <2>3. queue' = queue
    BY <2>1, <2>2 DEF Assign, MemberType
  <2> QED BY <2>1, <2>3 DEF StopInv, StopUnderWay
<1>13. ASSUME NEW c \in Sockets, ConnectionCloses(c)
       PROVE  StopInv'
  <2>1. UNCHANGED <<upc, wanted, accepted>> /\ Assign(Close(Members, c))
    BY <1>13 DEF ConnectionCloses, calls
  <2>2. queue' = queue /\ state' = state
    BY <1>0, <2>1, CloseTyped DEF Assign
  <2> QED BY <1>3, <2>1, <2>2
<1>14. CASE LoopStart \/ OtherStart
  BY <1>5, <1>14 DEF LoopStart, OtherStart, Begins
<1>15. CASE LoopStop
  <2> DEFINE m == Members
             r == [m EXCEPT !.connect = FALSE, !.settled = TRUE, !.queue = Append(@, "stop")]
  <2>1. Assign(r)
    BY <1>15 DEF LoopStop
  <2>2. m \in MemberType /\ m.queue = queue
    BY <1>0
  <2> HIDE DEF m
  <2>3. queue' = Append(queue, "stop")
    BY <2>1, <2>2 DEF Assign, MemberType
  <2>4. Has(queue', "stop")
    BY <1>1, <2>3, HasAppend DEF Posts
  <2>5. StopUnderWay'
    BY <2>4 DEF StopUnderWay, Has
  <2> QED BY <2>5 DEF StopInv
<1>16. CASE OtherStop
  BY <1>16 DEF OtherStop, StopInv, StopUnderWay
<1>17. CASE OtherPosts
  <2> DEFINE m == Members
             r == [m EXCEPT !.queue = Append(@, upc)]
  <2>1. Assign(r) /\ upc \in Posts /\ UNCHANGED <<wanted, accepted>>
    BY <1>17 DEF OtherPosts, ConnectorTypeOK, Posts, conn
  <2>2. m \in MemberType /\ m.queue = queue /\ m.state = state
    BY <1>0
  <2> HIDE DEF m
  <2>3. queue' = Append(queue, upc) /\ state' = state
    BY <2>1, <2>2 DEF Assign, MemberType
  <2>4. \A g : Has(queue', g) <=> Has(queue, g) \/ g = upc
    BY <1>1, <2>1, <2>3, HasAppend
  <2>5. StopUnderWay => StopUnderWay'
    BY <2>4 DEF StopUnderWay, Has
  <2> QED BY <2>1, <2>3, <2>5 DEF StopInv
<1>18. CASE Disconnect
  BY <1>3, <1>18 DEF Disconnect
<1> QED BY <1>6, <1>7, <1>8, <1>9, <1>10, <1>11, <1>12, <1>13, <1>14, <1>15, <1>16, <1>17, <1>18
        DEF ConnectorNext, LoopSteps, Events, Users

\* Every step of the loop, of the sockets and of the users keeps the invariant.
LEMMA ConnectorSteps == ConnectorWhole /\ [ConnectorNext]_connectorVars => ConnectorWhole'
<1> SUFFICES ASSUME ConnectorWhole, [ConnectorNext]_connectorVars
             PROVE  ConnectorWhole'
  OBVIOUS
<1> SUFFICES ConnectorInv' /\ WantedInv' /\ StopInv'
  BY DEF ConnectorWhole
<1>0. ConnectorInv /\ WantedInv /\ StopInv
  BY DEF ConnectorWhole
<1> HIDE DEF ConnectorWhole
<1>15. StopInv'
  <2>1. CASE ConnectorNext
    BY <1>0, <2>1, StopSteps DEF ConnectorInv
  <2>2. CASE UNCHANGED connectorVars
    BY <1>0, <2>2 DEF StopInv, StopUnderWay, connectorVars, calls, conn
  <2> QED BY <2>1, <2>2
<1> SUFFICES ConnectorInv' /\ WantedInv'
  BY <1>15
<1> USE DEF ConnectorInv, WantedInv
<1>1. CASE RunStart
  BY <1>0, <1>1, RunStartSound DEF RunStart, calls
<1>2. CASE RunStop
  BY <1>0, <1>2, RunStopSound DEF RunStop, calls
<1>3. CASE RunReset
  BY <1>0, <1>3, RunResetSound DEF RunReset, calls
<1>4. CASE RetryTimer
  BY <1>0, <1>4, RetryTimerSound DEF RetryTimer, calls
<1>5. CASE HandleFailure
  BY <1>0, <1>5, FailureSound DEF HandleFailure, calls
<1>6. CASE HandleWrite
  BY <1>0, <1>6, WriteSound DEF HandleWrite, calls
<1>7. ASSUME NEW c \in Sockets, ConnectionCloses(c)
      PROVE  ConnectorInv' /\ WantedInv'
  BY <1>0, <1>7, ConnectionClosesSound DEF ConnectionCloses, calls
<1>8. CASE LoopStart
  BY <1>0, <1>8, LoopStartSound DEF LoopStart, Begins
<1>9. CASE OtherStart
  BY <1>0, <1>9, OtherStartSound DEF OtherStart, Begins
<1>10. CASE LoopStop
  BY <1>0, <1>10, LoopStopSound DEF LoopStop
<1>11. CASE OtherStop
  BY <1>0, <1>11, OtherStopSound DEF OtherStop
<1>12. CASE OtherPosts
  BY <1>0, <1>12, OtherPostsSound DEF OtherPosts
<1>13. CASE Disconnect
  BY <1>0, <1>13, DisconnectSound DEF Disconnect
<1>16. CASE NewConnection
  BY <1>0, <1>16, NewConnectionSound DEF NewConnection, calls
<1>14. CASE UNCHANGED connectorVars
  <2>1. Members' = Members /\ UNCHANGED <<upc, accepted, connection, conns, overlap, connect, wanted>>
    BY <1>14 DEF connectorVars, Members, chan, calls, conn
  <2>2. ConnectorTypeOK'
    BY <1>0, <2>1 DEF ConnectorTypeOK
  <2>3. SocketInv(Members) => SocketInv(Members)'
    BY <2>1 DEF SocketInv, OneAttempt, Underway, Free, Quiet, Idle, Watching, Retrying, Timed,
                OpenConns, Connections, Established, Used, Unused
  <2> QED BY <1>0, <2>1, <2>2, <2>3
<1> QED BY <1>1, <1>2, <1>3, <1>4, <1>5, <1>6, <1>7, <1>8, <1>9, <1>10, <1>11, <1>12, <1>13, <1>14, <1>16
        DEF ConnectorNext, LoopSteps, Events, Users

\* What the invariant says of sockets, in the terms of the property.
LEMMA WholeOwns == ConnectorInv => SocketsOwned
<1> SUFFICES ASSUME ConnectorTypeOK, SocketInv(Members)
             PROVE  /\ polled \subseteq {channel} \ {None}
                    /\ fds = polled \cup ({accepted} \ {None}) \cup Connections
                    /\ (state = "connecting") <=> (polled # {})
                    /\ Established \subseteq {connection}
  BY DEF ConnectorInv, SocketsOwned
<1>1. Members.polled = polled /\ Members.channel = channel /\ Members.fds = fds /\ Members.state = state
  BY DEF Members
<1>2. \/ state # "connecting" /\ polled = {}
      \/ state = "connecting" /\ polled = {channel} /\ channel # None
  BY <1>1 DEF SocketInv, OneAttempt, Free, Quiet, Idle, Watching, Retrying, Timed
<1> QED BY <1>1, <1>2 DEF SocketInv, OpenConns

(* As long as no start() overlaps an attempt before it, no socket is lost: the poller  *)
(* watches channel_ or nothing, and an open socket is being connected or belongs to a  *)
(* connection (connector.cpp: connecting, remove_and_reset_channel, reset_channel).    *)
THEOREM SocketsStayOwned == ConnectorSpec => []SocketsOwned
<1>1. ConnectorWhole => SocketsOwned
  BY WholeOwns DEF ConnectorWhole
<1> QED BY <1>1, ConnectorStarts, ConnectorSteps, PTL DEF ConnectorSpec

(* Once the functor of a stop() has run, and until the next start(), nothing is being  *)
(* connected, no connection is about to come up and no socket is left, whatever start  *)
(* functors, resets and retry timers are still to run (connector.cpp: stop,            *)
(* stop_in_loop, start_in_loop, handle_write, retry).                                  *)
THEOREM StopStaysFinal == ConnectorSpec => []StopIsFinal
<1>1. ConnectorWhole => StopIsFinal
  <2> SUFFICES ASSUME ConnectorInv, StopInv, ~wanted, ~StopUnderWay
               PROVE  state # "connecting" /\ accepted = None /\ (~overlap => fds = Connections)
    BY DEF ConnectorWhole, StopIsFinal
  <2>1. state # "connecting" /\ accepted = None
    BY DEF StopInv
  <2>2. ASSUME ~overlap
        PROVE  fds = Connections
    <3>1. (state = "connecting") <=> (polled # {})
      BY <2>2, WholeOwns DEF SocketsOwned
    <3>2. fds = polled \cup ({accepted} \ {None}) \cup Connections
      BY <2>2, WholeOwns DEF SocketsOwned
    <3> QED BY <2>1, <3>1, <3>2
  <2> QED BY <2>1, <2>2
<1> QED BY <1>1, ConnectorStarts, ConnectorSteps, PTL DEF ConnectorSpec

ServerFunctor == {"established", "remove", "destroyed"} \X Conns

ServerTypeOK ==
  /\ server \in {"new", "listening", "destroyed"} /\ threads \in {0, IoLoops}
  /\ backlog \in Nat /\ nextLoop \in Nat \ {0}
  /\ loopOf \in [Conns -> Loops]
  /\ life \in [Conns -> {"none", "connecting", "connected", "disconnected"}]
  /\ registered \in SUBSET Conns /\ connections \in SUBSET Conns
  /\ loopQueue \in [Loops -> Seq(ServerFunctor)]
  /\ ups \in [Conns -> Nat] /\ downs \in [Conns -> Nat] /\ releases \in [Conns -> Nat]
  /\ stray \in BOOLEAN

\* No functor twice.
Distinct(q) == \A i, j \in 1..Len(q) : q[i] = q[j] => i = j

\* Where both are queued, f comes first.
Before(q, f, g) == \A i, j \in 1..Len(q) : q[i] = f /\ q[j] = g => i < j

\* What a queued functor says about its connection, and where it can be queued.
Means(l, c) ==
  /\ Before(loopQueue[l], <<"established", c>>, <<"destroyed", c>>)
  /\ Has(loopQueue[l], <<"established", c>>) => l = loopOf[c] /\ l # 0 /\ life[c] = "connecting"
  /\ Has(loopQueue[l], <<"remove", c>>) =>
       /\ l = 0 /\ loopOf[c] # 0 /\ life[c] = "disconnected"
       /\ server # "destroyed" => c \in connections
  /\ Has(loopQueue[l], <<"destroyed", c>>) =>
       l = loopOf[c] /\ c \notin connections /\ releases[c] = 0 /\ life[c] # "none"

FunctorInv ==
  /\ \A l \in Loops : Distinct(loopQueue[l])
  /\ \A l \in Loops, c \in Conns : Means(l, c)

\* A connection through its life.
Phase(c) ==
  /\ life[c] = "none" =>
       c \notin connections /\ c \notin registered /\ releases[c] = 0 /\ ups[c] = 0 /\ downs[c] = 0
  /\ life[c] = "connecting" =>
       /\ Has(loopQueue[loopOf[c]], <<"established", c>>)
       /\ c \notin registered /\ releases[c] = 0 /\ ups[c] = 0 /\ downs[c] = 0
  /\ life[c] = "connected" => releases[c] = 0 /\ ups[c] = 1 /\ downs[c] = 0
  /\ life[c] = "disconnected" =>
       /\ ups[c] = 1 /\ downs[c] = 1
       /\ c \in connections => Has(loopQueue[0], <<"remove", c>>)

PhaseInv == \A c \in Conns : Phase(c)

\* Who holds a connection.
Holder(c) ==
  /\ life[c] \in {"connecting", "connected"} /\ server # "destroyed" => c \in connections
  /\ life[c] # "none" =>
       \/ c \in connections
       \/ Has(loopQueue[loopOf[c]], <<"destroyed", c>>)
       \/ releases[c] = 1
  /\ c \in connections => releases[c] = 0
  /\ releases[c] \in {0, 1}
  /\ releases[c] = 1 => c \notin registered

HolderInv == (server = "destroyed" => connections = {}) /\ \A c \in Conns : Holder(c)

\* The loops before nextLoop have been given one connection more than the others.
ShareInv ==
  /\ server = "new" => \A c \in Conns : life[c] = "none"
  /\ threads = 0 => nextLoop = 1 /\ \A c \in Conns : loopOf[c] = 0
  /\ threads # 0 =>
       /\ nextLoop \in 1..IoLoops
       /\ \A l \in 1..IoLoops :
            Cardinality(GivenTo(l)) = Cardinality(GivenTo(IoLoops)) + (IF l < nextLoop THEN 1 ELSE 0)

\* The parts that hold until a close has come back to a server that is gone.
TidyInv == FunctorInv /\ PhaseInv /\ HolderInv

\* What is to be established has been accepted.
KnownInv ==
  \A l \in Loops, c \in Conns : Has(loopQueue[l], <<"established", c>>) => life[c] # "none"

ServerInv == ServerTypeOK /\ ShareInv /\ KnownInv /\ (~stray => TidyInv)

-----------------------------------------------------------------------------
(* What posting and running functors does to a loop's queue.               *)

\* A functor that is posted comes last.
LEMMA Posted ==
  ASSUME NEW q \in Seq(ServerFunctor), NEW f \in ServerFunctor
  PROVE  /\ Append(q, f) \in Seq(ServerFunctor)
         /\ \A g : Has(Append(q, f), g) <=> Has(q, g) \/ g = f
         /\ Distinct(q) /\ ~Has(q, f) => Distinct(Append(q, f))
         /\ \A g, h : Before(q, g, h) /\ f # g => Before(Append(q, f), g, h)
<1> HIDE DEF ServerFunctor
<1>1. /\ Append(q, f) \in Seq(ServerFunctor) /\ Len(Append(q, f)) = Len(q) + 1 /\ Len(q) \in Nat
      /\ \A i \in 1..Len(q) : Append(q, f)[i] = q[i]
      /\ Append(q, f)[Len(q) + 1] = f
  OBVIOUS
<1>2. \A i \in 1..Len(q) + 1 : i \in 1..Len(q) \/ i = Len(q) + 1
  BY <1>1
<1>3. \A i \in 1..Len(q) : i \in 1..Len(q) + 1 /\ i < Len(q) + 1
  BY <1>1
<1>4. Len(q) + 1 \in 1..Len(q) + 1
  BY <1>1
<1>5. \A g : Has(Append(q, f), g) <=> Has(q, g) \/ g = f
  BY <1>1, <1>2, <1>3, <1>4 DEF Has
<1>6. Distinct(q) /\ ~Has(q, f) => Distinct(Append(q, f))
  BY <1>1, <1>2 DEF Has, Distinct
<1>7. \A g, h : Before(q, g, h) /\ f # g => Before(Append(q, f), g, h)
  BY <1>1, <1>2, <1>3 DEF Before
<1> QED BY <1>1, <1>5, <1>6, <1>7

\* A functor that is taken from its queue was the first; the others stay in order.
LEMMA TakenOff ==
  ASSUME NEW q \in Seq(ServerFunctor), q # << >>
  PROVE  /\ Tail(q) \in Seq(ServerFunctor) /\ Head(q) \in ServerFunctor /\ Has(q, Head(q))
         /\ \A g : Has(Tail(q), g) => Has(q, g)
         /\ \A g : Has(q, g) /\ g # Head(q) => Has(Tail(q), g)
         /\ Distinct(q) => Distinct(Tail(q)) /\ ~Has(Tail(q), Head(q))
         /\ \A g, h : Before(q, g, h) => Before(Tail(q), g, h)
         /\ \A g : Before(q, g, Head(q)) => ~Has(q, g)
<1> HIDE DEF ServerFunctor
<1>1. /\ Tail(q) \in Seq(ServerFunctor) /\ Head(q) \in ServerFunctor /\ Head(q) = q[1]
      /\ Len(q) \in Nat \ {0} /\ Len(Tail(q)) = Len(q) - 1
      /\ \A i \in 1..Len(q) - 1 : Tail(q)[i] = q[i + 1]
  OBVIOUS
<1>2. \A i \in 1..Len(q) : i # 1 => i - 1 \in 1..Len(q) - 1 /\ (i - 1) + 1 = i
  BY <1>1
<1>3. \A i \in 1..Len(q) - 1 : i + 1 \in 1..Len(q) /\ i + 1 # 1
  BY <1>1
<1>4. 1 \in 1..Len(q) /\ \A i \in 1..Len(q) : ~(i < 1)
  BY <1>1
<1>5. ASSUME NEW g, Has(Tail(q), g)
      PROVE  Has(q, g)
  BY <1>1, <1>3, <1>5 DEF Has
<1>6. ASSUME NEW g, Has(q, g), g # Head(q)
      PROVE  Has(Tail(q), g)
  <2>1. PICK i \in 1..Len(q) : q[i] = g
    BY <1>6 DEF Has
  <2>2. i # 1 /\ i - 1 \in 1..Len(q) - 1 /\ Tail(q)[i - 1] = q[i]
    BY <1>1, <1>2, <1>6, <2>1
  <2> QED BY <1>1, <2>1, <2>2 DEF Has
<1>7. ASSUME Distinct(q)
      PROVE  Distinct(Tail(q)) /\ ~Has(Tail(q), Head(q))
  <2>1. \A i, j \in 1..Len(q) - 1 : i + 1 = j + 1 => i = j
    BY <1>1
  <2>2. Distinct(Tail(q))
    BY <1>1, <1>3, <1>7, <2>1 DEF Distinct
  <2> QED BY <1>1, <1>3, <1>4, <1>7, <2>2 DEF Distinct, Has
<1>8. ASSUME NEW g, NEW h, Before(q, g, h)
      PROVE  Before(Tail(q), g, h)
  <2>1. \A i, j \in 1..Len(q) - 1 : i + 1 < j + 1 => i < j
    BY <1>1
  <2> QED BY <1>1, <1>3, <1>8, <2>1 DEF Before
<1>9. \A g : Before(q, g, Head(q)) => ~Has(q, g)
  BY <1>1, <1>4 DEF Before, Has
<1> QED BY <1>1, <1>4, <1>5, <1>6, <1>7, <1>8, <1>9 DEF Has

\* Distinct functors that are posted one after another come last.
LEMMA PostedAll ==
  ASSUME NEW q \in Seq(ServerFunctor), NEW F \in SUBSET ServerFunctor, IsFiniteSet(F)
  PROVE  /\ q \o SetToSeq(F) \in Seq(ServerFunctor)
         /\ \A g : Has(q \o SetToSeq(F), g) <=> Has(q, g) \/ g \in F
         /\ Distinct(q) /\ (\A f \in F : ~Has(q, f)) => Distinct(q \o SetToSeq(F))
         /\ \A g, h : Before(q, g, h) /\ g \notin F => Before(q \o SetToSeq(F), g, h)
<1> HIDE DEF ServerFunctor
<1> DEFINE n == Cardinality(F)
           s == SetToSeq(F)
<1>1. n \in Nat /\ ExistsBijection(1..n, F)
  BY FS_CardinalityType
<1>2. \E f \in [1..n -> F] : IsInjective(f)
  BY <1>1 DEF ExistsBijection, Bijection, Injection
<1>3. s \in [1..n -> F] /\ IsInjective(s)
  BY <1>2, Zenon DEF SetToSeq
<1> HIDE DEF s
<1>4. IsFiniteSet(1..n) /\ Cardinality(1..n) = n
  BY <1>1, FS_Interval
<1>5. s \in Injection(1..n, F)
  BY <1>3 DEF Injection
<1>6. s \in Surjection(1..n, F)
  BY <1>4, <1>5, FS_Injection
<1>7. \A f \in F : \E i \in 1..n : s[i] = f
  BY <1>6 DEF Surjection
<1> HIDE DEF n
<1>8. s \in Seq(ServerFunctor) /\ Len(s) = n /\ Len(q) \in Nat
  BY <1>1, <1>3
<1>9. /\ q \o s \in Seq(ServerFunctor) /\ Len(q \o s) = Len(q) + n
      /\ \A i \in 1..Len(q) : (q \o s)[i] = q[i]
      /\ \A i \in 1..Len(q) + n : i > Len(q) => (q \o s)[i] = s[i - Len(q)]
  BY <1>1, <1>8
<1>10. /\ \A i \in 1..Len(q) : i \in 1..Len(q) + n
       /\ \A i \in 1..Len(q) + n :
            i \in 1..Len(q) \/ (i > Len(q) /\ i - Len(q) \in 1..n /\ Len(q) + (i - Len(q)) = i)
       /\ \A i \in 1..n : Len(q) + i \in 1..Len(q) + n /\ Len(q) + i > Len(q)
            /\ (Len(q) + i) - Len(q) = i
  BY <1>1, <1>8
<1>11. ASSUME NEW g
       PROVE  Has(q \o s, g) <=> Has(q, g) \/ g \in F
  <2>1. Has(q \o s, g) => Has(q, g) \/ g \in F
    BY <1>3, <1>9, <1>10 DEF Has
  <2>2. Has(q, g) => Has(q \o s, g)
    BY <1>9, <1>10 DEF Has
  <2>3. ASSUME g \in F
        PROVE  Has(q \o s, g)
    <3>1. PICK i \in 1..n : s[i] = g
      BY <1>7, <2>3
    <3>2. Len(q) + i \in 1..Len(q \o s) /\ (q \o s)[Len(q) + i] = g
      BY <1>9, <1>10, <3>1
    <3> QED BY <3>2 DEF Has
  <2> QED BY <2>1, <2>2, <2>3
<1>12. ASSUME Distinct(q), \A f \in F : ~Has(q, f), NEW i \in 1..Len(q) + n, NEW j \in 1..Len(q) + n,
              (q \o s)[i] = (q \o s)[j]
       PROVE  i = j
  <2>1. CASE i \in 1..Len(q) /\ j \in 1..Len(q)
    BY <1>9, <1>12, <2>1 DEF Distinct
  <2>2. CASE i \in 1..Len(q) /\ j \notin 1..Len(q)
    BY <1>3, <1>9, <1>10, <1>12, <2>2 DEF Has
  <2>3. CASE i \notin 1..Len(q) /\ j \in 1..Len(q)
    BY <1>3, <1>9, <1>10, <1>12, <2>3 DEF Has
  <2>4. CASE i \notin 1..Len(q) /\ j \notin 1..Len(q)
    <3>1. i - Len(q) = j - Len(q)
      BY <1>3, <1>9, <1>10, <1>12, <2>4 DEF IsInjective
    <3> QED BY <1>10, <2>4, <3>1
  <2> QED BY <2>1, <2>2, <2>3, <2>4
<1>13. ASSUME NEW g, NEW h, Before(q, g, h), g \notin F,
              NEW i \in 1..Len(q) + n, NEW j \in 1..Len(q) + n,
              (q \o s)[i] = g, (q \o s)[j] = h
       PROVE  i < j
  <2>1. i \in 1..Len(q)
    BY <1>3, <1>9, <1>10, <1>13
  <2>2. CASE j \in 1..Len(q)
    BY <1>9, <1>13, <2>1, <2>2 DEF Before
  <2>3. CASE j \notin 1..Len(q)
    BY <1>8, <1>10, <2>1, <2>3
  <2> QED BY <2>2, <2>3
<1>14. Distinct(q) /\ (\A f \in F : ~Has(q, f)) => Distinct(q \o s)
  BY <1>9, <1>12 DEF Distinct
<1>15. ASSUME NEW g, NEW h, Before(q, g, h), g \notin F
       PROVE  Before(q \o s, g, h)
  <2>1. \A i, j \in 1..Len(q) + n : (q \o s)[i] = g /\ (q \o s)[j] = h => i < j
    BY <1>13, <1>15
  <2> QED BY <1>9, <2>1 DEF Before
<1> QED BY <1>9, <1>11, <1>14, <1>15 DEF s

\* q is p, the loops' queues, with f posted to loop l.
PostedTo(p, q, l, f) ==
  /\ q \in [Loops -> Seq(ServerFunctor)]
  /\ \A k \in Loops : \A g : Has(q[k], g) <=> Has(p[k], g) \/ (k = l /\ g = f)
  /\ \A k \in Loops : Distinct(p[k]) /\ ~Has(p[k], f) => Distinct(q[k])
  /\ \A k \in Loops : \A g, h : Before(p[k], g, h) /\ g # f => Before(q[k], g, h)

\* Post does that.
LEMMA PostSound ==
  ASSUME NEW p \in [Loops -> Seq(ServerFunctor)], NEW l \in Loops,
         NEW w \in {"established", "remove", "destroyed"},
         NEW c \in Conns, NEW q, q = Post(p, l, w, c)
  PROVE  PostedTo(p, q, l, <<w, c>>)
<1>1. <<w, c>> \in ServerFunctor
  BY DEF ServerFunctor
<1> DEFINE f == <<w, c>>
<1> HIDE DEF f
<1>2. q = [p EXCEPT ![l] = Append(p[l], f)]
  BY DEF Post, f
<1>3. \A k \in Loops : q[k] = IF k = l THEN Append(p[l], f) ELSE p[k]
  BY <1>2
<1>4. /\ Append(p[l], f) \in Seq(ServerFunctor)
      /\ \A g : Has(Append(p[l], f), g) <=> Has(p[l], g) \/ g = f
      /\ Distinct(p[l]) /\ ~Has(p[l], f) => Distinct(Append(p[l], f))
      /\ \A g, h : Before(p[l], g, h) /\ f # g => Before(Append(p[l], f), g, h)
  BY <1>1, Posted DEF f
<1>5. q \in [Loops -> Seq(ServerFunctor)]
  BY <1>2, <1>4
<1> QED BY <1>3, <1>4, <1>5 DEF f, PostedTo

\* q is p, the loops' queues, with f, the first functor of loop l, taken off.
TakenFrom(p, q, l, f) ==
  /\ q \in [Loops -> Seq(ServerFunctor)] /\ Has(p[l], f)
  /\ \A k \in Loops : \A g : Has(q[k], g) => Has(p[k], g)
  /\ \A k \in Loops : \A g : Has(p[k], g) /\ ~(k = l /\ g = f) => Has(q[k], g)
  /\ Distinct(p[l]) => ~Has(q[l], f)
  /\ \A k \in Loops : Distinct(p[k]) => Distinct(q[k])
  /\ \A k \in Loops : \A g, h : Before(p[k], g, h) => Before(q[k], g, h)
  /\ \A g : Before(p[l], g, f) => ~Has(p[l], g)

\* Popped does that.
LEMMA PopSound ==
  ASSUME ServerTypeOK, NEW l \in Loops, NEW w, FunctorAt(l, w)
  PROVE  \E c \in Conns :
           /\ c = Head(loopQueue[l])[2] /\ w \in {"established", "remove", "destroyed"}
           /\ TakenFrom(loopQueue, Popped(l), l, <<w, c>>)
<1>1. loopQueue \in [Loops -> Seq(ServerFunctor)] /\ loopQueue[l] # << >> /\ Head(loopQueue[l])[1] = w
  BY DEF ServerTypeOK, FunctorAt
<1> DEFINE q == loopQueue[l]
           f == Head(q)
           t == Tail(q)
           p == Popped(l)
<1>2. /\ t \in Seq(ServerFunctor) /\ f \in ServerFunctor /\ Has(q, f)
      /\ \A g : Has(t, g) => Has(q, g)
      /\ \A g : Has(q, g) /\ g # f => Has(t, g)
      /\ Distinct(q) => Distinct(t) /\ ~Has(t, f)
      /\ \A g, h : Before(q, g, h) => Before(t, g, h)
      /\ \A g : Before(q, g, f) => ~Has(q, g)
  <2> HIDE DEF ServerFunctor
  <2> QED BY <1>1, TakenOff
<1>3. f[2] \in Conns /\ f = <<w, f[2]>> /\ w \in {"established", "remove", "destroyed"}
  BY <1>1, <1>2 DEF ServerFunctor
<1> HIDE DEF f, t
<1>4. p = [loopQueue EXCEPT ![l] = t]
  BY <1>1 DEF Popped, t
<1> HIDE DEF p, ServerFunctor
<1>5. \A k \in Loops : p[k] = IF k = l THEN t ELSE loopQueue[k]
  BY <1>1, <1>4
<1>6. p \in [Loops -> Seq(ServerFunctor)]
  BY <1>1, <1>2, <1>4
<1>7. TakenFrom(loopQueue, p, l, f)
  BY <1>2, <1>5, <1>6 DEF TakenFrom
<1>8. PICK c \in Conns : c = f[2] /\ f = <<w, c>>
  BY <1>3
<1> WITNESS c \in Conns
<1> QED BY <1>3, <1>7, <1>8 DEF f, p

-----------------------------------------------------------------------------
(* One lemma for each step.                                                *)

\* A step that gives out no connection leaves the shares.
LEMMA SharesStay ==
  ASSUME ServerTypeOK, ServerTypeOK', ShareInv, UNCHANGED <<threads, nextLoop, loopOf>>,
         \A c \in Conns : life'[c] = "none" <=> life[c] = "none",
         server' = "new" => server = "new"
  PROVE  ShareInv'
<1>1. \A l : GivenTo(l)' = GivenTo(l)
  BY DEF GivenTo
<1>2. Cardinality(GivenTo(IoLoops))' = Cardinality(GivenTo(IoLoops))
  BY <1>1
<1> QED BY <1>1, <1>2 DEF ShareInv

\* Before start(): set_thread_num().
LEMMA SetThreadNumSound ==
  ASSUME ServerInv, SetThreadNum
  PROVE  ServerInv'
<1>1. /\ server = "new" /\ threads' = IoLoops
      /\ UNCHANGED <<server, backlog, nextLoop, loopOf, life, registered, connections, loopQueue, ups,
                     downs, releases, stray>>
  BY DEF SetThreadNum
<1>2. ServerTypeOK'
  BY <1>1 DEF ServerInv, ServerTypeOK
<1>3. TidyInv => TidyInv'
  BY <1>1 DEF TidyInv, FunctorInv, Means, PhaseInv, Phase, HolderInv, Holder
<1>4. \A l : GivenTo(l)' = {}
  BY <1>1 DEF ServerInv, ShareInv, GivenTo
<1>5. Cardinality(GivenTo(IoLoops))' = 0 /\ \A l : Cardinality(GivenTo(l))' = 0
  BY <1>4, FS_EmptySet
<1>6. nextLoop \in {1} \cup 1..IoLoops /\ IoLoops \in Nat
  BY TcpServerAssumption DEF ServerInv, ServerTypeOK, ShareInv
<1>7. ShareInv'
  <2>1. CASE threads = 0
    BY <1>1, <1>5, <1>6, <2>1 DEF ServerInv, ShareInv
  <2>2. CASE threads # 0
    <3>1. threads' = threads
      BY <1>1, <2>2 DEF ServerInv, ServerTypeOK
    <3>2. server' = server /\ nextLoop' = nextLoop /\ loopOf' = loopOf /\ life' = life
      BY <1>1
    <3> QED BY <1>1, <1>2, <3>1, <3>2, SharesStay DEF ServerInv
  <2> QED BY <2>1, <2>2
<1> QED BY <1>1, <1>2, <1>3, <1>7 DEF ServerInv, KnownInv

\* start(), and a peer that connects.
LEMMA ListenSound ==
  ASSUME ServerInv, StartServer \/ PeerConnects
  PROVE  ServerInv'
<1>1. /\ server # "destroyed" /\ server' = "listening"
      /\ UNCHANGED <<threads, nextLoop, loopOf, life, registered, connections, loopQueue, ups,
                     downs, releases, stray>>
  BY DEF StartServer, PeerConnects
<1>2. ServerTypeOK'
  <2>1. backlog' \in Nat
    BY DEF StartServer, PeerConnects, ServerInv, ServerTypeOK
  <2> QED BY <1>1, <2>1 DEF ServerInv, ServerTypeOK
<1>3. TidyInv => TidyInv'
  BY <1>1 DEF TidyInv, FunctorInv, Means, PhaseInv, Phase, HolderInv, Holder
<1>4. ShareInv'
  BY <1>1, <1>2, SharesStay DEF ServerInv
<1> QED BY <1>1, <1>2, <1>3, <1>4 DEF ServerInv, KnownInv

\* get_next_loop() goes round.
LEMMA NextLoopRound ==
  ASSUME NEW n \in Nat \ {0}, NEW k \in 1..n
  PROVE  k % n = IF k = n THEN 0 ELSE k
OBVIOUS

\* new_connection gives the connection to the loop whose turn it is.
LEMMA AcceptShares ==
  ASSUME ServerTypeOK, ShareInv, NEW c \in Conns, Accept(c)
  PROVE  ShareInv'
<1>1. /\ server = "listening" /\ server' = server /\ threads' = threads
      /\ life[c] = "none" /\ GetNextLoop /\ loopOf' = [loopOf EXCEPT ![c] = ThisLoop]
      /\ \E v \in {"connected", "connecting"} : life' = [life EXCEPT ![c] = v]
  BY DEF Accept, Establish
<1>2. \A d \in Conns : d # c => loopOf'[d] = loopOf[d] /\ life'[d] = life[d]
  BY <1>1 DEF ServerTypeOK
<1>3. loopOf'[c] = ThisLoop /\ life'[c] # "none"
  BY <1>1 DEF ServerTypeOK
<1>4. CASE threads = 0
  BY <1>1, <1>2, <1>3, <1>4 DEF ShareInv, GetNextLoop, ThisLoop
<1>5. CASE threads # 0
  <2>1. threads = IoLoops /\ IoLoops \in Nat \ {0} /\ nextLoop \in 1..IoLoops /\ ThisLoop = nextLoop
    BY <1>5, TcpServerAssumption DEF ServerTypeOK, ShareInv, ThisLoop
  <2>2. nextLoop' = IF nextLoop = IoLoops THEN 1 ELSE nextLoop + 1
    <3>1. nextLoop % IoLoops = IF nextLoop = IoLoops THEN 0 ELSE nextLoop
      BY <2>1, NextLoopRound
    <3> QED BY <1>1, <1>5, <2>1, <3>1 DEF GetNextLoop
  <2>0. PICK k : k = nextLoop
    OBVIOUS
  <2>3. /\ GivenTo(k)' = GivenTo(k) \cup {c} /\ c \notin GivenTo(k)
        /\ \A l : l # k => GivenTo(l)' = GivenTo(l)
    <3>1. \A l, d : d \in GivenTo(l)' <=> d \in GivenTo(l) \/ (d = c /\ l = k)
      BY <1>1, <1>2, <1>3, <2>0, <2>1 DEF GivenTo
    <3>2. c \notin GivenTo(k)
      BY <1>1 DEF GivenTo
    <3>3. \A d : d \in GivenTo(k)' <=> d \in GivenTo(k) \cup {c}
      BY <3>1
    <3>4. GivenTo(k)' = GivenTo(k) \cup {c}
      BY <3>3, Zenon
    <3>5. ASSUME NEW l, l # k
          PROVE  GivenTo(l)' = GivenTo(l)
      <4>1. \A d : d \in GivenTo(l)' <=> d \in GivenTo(l)
        BY <3>1, <3>5
      <4> QED BY <4>1, Zenon
    <3> QED BY <3>2, <3>4, <3>5
  <2>4. \A l : IsFiniteSet(GivenTo(l)) /\ Cardinality(GivenTo(l)) \in Nat
    <3>1. IsFiniteSet(Conns)
      BY FS_Interval, TcpServerAssumption DEF Conns
    <3>2. \A l : GivenTo(l) \subseteq Conns
      BY DEF GivenTo
    <3> QED BY <3>1, <3>2, FS_Subset, FS_CardinalityType
  <2>5. Cardinality(GivenTo(k)') = Cardinality(GivenTo(k)) + 1
    BY <2>3, <2>4, FS_AddElement
  <2> DEFINE n(l) == Cardinality(GivenTo(l))
             m(l) == Cardinality(GivenTo(l)')
  <2>6. \A l \in 1..IoLoops : n(l) = n(IoLoops) + (IF l < nextLoop THEN 1 ELSE 0)
    BY <1>5 DEF ShareInv
  <2>7. m(k) = n(k) + 1 /\ \A l : l # k => m(l) = n(l)
    BY <2>3, <2>5
  <2>8. \A l : n(l) \in Nat
    BY <2>4
  <2> HIDE DEF n, m
  <2>9. \A l \in 1..IoLoops : m(l) = m(IoLoops) + (IF l < nextLoop' THEN 1 ELSE 0)
    BY <2>0, <2>1, <2>2, <2>6, <2>7, <2>8
  <2>10. nextLoop' \in 1..IoLoops
    BY <2>1, <2>2
  <2> QED BY <1>1, <1>5, <2>9, <2>10 DEF ShareInv, m
<1> QED BY <1>4, <1>5

\* new_connection: connections_ has the connection, and connect_established runs, or is
\* queued on the connection's loop.
LEMMA AcceptSound ==
  ASSUME ServerInv, NEW c \in Conns, Accept(c)
  PROVE  ServerInv'
<1>1. /\ server = "listening" /\ backlog > 0 /\ backlog' = backlog - 1 /\ life[c] = "none"
      /\ GetNextLoop /\ loopOf' = [loopOf EXCEPT ![c] = ThisLoop]
      /\ connections' = connections \cup {c}
      /\ UNCHANGED <<server, threads, downs, releases, stray>>
  BY DEF Accept
<1>2. ServerTypeOK /\ ShareInv /\ KnownInv /\ (~stray => TidyInv)
  BY DEF ServerInv
<1>3. ThisLoop \in Loops /\ nextLoop' \in Nat \ {0}
  <2>1. CASE threads = 0
    BY <1>1, <1>2, <2>1, TcpServerAssumption DEF ThisLoop, GetNextLoop, ServerTypeOK, Loops
  <2>2. CASE threads # 0
    <3>1. threads = IoLoops /\ IoLoops \in Nat \ {0} /\ nextLoop \in 1..IoLoops
      BY <1>2, <2>2, TcpServerAssumption DEF ServerTypeOK, ShareInv
    <3>2. nextLoop % IoLoops = IF nextLoop = IoLoops THEN 0 ELSE nextLoop
      BY <3>1, NextLoopRound
    <3> QED BY <1>1, <2>2, <3>1, <3>2 DEF ThisLoop, GetNextLoop, Loops
  <2> QED BY <2>1, <2>2
<1>4. PICK h \in Loops : h = ThisLoop
  BY <1>3
<1>5. loopOf' \in [Conns -> Loops] /\ loopOf'[c] = h
      /\ \A d \in Conns : d # c => loopOf'[d] = loopOf[d]
  BY <1>1, <1>2, <1>4 DEF ServerTypeOK
<1>6. connections' \in SUBSET Conns /\ backlog' \in Nat
  BY <1>1, <1>2 DEF ServerTypeOK
<1>7. ShareInv'
  BY <1>2, AcceptShares
<1>8. ASSUME TidyInv
      PROVE  /\ c \notin registered /\ c \notin connections /\ releases[c] = 0 /\ ups[c] = 0 /\ downs[c] = 0
             /\ \A l \in Loops : /\ ~Has(loopQueue[l], <<"established", c>>)
                                /\ ~Has(loopQueue[l], <<"remove", c>>)
                                /\ ~Has(loopQueue[l], <<"destroyed", c>>)
  BY <1>1, <1>8 DEF TidyInv, FunctorInv, Means, PhaseInv, Phase
<1>9. CASE h = 0
  <2>1. /\ life' = [life EXCEPT ![c] = "connected"] /\ registered' = registered \cup {c}
        /\ ups' = [ups EXCEPT ![c] = @ + 1] /\ loopQueue' = loopQueue
    BY <1>4, <1>9 DEF Accept, Establish
  <2>2. ServerTypeOK'
    BY <1>1, <1>2, <1>3, <1>5, <1>6, <2>1 DEF ServerTypeOK
  <2>3. /\ life'[c] = "connected" /\ ups'[c] = ups[c] + 1
        /\ \A d \in Conns : d # c => life'[d] = life[d] /\ ups'[d] = ups[d]
    BY <1>2, <2>1 DEF ServerTypeOK
  <2>4. ASSUME TidyInv
        PROVE  TidyInv'
    <3>1. FunctorInv'
      BY <1>1, <1>5, <1>8, <2>1, <2>3, <2>4 DEF TidyInv, FunctorInv, Means
    <3>2. ASSUME NEW d \in Conns
          PROVE  Phase(d)' /\ Holder(d)'
      <4>1. CASE d = c
        BY <1>1, <1>8, <2>1, <2>3, <2>4, <4>1 DEF Phase, Holder
      <4>2. CASE d # c
        BY <1>1, <1>5, <2>1, <2>3, <2>4, <4>2 DEF TidyInv, PhaseInv, Phase, HolderInv, Holder
      <4> QED BY <4>1, <4>2
    <3> QED BY <1>1, <3>1, <3>2 DEF TidyInv, PhaseInv, HolderInv
  <2>5. KnownInv'
    BY <1>2, <2>1, <2>3 DEF KnownInv
  <2> QED BY <1>1, <1>2, <1>7, <2>2, <2>4, <2>5 DEF ServerInv
<1>10. CASE h # 0
  <2>1. /\ life' = [life EXCEPT ![c] = "connecting"]
        /\ loopQueue' = Post(loopQueue, h, "established", c) /\ UNCHANGED <<registered, ups>>
    BY <1>4, <1>10 DEF Accept
  <2>2. PostedTo(loopQueue, loopQueue', h, <<"established", c>>)
    BY <1>2, <2>1, PostSound DEF ServerTypeOK
  <2>3. ServerTypeOK'
    BY <1>1, <1>2, <1>3, <1>5, <1>6, <2>1, <2>2 DEF ServerTypeOK, PostedTo
  <2>4. /\ life'[c] = "connecting"
        /\ \A d \in Conns : d # c => life'[d] = life[d]
    BY <1>2, <2>1 DEF ServerTypeOK
  <2>5. ASSUME TidyInv
        PROVE  TidyInv'
    <3>1. \A l \in Loops : \A d \in Conns :
            /\ Has(loopQueue'[l], <<"established", d>>) <=>
                 Has(loopQueue[l], <<"established", d>>) \/ (l = h /\ d = c)
            /\ Has(loopQueue'[l], <<"remove", d>>) <=> Has(loopQueue[l], <<"remove", d>>)
            /\ Has(loopQueue'[l], <<"destroyed", d>>) <=> Has(loopQueue[l], <<"destroyed", d>>)
      BY <2>2 DEF PostedTo
    <3>2. \A l \in Loops : Distinct(loopQueue'[l])
      BY <1>8, <2>2, <2>5 DEF TidyInv, FunctorInv, PostedTo
    <3>3. ASSUME NEW l \in Loops, NEW d \in Conns
          PROVE  Before(loopQueue'[l], <<"established", d>>, <<"destroyed", d>>)
      <4>1. CASE d = c
        BY <1>8, <2>5, <3>1, <4>1 DEF Before, Has
      <4>2. CASE d # c
        BY <2>2, <2>5, <4>2 DEF TidyInv, FunctorInv, Means, PostedTo
      <4> QED BY <4>1, <4>2
    <3>4. FunctorInv'
      BY <1>1, <1>5, <1>8, <1>10, <2>4, <2>5, <3>1, <3>2, <3>3 DEF TidyInv, FunctorInv, Means
    <3>5. ASSUME NEW d \in Conns
          PROVE  Phase(d)' /\ Holder(d)'
      <4>1. 0 \in Loops /\ loopOf[d] \in Loops
        BY <1>2, TcpServerAssumption DEF ServerTypeOK, Loops
      <4>2. CASE d = c
        BY <1>1, <1>5, <1>8, <2>1, <2>4, <2>5, <3>1, <4>2 DEF Phase, Holder
      <4>3. CASE d # c
        BY <1>1, <1>5, <2>1, <2>4, <2>5, <3>1, <4>1, <4>3 DEF TidyInv, PhaseInv, Phase, HolderInv, Holder
      <4> QED BY <4>2, <4>3
    <3> QED BY <1>1, <3>4, <3>5 DEF TidyInv, PhaseInv, HolderInv
  <2>6. KnownInv'
    BY <1>2, <2>2, <2>4 DEF KnownInv, PostedTo
  <2> QED BY <1>1, <1>2, <1>7, <2>3, <2>5, <2>6 DEF ServerInv
<1> QED BY <1>9, <1>10

\* connect_established on the connection's loop.
LEMMA RunEstablishedSound ==
  ASSUME ServerInv, NEW l \in Loops, RunEstablished(l)
  PROVE  ServerInv'
<1>1. PICK c \in Conns : /\ c = Head(loopQueue[l])[2]
                         /\ TakenFrom(loopQueue, Popped(l), l, <<"established", c>>)
  BY PopSound DEF ServerInv, RunEstablished
<1>2. /\ life' = [life EXCEPT ![c] = "connected"] /\ registered' = registered \cup {c}
      /\ ups' = [ups EXCEPT ![c] = @ + 1] /\ loopQueue' = Popped(l)
      /\ UNCHANGED <<server, threads, backlog, nextLoop, loopOf, connections, downs, releases, stray>>
  BY <1>1 DEF RunEstablished, Establish
<1>3. ServerTypeOK'
  BY <1>1, <1>2 DEF ServerInv, ServerTypeOK, TakenFrom
<1>4. /\ life'[c] = "connected" /\ ups'[c] = ups[c] + 1
      /\ \A d \in Conns : d # c => life'[d] = life[d] /\ ups'[d] = ups[d]
  BY <1>2 DEF ServerInv, ServerTypeOK
<1>5. \A d \in Conns : life'[d] = "none" <=> life[d] = "none"
  BY <1>1, <1>4 DEF ServerInv, KnownInv, TakenFrom
<1>6. ShareInv'
  BY <1>2, <1>3, <1>5, SharesStay DEF ServerInv
<1>7. KnownInv'
  BY <1>1, <1>2, <1>5 DEF ServerInv, KnownInv, TakenFrom
<1>8. ASSUME TidyInv
      PROVE  TidyInv'
  <2>0. (\A k \in Loops : Distinct(loopQueue[k])) /\ \A k \in Loops, d \in Conns : Means(k, d)
    BY <1>8 DEF TidyInv, FunctorInv
  <2>1. life[c] = "connecting" /\ l = loopOf[c] /\ l # 0
    <3>1. Has(loopQueue[l], <<"established", c>>) /\ Means(l, c)
      BY <1>1, <2>0 DEF TakenFrom
    <3> QED BY <3>1 DEF Means
  <2>2. \A k \in Loops : \A d \in Conns :
          /\ Has(loopQueue'[k], <<"established", d>>) => Has(loopQueue[k], <<"established", d>>) /\ d # c
          /\ Has(loopQueue[k], <<"established", d>>) /\ d # c => Has(loopQueue'[k], <<"established", d>>)
          /\ Has(loopQueue'[k], <<"remove", d>>) <=> Has(loopQueue[k], <<"remove", d>>)
          /\ Has(loopQueue'[k], <<"destroyed", d>>) <=> Has(loopQueue[k], <<"destroyed", d>>)
    <3>1. ASSUME NEW k \in Loops, NEW d \in Conns
          PROVE  Has(loopQueue'[k], <<"established", d>>) => Has(loopQueue[k], <<"established", d>>) /\ d # c
      <4>1. Has(loopQueue'[k], <<"established", d>>) => Has(loopQueue[k], <<"established", d>>)
        BY <1>1, <1>2 DEF TakenFrom
      <4>2. Has(loopQueue[k], <<"established", c>>) => k = l
        BY <2>0, <2>1 DEF Means
      <4>3. ~Has(loopQueue'[l], <<"established", c>>)
        BY <1>1, <1>2, <2>0 DEF TakenFrom
      <4> QED BY <4>1, <4>2, <4>3
    <3>2. ASSUME NEW k \in Loops, NEW d \in Conns, NEW w, w # "established" \/ d # c
          PROVE  Has(loopQueue'[k], <<w, d>>) <=> Has(loopQueue[k], <<w, d>>)
      <4>1. <<w, d>> # <<"established", c>>
        BY <3>2
      <4> QED BY <1>1, <1>2, <4>1 DEF TakenFrom
    <3> QED BY <3>1, <3>2
  <2>3. \A k \in Loops : /\ Distinct(loopQueue'[k])
                         /\ \A d \in Conns : Before(loopQueue'[k], <<"established", d>>, <<"destroyed", d>>)
    BY <1>1, <1>2, <2>0 DEF Means, TakenFrom
  <2>4. FunctorInv'
    BY <1>2, <1>4, <2>0, <2>1, <2>2, <2>3 DEF FunctorInv, Means
  <2>5. ASSUME NEW d \in Conns
        PROVE  Phase(d)' /\ Holder(d)'
    <3>1. 0 \in Loops /\ loopOf[d] \in Loops
      BY TcpServerAssumption DEF ServerInv, ServerTypeOK, Loops
    <3>2. CASE d = c
      <4>1. Phase(c) /\ Holder(c)
        BY <1>8 DEF TidyInv, PhaseInv, HolderInv
      <4>2. Phase(c)'
        BY <1>2, <1>4, <2>1, <4>1 DEF Phase
      <4>3. c \in connections \/ Has(loopQueue'[loopOf[c]], <<"destroyed", c>>)
        <5>1. c \in connections \/ Has(loopQueue[l], <<"destroyed", c>>)
          BY <2>1, <4>1 DEF Phase, Holder
        <5> QED BY <2>1, <2>2, <5>1
      <4>4. Holder(c)'
        BY <1>2, <1>4, <2>1, <4>1, <4>3 DEF Phase, Holder
      <4> QED BY <3>2, <4>2, <4>4
    <3>3. CASE d # c
      BY <1>2, <1>4, <1>8, <2>2, <3>1, <3>3 DEF TidyInv, PhaseInv, Phase, HolderInv, Holder
    <3> QED BY <3>2, <3>3
  <2> QED BY <1>2, <1>8, <2>4, <2>5 DEF TidyInv, PhaseInv, HolderInv
<1> QED BY <1>2, <1>3, <1>6, <1>7, <1>8 DEF ServerInv

\* connect_destroyed on the connection's loop.
LEMMA RunDestroyedSound ==
  ASSUME ServerInv, NEW l \in Loops, RunDestroyed(l)
  PROVE  ServerInv'
<1>1. PICK c \in Conns : /\ c = Head(loopQueue[l])[2]
                         /\ TakenFrom(loopQueue, Popped(l), l, <<"destroyed", c>>)
  BY PopSound DEF ServerInv, RunDestroyed
<1>2. /\ Destroy({c}) /\ loopQueue' = Popped(l)
      /\ UNCHANGED <<server, threads, backlog, nextLoop, loopOf, connections, ups, stray>>
  BY <1>1 DEF RunDestroyed
<1>3. /\ registered' = registered \ {c}
      /\ \A d \in Conns :
           /\ life'[d] = IF d = c /\ life[d] = "connected" THEN "disconnected" ELSE life[d]
           /\ downs'[d] = IF d = c /\ life[d] = "connected" THEN downs[d] + 1 ELSE downs[d]
           /\ releases'[d] = IF d = c THEN releases[d] + 1 ELSE releases[d]
  BY <1>2 DEF Destroy
<1>4. ServerTypeOK'
  <2>1. /\ life' \in [Conns -> {"none", "connecting", "connected", "disconnected"}]
        /\ downs' \in [Conns -> Nat] /\ releases' \in [Conns -> Nat]
    BY <1>2 DEF Destroy, ServerInv, ServerTypeOK
  <2> QED BY <1>1, <1>2, <1>3, <2>1 DEF ServerInv, ServerTypeOK, TakenFrom
<1>5. \A d \in Conns : life'[d] = "none" <=> life[d] = "none"
  BY <1>3
<1>6. ShareInv'
  BY <1>2, <1>4, <1>5, SharesStay DEF ServerInv
<1>7. KnownInv'
  BY <1>1, <1>2, <1>5 DEF ServerInv, KnownInv, TakenFrom
<1>8. ASSUME TidyInv
      PROVE  TidyInv'
  <2>0. (\A k \in Loops : Distinct(loopQueue[k])) /\ \A k \in Loops, d \in Conns : Means(k, d)
    BY <1>8 DEF TidyInv, FunctorInv
  <2>1. /\ l = loopOf[c] /\ c \notin connections /\ releases[c] = 0 /\ life[c] # "none"
        /\ ~Has(loopQueue[l], <<"established", c>>)
    <3>1. Has(loopQueue[l], <<"destroyed", c>>) /\ Means(l, c)
      BY <1>1, <2>0 DEF TakenFrom
    <3>2. ~Has(loopQueue[l], <<"established", c>>)
      BY <1>1, <3>1 DEF TakenFrom, Means
    <3> QED BY <3>1, <3>2 DEF Means
  <2>2. life[c] \in {"connected", "disconnected"}
    BY <1>8, <2>1 DEF TidyInv, PhaseInv, Phase, ServerInv, ServerTypeOK
  <2>3. \A k \in Loops : \A d \in Conns :
          /\ Has(loopQueue'[k], <<"destroyed", d>>) => Has(loopQueue[k], <<"destroyed", d>>) /\ d # c
          /\ Has(loopQueue[k], <<"destroyed", d>>) /\ d # c => Has(loopQueue'[k], <<"destroyed", d>>)
          /\ Has(loopQueue'[k], <<"remove", d>>) <=> Has(loopQueue[k], <<"remove", d>>)
          /\ Has(loopQueue'[k], <<"established", d>>) <=> Has(loopQueue[k], <<"established", d>>)
    <3>1. ASSUME NEW k \in Loops, NEW d \in Conns
          PROVE  Has(loopQueue'[k], <<"destroyed", d>>) => Has(loopQueue[k], <<"destroyed", d>>) /\ d # c
      <4>1. Has(loopQueue'[k], <<"destroyed", d>>) => Has(loopQueue[k], <<"destroyed", d>>)
        BY <1>1, <1>2 DEF TakenFrom
      <4>2. Has(loopQueue[k], <<"destroyed", c>>) => k = l
        BY <2>0, <2>1 DEF Means
      <4>3. ~Has(loopQueue'[l], <<"destroyed", c>>)
        BY <1>1, <1>2, <2>0 DEF TakenFrom
      <4> QED BY <4>1, <4>2, <4>3
    <3>2. ASSUME NEW k \in Loops, NEW d \in Conns, NEW w, w # "destroyed" \/ d # c
          PROVE  Has(loopQueue'[k], <<w, d>>) <=> Has(loopQueue[k], <<w, d>>)
      <4>1. <<w, d>> # <<"destroyed", c>>
        BY <3>2
      <4> QED BY <1>1, <1>2, <4>1 DEF TakenFrom
    <3> QED BY <3>1, <3>2
  <2>4. \A k \in Loops : /\ Distinct(loopQueue'[k])
                         /\ \A d \in Conns : Before(loopQueue'[k], <<"established", d>>, <<"destroyed", d>>)
    BY <1>1, <1>2, <2>0 DEF Means, TakenFrom
  <2>5. FunctorInv'
    BY <1>2, <1>3, <2>0, <2>1, <2>2, <2>3, <2>4 DEF FunctorInv, Means
  <2>6. ASSUME NEW d \in Conns
        PROVE  Phase(d)' /\ Holder(d)'
    <3>1. 0 \in Loops /\ loopOf[d] \in Loops
      BY TcpServerAssumption DEF ServerInv, ServerTypeOK, Loops
    <3>2. CASE d = c
      BY <1>2, <1>3, <1>8, <2>1, <2>2, <2>3, <3>1, <3>2 DEF TidyInv, PhaseInv, Phase, HolderInv, Holder
    <3>3. CASE d # c
      BY <1>2, <1>3, <1>8, <2>3, <3>1, <3>3 DEF TidyInv, PhaseInv, Phase, HolderInv, Holder
    <3> QED BY <3>2, <3>3
  <2> QED BY <1>2, <1>8, <2>5, <2>6 DEF TidyInv, PhaseInv, HolderInv
<1> QED BY <1>2, <1>4, <1>6, <1>7, <1>8 DEF ServerInv

\* remove_connection_in_loop with the server still there: connections_ lets the connection
\* go, connect_destroyed is queued on its loop.  q is the queues before the post.
LEMMA RemoveSound ==
  ASSUME ServerTypeOK, ServerTypeOK', NEW c \in Conns, NEW q,
         PostedTo(q, loopQueue', loopOf[c], <<"destroyed", c>>),
         c \in connections, server # "destroyed", TidyInv,
         connections' = connections \ {c}, life'[c] = "disconnected", ups'[c] = 1, downs'[c] = 1,
         \A d \in Conns : d # c => life'[d] = life[d] /\ downs'[d] = downs[d],
         UNCHANGED <<server, loopOf, registered, releases, ups>>,
         \A k \in Loops : Distinct(q[k]),
         \A k \in Loops, d \in Conns :
           /\ Before(q[k], <<"established", d>>, <<"destroyed", d>>)
           /\ Has(q[k], <<"established", d>>) <=> Has(loopQueue[k], <<"established", d>>)
           /\ Has(q[k], <<"destroyed", d>>) <=> Has(loopQueue[k], <<"destroyed", d>>)
           /\ Has(q[k], <<"remove", d>>) <=> Has(loopQueue[k], <<"remove", d>>) /\ d # c,
         \A k \in Loops : ~Has(loopQueue[k], <<"established", c>>)
  PROVE  TidyInv'
<1>1. 0 \in Loops /\ \A d \in Conns : loopOf[d] \in Loops
  BY TcpServerAssumption DEF ServerTypeOK, Loops
<1>2. \A k \in Loops, d \in Conns :
        /\ Has(loopQueue'[k], <<"established", d>>) <=> Has(loopQueue[k], <<"established", d>>)
        /\ Has(loopQueue'[k], <<"remove", d>>) <=> Has(loopQueue[k], <<"remove", d>>) /\ d # c
        /\ Has(loopQueue'[k], <<"destroyed", d>>) <=>
             Has(loopQueue[k], <<"destroyed", d>>) \/ (k = loopOf[c] /\ d = c)
  BY DEF PostedTo
<1>3. (\A k \in Loops : Distinct(loopQueue[k])) /\ \A k \in Loops, d \in Conns : Means(k, d)
  BY DEF TidyInv, FunctorInv
<1>4. \A k \in Loops : ~Has(q[k], <<"destroyed", c>>)
  BY <1>3 DEF Means
<1>5. \A k \in Loops : Distinct(loopQueue'[k])
  BY <1>4 DEF PostedTo
<1>6. \A k \in Loops, d \in Conns : Before(loopQueue'[k], <<"established", d>>, <<"destroyed", d>>)
  <2>1. \A d \in Conns : <<"established", d>> # <<"destroyed", c>>
    OBVIOUS
  <2> QED BY <2>1 DEF PostedTo
<1>7. Phase(c) /\ Holder(c)
  BY DEF TidyInv, PhaseInv, HolderInv
<1>8. FunctorInv'
  <2>1. ASSUME NEW k \in Loops, NEW d \in Conns
        PROVE  Means(k, d)'
    <3>1. Means(k, d)
      BY <1>3
    <3>2. CASE d = c
      BY <1>2, <1>6, <1>7, <3>1, <3>2 DEF Means, Holder
    <3>3. CASE d # c
      BY <1>2, <1>6, <3>1, <3>3 DEF Means
    <3> QED BY <3>2, <3>3
  <2> QED BY <1>5, <2>1 DEF FunctorInv
<1>9. ASSUME NEW d \in Conns
      PROVE  Phase(d)' /\ Holder(d)'
  <2>1. CASE d = c
    BY <1>1, <1>2, <1>7, <2>1 DEF Phase, Holder
  <2>2. CASE d # c
    <3>1. Phase(d) /\ Holder(d)
      BY DEF TidyInv, PhaseInv, HolderInv
    <3> QED BY <1>1, <1>2, <2>2, <3>1 DEF Phase, Holder
  <2> QED BY <2>1, <2>2
<1> QED BY <1>8, <1>9 DEF TidyInv, PhaseInv, HolderInv

\* remove_connection on the base loop, after the close on another loop.
LEMMA RunRemoveSound ==
  ASSUME ServerInv, RunRemove
  PROVE  ServerInv'
<1>0. 0 \in Loops /\ \A d \in Conns : loopOf[d] \in Loops
  BY TcpServerAssumption DEF ServerInv, ServerTypeOK, Loops
<1>1. PICK c \in Conns : /\ c = Head(loopQueue[0])[2]
                         /\ TakenFrom(loopQueue, Popped(0), 0, <<"remove", c>>)
  BY <1>0, PopSound DEF ServerInv, RunRemove
<1>2. /\ connections' = connections \ {c} /\ stray' = (stray \/ server = "destroyed")
      /\ \/ loopQueue' = Post(Popped(0), loopOf[c], "destroyed", c)
         \/ server = "destroyed" /\ loopQueue' = Popped(0)
      /\ UNCHANGED <<server, threads, backlog, nextLoop, loopOf, life, registered, ups, downs, releases>>
  BY <1>1 DEF RunRemove, RemoveConnectionInLoop
<1>3. PICK q : q = Popped(0)
  OBVIOUS
<1>4. q \in [Loops -> Seq(ServerFunctor)]
  BY <1>1, <1>3 DEF TakenFrom
<1>5. \/ PostedTo(q, loopQueue', loopOf[c], <<"destroyed", c>>)
      \/ server = "destroyed" /\ loopQueue' = q
  BY <1>0, <1>2, <1>3, <1>4, PostSound
<1>6. ServerTypeOK'
  <2>1. loopQueue' \in [Loops -> Seq(ServerFunctor)]
    BY <1>4, <1>5 DEF PostedTo
  <2>2. stray' \in BOOLEAN
    BY <1>2
  <2> QED BY <1>2, <2>1, <2>2 DEF ServerInv, ServerTypeOK
<1>7. ShareInv'
  BY <1>2, <1>6, SharesStay DEF ServerInv
<1>8. KnownInv'
  <2>1. \A k \in Loops, d \in Conns :
          Has(loopQueue'[k], <<"established", d>>) => Has(q[k], <<"established", d>>)
    BY <1>5 DEF PostedTo
  <2> QED BY <1>1, <1>2, <1>3, <2>1 DEF ServerInv, KnownInv, TakenFrom
<1>9. ASSUME ~stray'
      PROVE  TidyInv'
  <2>1. ~stray /\ server # "destroyed" /\ TidyInv
    BY <1>2, <1>9 DEF ServerInv
  <2>2. (\A k \in Loops : Distinct(loopQueue[k])) /\ \A k \in Loops, d \in Conns : Means(k, d)
    BY <2>1 DEF TidyInv, FunctorInv
  <2>3. /\ loopOf[c] # 0 /\ life[c] = "disconnected" /\ c \in connections
        /\ \A k \in Loops : ~Has(loopQueue[k], <<"established", c>>)
    <3>1. Has(loopQueue[0], <<"remove", c>>) /\ Means(0, c)
      BY <1>0, <1>1, <2>2 DEF TakenFrom
    <3>2. loopOf[c] # 0 /\ life[c] = "disconnected" /\ c \in connections
      BY <2>1, <3>1 DEF Means
    <3> QED BY <2>2, <3>2 DEF Means
  <2>4. ASSUME NEW k \in Loops, NEW d \in Conns
        PROVE  /\ Has(q[k], <<"established", d>>) <=> Has(loopQueue[k], <<"established", d>>)
               /\ Has(q[k], <<"destroyed", d>>) <=> Has(loopQueue[k], <<"destroyed", d>>)
               /\ Has(q[k], <<"remove", d>>) <=> Has(loopQueue[k], <<"remove", d>>) /\ d # c
    <3>1. ASSUME NEW w, w # "remove" \/ d # c
          PROVE  Has(q[k], <<w, d>>) <=> Has(loopQueue[k], <<w, d>>)
      <4>1. <<w, d>> # <<"remove", c>>
        BY <3>1
      <4> QED BY <1>1, <1>3, <4>1 DEF TakenFrom
    <3>2. ~Has(q[0], <<"remove", c>>)
      BY <1>0, <1>1, <1>3, <2>2 DEF TakenFrom
    <3>3. Has(q[k], <<"remove", c>>) => k = 0
      <4>1. Has(q[k], <<"remove", c>>) => Has(loopQueue[k], <<"remove", c>>)
        BY <1>1, <1>3 DEF TakenFrom
      <4> QED BY <2>2, <4>1 DEF Means
    <3> QED BY <3>1, <3>2, <3>3
  <2>5. /\ \A k \in Loops : Distinct(q[k])
        /\ \A k \in Loops, d \in Conns : Before(q[k], <<"established", d>>, <<"destroyed", d>>)
    BY <1>1, <1>3, <2>2 DEF TakenFrom, Means
  <2>6. ups'[c] = 1 /\ downs'[c] = 1
    BY <1>2, <2>1, <2>3 DEF TidyInv, PhaseInv, Phase
  <2>7. PostedTo(q, loopQueue', loopOf[c], <<"destroyed", c>>)
    BY <1>5, <2>1
  <2>8. ServerTypeOK
    BY DEF ServerInv
  <2> QED BY <1>2, <1>6, <2>1, <2>3, <2>4, <2>5, <2>6, <2>7, <2>8, RemoveSound
<1> QED BY <1>6, <1>7, <1>8, <1>9 DEF ServerInv

\* handle_close: the down callback, then remove_connection, by a call on the base loop, by
\* a functor on it from another.
LEMMA HandleCloseSound ==
  ASSUME ServerInv, NEW c \in Conns, HandleClose(c)
  PROVE  ServerInv'
<1>1. /\ life[c] = "connected" /\ c \in registered
      /\ life' = [life EXCEPT ![c] = "disconnected"] /\ downs' = [downs EXCEPT ![c] = @ + 1]
      /\ UNCHANGED <<server, threads, backlog, nextLoop, loopOf, registered, ups, releases>>
  BY DEF HandleClose
<1>2. /\ life'[c] = "disconnected" /\ downs'[c] = downs[c] + 1
      /\ \A d \in Conns : d # c => life'[d] = life[d] /\ downs'[d] = downs[d]
  BY <1>1 DEF ServerInv, ServerTypeOK
<1>3. 0 \in Loops /\ loopQueue \in [Loops -> Seq(ServerFunctor)] /\ ServerTypeOK
      /\ \A d \in Conns : loopOf[d] \in Loops
  BY TcpServerAssumption DEF ServerInv, ServerTypeOK, Loops
<1>4. \/ /\ loopOf[c] = 0 /\ connections' = connections \ {c}
         /\ stray' = (stray \/ server = "destroyed")
         /\ \/ PostedTo(loopQueue, loopQueue', loopOf[c], <<"destroyed", c>>)
            \/ server = "destroyed" /\ loopQueue' = loopQueue
      \/ /\ loopOf[c] # 0 /\ connections' = connections /\ stray' = stray
         /\ PostedTo(loopQueue, loopQueue', 0, <<"remove", c>>)
  <2>1. CASE loopOf[c] = 0
    BY <1>3, <2>1, PostSound DEF HandleClose, RemoveConnectionInLoop
  <2>2. CASE loopOf[c] # 0
    BY <1>3, <2>2, PostSound DEF HandleClose
  <2> QED BY <2>1, <2>2
<1>5. loopQueue' \in [Loops -> Seq(ServerFunctor)]
      /\ \A k \in Loops, d \in Conns :
           Has(loopQueue'[k], <<"established", d>>) => Has(loopQueue[k], <<"established", d>>)
  BY <1>3, <1>4 DEF PostedTo
<1>6. ServerTypeOK'
  <2>1. stray' \in BOOLEAN
    BY <1>3, <1>4 DEF ServerTypeOK
  <2>2. connections' \in SUBSET Conns
    BY <1>3, <1>4 DEF ServerTypeOK
  <2> QED BY <1>1, <1>3, <1>5, <2>1, <2>2 DEF ServerTypeOK
<1>7. \A d \in Conns : life'[d] = "none" <=> life[d] = "none"
  BY <1>1, <1>2
<1>8. ShareInv'
  BY <1>1, <1>6, <1>7, SharesStay DEF ServerInv
<1>9. KnownInv'
  BY <1>5, <1>7 DEF ServerInv, KnownInv
<1>10. ASSUME ~stray'
       PROVE  TidyInv'
  <2>1. TidyInv
    BY <1>4, <1>10 DEF ServerInv
  <2>2. (\A k \in Loops : Distinct(loopQueue[k])) /\ \A k \in Loops, d \in Conns : Means(k, d)
    BY <2>1 DEF TidyInv, FunctorInv
  <2>3. Phase(c) /\ Holder(c)
    BY <2>1 DEF TidyInv, PhaseInv, HolderInv
  <2>4. \A k \in Loops : /\ ~Has(loopQueue[k], <<"established", c>>)
                         /\ ~Has(loopQueue[k], <<"remove", c>>)
    BY <1>1, <2>2 DEF Means
  <2>5. CASE loopOf[c] = 0
    <3>1. /\ server # "destroyed" /\ connections' = connections \ {c}
          /\ PostedTo(loopQueue, loopQueue', loopOf[c], <<"destroyed", c>>)
      BY <1>4, <1>10, <2>5
    <3>2. c \in connections
      BY <1>1, <2>3, <3>1 DEF Holder
    <3>3. ups'[c] = 1 /\ downs'[c] = 1
      BY <1>1, <1>2, <2>3 DEF Phase
    <3>4. \A k \in Loops, d \in Conns :
            /\ Before(loopQueue[k], <<"established", d>>, <<"destroyed", d>>)
            /\ Has(loopQueue[k], <<"remove", d>>) <=> Has(loopQueue[k], <<"remove", d>>) /\ d # c
      BY <2>2, <2>4 DEF Means
    <3> QED BY <1>1, <1>2, <1>3, <1>6, <2>1, <2>2, <2>4, <3>1, <3>2, <3>3, <3>4, RemoveSound
  <2>6. CASE loopOf[c] # 0
    <3>1. connections' = connections /\ PostedTo(loopQueue, loopQueue', 0, <<"remove", c>>)
      BY <1>4, <2>6
    <3>2. \A k \in Loops, d \in Conns :
            /\ Has(loopQueue'[k], <<"established", d>>) <=> Has(loopQueue[k], <<"established", d>>)
            /\ Has(loopQueue'[k], <<"destroyed", d>>) <=> Has(loopQueue[k], <<"destroyed", d>>)
            /\ Has(loopQueue'[k], <<"remove", d>>) <=>
                 Has(loopQueue[k], <<"remove", d>>) \/ (k = 0 /\ d = c)
      BY <3>1 DEF PostedTo
    <3>3. \A k \in Loops : Distinct(loopQueue'[k])
      BY <2>2, <2>4, <3>1 DEF PostedTo
    <3>4. \A k \in Loops, d \in Conns : Before(loopQueue'[k], <<"established", d>>, <<"destroyed", d>>)
      <4>1. \A d \in Conns : <<"established", d>> # <<"remove", c>>
        OBVIOUS
      <4> QED BY <2>2, <3>1, <4>1 DEF Means, PostedTo
    <3>5. ASSUME NEW k \in Loops, NEW d \in Conns
          PROVE  Means(k, d)'
      <4>1. Means(k, d)
        BY <2>2
      <4>2. CASE d = c
        <5>1. server # "destroyed" => c \in connections
          BY <1>1, <2>3 DEF Holder
        <5> QED BY <1>1, <1>2, <2>4, <2>6, <3>1, <3>2, <3>4, <4>1, <4>2, <5>1 DEF Means
      <4>3. CASE d # c
        BY <1>1, <1>2, <3>1, <3>2, <3>4, <4>1, <4>3 DEF Means
      <4> QED BY <4>2, <4>3
    <3>6. ASSUME NEW d \in Conns
          PROVE  Phase(d)' /\ Holder(d)'
      <4>1. Phase(d) /\ Holder(d)
        BY <2>1 DEF TidyInv, PhaseInv, HolderInv
      <4>2. CASE d = c
        BY <1>1, <1>2, <1>3, <3>1, <3>2, <4>1, <4>2 DEF Phase, Holder
      <4>3. CASE d # c
        BY <1>1, <1>2, <1>3, <3>1, <3>2, <4>1, <4>3 DEF Phase, Holder
      <4> QED BY <4>2, <4>3
    <3> QED BY <1>1, <2>1, <3>1, <3>3, <3>5, <3>6 DEF TidyInv, FunctorInv, PhaseInv, HolderInv
  <2> QED BY <2>5, <2>6
<1> QED BY <1>6, <1>8, <1>9, <1>10 DEF ServerInv

\* ~TcpServer: what is left in connections_ is destroyed, at once on the base loop, by a
\* functor on the others.
LEMMA DestroyServerSound ==
  ASSUME ServerInv, DestroyServer
  PROVE  ServerInv'
<1> DEFINE base == {c \in connections : loopOf[c] = 0}
<1>1. /\ server # "destroyed" /\ server' = "destroyed" /\ backlog' = 0 /\ connections' = {}
      /\ Destroy(base)
      /\ UNCHANGED <<threads, nextLoop, loopOf, ups, stray>>
  BY DEF DestroyServer
<1>2. \A l \in Loops : loopQueue'[l] = IF l = 0 THEN loopQueue[l] ELSE loopQueue[l] \o SetToSeq(LeftTo(l))
  BY DEF DestroyServer
<1>3. /\ registered' = registered \ base
      /\ \A d \in Conns :
           /\ life'[d] = IF d \in base /\ life[d] = "connected" THEN "disconnected" ELSE life[d]
           /\ downs'[d] = IF d \in base /\ life[d] = "connected" THEN downs[d] + 1 ELSE downs[d]
           /\ releases'[d] = IF d \in base THEN releases[d] + 1 ELSE releases[d]
  BY <1>1 DEF Destroy
<1>4. 0 \in Loops /\ loopQueue \in [Loops -> Seq(ServerFunctor)] /\ ServerTypeOK
      /\ \A d \in Conns : loopOf[d] \in Loops
  BY TcpServerAssumption DEF ServerInv, ServerTypeOK, Loops
<1>5. \A l \in Loops : LeftTo(l) \in SUBSET ServerFunctor /\ IsFiniteSet(LeftTo(l))
  <2>1. IsFiniteSet(Conns)
    BY FS_Interval, TcpServerAssumption DEF Conns
  <2> TAKE l \in Loops
  <2>2. IsFiniteSet({d \in connections : loopOf[d] = l})
    BY <1>4, <2>1, FS_Subset DEF ServerTypeOK
  <2>3. LeftTo(l) \in SUBSET ServerFunctor
    BY <1>4 DEF LeftTo, ServerFunctor, ServerTypeOK
  <2> DEFINE S == {d \in connections : loopOf[d] = l}
             f == [d \in S |-> <<"destroyed", d>>]
  <2>4. f \in Surjection(S, LeftTo(l))
    BY DEF Surjection, LeftTo
  <2> QED BY <2>2, <2>3, <2>4, FS_Surjection
<1>6. ASSUME NEW k \in Loops
      PROVE  /\ loopQueue'[k] \in Seq(ServerFunctor)
             /\ \A g : Has(loopQueue'[k], g) <=> Has(loopQueue[k], g) \/ (k # 0 /\ g \in LeftTo(k))
             /\ Distinct(loopQueue[k]) /\ (\A f \in LeftTo(k) : ~Has(loopQueue[k], f))
                  => Distinct(loopQueue'[k])
             /\ \A g, h : Before(loopQueue[k], g, h) /\ g \notin LeftTo(k) => Before(loopQueue'[k], g, h)
  <2>1. CASE k = 0
    BY <1>2, <1>4, <2>1
  <2>2. CASE k # 0
    <3>1. loopQueue'[k] = loopQueue[k] \o SetToSeq(LeftTo(k)) /\ loopQueue[k] \in Seq(ServerFunctor)
      BY <1>2, <1>4, <2>2
    <3> HIDE DEF ServerFunctor
    <3> QED BY <1>5, <2>2, <3>1, PostedAll
  <2> QED BY <2>1, <2>2
<1>7. \A k \in Loops, d \in Conns :
        /\ <<"established", d>> \notin LeftTo(k) /\ <<"remove", d>> \notin LeftTo(k)
        /\ <<"destroyed", d>> \in LeftTo(k) <=> d \in connections /\ loopOf[d] = k
  BY DEF LeftTo
<1>8. \A k \in Loops, d \in Conns :
        /\ Has(loopQueue'[k], <<"established", d>>) <=> Has(loopQueue[k], <<"established", d>>)
        /\ Has(loopQueue'[k], <<"remove", d>>) <=> Has(loopQueue[k], <<"remove", d>>)
        /\ Has(loopQueue'[k], <<"destroyed", d>>) <=>
             Has(loopQueue[k], <<"destroyed", d>>) \/ (k # 0 /\ d \in connections /\ loopOf[d] = k)
  BY <1>6, <1>7
<1>9. ServerTypeOK'
  <2>1. loopQueue' \in [Loops -> Seq(ServerFunctor)]
    <3> HIDE DEF ServerFunctor
    <3>1. \A k \in Loops : loopQueue'[k] \in Seq(ServerFunctor)
      BY <1>6
    <3>2. loopQueue' = [k \in Loops |-> loopQueue'[k]]
      BY DEF DestroyServer
    <3> QED BY <3>1, <3>2
  <2>2. /\ life' \in [Conns -> {"none", "connecting", "connected", "disconnected"}]
        /\ downs' \in [Conns -> Nat] /\ releases' \in [Conns -> Nat]
    BY <1>1, <1>4 DEF Destroy, ServerTypeOK
  <2>3. registered' \in SUBSET Conns
    BY <1>3, <1>4 DEF ServerTypeOK
  <2> QED BY <1>1, <1>4, <2>1, <2>2, <2>3 DEF ServerTypeOK
<1>10. \A d \in Conns : life'[d] = "none" <=> life[d] = "none"
  BY <1>3
<1>11. ShareInv'
  BY <1>1, <1>9, <1>10, SharesStay DEF ServerInv
<1>12. KnownInv'
  BY <1>8, <1>10 DEF ServerInv, KnownInv
<1>13. ASSUME TidyInv
       PROVE  TidyInv'
  <2>1. (\A k \in Loops : Distinct(loopQueue[k])) /\ \A k \in Loops, d \in Conns : Means(k, d)
    BY <1>13 DEF TidyInv, FunctorInv
  <2>2. \A d \in Conns : Phase(d) /\ Holder(d)
    BY <1>13 DEF TidyInv, PhaseInv, HolderInv
  <2>3. \A d \in base : d \in Conns /\ life[d] = "connected"
    <3> TAKE d \in base
    <3>1. d \in Conns /\ d \in connections /\ loopOf[d] = 0
      BY <1>4 DEF ServerTypeOK
    <3>2. life[d] \in {"none", "connecting", "connected", "disconnected"}
      BY <1>4, <3>1 DEF ServerTypeOK
    <3>3. Phase(d) /\ Means(0, d)
      BY <1>4, <2>1, <2>2, <3>1
    <3> QED BY <3>1, <3>2, <3>3 DEF Phase, Means
  <2>4. \A k \in Loops : Distinct(loopQueue'[k])
    <3> TAKE k \in Loops
    <3>1. \A d \in Conns : d \in connections => ~Has(loopQueue[k], <<"destroyed", d>>)
      BY <2>1 DEF Means
    <3>2. \A f \in LeftTo(k) : ~Has(loopQueue[k], f)
      BY <1>4, <3>1 DEF LeftTo, ServerTypeOK
    <3> QED BY <1>6, <2>1, <3>2
  <2>5. \A k \in Loops, d \in Conns : Before(loopQueue'[k], <<"established", d>>, <<"destroyed", d>>)
    BY <1>6, <1>7, <2>1 DEF Means
  <2>6. ASSUME NEW k \in Loops, NEW d \in Conns
        PROVE  Means(k, d)'
    <3>1. Means(k, d) /\ Phase(d) /\ Holder(d)
      BY <2>1, <2>2
    <3>2. Has(loopQueue'[k], <<"established", d>>) => k = loopOf[d] /\ k # 0 /\ life'[d] = "connecting"
      BY <1>3, <1>8, <3>1 DEF Means
    <3>3. Has(loopQueue'[k], <<"remove", d>>) => k = 0 /\ loopOf[d] # 0 /\ life'[d] = "disconnected"
      BY <1>3, <1>8, <3>1 DEF Means
    <3>4. Has(loopQueue'[k], <<"destroyed", d>>) => k = loopOf[d] /\ releases'[d] = 0 /\ life'[d] # "none"
      BY <1>3, <1>8, <1>10, <3>1 DEF Means, Phase, Holder
    <3> QED BY <1>1, <2>5, <3>2, <3>3, <3>4 DEF Means
  <2>7. ASSUME NEW d \in Conns
        PROVE  Phase(d)' /\ Holder(d)'
    <3>1. Phase(d) /\ Holder(d) /\ loopOf[d] \in Loops
      BY <1>4, <2>2
    <3>2. CASE d \in base
      <4>1. /\ life[d] = "connected" /\ life'[d] = "disconnected" /\ downs'[d] = downs[d] + 1
            /\ releases'[d] = releases[d] + 1 /\ d \notin registered'
        BY <1>3, <2>3, <3>2
      <4> QED BY <1>1, <3>1, <4>1 DEF Phase, Holder
    <3>3. CASE d \notin base
      <4>1. /\ life'[d] = life[d] /\ downs'[d] = downs[d] /\ releases'[d] = releases[d]
            /\ d \in registered' => d \in registered
        BY <1>3, <3>3
      <4>2. d \in connections => Has(loopQueue'[loopOf[d]], <<"destroyed", d>>)
        BY <1>8, <3>1, <3>3
      <4>3. /\ Has(loopQueue[loopOf[d]], <<"established", d>>) => Has(loopQueue'[loopOf[d]], <<"established", d>>)
            /\ Has(loopQueue[loopOf[d]], <<"destroyed", d>>) => Has(loopQueue'[loopOf[d]], <<"destroyed", d>>)
        BY <1>8, <3>1
      <4> QED BY <1>1, <3>1, <4>1, <4>2, <4>3 DEF Phase, Holder
    <3> QED BY <3>2, <3>3
  <2> QED BY <1>1, <2>4, <2>6, <2>7 DEF TidyInv, FunctorInv, PhaseInv, HolderInv
<1> QED BY <1>1, <1>9, <1>11, <1>12, <1>13 DEF ServerInv

\* The first state.
LEMMA ServerStarts == ServerInit => ServerInv
<1> SUFFICES ASSUME ServerInit
             PROVE  ServerInv
  OBVIOUS
<1>1. 0 \in Loops /\ << >> \in Seq(ServerFunctor) /\ IoLoops \in Nat
  BY TcpServerAssumption DEF Loops
<1>2. FALSE \in BOOLEAN
  BY Zenon
<1>3. stray \in BOOLEAN
  BY <1>2 DEF ServerInit
<1>4. ServerTypeOK
  BY <1>1, <1>3 DEF ServerInit, ServerTypeOK
<1>5. \A l \in Loops : loopQueue[l] = << >>
  BY DEF ServerInit
<1>6. \A l \in Loops : \A g, h : ~Has(loopQueue[l], g) /\ Distinct(loopQueue[l]) /\ Before(loopQueue[l], g, h)
  BY <1>5 DEF Has, Distinct, Before
<1>7. FunctorInv /\ KnownInv
  BY <1>6 DEF FunctorInv, Means, KnownInv
<1>8. PhaseInv /\ HolderInv
  BY DEF ServerInit, PhaseInv, Phase, HolderInv, Holder
<1>9. ShareInv
  BY DEF ServerInit, ShareInv
<1> QED BY <1>4, <1>7, <1>8, <1>9 DEF ServerInv, TidyInv

\* Every step of the base loop and of the connections' loops keeps the invariant.
LEMMA ServerSteps == ServerInv /\ [ServerNext]_serverVars => ServerInv'
<1> SUFFICES ASSUME ServerInv, [ServerNext]_serverVars
             PROVE  ServerInv'
  OBVIOUS
<1>1. CASE UNCHANGED serverVars
  <2>1. \A l : GivenTo(l)' = GivenTo(l)
    BY <1>1 DEF serverVars, GivenTo
  <2>2. ServerTypeOK' /\ KnownInv'
    BY <1>1 DEF serverVars, ServerInv, ServerTypeOK, KnownInv
  <2>3. ShareInv'
    BY <1>1, <2>2, SharesStay DEF serverVars, ServerInv
  <2>4. TidyInv => TidyInv'
    BY <1>1 DEF serverVars, TidyInv, FunctorInv, Means, PhaseInv, Phase, HolderInv, Holder
  <2> QED BY <1>1, <2>2, <2>3, <2>4 DEF serverVars, ServerInv
<1> QED BY <1>1, SetThreadNumSound, ListenSound, AcceptSound, RunEstablishedSound, RunDestroyedSound,
           RunRemoveSound, HandleCloseSound, DestroyServerSound DEF ServerNext

(* Every accepted connection is in connections_, or its connect_destroyed is queued or *)
(* has run, exactly one of these, also across ~TcpServer; the callbacks come once and  *)
(* in order, no channel outlives its connection in the poller, and the loops share the *)
(* connections evenly (tcp_server.cpp: new_connection, remove_connection_in_loop,      *)
(* ~TcpServer; tcp_connection.cpp: handle_close, connect_destroyed).                   *)
THEOREM ConnectionsStayOwned == ServerSpec => []ConnectionsOwned
<1>1. ServerInv => ConnectionsOwned
  <2> SUFFICES ASSUME ServerInv
               PROVE  ConnectionsOwned
    OBVIOUS
  <2>1. ASSUME NEW c \in Conns, life[c] # "none", ~stray
        PROVE  /\ (IF c \in connections THEN 1 ELSE 0) + (IF Queued("destroyed", c) THEN 1 ELSE 0)
                    + releases[c] = 1
               /\ life[c] = "disconnected" /\ c \in connections => Queued("remove", c)
               /\ releases[c] = 1 => c \notin registered
               /\ downs[c] <= ups[c] /\ ups[c] <= 1
    <3>1. /\ Phase(c) /\ Holder(c) /\ (\A l \in Loops : Means(l, c))
          /\ 0 \in Loops /\ loopOf[c] \in Loops
          /\ life[c] \in {"connecting", "connected", "disconnected"}
      BY <2>1, TcpServerAssumption
         DEF ServerInv, ServerTypeOK, TidyInv, FunctorInv, PhaseInv, HolderInv, Loops
    <3>2. \A w : Queued(w, c) <=> \E l \in Loops : Has(loopQueue[l], <<w, c>>)
      <4>1. \A l \in Loops : DOMAIN loopQueue[l] = 1..Len(loopQueue[l])
        BY DEF ServerInv, ServerTypeOK
      <4> QED BY <4>1 DEF Queued, Has
    <3>3. Queued("destroyed", c) => c \notin connections /\ releases[c] = 0
      BY <3>1, <3>2 DEF Means
    <3>4. c \in connections \/ Queued("destroyed", c) \/ releases[c] = 1
      BY <2>1, <3>1, <3>2 DEF Holder
    <3>5. (c \in connections => releases[c] = 0) /\ releases[c] \in {0, 1}
      BY <3>1 DEF Holder
    <3>6. life[c] = "disconnected" /\ c \in connections => Queued("remove", c)
      BY <3>1, <3>2 DEF Phase
    <3>7. (releases[c] = 1 => c \notin registered) /\ downs[c] <= ups[c] /\ ups[c] <= 1
      BY <3>1 DEF Phase, Holder
    <3> QED BY <3>3, <3>4, <3>5, <3>6, <3>7
  <2>2. ASSUME NEW k \in Loops \ {0}, NEW l \in Loops \ {0}
        PROVE  Cardinality(GivenTo(k)) <= Cardinality(GivenTo(l)) + 1
    <3>1. k \in 1..IoLoops /\ l \in 1..IoLoops /\ IoLoops \in 1..IoLoops
      BY TcpServerAssumption DEF Loops
    <3>2. \A j : Cardinality(GivenTo(j)) \in Nat
      <4>1. IsFiniteSet(Conns)
        BY FS_Interval, TcpServerAssumption DEF Conns
      <4>2. \A j : GivenTo(j) \subseteq Conns
        BY DEF GivenTo
      <4> QED BY <4>1, <4>2, FS_Subset, FS_CardinalityType
    <3>3. CASE threads = 0
      <4>1. GivenTo(k) = {} /\ GivenTo(l) = {}
        BY <3>1, <3>3 DEF ServerInv, ShareInv, GivenTo
      <4> QED BY <4>1, FS_EmptySet
    <3>4. CASE threads # 0
      BY <3>1, <3>2, <3>4 DEF ServerInv, ShareInv
    <3> QED BY <3>3, <3>4
  <2> QED BY <2>1, <2>2 DEF ConnectionsOwned
<1> QED BY <1>1, ServerStarts, ServerSteps, PTL DEF ServerSpec

-----------------------------------------------------------------------------
(* Counting threads.                                                       *)

\* A thread that joins a finite set of threads is one more.
LEMMA OneMore ==
  ASSUME NEW S, IsFiniteSet(S), NEW x, x \notin S
  PROVE  Cardinality(S) \in Nat /\ Cardinality(S \cup {x}) = Cardinality(S) + 1
BY FS_AddElement, FS_CardinalityType

\* A thread that leaves it is one less.
LEMMA OneLess ==
  ASSUME NEW S, IsFiniteSet(S), NEW x \in S
  PROVE  Cardinality(S) \in Nat /\ Cardinality(S \ {x}) = Cardinality(S) - 1
BY FS_RemoveElement, FS_CardinalityType

-----------------------------------------------------------------------------
(* Queues and counters.                                                    *)

\* What is appended to a queue or left in it is of the queue's type.
LEMMA QueueTyped ==
  ASSUME NEW S, NEW q \in Seq(S)
  PROVE  /\ \A e \in S : Append(q, e) \in Seq(S)
         /\ q # << >> => Head(q) \in S /\ Tail(q) \in Seq(S)
OBVIOUS

\* A counter that goes up by one stays a natural number.
LEMMA CounterTyped ==
  ASSUME NEW S, NEW f \in [S -> Nat], NEW g \in S
  PROVE  [f EXCEPT ![g] = @ + 1] \in [S -> Nat]
OBVIOUS

-----------------------------------------------------------------------------
(* ThreadPool.                                                             *)

PoolTypeOK ==
  /\ poolRunning \in BOOLEAN
  /\ poolTasks \in Seq(1..MaxTasks)
  /\ worker \in [Workers -> {"none", "ready", "asleep", "running", "exited"}]
  /\ task \in [Workers -> 0..MaxTasks]
  /\ notifying \subseteq Workers \cup Runners
  /\ owner \in {"out", "notify", "join"}
  /\ poolStarts \in Nat
  /\ issued \in 0..MaxTasks
  /\ done \in [1..MaxTasks -> Nat]
  /\ promised \subseteq 1..MaxTasks

\* Where the owner is and what the workers may still do: stop() leaves only when
\* all have ended, and nobody ends before stop().
OwnerInv ==
  /\ owner # "out" => ~poolRunning
  /\ owner = "out" /\ ~poolRunning => Employed = {}
  /\ \A w \in Workers : worker[w] = "exited" => ~poolRunning
  /\ \A w \in Workers : w \in notifying => worker[w] = "running"

\* A task is in one place only, and has run only when it is in none.
TaskInv ==
  /\ \A w \in Workers : task[w] # 0 <=> worker[w] = "running"
  /\ \A w \in Workers : task[w] # 0 => task[w] <= issued /\ done[task[w]] = 0
  /\ \A v, w \in Workers : task[v] # 0 /\ task[v] = task[w] => v = w
  /\ \A i \in 1..Len(poolTasks) : poolTasks[i] <= issued /\ done[poolTasks[i]] = 0
  /\ \A i, j \in 1..Len(poolTasks) : poolTasks[i] = poolTasks[j] => i = j
  /\ \A w \in Workers, i \in 1..Len(poolTasks) : task[w] # poolTasks[i]
  /\ \A t \in 1..MaxTasks : done[t] <= 1 /\ (t > issued => done[t] = 0)

\* A promised task has run, or is held by a worker, or is queued with a worker left
\* to take it.
PromiseInv ==
  \A t \in promised :
    /\ t <= issued
    /\ \/ done[t] = 1
       \/ \E w \in Workers : task[w] = t
       \/ /\ \E i \in 1..Len(poolTasks) : poolTasks[i] = t
          /\ \E w \in Workers : worker[w] \in {"ready", "asleep", "running"}

PoolInv == PoolTypeOK /\ OwnerInv /\ TaskInv /\ PromiseInv /\ PoolAwake

\* The state a worker's wakeup or its end changes keeps its type.
LEMMA PoolWakeTyped ==
  ASSUME PoolTypeOK, NEW W, Wake(W)
  PROVE  worker' \in [Workers -> {"none", "ready", "asleep", "running", "exited"}]
BY DEF PoolTypeOK, Wake

\* Every step of the pool keeps the types.
LEMMA PoolTyped ==
  ASSUME PoolTypeOK, TaskInv, [PoolNext]_poolVars
  PROVE  PoolTypeOK'
<1> DEFINE Places == {"none", "ready", "asleep", "running", "exited"}
<1>0. MaxTasks \in Nat
  BY ThreadPoolAssumption
<1>1. ASSUME NEW W, PoolStart(W)
      PROVE  PoolTypeOK'
  <2>1. poolRunning' \in BOOLEAN
    BY <1>1, Zenon DEF PoolStart
  <2>2. worker' \in [Workers -> Places] /\ poolStarts' \in Nat
    BY <1>1 DEF PoolStart, PoolTypeOK
  <2> QED BY <1>1, <2>1, <2>2 DEF PoolStart, PoolTypeOK
<1>2. CASE PoolStopFlag
  <2>1. poolRunning' \in BOOLEAN
    BY <1>2, Zenon DEF PoolStopFlag
  <2> QED BY <1>2, <2>1 DEF PoolStopFlag, PoolTypeOK
<1>3. CASE PoolStopNotify
  BY <1>3, PoolWakeTyped DEF PoolStopNotify, PoolTypeOK
<1>4. CASE PoolStopped
  BY <1>4 DEF PoolStopped, PoolTypeOK
<1>5. ASSUME NEW c \in Workers \cup Runners, Run(c)
      PROVE  PoolTypeOK'
  <2>1. issued + 1 \in 1..MaxTasks /\ issued' = issued + 1
    BY <1>0, <1>5 DEF Run, PoolTypeOK
  <2>2. poolTasks' \in Seq(1..MaxTasks)
    <3>1. poolTasks \in Seq(1..MaxTasks)
      BY DEF PoolTypeOK
    <3>2. Append(poolTasks, issued + 1) \in Seq(1..MaxTasks)
      BY <2>1, <3>1, QueueTyped, Zenon
    <3> QED BY <1>5, <3>1, <3>2, Zenon DEF Run
  <2>3. done' \in [1..MaxTasks -> Nat]
    <3>1. done \in [1..MaxTasks -> Nat]
      BY DEF PoolTypeOK
    <3>2. [done EXCEPT ![issued + 1] = @ + 1] \in [1..MaxTasks -> Nat]
      BY <2>1, <3>1, CounterTyped, Zenon
    <3> QED BY <1>5, <3>1, <3>2, Zenon DEF Run
  <2>6. promised' \subseteq 1..MaxTasks
    BY <1>5, <2>1, Zenon DEF Run, PoolTypeOK
  <2>4. notifying' \subseteq Workers \cup Runners
    BY <1>5 DEF Run, PoolTypeOK
  <2>5. UNCHANGED <<poolRunning, worker, task, owner, poolStarts>>
    BY <1>5 DEF Run
  <2> QED BY <1>0, <2>1, <2>2, <2>3, <2>4, <2>5, <2>6 DEF PoolTypeOK
<1>6. ASSUME NEW c \in Workers \cup Runners, RunNotify(c)
      PROVE  PoolTypeOK'
  BY <1>6, PoolWakeTyped DEF RunNotify, PoolTypeOK
<1>7. ASSUME NEW w \in Workers, WorkerTakes(w)
      PROVE  PoolTypeOK'
  <2>1. poolTasks # << >> => Head(poolTasks) \in 1..MaxTasks /\ Tail(poolTasks) \in Seq(1..MaxTasks)
    BY QueueTyped, Zenon DEF PoolTypeOK
  <2>2. poolTasks' \in Seq(1..MaxTasks)
    BY <1>7, <2>1 DEF WorkerTakes, PoolTypeOK
  <2>5. poolTasks # << >> => Head(poolTasks) \in 0..MaxTasks
    BY <1>0, <2>1
  <2>3. task' \in [Workers -> 0..MaxTasks]
    BY <1>7, <2>5 DEF WorkerTakes, PoolTypeOK
  <2>4. worker' \in [Workers -> Places]
    BY <1>7 DEF WorkerTakes, PoolTypeOK
  <2> QED BY <1>7, <2>2, <2>3, <2>4 DEF WorkerTakes, PoolTypeOK
<1>8. ASSUME NEW w \in Workers, WorkerRuns(w)
      PROVE  PoolTypeOK'
  <2>3. task[w] \in 1..MaxTasks
    BY <1>0, <1>8 DEF WorkerRuns, PoolTypeOK, TaskInv
  <2>1. done' \in [1..MaxTasks -> Nat]
    BY <1>8, <2>3, CounterTyped, Zenon DEF WorkerRuns, PoolTypeOK
  <2>2. task' \in [Workers -> 0..MaxTasks] /\ worker' \in [Workers -> Places]
    BY <1>0, <1>8 DEF WorkerRuns, PoolTypeOK
  <2> QED BY <1>8, <2>1, <2>2 DEF WorkerRuns, PoolTypeOK
<1>9. ASSUME NEW w \in Workers, WorkerWakes(w)
      PROVE  PoolTypeOK'
  BY <1>9, PoolWakeTyped DEF WorkerWakes, PoolTypeOK
<1>10. CASE UNCHANGED poolVars
  BY <1>10 DEF poolVars, PoolTypeOK
<1> QED BY <1>1, <1>2, <1>3, <1>4, <1>5, <1>6, <1>7, <1>8, <1>9, <1>10 DEF PoolNext

\* ... and what stop() relies on: nobody ends before it, nobody is left after it.
LEMMA PoolOwned ==
  ASSUME PoolTypeOK, OwnerInv, [PoolNext]_poolVars
  PROVE  OwnerInv'
<1> USE DEF OwnerInv, Employed
<1>1. ASSUME NEW W, PoolStart(W)
      PROVE  OwnerInv'
  BY <1>1 DEF PoolStart, PoolTypeOK
<1>2. CASE PoolStopFlag
  BY <1>2 DEF PoolStopFlag
<1>3. CASE PoolStopNotify
  BY <1>3 DEF PoolStopNotify, Wake, Asleep
<1>4. CASE PoolStopped
  BY <1>4 DEF PoolStopped
<1>5. ASSUME NEW c \in Workers \cup Runners, Run(c)
      PROVE  OwnerInv'
  BY <1>5 DEF Run, MayCall
<1>6. ASSUME NEW c \in Workers \cup Runners, RunNotify(c)
      PROVE  OwnerInv'
  BY <1>6 DEF RunNotify, Wake, Asleep
<1>7. ASSUME NEW w \in Workers, WorkerTakes(w)
      PROVE  OwnerInv'
  BY <1>7 DEF WorkerTakes, Exits, PoolTypeOK
<1>8. ASSUME NEW w \in Workers, WorkerRuns(w)
      PROVE  OwnerInv'
  BY <1>8 DEF WorkerRuns, PoolTypeOK
<1>9. ASSUME NEW w \in Workers, WorkerWakes(w)
      PROVE  OwnerInv'
  BY <1>9 DEF WorkerWakes, Wake
<1>10. CASE UNCHANGED poolVars
  BY <1>10 DEF poolVars
<1> QED BY <1>1, <1>2, <1>3, <1>4, <1>5, <1>6, <1>7, <1>8, <1>9, <1>10 DEF PoolNext

\* No worker sleeps over a task or over stop(), whoever takes what was notified for.
LEMMA PoolStaysAwake ==
  ASSUME PoolTypeOK, OwnerInv, PoolAwake, [PoolNext]_poolVars
  PROVE  PoolAwake'
<1> DEFINE Up == {w \in Workers : worker[w] = "ready"}
<1>0. /\ IsFiniteSet(Up) /\ IsFiniteSet(Up')
      /\ IsFiniteSet(notifying) /\ IsFiniteSet(notifying')
      /\ Cardinality(Up) \in Nat /\ Cardinality(Up') \in Nat
      /\ Cardinality(notifying) \in Nat /\ Cardinality(notifying') \in Nat
      /\ Len(poolTasks) \in Nat
  <2>1. notifying' \subseteq Workers \cup Runners
    BY DEF PoolTypeOK, PoolNext, PoolStart, PoolStopFlag, PoolStopNotify, PoolStopped, Run,
           RunNotify, WorkerTakes, WorkerRuns, WorkerWakes, poolVars
  <2>2. IsFiniteSet(Workers \cup Runners)
    BY ThreadPoolAssumption, FS_Union
  <2> QED BY <2>1, <2>2, ThreadPoolAssumption, FS_Subset, FS_CardinalityType DEF PoolTypeOK
<1>1. ASSUME NEW W \in {{}, Workers}, PoolStart(W)
      PROVE  PoolAwake'
  BY <1>1 DEF PoolStart, PoolTypeOK, PoolAwake, OwnerInv, Employed, Asleep
<1>2. CASE PoolStopFlag
  BY <1>2 DEF PoolStopFlag, PoolAwake, Asleep
<1>3. CASE PoolStopNotify
  BY <1>3 DEF PoolStopNotify, PoolAwake, Asleep, Wake
<1>4. CASE PoolStopped
  BY <1>4 DEF PoolStopped, PoolAwake, Asleep
<1>5. ASSUME NEW c \in Workers \cup Runners, Run(c)
      PROVE  PoolAwake'
  <2>1. CASE ~poolRunning /\ Employed = {}
    BY <1>5, <2>1 DEF Run, PoolAwake, Asleep
  <2>2. CASE ~(~poolRunning /\ Employed = {})
    <3>1. c \notin notifying /\ notifying' = notifying \cup {c}
      BY <1>5, <2>2 DEF Run, MayCall
    <3>2. Cardinality(notifying') = Cardinality(notifying) + 1
      BY <1>0, <3>1, OneMore
    <3>3. Len(poolTasks') = Len(poolTasks) + 1
      BY <1>5, <2>2 DEF Run, PoolTypeOK
    <3> QED BY <1>0, <1>5, <3>2, <3>3 DEF Run, PoolAwake, Asleep
  <2> QED BY <2>1, <2>2
<1>6. ASSUME NEW c \in Workers \cup Runners, RunNotify(c)
      PROVE  PoolAwake'
  <2>1. CASE Asleep = {}
    BY <1>6, <2>1 DEF RunNotify, PoolAwake, Asleep
  <2>2. ASSUME NEW w \in Asleep, Wake({w})
        PROVE  PoolAwake'
    <3>1. Up' = Up \cup {w} /\ w \notin Up
      BY <2>2 DEF Wake, Asleep
    <3>2. Cardinality(Up') = Cardinality(Up) + 1
      BY <1>0, <3>1, OneMore
    <3>3. Cardinality(notifying') = Cardinality(notifying) - 1
      BY <1>0, <1>6, OneLess DEF RunNotify
    <3>4. UNCHANGED <<poolTasks, poolRunning, owner>>
      BY <1>6 DEF RunNotify
    <3>5. Asleep # {}
      BY <2>2
    <3> QED BY <1>0, <3>2, <3>3, <3>4, <3>5 DEF PoolAwake
  <2> QED BY <1>6, <2>1, <2>2 DEF RunNotify
<1>7. ASSUME NEW w \in Workers, WorkerTakes(w)
      PROVE  PoolAwake'
  <2>1. CASE poolTasks = << >>
    <3>1. poolTasks' = << >> /\ UNCHANGED <<poolRunning, owner>>
      BY <1>7, <2>1 DEF WorkerTakes
    <3>2. Asleep' \subseteq Asleep \cup {w} /\ (~poolRunning => Asleep' \subseteq Asleep)
      BY <1>7, <2>1 DEF WorkerTakes, Exits, Asleep, PoolTypeOK
    <3> QED BY <1>0, <3>1, <3>2 DEF PoolAwake
  <2>2. CASE poolTasks # << >>
    <3>1. /\ worker' = [worker EXCEPT ![w] = "running"] /\ poolTasks' = Tail(poolTasks)
          /\ UNCHANGED <<poolRunning, owner, notifying>>
      BY <1>7, <2>2 DEF WorkerTakes, Exits
    <3>2. Up' = Up \ {w} /\ w \in Up
      BY <1>7, <3>1 DEF WorkerTakes, PoolTypeOK
    <3>3. Cardinality(Up') = Cardinality(Up) - 1
      BY <1>0, <3>2, OneLess
    <3>4. Len(poolTasks') = Len(poolTasks) - 1
      BY <2>2, <3>1 DEF PoolTypeOK
    <3>5. Asleep' = Asleep
      BY <1>7, <3>1 DEF WorkerTakes, PoolTypeOK, Asleep
    <3> QED BY <1>0, <3>1, <3>3, <3>4, <3>5 DEF PoolAwake
  <2> QED BY <2>1, <2>2
<1>8. ASSUME NEW w \in Workers, worker[w] \in {"asleep", "running"},
             worker' = [worker EXCEPT ![w] = "ready"], UNCHANGED <<poolTasks, poolRunning, notifying, owner>>
      PROVE  PoolAwake'
  <2>1. Up' = Up \cup {w} /\ w \notin Up /\ Asleep' \subseteq Asleep
    BY <1>8 DEF PoolTypeOK, Asleep
  <2>2. Cardinality(Up') = Cardinality(Up) + 1
    BY <1>0, <2>1, OneMore
  <2> QED BY <1>0, <1>8, <2>1, <2>2 DEF PoolAwake
<1>9. ASSUME NEW w \in Workers, WorkerRuns(w)
      PROVE  PoolAwake'
  BY <1>8, <1>9 DEF WorkerRuns
<1>10. ASSUME NEW w \in Workers, WorkerWakes(w)
      PROVE  PoolAwake'
  <2>1. worker' = [worker EXCEPT ![w] = "ready"]
    BY <1>10 DEF WorkerWakes, Wake, PoolTypeOK
  <2> QED BY <1>8, <1>10, <2>1 DEF WorkerWakes
<1>11. CASE UNCHANGED poolVars
  BY <1>11 DEF poolVars, PoolAwake, Asleep
<1> QED BY <1>1, <1>2, <1>3, <1>4, <1>5, <1>6, <1>7, <1>9, <1>10, <1>11 DEF PoolNext

\* Where the tasks are does not change, nor who runs one.
LEMMA TasksStay ==
  ASSUME TaskInv, UNCHANGED <<poolTasks, task, issued, done>>,
         \A w \in Workers : worker'[w] = "running" <=> worker[w] = "running"
  PROVE  TaskInv'
BY DEF TaskInv

\* Every step keeps each task in one place, until it has run, and then in none.
LEMMA TasksInOnePlace ==
  ASSUME PoolTypeOK, OwnerInv, TaskInv, [PoolNext]_poolVars
  PROVE  TaskInv'
<1>0. MaxTasks \in Nat /\ \A i \in 1..Len(poolTasks) : poolTasks[i] \in 1..MaxTasks
  BY ThreadPoolAssumption DEF PoolTypeOK
<1>1. ASSUME NEW W \in {{}, Workers}, PoolStart(W)
      PROVE  TaskInv'
  <2>1. \A w \in Workers : worker'[w] = "running" <=> worker[w] = "running"
    BY <1>1 DEF PoolStart, PoolTypeOK, OwnerInv, Employed
  <2> QED BY <1>1, <2>1, TasksStay DEF PoolStart
<1>2. CASE PoolStopFlag
  BY <1>2, TasksStay DEF PoolStopFlag
<1>3. CASE PoolStopNotify
  <2>1. \A w \in Workers : worker'[w] = "running" <=> worker[w] = "running"
    BY <1>3 DEF PoolStopNotify, Wake, Asleep
  <2> QED BY <1>3, <2>1, TasksStay DEF PoolStopNotify
<1>4. CASE PoolStopped
  <2>1. \A w \in Workers : worker'[w] = "running" <=> worker[w] = "running"
    BY <1>4 DEF PoolStopped, Employed
  <2> QED BY <1>4, <2>1, TasksStay DEF PoolStopped
<1>5. ASSUME NEW c \in Workers \cup Runners, Run(c)
      PROVE  TaskInv'
  <2>1. issued + 1 \in 1..MaxTasks /\ issued' = issued + 1 /\ done[issued + 1] = 0
        /\ UNCHANGED <<worker, task>>
    BY <1>0, <1>5 DEF Run, PoolTypeOK, TaskInv
  <2>2. CASE ~poolRunning /\ Employed = {}
    <3>1. done' = [done EXCEPT ![issued + 1] = @ + 1] /\ UNCHANGED poolTasks
      BY <1>5, <2>2 DEF Run
    <3>2. \A t \in 1..MaxTasks : done'[t] = IF t = issued + 1 THEN 1 ELSE done[t]
      BY <2>1, <3>1 DEF PoolTypeOK
    <3>3. \A t \in 1..MaxTasks : t <= issued => done'[t] = done[t]
      BY <2>1, <3>2 DEF PoolTypeOK
    <3>4. \A w \in Workers : task[w] # 0 => task[w] \in 1..MaxTasks
      BY <1>0 DEF PoolTypeOK
    <3>5. issued \in Nat
      BY DEF PoolTypeOK
    <3> QED BY <1>0, <2>1, <3>1, <3>2, <3>3, <3>4, <3>5 DEF TaskInv
  <2>3. CASE ~(~poolRunning /\ Employed = {})
    <3>1. poolTasks' = Append(poolTasks, issued + 1) /\ UNCHANGED done
      BY <1>5, <2>3 DEF Run
    <3>2. /\ Len(poolTasks') = Len(poolTasks) + 1 /\ Len(poolTasks) \in Nat
          /\ \A i \in 1..Len(poolTasks') :
               poolTasks'[i] = IF i \in 1..Len(poolTasks) THEN poolTasks[i] ELSE issued + 1
          /\ \A i \in 1..Len(poolTasks') : i \notin 1..Len(poolTasks) => i = Len(poolTasks) + 1
      BY <3>1 DEF PoolTypeOK
    <3>3. issued \in Nat /\ \A w \in Workers : task[w] \in Nat
      BY DEF PoolTypeOK
    <3>4. \A i \in 1..Len(poolTasks') : poolTasks'[i] <= issued' /\ done'[poolTasks'[i]] = 0
      BY <1>0, <2>1, <3>1, <3>2, <3>3 DEF TaskInv
    <3>5. \A i, j \in 1..Len(poolTasks') : poolTasks'[i] = poolTasks'[j] => i = j
      BY <1>0, <2>1, <3>1, <3>2, <3>3 DEF TaskInv
    <3>6. \A w \in Workers, i \in 1..Len(poolTasks') : task'[w] # poolTasks'[i]
      BY <1>0, <2>1, <3>1, <3>2, <3>3 DEF TaskInv
    <3>7. \A w \in Workers : task'[w] # 0 => task'[w] <= issued' /\ done'[task'[w]] = 0
      BY <2>1, <3>1, <3>3 DEF TaskInv
    <3>8. \A t \in 1..MaxTasks : done'[t] <= 1 /\ (t > issued' => done'[t] = 0)
      BY <2>1, <3>1, <3>3 DEF TaskInv
    <3> QED BY <2>1, <3>4, <3>5, <3>6, <3>7, <3>8 DEF TaskInv
  <2> QED BY <2>2, <2>3
<1>6. ASSUME NEW c \in Workers \cup Runners, RunNotify(c)
      PROVE  TaskInv'
  <2>1. \A w \in Workers : worker'[w] = "running" <=> worker[w] = "running"
    BY <1>6 DEF RunNotify, Wake, Asleep
  <2> QED BY <1>6, <2>1, TasksStay DEF RunNotify
<1>7. ASSUME NEW w \in Workers, WorkerTakes(w)
      PROVE  TaskInv'
  <2>1. CASE poolTasks = << >>
    <3>1. UNCHANGED <<poolTasks, task, issued, done>>
      BY <1>7, <2>1 DEF WorkerTakes
    <3>2. \A v \in Workers : worker'[v] = "running" <=> worker[v] = "running"
      BY <1>7, <2>1 DEF WorkerTakes, PoolTypeOK
    <3> QED BY <3>1, <3>2, TasksStay
  <2>2. CASE poolTasks # << >>
    <3>1. /\ worker[w] = "ready" /\ worker' = [worker EXCEPT ![w] = "running"]
          /\ task' = [task EXCEPT ![w] = Head(poolTasks)] /\ poolTasks' = Tail(poolTasks)
          /\ UNCHANGED <<issued, done>>
      BY <1>7, <2>2 DEF WorkerTakes, Exits
    <3>2. /\ Len(poolTasks) \in Nat \ {0} /\ Len(poolTasks') = Len(poolTasks) - 1
          /\ \A i \in 1..Len(poolTasks') : i + 1 \in 1..Len(poolTasks) /\ poolTasks'[i] = poolTasks[i + 1]
          /\ 1 \in 1..Len(poolTasks) /\ Head(poolTasks) = poolTasks[1]
      BY <2>2, <3>1 DEF PoolTypeOK
    <3>3. /\ \A v \in Workers : worker'[v] = IF v = w THEN "running" ELSE worker[v]
          /\ \A v \in Workers : task'[v] = IF v = w THEN poolTasks[1] ELSE task[v]
      BY <3>1, <3>2 DEF PoolTypeOK
    <3>4. poolTasks[1] # 0
      BY <1>0, <3>2
    <3>5. \A v \in Workers : task'[v] # 0 <=> worker'[v] = "running"
      BY <3>3, <3>4 DEF TaskInv
    <3>6. \A v \in Workers : task'[v] # 0 => task'[v] <= issued' /\ done'[task'[v]] = 0
      BY <3>1, <3>2, <3>3 DEF TaskInv
    <3>7. \A u, v \in Workers : task'[u] # 0 /\ task'[u] = task'[v] => u = v
      BY <3>2, <3>3 DEF TaskInv
    <3>8. \A i \in 1..Len(poolTasks') : poolTasks'[i] <= issued' /\ done'[poolTasks'[i]] = 0
      BY <3>1, <3>2 DEF TaskInv
    <3>9. \A i, j \in 1..Len(poolTasks') : poolTasks'[i] = poolTasks'[j] => i = j
      BY <3>2 DEF TaskInv
    <3>10. \A v \in Workers, i \in 1..Len(poolTasks') : task'[v] # poolTasks'[i]
      BY <3>2, <3>3 DEF TaskInv
    <3>11. \A t \in 1..MaxTasks : done'[t] <= 1 /\ (t > issued' => done'[t] = 0)
      BY <3>1 DEF TaskInv
    <3> QED BY <3>5, <3>6, <3>7, <3>8, <3>9, <3>10, <3>11 DEF TaskInv
  <2> QED BY <2>1, <2>2
<1>8. ASSUME NEW w \in Workers, WorkerRuns(w)
      PROVE  TaskInv'
  <2>1. task[w] # 0 /\ task[w] \in 1..MaxTasks /\ task[w] <= issued /\ done[task[w]] = 0
    BY <1>0, <1>8 DEF WorkerRuns, TaskInv, PoolTypeOK
  <2>2. /\ \A v \in Workers : worker'[v] = IF v = w THEN "ready" ELSE worker[v]
        /\ \A v \in Workers : task'[v] = IF v = w THEN 0 ELSE task[v]
        /\ \A t \in 1..MaxTasks : done'[t] = IF t = task[w] THEN 1 ELSE done[t]
        /\ UNCHANGED <<poolTasks, issued>>
    BY <1>8, <2>1 DEF WorkerRuns, PoolTypeOK
  <2>3. \A v \in Workers : task'[v] # 0 => task'[v] <= issued' /\ done'[task'[v]] = 0
    <3> SUFFICES ASSUME NEW v \in Workers, task'[v] # 0
                 PROVE  task'[v] <= issued' /\ done'[task'[v]] = 0
      OBVIOUS
    <3>1. v # w /\ task'[v] = task[v] /\ task[v] # 0 /\ task[v] # task[w]
      BY <2>1, <2>2 DEF TaskInv
    <3>2. task[v] \in 1..MaxTasks
      BY <1>0, <3>1 DEF PoolTypeOK
    <3> QED BY <2>2, <3>1, <3>2 DEF TaskInv
  <2>4. \A i \in 1..Len(poolTasks') : poolTasks'[i] <= issued' /\ done'[poolTasks'[i]] = 0
    BY <1>0, <2>2 DEF TaskInv
  <2>5. \A v \in Workers : task'[v] # 0 <=> worker'[v] = "running"
    BY <2>2 DEF TaskInv
  <2>6. \A u, v \in Workers : task'[u] # 0 /\ task'[u] = task'[v] => u = v
    BY <2>2 DEF TaskInv
  <2>7. \A v \in Workers, i \in 1..Len(poolTasks') : task'[v] # poolTasks'[i]
    BY <1>0, <2>2 DEF TaskInv
  <2>8. \A t \in 1..MaxTasks : done'[t] <= 1 /\ (t > issued' => done'[t] = 0)
    BY <2>1, <2>2 DEF TaskInv, PoolTypeOK
  <2> QED BY <2>2, <2>3, <2>4, <2>5, <2>6, <2>7, <2>8 DEF TaskInv
<1>9. ASSUME NEW w \in Workers, WorkerWakes(w)
      PROVE  TaskInv'
  <2>1. \A v \in Workers : worker'[v] = "running" <=> worker[v] = "running"
    BY <1>9 DEF WorkerWakes, Wake
  <2> QED BY <1>9, <2>1, TasksStay DEF WorkerWakes
<1>10. CASE UNCHANGED poolVars
  BY <1>10, TasksStay DEF poolVars
<1> QED BY <1>1, <1>2, <1>3, <1>4, <1>5, <1>6, <1>7, <1>8, <1>9, <1>10 DEF PoolNext

\* A promise survives a step that moves no task and leaves a worker if there was one.
LEMMA PromisesStay ==
  ASSUME PromiseInv, UNCHANGED <<poolTasks, task, issued, done, promised>>,
         \A w \in Workers : worker[w] \in {"ready", "asleep", "running"} =>
           \E v \in Workers : worker'[v] \in {"ready", "asleep", "running"}
  PROVE  PromiseInv'
BY DEF PromiseInv

\* While no worker is left to take a task, all that was promised has run.
LEMMA NobodyLeft ==
  ASSUME PoolTypeOK, TaskInv, PromiseInv,
         \A w \in Workers : worker[w] \in {"none", "exited"}
  PROVE  \A t \in promised : t <= issued /\ done[t] = 1
<1> SUFFICES ASSUME NEW t \in promised
             PROVE  t <= issued /\ done[t] = 1
  OBVIOUS
<1>1. t # 0
  BY ThreadPoolAssumption DEF PoolTypeOK
<1> QED BY <1>1 DEF PromiseInv, TaskInv

\* Every step keeps what was promised: a worker ends only when nothing is queued.
LEMMA PromisesKept ==
  ASSUME PoolTypeOK, OwnerInv, TaskInv, PromiseInv, [PoolNext]_poolVars
  PROVE  PromiseInv'
<1> DEFINE Left == {"ready", "asleep", "running"}
<1>0. MaxTasks \in Nat /\ issued \in Nat /\ promised \subseteq 1..MaxTasks /\ Len(poolTasks) \in Nat
  BY ThreadPoolAssumption DEF PoolTypeOK
<1>1. ASSUME NEW W \in {{}, Workers}, PoolStart(W)
      PROVE  PromiseInv'
  <2>1. CASE poolRunning
    BY <1>1, <2>1, PromisesStay DEF PoolStart
  <2>2. CASE ~poolRunning
    <3>1. \A t \in promised : t <= issued /\ done[t] = 1
      BY <1>1, <2>2, NobodyLeft DEF PoolStart, OwnerInv, Employed
    <3> QED BY <1>1, <3>1 DEF PoolStart, PromiseInv
  <2> QED BY <2>1, <2>2
<1>2. CASE PoolStopFlag
  BY <1>2, PromisesStay DEF PoolStopFlag
<1>3. CASE PoolStopNotify
  BY <1>3, PromisesStay DEF PoolStopNotify, Wake, Asleep
<1>4. CASE PoolStopped
  <2>1. \A t \in promised : t <= issued /\ done[t] = 1
    BY <1>4, NobodyLeft DEF PoolStopped, Employed
  <2> QED BY <1>4, <2>1 DEF PoolStopped, PromiseInv
<1>5. ASSUME NEW c \in Workers \cup Runners, Run(c)
      PROVE  PromiseInv'
  <2>1. issued + 1 \in 1..MaxTasks /\ issued' = issued + 1 /\ UNCHANGED <<worker, task>>
    BY <1>0, <1>5 DEF Run, PoolTypeOK
  <2>2. CASE ~poolRunning /\ Employed = {}
    <3>1. done' = [done EXCEPT ![issued + 1] = @ + 1] /\ UNCHANGED <<poolTasks, promised>>
      BY <1>5, <2>2 DEF Run
    <3>2. \A t \in promised : t <= issued /\ done[t] = 1
      BY <2>2, NobodyLeft DEF Employed
    <3>3. \A t \in promised : done'[t] = done[t]
      BY <1>0, <3>1, <3>2 DEF PoolTypeOK
    <3>4. \A t \in promised' : t <= issued' /\ done'[t] = 1
      BY <1>0, <2>1, <3>1, <3>2, <3>3
    <3> QED BY <3>4 DEF PromiseInv
  <2>3. CASE ~(~poolRunning /\ Employed = {})
    <3>1. /\ poolTasks' = Append(poolTasks, issued + 1) /\ UNCHANGED done
          /\ promised' = IF WillRun(c) THEN promised \cup {issued + 1} ELSE promised
      BY <1>5, <2>3 DEF Run
    <3>2. /\ Len(poolTasks') = Len(poolTasks) + 1
          /\ \A i \in 1..Len(poolTasks) : i \in 1..Len(poolTasks') /\ poolTasks'[i] = poolTasks[i]
          /\ Len(poolTasks) + 1 \in 1..Len(poolTasks') /\ poolTasks'[Len(poolTasks) + 1] = issued + 1
      BY <3>1 DEF PoolTypeOK
    <3>3. WillRun(c) => \E w \in Workers : worker[w] \in Left
      <4>1. c \in Workers => worker[c] = "running"
        BY <1>5 DEF Run, MayCall
      <4>2. poolRunning /\ Employed # {} => \E w \in Workers : worker[w] \in Left
        BY DEF PoolTypeOK, OwnerInv, Employed
      <4> QED BY <4>1, <4>2 DEF WillRun
    <3>4. ASSUME NEW t \in promised
          PROVE  /\ t <= issued'
                 /\ \/ done'[t] = 1
                    \/ \E w \in Workers : task'[w] = t
                    \/ /\ \E i \in 1..Len(poolTasks') : poolTasks'[i] = t
                       /\ \E w \in Workers : worker'[w] \in Left
      <4>1. t <= issued'
        BY <1>0, <2>1 DEF PromiseInv
      <4> QED BY <2>1, <3>1, <3>2, <4>1 DEF PromiseInv
    <3>5. ASSUME WillRun(c)
          PROVE  /\ issued + 1 <= issued'
                 /\ \E i \in 1..Len(poolTasks') : poolTasks'[i] = issued + 1
                 /\ \E w \in Workers : worker'[w] \in Left
      BY <1>0, <2>1, <3>2, <3>3, <3>5
    <3> QED BY <3>1, <3>4, <3>5 DEF PromiseInv
  <2> QED BY <2>2, <2>3
<1>6. ASSUME NEW c \in Workers \cup Runners, RunNotify(c)
      PROVE  PromiseInv'
  <2>1. \A w \in Workers : worker[w] \in Left => worker'[w] \in Left
    BY <1>6 DEF RunNotify, Wake, Asleep
  <2> QED BY <1>6, <2>1, PromisesStay DEF RunNotify
<1>7. ASSUME NEW w \in Workers, WorkerTakes(w)
      PROVE  PromiseInv'
  <2>1. CASE poolTasks = << >>
    <3>1. UNCHANGED <<poolTasks, task, issued, done, promised>>
      BY <1>7, <2>1 DEF WorkerTakes
    <3>2. \A t \in promised : done[t] = 1 \/ \E v \in Workers : task[v] = t
      BY <2>1 DEF PromiseInv
    <3> QED BY <3>1, <3>2 DEF PromiseInv
  <2>2. CASE poolTasks # << >>
    <3>1. /\ worker' = [worker EXCEPT ![w] = "running"] /\ worker[w] = "ready"
          /\ task' = [task EXCEPT ![w] = Head(poolTasks)] /\ poolTasks' = Tail(poolTasks)
          /\ UNCHANGED <<issued, done, promised>>
      BY <1>7, <2>2 DEF WorkerTakes, Exits
    <3>2. task[w] = 0
      BY <3>1 DEF TaskInv
    <3>3. /\ worker'[w] \in Left /\ task'[w] = poolTasks[1]
          /\ \A v \in Workers : v # w => task'[v] = task[v]
      BY <2>2, <3>1 DEF PoolTypeOK
    <3>4. \A i \in 1..Len(poolTasks) : i # 1 =>
            \E j \in 1..Len(poolTasks') : poolTasks'[j] = poolTasks[i]
      <4> SUFFICES ASSUME NEW i \in 1..Len(poolTasks), i # 1
                   PROVE  i - 1 \in 1..Len(poolTasks') /\ poolTasks'[i - 1] = poolTasks[i]
        OBVIOUS
      <4> QED BY <2>2, <3>1 DEF PoolTypeOK
    <3>5. \A t \in promised : t # 0
      BY <1>0
    <3>6. ASSUME NEW t \in promised
          PROVE  \/ done[t] = 1
                 \/ \E v \in Workers : task'[v] = t
                 \/ \E j \in 1..Len(poolTasks') : poolTasks'[j] = t
      <4>1. CASE done[t] = 1
        BY <4>1
      <4>2. CASE \E v \in Workers : task[v] = t
        BY <3>2, <3>3, <3>5, <4>2
      <4>3. CASE \E i \in 1..Len(poolTasks) : poolTasks[i] = t
        BY <3>3, <3>4, <4>3
      <4> QED BY <4>1, <4>2, <4>3 DEF PromiseInv
    <3> QED BY <3>1, <3>3, <3>6 DEF PromiseInv
  <2> QED BY <2>1, <2>2
<1>8. ASSUME NEW w \in Workers, WorkerRuns(w)
      PROVE  PromiseInv'
  <2>1. task[w] \in 1..MaxTasks /\ done[task[w]] = 0
    BY <1>0, <1>8 DEF WorkerRuns, TaskInv, PoolTypeOK
  <2>2. /\ worker'[w] \in Left
        /\ \A v \in Workers : v # w => task'[v] = task[v]
        /\ \A t \in promised : done'[t] = IF t = task[w] THEN 1 ELSE done[t]
        /\ UNCHANGED <<poolTasks, issued, promised>>
    BY <1>0, <1>8, <2>1 DEF WorkerRuns, PoolTypeOK
  <2> QED BY <2>2 DEF PromiseInv
<1>9. ASSUME NEW w \in Workers, WorkerWakes(w)
      PROVE  PromiseInv'
  <2>1. \A v \in Workers : worker[v] \in Left => worker'[v] \in Left
    BY <1>9 DEF WorkerWakes, Wake
  <2> QED BY <1>9, <2>1, PromisesStay DEF WorkerWakes
<1>10. CASE UNCHANGED poolVars
  BY <1>10, PromisesStay DEF poolVars
<1> QED BY <1>1, <1>2, <1>3, <1>4, <1>5, <1>6, <1>7, <1>8, <1>9, <1>10 DEF PoolNext

\* The five parts together are inductive.
LEMMA PoolInductive ==
  /\ PoolInit => PoolInv
  /\ PoolInv /\ [PoolNext]_poolVars => PoolInv'
<1>1. ASSUME PoolInit
      PROVE  PoolInv
  <2>1. PoolTypeOK
    <3>1. poolRunning \in BOOLEAN
      BY <1>1, Zenon DEF PoolInit
    <3> QED BY <1>1, <3>1, ThreadPoolAssumption DEF PoolInit, PoolTypeOK
  <2>2. OwnerInv /\ PromiseInv
    BY <1>1 DEF PoolInit, OwnerInv, PromiseInv, Employed
  <2>3. TaskInv
    BY <1>1 DEF PoolInit, TaskInv
  <2>4. PoolAwake
    BY <1>1 DEF PoolInit, PoolAwake, Asleep
  <2> QED BY <2>1, <2>2, <2>3, <2>4 DEF PoolInv
<1>2. ASSUME PoolInv, [PoolNext]_poolVars
      PROVE  PoolInv'
  BY <1>2, PoolTyped, PoolOwned, PoolStaysAwake, TasksInOnePlace, PromisesKept DEF PoolInv
<1> QED BY <1>1, <1>2

\* When stop() has returned no worker is left, so what was promised has run.
LEMMA PoolInvServes ==
  ASSUME PoolInv
  PROVE  PoolServes
<1>1. \A t \in 1..MaxTasks : done[t] <= 1
  BY DEF PoolInv, TaskInv
<1>2. owner = "out" /\ ~poolRunning => \A t \in promised : done[t] = 1
  BY NobodyLeft DEF PoolInv, OwnerInv, Employed
<1> QED BY <1>1, <1>2 DEF PoolInv, PoolServes, PoolDrains

\* For any threads and any number of tasks, starts and stops: no task runs twice, a
\* stop() that has returned leaves no promised task behind, and neither a task nor a
\* stop() is slept over (thread_pool.cpp: run, run_worker, stop).
THEOREM PoolServesAlways == PoolSpec => []PoolServes
<1>1. PoolSpec => []PoolInv
  BY PoolInductive, PTL DEF PoolSpec
<1> QED BY <1>1, PoolInvServes, PTL

-----------------------------------------------------------------------------
(* BlockingQueue.                                                          *)

QueueTypeOK ==
  /\ items \in Seq(Nat) /\ puts \in Nat
  /\ taker \in [Takers -> {"out", "ready", "asleep"}]
  /\ putter \in [Putters -> {"out", "one", "all"}]

QueueInv == QueueTypeOK /\ QueueAwake

Trying == {c \in Takers : taker[c] = "ready"}
Notifiers == {p \in Putters : putter[p] = "one"}

\* The threads that are awake and the notifies on their way can be counted.
LEMMA QueueCounts ==
  /\ IsFiniteSet(Trying) /\ IsFiniteSet(Notifiers)
  /\ Cardinality(Trying) \in Nat /\ Cardinality(Notifiers) \in Nat
BY BlockingQueueAssumption, FS_Subset, FS_CardinalityType DEF Trying, Notifiers

\* ... also after a step.
LEMMA QueueCountsNext ==
  Cardinality(Trying') \in Nat /\ Cardinality(Notifiers') \in Nat
BY BlockingQueueAssumption, FS_Subset, FS_CardinalityType DEF Trying, Notifiers

\* One thread more tries: nothing else has to change for nobody to sleep over an item.
LEMMA OneMoreTries ==
  ASSUME QueueInv, NEW c \in Takers, taker[c] # "ready", taker' = [taker EXCEPT ![c] = "ready"],
         UNCHANGED <<items, closed, putter>>
  PROVE  QueueAwake'
<1>1. Trying' = Trying \cup {c} /\ c \notin Trying /\ Sleepers' \subseteq Sleepers
  BY DEF QueueInv, QueueTypeOK, Trying, Sleepers
<1>2. Cardinality(Trying') = Cardinality(Trying) + 1 /\ Notifiers' = Notifiers
  BY <1>1, QueueCounts, OneMore DEF Notifiers
<1>3. Len(items) \in Nat
  BY DEF QueueInv, QueueTypeOK
<1> QED BY <1>1, <1>2, <1>3, QueueCounts DEF QueueInv, QueueAwake, Trying, Notifiers

\* Every step keeps the types of the queue and lets nobody oversleep.
LEMMA QueueInductive ==
  /\ QueueInit => QueueInv
  /\ QueueInv /\ [QueueNext]_queueVars => QueueInv'
<1>1. ASSUME QueueInit
      PROVE  QueueInv
  BY <1>1 DEF QueueInit, QueueInv, QueueTypeOK, QueueAwake, Sleepers
<1>2. ASSUME QueueInv, [QueueNext]_queueVars
      PROVE  QueueInv'
  <2>0. QueueTypeOK /\ Len(items) \in Nat
    BY <1>2 DEF QueueInv, QueueTypeOK
  <2>1. ASSUME NEW p \in Putters, Put(p)
        PROVE  QueueInv'
    <3>1. QueueTypeOK'
      BY <2>0, <2>1 DEF Put, QueueTypeOK
    <3>2. Notifiers' = Notifiers \cup {p} /\ p \notin Notifiers /\ Trying' = Trying
          /\ Sleepers' = Sleepers
      BY <2>0, <2>1 DEF Put, QueueTypeOK, Notifiers, Trying, Sleepers
    <3>3. Cardinality(Notifiers') = Cardinality(Notifiers) + 1
      BY <3>2, QueueCounts, OneMore
    <3>4. Len(items') = Len(items) + 1 /\ UNCHANGED closed
      BY <2>0, <2>1 DEF Put, QueueTypeOK
    <3>5. \A q \in Putters : putter[q] = "all" => putter'[q] = "all"
      BY <2>0, <2>1 DEF Put, QueueTypeOK
    <3>6. Sleepers # {} => Len(items') <= Cardinality(Trying') + Cardinality(Notifiers')
      <4>1. Sleepers # {} => Len(items) <= Cardinality(Trying) + Cardinality(Notifiers)
        BY <1>2 DEF QueueInv, QueueAwake, Trying, Notifiers
      <4> QED BY <2>0, <3>2, <3>3, <3>4, <4>1, QueueCounts
    <3>7. Sleepers # {} /\ closed => \E q \in Putters : putter'[q] = "all"
      BY <1>2, <3>5 DEF QueueInv, QueueAwake
    <3> QED BY <3>1, <3>2, <3>4, <3>6, <3>7 DEF QueueInv, QueueAwake, Trying, Notifiers
  <2>2. ASSUME NEW p \in Putters, CloseQueue(p)
        PROVE  QueueInv'
    <3>1. QueueTypeOK'
      BY <2>0, <2>2 DEF CloseQueue, QueueTypeOK
    <3>2. Notifiers' = Notifiers /\ Trying' = Trying /\ Sleepers' = Sleepers /\ putter'[p] = "all"
          /\ UNCHANGED items
      BY <2>0, <2>2 DEF CloseQueue, QueueTypeOK, Notifiers, Trying, Sleepers
    <3> QED BY <1>2, <3>1, <3>2 DEF QueueInv, QueueAwake, Trying, Notifiers
  <2>3. ASSUME NEW p \in Putters, Notify(p)
        PROVE  QueueInv'
    <3>1. CASE Sleepers = {}
      BY <2>0, <2>3, <3>1 DEF Notify, QueueInv, QueueTypeOK, QueueAwake, Sleepers
    <3>2. CASE Sleepers # {} /\ putter[p] = "all"
      BY <2>0, <2>3, <3>2 DEF Notify, Rouse, QueueInv, QueueTypeOK, QueueAwake, Sleepers
    <3>3. CASE Sleepers # {} /\ putter[p] # "all"
      <4>1. PICK c \in Sleepers : Rouse({c})
        BY <2>3, <3>3 DEF Notify
      <4>2. putter[p] = "one" /\ putter' = [putter EXCEPT ![p] = "out"] /\ UNCHANGED <<items, closed, puts>>
        BY <2>0, <2>3, <3>3 DEF Notify, QueueTypeOK
      <4>3. Trying' = Trying \cup {c} /\ c \notin Trying
        BY <4>1 DEF Rouse, Trying, Sleepers
      <4>4. Notifiers' = Notifiers \ {p} /\ p \in Notifiers
        BY <2>0, <4>2 DEF QueueTypeOK, Notifiers
      <4>5. Cardinality(Trying') + Cardinality(Notifiers') = Cardinality(Trying) + Cardinality(Notifiers)
        <5>1. Cardinality(Trying') = Cardinality(Trying) + 1
          BY <4>3, QueueCounts, OneMore
        <5>2. Cardinality(Notifiers') = Cardinality(Notifiers) - 1
          BY <4>4, QueueCounts, OneLess
        <5> QED BY <5>1, <5>2, QueueCounts
      <4>6. \A q \in Putters : putter[q] = "all" => putter'[q] = "all"
        BY <2>0, <4>2 DEF QueueTypeOK
      <4>7. QueueTypeOK'
        BY <2>0, <4>1, <4>2 DEF Rouse, QueueTypeOK
      <4> QED BY <1>2, <3>3, <4>2, <4>5, <4>6, <4>7 DEF QueueInv, QueueAwake, Trying, Notifiers
    <3> QED BY <3>1, <3>2, <3>3
  <2>4. ASSUME NEW c \in Takers, NEW isTimed \in BOOLEAN, Take(c, isTimed)
        PROVE  QueueInv'
    <3>1. taker[c] # "ready" /\ taker' = [taker EXCEPT ![c] = "ready"]
          /\ UNCHANGED <<items, closed, putter, puts>>
      BY <2>4 DEF Take
    <3> QED BY <1>2, <2>0, <3>1, OneMoreTries DEF QueueInv, QueueTypeOK
  <2>5. ASSUME NEW c \in Takers, Tested(c)
        PROVE  QueueInv'
    <3>0. taker[c] = "ready" /\ UNCHANGED <<closed, putter, puts>>
      BY <2>5 DEF Tested
    <3>1. CASE items # << >>
      <4>1. taker' = [taker EXCEPT ![c] = "out"] /\ items' = Tail(items)
        BY <2>5, <3>1 DEF Tested, Returns
      <4>2. Len(items') = Len(items) - 1 /\ QueueTypeOK'
        BY <2>0, <3>0, <3>1, <4>1 DEF QueueTypeOK
      <4>3. Trying' = Trying \ {c} /\ c \in Trying /\ Sleepers' = Sleepers /\ Notifiers' = Notifiers
        BY <2>0, <3>0, <4>1 DEF QueueTypeOK, Trying, Sleepers, Notifiers
      <4>4. Cardinality(Trying') = Cardinality(Trying) - 1
        BY <4>3, QueueCounts, OneLess
      <4> QED BY <1>2, <2>0, <3>0, <4>2, <4>3, <4>4, QueueCounts
              DEF QueueInv, QueueAwake, Trying, Notifiers
    <3>2. CASE items = << >>
      <4>1. \E to \in {"out", "asleep"} :
              taker' = [taker EXCEPT ![c] = to] /\ (to = "asleep" => ~closed)
        BY <2>5, <3>2 DEF Tested, Returns
      <4>2. items' = << >> /\ Len(items') = 0
        BY <2>5, <3>2 DEF Tested
      <4>3. QueueTypeOK'
        BY <2>0, <3>0, <3>2, <4>1, <4>2 DEF QueueTypeOK
      <4>4. closed => Sleepers' \subseteq Sleepers
        BY <2>0, <3>0, <4>1 DEF QueueTypeOK, Sleepers
      <4>5. Sleepers # {} /\ closed => \E p \in Putters : putter[p] = "all"
        BY <1>2 DEF QueueInv, QueueAwake
      <4> QED BY <3>0, <4>2, <4>3, <4>4, <4>5, QueueCountsNext
              DEF QueueInv, QueueAwake, Trying, Notifiers
    <3> QED BY <3>1, <3>2
  <2>6. ASSUME NEW c \in Takers, WakesAlone(c)
        PROVE  QueueInv'
    <3>1. taker[c] # "ready" /\ taker' = [taker EXCEPT ![c] = "ready"]
          /\ UNCHANGED <<items, closed, putter, puts>>
      BY <2>0, <2>6 DEF WakesAlone, Rouse, QueueTypeOK
    <3> QED BY <1>2, <2>0, <3>1, OneMoreTries DEF QueueInv, QueueTypeOK
  <2>7. CASE UNCHANGED queueVars
    BY <1>2, <2>7 DEF queueVars, QueueInv, QueueTypeOK, QueueAwake, Sleepers
  <2> QED BY <1>2, <2>1, <2>2, <2>3, <2>4, <2>5, <2>6, <2>7 DEF QueueNext
<1> QED BY <1>1, <1>2

\* For any takers and putters: while a thread sleeps in take() or try_take_for(), every
\* item has a thread that is awake or a notify on its way, and after a close the
\* notify_all is on its way (blocking_queue.h: put, close, take, try_take_for).
THEOREM QueueAwakeAlways == QueueSpec => []QueueAwake
<1>1. QueueSpec => []QueueInv
  BY QueueInductive, PTL DEF QueueSpec
<1>2. QueueInv => QueueAwake
  BY DEF QueueInv
<1> QED BY <1>1, <1>2, PTL

-----------------------------------------------------------------------------
(* AsyncFileLogger.                                                        *)

LogEvent == LogFiles \X [n : Nat, size : Nat]

LogTypeOK ==
  /\ pending \in Seq(LogEvent)
  /\ flushGeneration \in Nat /\ flushedGeneration \in Nat
  /\ logger \in [Loggers -> {"out", "notify", "waits"}]
  /\ generation \in [Loggers -> Nat]
  /\ cvWaiters \subseteq Loggers \cup {"worker"}
  /\ logWorker \in {"none", "ready", "writing", "answer", "check", "gone"}
  /\ batch \in [events : Seq(LogEvent), force : BOOLEAN, generation : Nat]

\* The request of a thread in flush() is answered, or there, or in the worker's hands.
InHand(c) ==
  \/ flushedGeneration >= generation[c]
  \/ flushRequested
  \/ logWorker \in {"writing", "answer"} /\ batch.force /\ batch.generation >= generation[c]
  \/ logWorker = "gone"

\* Generations only go up; who sleeps on cv_ is in its wait, and the worker not over a
\* request.
FlushInv ==
  /\ flushedGeneration <= batch.generation /\ batch.generation <= flushGeneration
  /\ \A c \in Loggers : generation[c] <= flushGeneration
  /\ logStarted <=> logWorker # "none"
  /\ "worker" \in cvWaiters => logWorker = "ready" /\ ~flushRequested
  /\ \A c \in Loggers \cap cvWaiters : logger[c] = "waits"
  /\ \A c \in Loggers : logger[c] = "waits" => InHand(c)

LogInv == LogTypeOK /\ FlushInv /\ LogAwake

\* A notify_one takes at most one thread off cv_, and one if there is one.
LEMMA NotifyTakesOne ==
  ASSUME NotifyOne
  PROVE  cvWaiters' \subseteq cvWaiters /\ \A t : cvWaiters = {t} => cvWaiters' = {}
BY DEF NotifyOne

\* ensure_started_locked makes a worker only if there is none.
LEMMA StartsOnce ==
  ASSUME LogTypeOK, logStarted <=> logWorker # "none", Started
  PROVE  /\ logWorker' \in {"ready", "writing", "answer", "check", "gone"}
         /\ logStarted' /\ logWorker' # "none"
         /\ logWorker # "none" => logWorker' = logWorker
BY DEF Started, LogTypeOK

\* Every step of the logger keeps the types.
LEMMA LogTyped ==
  ASSUME LogTypeOK, logStarted <=> logWorker # "none", [LogNext]_logVars
  PROVE  LogTypeOK'
<1>1. ASSUME NEW c \in Loggers, NEW f \in LogFiles, AppendEvent(c, f)
      PROVE  LogTypeOK'
  <2> DEFINE n == Len(appended[f]) + 1
             event == <<f, [n |-> n, size |-> RecordSizes[n]]>>
  <2>1. n \in DOMAIN RecordSizes /\ pending' = Append(pending, event)
    BY <1>1 DEF AppendEvent
  <2>2. n \in Nat /\ RecordSizes[n] \in Nat
    BY <2>1, AsyncLoggerAssumption
  <2> HIDE DEF n
  <2>3. event \in LogEvent
    BY <2>2 DEF LogEvent
  <2> HIDE DEF event
  <2>4. pending \in Seq(LogEvent)
    BY DEF LogTypeOK
  <2>5. pending' \in Seq(LogEvent)
    BY <2>1, <2>3, <2>4
  <2>6. Started
    BY <1>1 DEF AppendEvent
  <2> QED BY <1>1, <2>5, <2>6, StartsOnce DEF AppendEvent, Goes, logDisk, LogTypeOK
<1>2. ASSUME NEW c \in Loggers, AppendNotify(c)
      PROVE  LogTypeOK'
  BY <1>2, NotifyTakesOne DEF AppendNotify, Goes, logQueue, logDisk, LogTypeOK
<1>3. ASSUME NEW c \in Loggers, Flush(c)
      PROVE  LogTypeOK'
  BY <1>3, NotifyTakesOne, StartsOnce DEF Flush, Goes, logDisk, LogTypeOK
<1>4. ASSUME NEW c \in Loggers, FlushWaits(c)
      PROVE  LogTypeOK'
  BY <1>4 DEF FlushWaits, Goes, logQueue, logDisk, LogTypeOK
<1>5. ASSUME NEW c \in Loggers, SetFlushInterval(c)
      PROVE  LogTypeOK'
  BY <1>5 DEF SetFlushInterval, Goes, logDisk, LogTypeOK
<1>6. ASSUME NEW t, WakesUp(t)
      PROVE  LogTypeOK'
  BY <1>6 DEF WakesUp, logQueue, logDisk, LogTypeOK
<1>7. CASE StopLogger
  BY <1>7 DEF StopLogger, logDisk, LogTypeOK
<1>8. CASE StopNotify
  BY <1>8, NotifyTakesOne DEF StopNotify, logQueue, logDisk, LogTypeOK
<1>9. ASSUME NEW due \in BOOLEAN, WorkerTakesEvents(due)
      PROVE  LogTypeOK'
  <2>1. (flushRequested \/ logStopping \/ due) \in BOOLEAN
    BY Zenon
  <2>2. batch' \in [events : Seq(LogEvent), force : BOOLEAN, generation : Nat]
    BY <1>9, <2>1 DEF WorkerTakesEvents, LogTypeOK
  <2>3. pending' \in Seq(LogEvent)
    BY <1>9 DEF WorkerTakesEvents
  <2> QED BY <1>9, <2>2, <2>3 DEF WorkerTakesEvents, LogTypeOK
<1>10. CASE WorkerWaits
  BY <1>10 DEF WorkerWaits, logQueue, logDisk, LogTypeOK
<1>11. CASE WorkerBuffers
  <2>1. batch.events \in Seq(LogEvent)
    BY DEF LogTypeOK
  <2>2. Tail(batch.events) \in Seq(LogEvent)
    BY <1>11, <2>1, QueueTyped DEF WorkerBuffers
  <2>3. batch' \in [events : Seq(LogEvent), force : BOOLEAN, generation : Nat]
    BY <1>11, <2>2 DEF WorkerBuffers, LogTypeOK
  <2> QED BY <1>11, <2>3 DEF WorkerBuffers, logQueue, LogTypeOK
<1>12. CASE WorkerFlushes
  BY <1>12 DEF WorkerFlushes, logQueue, LogTypeOK
<1>13. CASE WorkerAnswers
  BY <1>13 DEF WorkerAnswers, logDisk, LogTypeOK
<1>14. CASE WorkerChecks
  BY <1>14 DEF WorkerChecks, logQueue, LogTypeOK
<1>15. CASE UNCHANGED logVars
  BY <1>15 DEF logVars, logQueue, logDisk, LogTypeOK
<1> QED BY <1>1, <1>2, <1>3, <1>4, <1>5, <1>6, <1>7, <1>8, <1>9, <1>10, <1>11, <1>12, <1>13, <1>14,
           <1>15 DEF LogNext

\* Every step keeps a request where an answer will find it.
LEMMA RequestsInHand ==
  ASSUME LogTypeOK, FlushInv, LogAwake, [LogNext]_logVars
  PROVE  FlushInv'
<1> USE DEF FlushInv, InHand
<1>0. /\ batch.generation \in Nat /\ flushGeneration \in Nat /\ flushedGeneration \in Nat
      /\ \A c \in Loggers : generation[c] \in Nat
      /\ "worker" \notin Loggers
  BY AsyncLoggerAssumption DEF LogTypeOK
<1>1. ASSUME NEW c \in Loggers, NEW f \in LogFiles, AppendEvent(c, f)
      PROVE  FlushInv'
  BY <1>0, <1>1, StartsOnce DEF AppendEvent, Goes, logDisk, LogTypeOK
<1>2. ASSUME NEW c \in Loggers, AppendNotify(c)
      PROVE  FlushInv'
  BY <1>0, <1>2, NotifyTakesOne DEF AppendNotify, Goes, logQueue, logDisk, LogTypeOK
<1>3. ASSUME NEW c \in Loggers, Flush(c)
      PROVE  FlushInv'
  <2>1. "worker" \notin cvWaiters'
    BY <1>3, NotifyTakesOne DEF Flush, LogAwake
  <2> QED BY <1>0, <1>3, <2>1, NotifyTakesOne, StartsOnce DEF Flush, Goes, logDisk, LogTypeOK
<1>4. ASSUME NEW c \in Loggers, FlushWaits(c)
      PROVE  FlushInv'
  BY <1>0, <1>4 DEF FlushWaits, Goes, logQueue, logDisk, LogTypeOK
<1>5. ASSUME NEW c \in Loggers, SetFlushInterval(c)
      PROVE  FlushInv'
  BY <1>0, <1>5 DEF SetFlushInterval, Goes, logDisk, LogTypeOK
<1>6. ASSUME NEW t, WakesUp(t)
      PROVE  FlushInv'
  BY <1>6 DEF WakesUp, logQueue, logDisk
<1>7. CASE StopLogger
  BY <1>7 DEF StopLogger, logDisk
<1>8. CASE StopNotify
  BY <1>8, NotifyTakesOne DEF StopNotify, logQueue, logDisk
<1>9. ASSUME NEW due \in BOOLEAN, WorkerTakesEvents(due)
      PROVE  FlushInv'
  <2>1. batch'.generation = flushGeneration /\ (flushRequested => batch'.force)
    BY <1>9 DEF WorkerTakesEvents
  <2> QED BY <1>0, <1>9, <2>1 DEF WorkerTakesEvents
<1>10. CASE WorkerWaits
  BY <1>0, <1>10 DEF WorkerWaits, WorkToDo, logQueue, logDisk
<1>11. CASE WorkerBuffers
  <2>1. batch'.generation = batch.generation /\ batch'.force = batch.force
    BY <1>11 DEF WorkerBuffers, LogTypeOK
  <2> QED BY <1>11, <2>1 DEF WorkerBuffers, logQueue
<1>12. CASE WorkerFlushes
  BY <1>12 DEF WorkerFlushes, logQueue
<1>13. CASE WorkerAnswers
  BY <1>0, <1>13 DEF WorkerAnswers, logDisk
<1>14. CASE WorkerChecks
  BY <1>14 DEF WorkerChecks, logQueue
<1>15. CASE UNCHANGED logVars
  BY <1>15 DEF logVars, logQueue, logDisk
<1> QED BY <1>1, <1>2, <1>3, <1>4, <1>5, <1>6, <1>7, <1>8, <1>9, <1>10, <1>11, <1>12, <1>13, <1>14,
           <1>15 DEF LogNext

\* Who sleeps in flush() has no answer yet: a step that neither answers nor puts him to
\* sleep leaves it at that.
LEMMA StillUnanswered ==
  ASSUME LogTypeOK, FlushInv', LogTypeOK',
         \A c \in Loggers \cap cvWaiters' : flushedGeneration' < generation'[c],
         "worker" \in cvWaiters' =>
           /\ cvWaiters' = {"worker"}
           /\ WorkToDo' => stopNotifies' \/ \E c \in Loggers : logger'[c] = "notify"
  PROVE  LogAwake'
<1>1. ASSUME NEW c \in Loggers \cap cvWaiters'
      PROVE  InHand(c)'
  BY DEF FlushInv
<1>2. /\ flushedGeneration' \in Nat /\ \A c \in Loggers : generation'[c] \in Nat
  BY DEF LogTypeOK
<1> QED BY <1>1, <1>2 DEF InHand, LogAwake

\* Every step lets nobody oversleep: a notify_one that reaches another thread than the
\* one it was meant for cannot happen, since the worker does not sleep beside others.
LEMMA LogStaysAwake ==
  ASSUME LogTypeOK, FlushInv, LogAwake, LogTypeOK', FlushInv', [LogNext]_logVars
  PROVE  LogAwake'
<1> DEFINE Unanswered == \A c \in Loggers \cap cvWaiters' : flushedGeneration' < generation'[c]
           WorkerMayWait ==
             "worker" \in cvWaiters' =>
               /\ cvWaiters' = {"worker"}
               /\ WorkToDo' => stopNotifies' \/ \E c \in Loggers : logger'[c] = "notify"
<1>0. /\ batch.generation \in Nat /\ flushGeneration \in Nat /\ flushedGeneration \in Nat
      /\ \A c \in Loggers : generation[c] \in Nat
      /\ "worker" \notin Loggers
      /\ \A c \in Loggers \cap cvWaiters : flushedGeneration < generation[c]
  BY AsyncLoggerAssumption DEF LogTypeOK, LogAwake
<1> SUFFICES Unanswered /\ WorkerMayWait
  BY StillUnanswered
<1> USE DEF LogAwake, WorkToDo
<1>1. ASSUME NEW c \in Loggers, NEW f \in LogFiles, AppendEvent(c, f)
      PROVE  Unanswered /\ WorkerMayWait
  <2>1. logger'[c] = "notify"
    BY <1>1 DEF AppendEvent, Goes, LogTypeOK
  <2> QED BY <1>0, <1>1, <2>1 DEF AppendEvent
<1>2. ASSUME NEW c \in Loggers, AppendNotify(c)
      PROVE  Unanswered /\ WorkerMayWait
  <2>1. "worker" \notin cvWaiters'
    BY <1>2, NotifyTakesOne DEF AppendNotify
  <2> QED BY <1>0, <1>2, <2>1, NotifyTakesOne DEF AppendNotify, logQueue
<1>3. ASSUME NEW c \in Loggers, Flush(c)
      PROVE  Unanswered /\ WorkerMayWait
  <2>1. "worker" \notin cvWaiters'
    BY <1>3, NotifyTakesOne DEF Flush
  <2>2. \A d \in Loggers \cap cvWaiters' : d # c /\ generation'[d] = generation[d]
    BY <1>3, NotifyTakesOne DEF Flush, FlushInv, LogTypeOK
  <2> QED BY <1>0, <1>3, <2>1, <2>2, NotifyTakesOne DEF Flush
<1>4. ASSUME NEW c \in Loggers, FlushWaits(c)
      PROVE  Unanswered /\ WorkerMayWait
  <2>1. CASE flushedGeneration >= generation[c]
    <3>1. UNCHANGED <<cvWaiters, logQueue, generation, stopNotifies>>
      BY <1>4, <2>1 DEF FlushWaits
    <3>2. \A d \in Loggers : logger[d] = "notify" => logger'[d] = "notify"
      BY <1>4, <2>1 DEF FlushWaits, Goes, LogTypeOK
    <3> QED BY <1>0, <3>1, <3>2 DEF logQueue
  <2>2. CASE ~(flushedGeneration >= generation[c])
    <3>1. cvWaiters' = cvWaiters \cup {c} /\ UNCHANGED <<logQueue, generation>> /\ logger[c] = "waits"
      BY <1>4, <2>2 DEF FlushWaits
    <3>2. "worker" \notin cvWaiters
      BY <1>0, <2>2, <3>1 DEF FlushInv, InHand
    <3> QED BY <1>0, <2>2, <3>1, <3>2 DEF logQueue
  <2> QED BY <2>1, <2>2
<1>5. ASSUME NEW c \in Loggers, SetFlushInterval(c)
      PROVE  Unanswered /\ WorkerMayWait
  <2>1. logger'[c] = "notify"
    BY <1>5 DEF SetFlushInterval, Goes, LogTypeOK
  <2> QED BY <1>0, <1>5, <2>1 DEF SetFlushInterval
<1>6. ASSUME NEW t, WakesUp(t)
      PROVE  Unanswered /\ WorkerMayWait
  BY <1>0, <1>6 DEF WakesUp, logQueue
<1>7. CASE StopLogger
  BY <1>0, <1>7 DEF StopLogger
<1>8. CASE StopNotify
  <2>1. "worker" \notin cvWaiters'
    BY <1>8, NotifyTakesOne DEF StopNotify
  <2> QED BY <1>0, <1>8, <2>1, NotifyTakesOne DEF StopNotify, logQueue
<1>9. ASSUME NEW due \in BOOLEAN, WorkerTakesEvents(due)
      PROVE  Unanswered /\ WorkerMayWait
  BY <1>0, <1>9 DEF WorkerTakesEvents
<1>10. CASE WorkerWaits
  <2>1. Loggers \cap cvWaiters = {}
    BY <1>10 DEF WorkerWaits
  <2>2. cvWaiters' = {"worker"}
    BY <1>10, <2>1 DEF WorkerWaits, LogTypeOK
  <2> QED BY <1>0, <1>10, <2>2 DEF WorkerWaits, logQueue
<1>11. CASE WorkerBuffers
  BY <1>0, <1>11 DEF WorkerBuffers, logQueue
<1>12. CASE WorkerFlushes
  BY <1>0, <1>12 DEF WorkerFlushes, logQueue
<1>13. CASE WorkerAnswers
  BY <1>13 DEF WorkerAnswers
<1>14. CASE WorkerChecks
  BY <1>0, <1>14 DEF WorkerChecks, logQueue
<1>15. CASE UNCHANGED logVars
  BY <1>0, <1>15 DEF logVars, logQueue
<1> QED BY <1>1, <1>2, <1>3, <1>4, <1>5, <1>6, <1>7, <1>8, <1>9, <1>10, <1>11, <1>12, <1>13, <1>14,
           <1>15 DEF LogNext

\* The three parts together are inductive.
LEMMA LogInductive ==
  /\ LogInit => LogInv
  /\ LogInv /\ [LogNext]_logVars => LogInv'
<1>1. ASSUME LogInit
      PROVE  LogInv
  <2>1. FALSE \in BOOLEAN
    BY Zenon
  <2>2. LogTypeOK
    BY <1>1, <2>1 DEF LogInit, LogTypeOK
  <2>3. FlushInv
    BY <1>1 DEF LogInit, FlushInv
  <2>4. LogAwake
    BY <1>1 DEF LogInit, LogAwake
  <2> QED BY <2>2, <2>3, <2>4 DEF LogInv
<1>2. ASSUME LogInv, [LogNext]_logVars
      PROVE  LogInv'
  <2>1. LogTypeOK'
    BY <1>2, LogTyped DEF LogInv, FlushInv
  <2>2. FlushInv'
    BY <1>2, RequestsInHand DEF LogInv
  <2> QED BY <1>2, <2>1, <2>2, LogStaysAwake DEF LogInv
<1> QED BY <1>1, <1>2

\* For any threads that log and flush, any files and sizes: though one condition variable
\* serves the worker and every flush(), and notify_one picks any of them, nobody sleeps
\* over what he waits for (logging.cpp: append, flush, stop, run).
THEOREM LogAwakeAlways == LogSpec => []LogAwake
<1>1. LogSpec => []LogInv
  BY LogInductive, PTL DEF LogSpec
<1>2. LogInv => LogAwake
  BY DEF LogInv
<1> QED BY <1>1, <1>2, PTL

-----------------------------------------------------------------------------
(* AsyncLogger: what is appended is what is on file or on its way to it. *)

-----------------------------------------------------------------------------
(* What is logged, on its way to the files.                                *)

Record == [n : Nat, size : Nat \ {0}]

\* A file's files, oldest first.
OldestFirst(fs) == FlattenSeq(Reverse(fs))

\* roll_sink and write_record keep so many files, and each of them small or a single record.
FilesOK(fs) ==
  /\ fs \in Seq(Seq(Record)) /\ Len(fs) <= MaxRollFiles + 1
  /\ \A i \in 1..Len(fs) : Size(fs[i]) > RollSize => Len(fs[i]) = 1

\* No record is empty, so only an empty file has no size.
LEMMA SizeType ==
  ASSUME NEW q \in Seq(Record)
  PROVE  Size(q) \in Nat /\ (Size(q) = 0 <=> q = << >>)
<1> DEFINE f == [i \in DOMAIN q |-> q[i].size]
           S == 1..Len(q)
<1>1. Len(q) \in Nat /\ DOMAIN q = S /\ IsFiniteSet(S)
  BY LenProperties, FS_Interval
<1>2. Size(q) = SumFunctionOnSet(f, S)
  BY <1>1 DEF Size, SumFunction
<1>3. \A i \in S : f[i] \in Nat \ {0}
  <2>1. \A i \in S : q[i] \in Record
    BY ElementOfSeq
  <2> QED BY <1>1, <2>1 DEF Record
<1> HIDE DEF f
<1>4. SumFunctionOnSet(f, S) \in Nat
  BY <1>1, <1>3, SumType
<1>5. CASE q = << >>
  <2>1. S = {}
    BY <1>1, <1>5
  <2>2. SumFunctionOnSet(f, S) = 0
    BY <1>1, <2>1, SumType
  <2> QED BY <1>2, <1>5, <2>2
<1>6. CASE q # << >>
  <2>1. 1 \in S
    BY <1>1, <1>6, EmptySeq
  <2>2. IsFiniteSet(S \ {1})
    BY <1>1, FS_RemoveElement
  <2>3. SumFunctionOnSet(f, S \ {1}) \in Nat
    BY <1>3, <2>2, SumType
  <2>4. SumFunctionOnSet(f, S) = f[1] + SumFunctionOnSet(f, S \ {1})
    BY <1>1, <1>3, <2>1, SumWithout
  <2> QED BY <1>2, <1>3, <1>6, <2>1, <2>3, <2>4
<1> QED BY <1>2, <1>4, <1>5, <1>6

\* One more record.
LEMMA SizeAppend ==
  ASSUME NEW q \in Seq(Record), NEW r \in Record
  PROVE  Size(Append(q, r)) = Size(q) + r.size
<1> DEFINE n == Len(q)
           w == Append(q, r)
           f == [i \in DOMAIN q |-> q[i].size]
           g == [i \in DOMAIN w |-> w[i].size]
<1>1. /\ n \in Nat /\ w \in Seq(Record) /\ Len(w) = n + 1 /\ w[n + 1] = r
      /\ \A i \in 1..n : w[i] = q[i]
  BY AppendProperties, LenProperties
<1>2. DOMAIN q = 1..n /\ DOMAIN w = 1..n + 1 /\ IsFiniteSet(1..n) /\ IsFiniteSet(1..n + 1)
  <2>1. n + 1 \in Int /\ n \in Int /\ 1 \in Int
    BY <1>1
  <2> HIDE DEF w
  <2> QED BY <1>1, <2>1, LenProperties, FS_Interval
<1> HIDE DEF w
<1>3. /\ \A i \in 1..n : f[i] = g[i]
      /\ \A i \in 1..n + 1 : g[i] \in Nat
      /\ g[n + 1] = r.size /\ n + 1 \in 1..n + 1
  <2>1. \A i \in 1..n + 1 : w[i] \in Record
    BY <1>1, ElementOfSeq
  <2> QED BY <1>1, <1>2, <2>1 DEF Record
<1>4. Size(q) = SumFunctionOnSet(f, 1..n) /\ Size(w) = SumFunctionOnSet(g, 1..n + 1)
  BY <1>2 DEF Size, SumFunction
<1> HIDE DEF f, g, n
<1>5. (1..n + 1) \ {n + 1} = 1..n
  BY <1>1
<1>6. SumFunctionOnSet(g, 1..n + 1) = g[n + 1] + SumFunctionOnSet(g, 1..n)
  <2> DEFINE U == 1..n + 1
  <2>1. IsFiniteSet(U) /\ (\A i \in U : g[i] \in Nat) /\ n + 1 \in U
    BY <1>2, <1>3
  <2> HIDE DEF U
  <2>2. SumFunctionOnSet(g, U) = g[n + 1] + SumFunctionOnSet(g, U \ {n + 1})
    BY <2>1, SumWithout
  <2> QED BY <1>5, <2>2 DEF U
<1>7. SumFunctionOnSet(f, 1..n) = SumFunctionOnSet(g, 1..n)
  BY <1>2, <1>3, SumSame
<1>8. Size(q) \in Nat /\ r.size \in Nat
  BY SizeType DEF Record
<1> QED BY <1>3, <1>4, <1>6, <1>7, <1>8 DEF w

\* The files, oldest first, are the same kind of sequence.
LEMMA ReverseType ==
  ASSUME NEW S, NEW q \in Seq(S)
  PROVE  Reverse(q) \in Seq(S)
<1> DEFINE n == Len(q)
<1>1. n \in Nat /\ \A i \in 1..n : q[i] \in S
  BY ElementOfSeq, LenProperties
<1>2. \A i \in 1..n : n - i + 1 \in 1..n
  BY <1>1
<1>3. Reverse(q) = [i \in 1..n |-> q[n - i + 1]]
  BY DEF Reverse
<1> HIDE DEF n
<1>4. [i \in 1..n |-> q[n - i + 1]] \in Seq(S)
  BY <1>1, <1>2, IsASeq
<1> QED BY <1>3, <1>4

\* The last file of the reversed sequence is the first.
LEMMA ReverseHead ==
  ASSUME NEW S, NEW x \in S, NEW t \in Seq(S)
  PROVE  /\ Reverse(t) \in Seq(S) /\ Len(Reverse(t)) = Len(t)
         /\ Reverse(<<x>> \o t) = Append(Reverse(t), x)
<1> DEFINE n == Len(t)
           w == <<x>> \o t
<1>1. n \in Nat /\ \A i \in 1..n : t[i] \in S
  BY LenProperties, ElementOfSeq
<1>2. w \in Seq(S) /\ Len(w) = n + 1 /\ w[1] = x /\ \A i \in 1..n : w[i + 1] = t[i]
  <2>1. <<x>> \in Seq(S) /\ Len(<<x>>) = 1 /\ <<x>>[1] = x
    OBVIOUS
  <2>2. /\ w \in Seq(S) /\ Len(w) = 1 + n
        /\ \A i \in 1..1 + n : w[i] = IF i <= 1 THEN <<x>>[i] ELSE t[i - 1]
    BY <2>1, ConcatProperties
  <2> HIDE DEF w
  <2> QED BY <1>1, <2>1, <2>2
<1> HIDE DEF w
<1>3. Reverse(t) \in Seq(S) /\ Len(Reverse(t)) = n /\ \A i \in 1..n : Reverse(t)[i] = t[n - i + 1]
  <2>1. Reverse(t) = [i \in 1..n |-> t[n - i + 1]]
    BY DEF Reverse
  <2>2. \A i \in 1..n : n - i + 1 \in 1..n
    BY <1>1
  <2> HIDE DEF n
  <2>3. [i \in 1..n |-> t[n - i + 1]] \in Seq(S)
    BY <1>1, <2>2, IsASeq
  <2> QED BY <1>1, <2>1, <2>3
<1>4. Reverse(w) \in Seq(S) /\ Len(Reverse(w)) = n + 1 /\ \A i \in 1..n + 1 : Reverse(w)[i] = w[n + 1 - i + 1]
  <2>1. Reverse(w) = [i \in 1..n + 1 |-> w[n + 1 - i + 1]]
    BY <1>2 DEF Reverse
  <2>2. \A i \in 1..n + 1 : n + 1 - i + 1 \in 1..n + 1
    BY <1>1
  <2>3. \A i \in 1..n + 1 : w[i] \in S
    BY <1>2, ElementOfSeq
  <2> HIDE DEF n
  <2>4. Reverse(w) \in Seq(S)
    BY <1>2, ReverseType
  <2> QED BY <1>1, <2>1, <2>4
<1> DEFINE v == Append(Reverse(t), x)
<1>5. v \in Seq(S) /\ Len(v) = n + 1 /\ v[n + 1] = x /\ \A i \in 1..n : v[i] = Reverse(t)[i]
  BY <1>3, AppendProperties
<1> HIDE DEF v
<1>6. \A i \in 1..n + 1 : Reverse(w)[i] = v[i]
  <2> TAKE i \in 1..n + 1
  <2>1. CASE i = n + 1
    <3>1. n + 1 - i + 1 = 1
      BY <1>1, <2>1
    <3> QED BY <1>2, <1>4, <1>5, <2>1, <3>1
  <2>2. CASE i # n + 1
    <3>1. i \in 1..n /\ n - i + 1 \in 1..n /\ n + 1 - i + 1 = (n - i + 1) + 1
      BY <1>1, <2>2
    <3> QED BY <1>2, <1>3, <1>4, <1>5, <3>1
  <2> QED BY <2>1, <2>2
<1>7. Reverse(w) = v
  BY <1>1, <1>4, <1>5, <1>6, SeqEqual
<1> QED BY <1>3, <1>7 DEF v, w

\* The first of the reversed sequence is the last file.
LEMMA ReverseAppend ==
  ASSUME NEW S, NEW x \in S, NEW t \in Seq(S)
  PROVE  Reverse(Append(t, x)) = <<x>> \o Reverse(t)
<1> DEFINE n == Len(t)
           w == Append(t, x)
           v == <<x>> \o Reverse(t)
<1>1. n \in Nat /\ w \in Seq(S) /\ Len(w) = n + 1 /\ w[n + 1] = x /\ \A i \in 1..n : w[i] = t[i]
  BY LenProperties, AppendProperties
<1> HIDE DEF w
<1>2. Reverse(t) \in Seq(S) /\ Len(Reverse(t)) = n /\ \A i \in 1..n : Reverse(t)[i] = t[n - i + 1]
  BY ReverseHead DEF Reverse
<1>3. v \in Seq(S) /\ Len(v) = n + 1 /\ v[1] = x /\ \A i \in 1..n : v[i + 1] = Reverse(t)[i]
  <2>1. <<x>> \in Seq(S) /\ Len(<<x>>) = 1 /\ <<x>>[1] = x
    OBVIOUS
  <2>2. /\ v \in Seq(S) /\ Len(v) = 1 + n
        /\ \A i \in 1..1 + n : v[i] = IF i <= 1 THEN <<x>>[i] ELSE Reverse(t)[i - 1]
    BY <1>2, <2>1, ConcatProperties
  <2> HIDE DEF v
  <2> QED BY <1>1, <2>1, <2>2
<1> HIDE DEF v
<1>4. /\ Reverse(w) \in Seq(S) /\ Len(Reverse(w)) = n + 1
      /\ \A i \in 1..n + 1 : Reverse(w)[i] = w[n + 1 - i + 1]
  BY <1>1, ReverseHead DEF Reverse
<1>5. \A i \in 1..n + 1 : Reverse(w)[i] = v[i]
  <2> TAKE i \in 1..n + 1
  <2>1. CASE i = 1
    <3>1. n + 1 - i + 1 = n + 1 /\ 1 \in 1..n + 1
      BY <1>1, <2>1
    <3> QED BY <1>1, <1>3, <1>4, <2>1, <3>1
  <2>2. CASE i # 1
    <3> DEFINE j == i - 1
    <3>1. j \in 1..n /\ n - j + 1 \in 1..n /\ n + 1 - i + 1 = n - j + 1 /\ i = j + 1
      BY <1>1, <2>2
    <3>2. Reverse(w)[i] = w[n - j + 1]
      BY <1>4, <3>1
    <3> HIDE DEF j
    <3>3. w[n - j + 1] = t[n - j + 1] /\ v[j + 1] = Reverse(t)[j] /\ Reverse(t)[j] = t[n - j + 1]
      BY <1>1, <1>2, <1>3, <3>1
    <3> QED BY <3>1, <3>2, <3>3
  <2> QED BY <2>1, <2>2
<1> QED BY <1>1, <1>3, <1>4, <1>5, SeqEqual DEF v, w

\* A file's records, and the same with a file more at either end.
LEMMA OldestShape ==
  ASSUME NEW x \in Seq(Record), NEW t \in Seq(Seq(Record))
  PROVE  /\ OldestFirst(t) \in Seq(Record) /\ OldestFirst(<< >>) = << >>
         /\ OldestFirst(<<x>> \o t) = OldestFirst(t) \o x
         /\ OldestFirst(Append(t, x)) = x \o OldestFirst(t)
<1> DEFINE Q == Seq(Record)
<1>1. Reverse(t) \in Seq(Q) /\ Reverse(<<x>> \o t) = Append(Reverse(t), x)
  BY ReverseHead
<1>2. Reverse(Append(t, x)) = <<x>> \o Reverse(t)
  BY ReverseAppend
<1>3. FlattenSeq(Reverse(t)) \in Seq(Record) /\ FlattenSeq(<< >>) = << >>
  BY <1>1, FlattenType
<1>4. Reverse(<< >>) = << >>
  <2>1. << >> \in Seq(Q)
    OBVIOUS
  <2>2. Reverse(<< >>) \in Seq(Q) /\ Len(Reverse(<< >>)) = 0
    BY <2>1, ReverseHead
  <2> QED BY <2>2, EmptySeq
<1>5. FlattenSeq(Append(Reverse(t), x)) = FlattenSeq(Reverse(t)) \o x
  BY <1>1, <1>3, FlattenAppend
<1>6. FlattenSeq(<<x>> \o Reverse(t)) = x \o FlattenSeq(Reverse(t))
  <2> DEFINE u == <<x>> \o Reverse(t)
             a == <<x>>
  <2>0. a \in Seq(Q)
    OBVIOUS
  <2>1. u \in Seq(Q) /\ FlattenSeq(u) = FlattenSeq(a) \o FlattenSeq(Reverse(t))
    <3> HIDE DEF a
    <3>1. a \o Reverse(t) \in Seq(Q) /\ FlattenSeq(a \o Reverse(t)) = FlattenSeq(a) \o FlattenSeq(Reverse(t))
      BY <1>1, <2>0, ConcatProperties, FlattenConcat
    <3> QED BY <3>1 DEF a
  <2>2. FlattenSeq(a) = x
    <3>1. a # << >> /\ Head(a) = x /\ a = <<Head(a)>>
      OBVIOUS
    <3>2. FlattenSeq(<<Head(a)>>) = Head(a)
      BY <2>0, <3>1, FlattenHead
    <3> QED BY <3>1, <3>2
  <2> QED BY <2>1, <2>2
<1> QED BY <1>1, <1>2, <1>3, <1>4, <1>5, <1>6 DEF OldestFirst

\* One more file in front.
LEMMA FilesHead ==
  ASSUME NEW h \in Seq(Record), NEW t \in Seq(Seq(Record)), Len(t) <= MaxRollFiles,
         Size(h) > RollSize => Len(h) = 1,
         \A i \in 1..Len(t) : Size(t[i]) > RollSize => Len(t[i]) = 1
  PROVE  FilesOK(<<h>> \o t)
<1> DEFINE w == <<h>> \o t
           n == Len(t)
<1>1. n \in Nat /\ w \in Seq(Seq(Record)) /\ Len(w) = n + 1 /\ w[1] = h /\ \A i \in 1..n : w[i + 1] = t[i]
  <2>1. <<h>> \in Seq(Seq(Record)) /\ Len(<<h>>) = 1 /\ <<h>>[1] = h
    OBVIOUS
  <2>2. /\ w \in Seq(Seq(Record)) /\ Len(w) = 1 + n
        /\ \A i \in 1..1 + n : w[i] = IF i <= 1 THEN <<h>>[i] ELSE t[i - 1]
    BY <2>1, ConcatProperties
  <2>3. n \in Nat
    BY LenProperties
  <2> HIDE DEF w
  <2> QED BY <2>1, <2>2, <2>3
<1> HIDE DEF w
<1>2. ASSUME NEW i \in 1..Len(w), Size(w[i]) > RollSize PROVE Len(w[i]) = 1
  <2>1. CASE i = 1
    BY <1>1, <1>2, <2>1
  <2>2. CASE i # 1
    <3> DEFINE j == i - 1
    <3>1. j \in 1..n /\ i = j + 1
      BY <1>1, <2>2
    <3> HIDE DEF j
    <3> QED BY <1>1, <1>2, <3>1
  <2> QED BY <2>1, <2>2
<1>3. n + 1 <= MaxRollFiles + 1
  BY <1>1, AsyncLoggerAssumption
<1> QED BY <1>1, <1>2, <1>3 DEF FilesOK, w

\* The files that roll_sink keeps: all of them, or all but the last.
LEMMA RollKeeps ==
  ASSUME NEW fs, FilesOK(fs), fs # << >>
  PROVE  \E s \in Seq(Seq(Record)) :
           /\ RollSink(fs) = <<<< >>>> \o s /\ Len(s) <= MaxRollFiles
           /\ \/ fs = s
              \/ Len(s) = MaxRollFiles /\ \E x \in Seq(Record) : fs = Append(s, x)
<1>1. fs \in Seq(Seq(Record)) /\ Len(fs) \in Nat \ {0} /\ Len(fs) <= MaxRollFiles + 1 /\ MaxRollFiles \in Nat
  BY EmptySeq, AsyncLoggerAssumption DEF FilesOK
<1>2. CASE Len(fs) <= MaxRollFiles
  <2>1. RollSink(fs) = <<<< >>>> \o SubSeq(fs, 1, Len(fs))
    BY <1>1, <1>2 DEF RollSink
  <2>2. SubSeq(fs, 1, Len(fs)) = fs
    BY <1>1, SubSeqFull
  <2> QED BY <1>1, <1>2, <2>1, <2>2
<1>3. CASE ~(Len(fs) <= MaxRollFiles)
  <2> DEFINE Q == Seq(Record)
  <2>1. PICK s \in Seq(Q), x \in Q : fs = Append(s, x)
    BY <1>1, SequenceEmptyOrAppend
  <2>2. Len(s) \in Nat /\ Len(fs) = Len(s) + 1 /\ \A i \in 1..Len(s) : fs[i] = s[i]
    BY <2>1, LenProperties, AppendProperties
  <2>3. Len(s) = MaxRollFiles
    BY <1>1, <1>3, <2>2
  <2>4. ASSUME MaxRollFiles = 0 PROVE RollSink(fs) = <<<< >>>> \o s
    <3>1. s = << >>
      BY <2>3, <2>4, EmptySeq
    <3>2. RollSink(fs) = <<<< >>>> \o << >>
      BY <2>4 DEF RollSink
    <3> QED BY <3>1, <3>2
  <2>5. ASSUME MaxRollFiles # 0 PROVE RollSink(fs) = <<<< >>>> \o s
    <3>1. RollSink(fs) = <<<< >>>> \o SubSeq(fs, 1, MaxRollFiles)
      BY <1>1, <1>3, <2>5 DEF RollSink
    <3>2. SubSeq(fs, 1, MaxRollFiles) = s
      <4> DEFINE u == SubSeq(fs, 1, MaxRollFiles)
      <4>1. \A i \in 1..MaxRollFiles : fs[i] \in Q
        BY <1>1, <2>2, <2>3, ElementOfSeq
      <4>2. 1 \in Int /\ MaxRollFiles \in Int /\ 1 <= MaxRollFiles
        BY <1>1, <2>5
      <4>3. u \in Seq(Q) /\ Len(u) = MaxRollFiles - 1 + 1 /\ \A i \in 1..MaxRollFiles - 1 + 1 : u[i] = fs[1 + i - 1]
        BY <4>1, <4>2, SubSeqProperties
      <4> HIDE DEF u
      <4>4. Len(u) = Len(s) /\ \A i \in 1..Len(s) : u[i] = s[i]
        BY <1>1, <2>2, <2>3, <4>3
      <4>5. u = s
        BY <4>3, <4>4, SeqEqual
      <4> QED BY <4>5 DEF u
    <3> QED BY <3>1, <3>2
  <2>6. RollSink(fs) = <<<< >>>> \o s /\ Len(s) <= MaxRollFiles
    BY <1>1, <2>3, <2>4, <2>5
  <2> QED BY <2>1, <2>3, <2>6, Zenon
<1> QED BY <1>2, <1>3

\* write_to_sink's append to the base file.
LEMMA FirstGrows ==
  ASSUME NEW h \in Seq(Record), NEW t \in Seq(Seq(Record)), NEW r \in Record
  PROVE  /\ [<<h>> \o t EXCEPT ![1] = Append(@, r)] = <<Append(h, r)>> \o t
         /\ <<h>> \o t # << >> /\ (<<h>> \o t)[1] = h
<1> DEFINE Q == Seq(Record)
           w == <<h>> \o t
           v == <<Append(h, r)>> \o t
           n == Len(t)
<1>0. n \in Nat /\ Append(h, r) \in Q
  BY LenProperties, AppendProperties
<1>1. /\ w \in Seq(Q) /\ Len(w) = n + 1 /\ w[1] = h /\ \A i \in 1..n + 1 : i # 1 => w[i] = t[i - 1]
  <2>1. <<h>> \in Seq(Q) /\ Len(<<h>>) = 1 /\ <<h>>[1] = h
    OBVIOUS
  <2>2. /\ w \in Seq(Q) /\ Len(w) = 1 + n
        /\ \A i \in 1..1 + n : w[i] = IF i <= 1 THEN <<h>>[i] ELSE t[i - 1]
    BY <2>1, ConcatProperties
  <2> HIDE DEF w
  <2> QED BY <1>0, <2>1, <2>2
<1>2. v \in Seq(Q) /\ Len(v) = n + 1 /\ v[1] = Append(h, r) /\ \A i \in 1..n + 1 : i # 1 => v[i] = t[i - 1]
  <2> DEFINE a == Append(h, r)
  <2>0. a \in Q
    BY <1>0
  <2> HIDE DEF a
  <2>1. <<a>> \in Seq(Q) /\ Len(<<a>>) = 1 /\ <<a>>[1] = a
    BY <2>0
  <2>2. /\ <<a>> \o t \in Seq(Q) /\ Len(<<a>> \o t) = 1 + n
        /\ \A i \in 1..1 + n : (<<a>> \o t)[i] = IF i <= 1 THEN <<a>>[i] ELSE t[i - 1]
    BY <2>1, ConcatProperties
  <2>3. v = <<a>> \o t
    BY DEF a
  <2> HIDE DEF v
  <2>4. v \in Seq(Q) /\ Len(v) = n + 1 /\ v[1] = a /\ \A i \in 1..n + 1 : i # 1 => v[i] = t[i - 1]
    BY <1>0, <2>1, <2>2, <2>3
  <2> QED BY <2>4 DEF a
<1> HIDE DEF w, v
<1> DEFINE u == [w EXCEPT ![1] = Append(@, r)]
<1>3. u = [i \in 1..n + 1 |-> IF i = 1 THEN Append(h, r) ELSE w[i]]
  <2>1. DOMAIN w = 1..n + 1
    BY <1>1, LenProperties
  <2> QED BY <1>1, <2>1
<1>4. v = [i \in 1..n + 1 |-> v[i]]
  BY <1>2, LenProperties
<1>5. u = v
  BY <1>1, <1>2, <1>3, <1>4
<1>6. w # << >>
  BY <1>0, <1>1, EmptySeq
<1> QED BY <1>1, <1>5, <1>6 DEF u, w, v

\* write_record: the files go on as they should, and what is lost has been rolled away.
LEMMA RecordWritten ==
  ASSUME NEW fs, FilesOK(fs), NEW r \in Record
  PROVE  LET g == WriteRecord(fs, r)
         IN  /\ FilesOK(g)
             /\ \E p \in Seq(Record) :
                  /\ OldestFirst(fs) \o <<r>> = p \o OldestFirst(g)
                  /\ Len(g) <= MaxRollFiles => p = << >> /\ Len(fs) <= MaxRollFiles
<1> DEFINE g == WriteRecord(fs, r)
           written == IF fs = << >> THEN 0 ELSE Size(fs[1])
           rolls == written > 0 /\ (written >= RollSize \/ r.size > RollSize - written)
<1>1. /\ fs \in Seq(Seq(Record)) /\ Len(fs) \in Nat /\ Len(fs) <= MaxRollFiles + 1
      /\ MaxRollFiles \in Nat /\ RollSize \in Nat \ {0} /\ r.size \in Nat \ {0}
      /\ << >> \in Seq(Record) /\ <<r>> \in Seq(Record) /\ << >> \in Seq(Seq(Record))
  BY LenProperties, AsyncLoggerAssumption DEF FilesOK, Record
<1>2. Append(<< >>, r) = <<r>> /\ Len(<<r>>) = 1
  OBVIOUS
<1>3. OldestFirst(fs) \in Seq(Record) /\ OldestFirst(<< >>) = << >>
  BY <1>1, OldestShape
\* The first file is extended.
<1>4. ASSUME NEW h \in Seq(Record), NEW t \in Seq(Seq(Record)), g = <<Append(h, r)>> \o t,
             Len(t) <= MaxRollFiles, h = << >> \/ Size(h) + r.size <= RollSize,
             \A i \in 1..Len(t) : Size(t[i]) > RollSize => Len(t[i]) = 1
      PROVE  /\ FilesOK(g) /\ Len(g) = Len(t) + 1
             /\ OldestFirst(g) = OldestFirst(<<h>> \o t) \o <<r>>
  <2> DEFINE a == Append(h, r)
  <2>1. a \in Seq(Record) /\ a = h \o <<r>> /\ Size(a) = Size(h) + r.size /\ Size(h) \in Nat
    BY AppendProperties, AppendIsConcat, SizeAppend, SizeType
  <2>2. Size(a) > RollSize => Len(a) = 1
    BY <1>1, <1>2, <1>4, <2>1
  <2> HIDE DEF a
  <2>3. FilesOK(<<a>> \o t)
    BY <1>4, <2>1, <2>2, FilesHead
  <2>4. Len(<<a>> \o t) = Len(t) + 1
    <3>1. <<a>> \in Seq(Seq(Record)) /\ Len(<<a>>) = 1
      BY <2>1
    <3>2. Len(<<a>> \o t) = Len(<<a>>) + Len(t) /\ Len(t) \in Nat
      BY <3>1, ConcatProperties, LenProperties
    <3> QED BY <3>1, <3>2
  <2>5. OldestFirst(<<a>> \o t) = (OldestFirst(t) \o h) \o <<r>>
    <3>1. OldestFirst(<<a>> \o t) = OldestFirst(t) \o a /\ OldestFirst(t) \in Seq(Record)
      BY <2>1, OldestShape
    <3>2. (OldestFirst(t) \o h) \o <<r>> = OldestFirst(t) \o (h \o <<r>>)
      BY <1>1, <3>1, ConcatAssociative
    <3> QED BY <2>1, <3>1, <3>2
  <2>6. OldestFirst(<<h>> \o t) = OldestFirst(t) \o h
    BY OldestShape
  <2> QED BY <1>4, <2>3, <2>4, <2>5, <2>6 DEF a
<1>5. CASE fs = << >>
  <2>1. g = <<<<r>>>>
    BY <1>5 DEF WriteRecord
  <2>2. <<<<r>>>> = <<Append(<< >>, r)>> \o << >> /\ Len(<< >>) = 0 /\ <<<< >>>> \o << >> = <<<< >>>>
    BY <1>2
  <2>3. FilesOK(g) /\ OldestFirst(g) = OldestFirst(<<<< >>>> \o << >>) \o <<r>>
    <3> DEFINE t == << >>
               h == << >>
    <3>1. t \in Seq(Seq(Record)) /\ Len(t) <= MaxRollFiles /\ 1..Len(t) = {}
      BY <1>1
    <3>2. g = <<Append(h, r)>> \o t
      BY <2>1, <2>2
    <3>3. h \in Seq(Record) /\ h = << >>
      BY <1>1
    <3> HIDE DEF t, h, g
    <3>4. FilesOK(g) /\ OldestFirst(g) = OldestFirst(<<h>> \o t) \o <<r>>
      BY <1>4, <3>1, <3>2, <3>3
    <3> QED BY <3>4 DEF t, h, g
  <2>4. OldestFirst(<<<< >>>> \o << >>) = << >>
    <3>1. OldestFirst(<<<< >>>> \o << >>) = OldestFirst(<< >>) \o << >>
      BY <1>1, OldestShape
    <3> QED BY <1>3, <3>1
  <2>5. OldestFirst(fs) \o <<r>> = << >> \o OldestFirst(g) /\ Len(fs) = 0
    <3>1. << >> \o <<r>> = <<r>> /\ << >> \o (<< >> \o <<r>>) = <<r>>
      OBVIOUS
    <3>2. OldestFirst(g) = <<r>> /\ OldestFirst(fs) = << >> /\ Len(fs) = 0
      BY <1>3, <1>5, <2>3, <2>4, <3>1
    <3> QED BY <3>1, <3>2
  <2>6. Len(fs) <= MaxRollFiles
    BY <1>1, <2>5
  <2> QED BY <1>1, <2>3, <2>5, <2>6
<1>6. CASE fs # << >> /\ ~rolls
  <2> DEFINE h == Head(fs)
             t == Tail(fs)
  <2>1. h \in Seq(Record) /\ t \in Seq(Seq(Record)) /\ Len(t) = Len(fs) - 1 /\ fs = <<h>> \o t
        /\ \A i \in 1..Len(t) : t[i] = fs[i + 1]
    BY <1>1, <1>6, HeadTailProperties, FlattenHead
  <2> HIDE DEF h, t
  <2>2. g = <<Append(h, r)>> \o t /\ fs[1] = h
    <3>1. g = [fs EXCEPT ![1] = Append(@, r)]
      BY <1>6 DEF WriteRecord
    <3> QED BY <2>1, <3>1, FirstGrows
  <2>3. h = << >> \/ Size(h) + r.size <= RollSize
    BY <1>1, <1>6, <2>1, <2>2, SizeType
  <2>4. \A i \in 1..Len(t) : Size(t[i]) > RollSize => Len(t[i]) = 1
    <3> TAKE i \in 1..Len(t)
    <3>1. i + 1 \in 1..Len(fs) /\ t[i] = fs[i + 1]
      BY <1>1, <2>1
    <3> QED BY <3>1 DEF FilesOK
  <2>5. Len(t) <= MaxRollFiles
    BY <1>1, <2>1
  <2>6. FilesOK(g) /\ OldestFirst(g) = OldestFirst(fs) \o <<r>> /\ Len(g) = Len(fs)
    <3> HIDE DEF g
    <3>1. /\ FilesOK(g) /\ Len(g) = Len(t) + 1
          /\ OldestFirst(g) = OldestFirst(<<h>> \o t) \o <<r>>
      BY <1>4, <2>1, <2>2, <2>3, <2>4, <2>5
    <3>2. OldestFirst(<<h>> \o t) = OldestFirst(fs)
      BY <2>1, Zenon
    <3>3. Len(g) = Len(fs)
      BY <1>1, <2>1, <3>1
    <3> QED BY <3>1, <3>2, <3>3, Zenon
  <2> HIDE DEF g
  <2>7. OldestFirst(fs) \o <<r>> = << >> \o OldestFirst(g)
    <3>1. OldestFirst(g) \in Seq(Record)
      BY <1>1, <1>3, <2>6, ConcatProperties
    <3> QED BY <2>6, <3>1, ConcatEmptySeq
  <2> QED BY <1>1, <2>6, <2>7 DEF g
<1>7. CASE fs # << >> /\ rolls
  <2>1. PICK s \in Seq(Seq(Record)) :
           /\ RollSink(fs) = <<<< >>>> \o s /\ Len(s) <= MaxRollFiles
           /\ \/ fs = s
              \/ Len(s) = MaxRollFiles /\ \E x \in Seq(Record) : fs = Append(s, x)
    BY <1>7, RollKeeps
  <2>2. g = <<Append(<< >>, r)>> \o s
    <3>1. /\ [<<<< >>>> \o s EXCEPT ![1] = Append(@, r)] = <<Append(<< >>, r)>> \o s
          /\ <<<< >>>> \o s # << >>
      <4> DEFINE h == << >>
      <4>1. h \in Seq(Record)
        BY <1>1
      <4> HIDE DEF h
      <4>2. [<<h>> \o s EXCEPT ![1] = Append(@, r)] = <<Append(h, r)>> \o s /\ <<h>> \o s # << >>
        BY <4>1, FirstGrows
      <4> QED BY <4>2, Zenon DEF h
    <3> QED BY <1>7, <2>1, <3>1 DEF WriteRecord
  <2>3. \A i \in 1..Len(s) : Size(s[i]) > RollSize => Len(s[i]) = 1
    <3> TAKE i \in 1..Len(s)
    <3>1. i \in 1..Len(fs) /\ s[i] = fs[i]
      <4>1. CASE fs = s
        BY <4>1
      <4>2. ASSUME NEW x \in Seq(Record), fs = Append(s, x) PROVE i \in 1..Len(fs) /\ s[i] = fs[i]
        <5>1. Len(fs) = Len(s) + 1 /\ fs[i] = s[i] /\ Len(s) \in Nat
          BY <4>2, AppendProperties, LenProperties
        <5> QED BY <5>1
      <4> QED BY <2>1, <4>1, <4>2
    <3> QED BY <3>1 DEF FilesOK
  <2>4. FilesOK(g) /\ Len(g) = Len(s) + 1 /\ OldestFirst(g) = OldestFirst(<<<< >>>> \o s) \o <<r>>
    <3> DEFINE h == << >>
    <3>1. h \in Seq(Record) /\ h = << >> /\ g = <<Append(h, r)>> \o s
      BY <1>1, <2>2
    <3> HIDE DEF h, g
    <3>2. FilesOK(g) /\ Len(g) = Len(s) + 1 /\ OldestFirst(g) = OldestFirst(<<h>> \o s) \o <<r>>
      BY <1>4, <2>1, <2>3, <3>1
    <3> QED BY <3>2 DEF h, g
  <2>5. OldestFirst(<<<< >>>> \o s) = OldestFirst(s) /\ OldestFirst(s) \in Seq(Record)
    <3>1. OldestFirst(<<<< >>>> \o s) = OldestFirst(s) \o << >> /\ OldestFirst(s) \in Seq(Record)
      BY <1>1, OldestShape
    <3> QED BY <3>1, ConcatEmptySeq
  <2> HIDE DEF g
  <2>6. CASE fs = s
    <3>1. OldestFirst(fs) \o <<r>> = << >> \o OldestFirst(g)
      <4>1. OldestFirst(g) = OldestFirst(fs) \o <<r>> /\ OldestFirst(g) \in Seq(Record)
        BY <1>1, <2>4, <2>5, <2>6, ConcatProperties
      <4> QED BY <4>1, ConcatEmptySeq
    <3> QED BY <1>1, <2>1, <2>4, <2>6, <3>1 DEF g
  <2>7. ASSUME Len(s) = MaxRollFiles, NEW x \in Seq(Record), fs = Append(s, x)
        PROVE  \E p \in Seq(Record) :
                  /\ OldestFirst(fs) \o <<r>> = p \o OldestFirst(g)
                  /\ Len(g) <= MaxRollFiles => p = << >> /\ Len(fs) <= MaxRollFiles
    <3>1. OldestFirst(fs) = x \o OldestFirst(s)
      BY <2>7, OldestShape
    <3>2. (x \o OldestFirst(s)) \o <<r>> = x \o (OldestFirst(s) \o <<r>>)
      BY <1>1, <2>5, ConcatAssociative
    <3>3. OldestFirst(fs) \o <<r>> = x \o OldestFirst(g)
      BY <2>4, <2>5, <3>1, <3>2
    <3>4. ~(Len(g) <= MaxRollFiles)
      BY <1>1, <2>4, <2>7
    <3> QED BY <3>3, <3>4
  <2> QED BY <2>1, <2>4, <2>6, <2>7 DEF g
<1> QED BY <1>5, <1>6, <1>7

\* b goes on after a and c after that: p and q are dropped in front.
Follow(S, a, b, c, p, d, q, e) ==
  /\ a \in Seq(S) /\ b \in Seq(S) /\ c \in Seq(S) /\ p \in Seq(S) /\ d \in Seq(S) /\ q \in Seq(S) /\ e \in Seq(S)
  /\ a \o b = p \o d /\ d \o c = q \o e

Dropped(a, b, c, p, q, e) == a \o (b \o c) = (p \o q) \o e

\* What is dropped in two steps is dropped in one.
LEMMA Regroup ==
  ASSUME NEW S, NEW a, NEW b, NEW c, NEW p, NEW d, NEW q, NEW e, Follow(S, a, b, c, p, d, q, e)
  PROVE  Dropped(a, b, c, p, q, e)
<1>1. a \in Seq(S) /\ b \in Seq(S) /\ c \in Seq(S)
  BY DEF Follow
<1>2. p \in Seq(S) /\ d \in Seq(S)
  BY DEF Follow
<1>3. q \in Seq(S) /\ e \in Seq(S)
  BY DEF Follow
<1>4. a \o (b \o c) = (a \o b) \o c
  BY ONLY <1>1, ConcatAssociative
<1>5. (p \o d) \o c = p \o (d \o c)
  BY ONLY <1>1, <1>2, ConcatAssociative
<1>6. p \o (q \o e) = (p \o q) \o e
  BY ONLY <1>2, <1>3, ConcatAssociative
<1> QED BY <1>4, <1>5, <1>6, Zenon DEF Follow, Dropped

\* The files after each of the first n records of b.
Writes(fs, b, n, w) == w = [k \in 0..n |-> IF k = 0 THEN fs ELSE WriteRecord(w[k - 1], b[k])]

\* There are always such files.
LEMMA WritesExist ==
  ASSUME NEW fs, NEW b
  PROVE  \A n \in Nat : \E w : Writes(fs, b, n, w)
<1> DEFINE T == {n \in Nat : \E w : Writes(fs, b, n, w)}
<1>1. 0 \in T
  <2>1. Writes(fs, b, 0, [k \in 0..0 |-> fs])
    BY DEF Writes
  <2> QED BY <2>1
<1>2. ASSUME NEW n \in Nat, n \in T PROVE n + 1 \in T
  <2>1. PICK w : Writes(fs, b, n, w)
    BY <1>2
  <2> DEFINE v == [k \in 0..n + 1 |-> IF k \in 0..n THEN w[k] ELSE WriteRecord(w[n], b[k])]
  <2>2. Writes(fs, b, n + 1, v)
    <3>1. ASSUME NEW k \in 0..n + 1 PROVE v[k] = IF k = 0 THEN fs ELSE WriteRecord(v[k - 1], b[k])
      <4>1. CASE k \in 0..n
        <5>1. w[k] = IF k = 0 THEN fs ELSE WriteRecord(w[k - 1], b[k])
          BY <2>1, <4>1, Zenon DEF Writes
        <5>2. k # 0 => k - 1 \in 0..n /\ k - 1 \in 0..n + 1
          BY <4>1
        <5> QED BY <4>1, <5>1, <5>2
      <4>2. CASE k \notin 0..n
        <5>1. k = n + 1 /\ k # 0 /\ k - 1 = n /\ n \in 0..n /\ n \in 0..n + 1
          BY <4>2
        <5> QED BY <4>2, <5>1
      <4> QED BY <4>1, <4>2
    <3> QED BY <3>1, Zenon DEF Writes
  <2> QED BY <2>2
<1> HIDE DEF T
<1>3. \A n \in Nat : n \in T
  BY <1>1, <1>2, Climb
<1> QED BY <1>3 DEF T

\* What write_buffer leaves.
LEMMA BufferIs ==
  ASSUME NEW fs, NEW b, Len(b) \in Nat
  PROVE  \E w : Writes(fs, b, Len(b), w) /\ WriteBuffer(fs, b) = w[Len(b)]
<1> DEFINE n == Len(b)
           G(w) == [k \in 0..n |-> IF k = 0 THEN fs ELSE WriteRecord(w[k - 1], b[k])]
           F == CHOOSE w : w = G(w)
<1>1. PICK w : Writes(fs, b, n, w)
  BY WritesExist
<1>2. w = G(w)
  BY <1>1 DEF Writes
<1>3. F = G(F)
  BY <1>2, Zenon
<1>4. WriteBuffer(fs, b) = F[n]
  BY Zenon DEF WriteBuffer
<1>5. Writes(fs, b, n, F)
  BY <1>3, Zenon DEF Writes
<1> QED BY <1>4, <1>5

\* write_buffer: the buffer follows what is in the files, and what is lost has been
\* rolled away.
LEMMA BufferWritten ==
  ASSUME NEW fs, FilesOK(fs), NEW b, b \in Seq(Record)
  PROVE  LET g == WriteBuffer(fs, b)
         IN  /\ FilesOK(g)
             /\ \E p \in Seq(Record) :
                  /\ OldestFirst(fs) \o b = p \o OldestFirst(g)
                  /\ Len(g) <= MaxRollFiles => p = << >> /\ Len(fs) <= MaxRollFiles
<1> DEFINE n == Len(b)
<1>1. n \in Nat /\ << >> \in Seq(Record)
  BY LenProperties
<1>2. PICK w : Writes(fs, b, n, w) /\ WriteBuffer(fs, b) = w[n]
  BY <1>1, BufferIs
<1> DEFINE P(k) == /\ FilesOK(w[k])
                   /\ \E p \in Seq(Record) :
                        /\ OldestFirst(fs) \o SubSeq(b, 1, k) = p \o OldestFirst(w[k])
                        /\ Len(w[k]) <= MaxRollFiles => p = << >> /\ Len(fs) <= MaxRollFiles
           T == {k \in Nat : k <= n => P(k)}
<1>3. \A fx : FilesOK(fx) => OldestFirst(fx) \in Seq(Record)
  BY <1>1, OldestShape DEF FilesOK
<1>4. 0 \in T
  <2>0. 0 \in 0..n
    BY <1>1
  <2>1. w[0] = fs
    BY <1>2, <2>0, Zenon DEF Writes
  <2>2. SubSeq(b, 1, 0) = << >>
    BY SubSeqEmpty
  <2>3. OldestFirst(fs) \o << >> = << >> \o OldestFirst(fs)
    BY <1>3, ConcatEmptySeq
  <2> QED BY <1>1, <2>1, <2>2, <2>3
<1> HIDE DEF P
<1>5. ASSUME NEW k \in Nat, k \in T PROVE k + 1 \in T
  <2>1. ASSUME k + 1 <= n PROVE P(k + 1)
    <3> DEFINE r == b[k + 1]
               o == SubSeq(b, 1, k)
    <3>0. P(k)
      BY <1>1, <1>5, <2>1
    <3>1. k \in 0..n /\ k + 1 \in 1..n /\ k + 1 \in 0..n /\ k + 1 # 0 /\ (k + 1) - 1 = k
      BY <1>1, <2>1
    <3>2. w[k + 1] = WriteRecord(w[k], r)
      BY <1>2, <3>1, Zenon DEF Writes
    <3>3. r \in Record /\ o \in Seq(Record) /\ SubSeq(b, 1, k + 1) = o \o <<r>>
      <4>1. 1 \in 1..n /\ k + 1 \in 1..n
        BY <1>1, <3>1
      <4>2. SubSeq(b, 1, k + 1) = SubSeq(b, 1, (k + 1) - 1) \o <<b[k + 1]>>
        BY <4>1, SubSeqRecursiveSecond
      <4>3. \A i \in 1..k : b[i] \in Record
        BY <1>1, <3>1, ElementOfSeq
      <4>4. o \in Seq(Record)
        BY <4>3, SubSeqProperties
      <4> QED BY <3>1, <4>2, <4>4, ElementOfSeq
    <3>4. PICK p :
            /\ p \in Seq(Record)
            /\ OldestFirst(fs) \o o = p \o OldestFirst(w[k])
            /\ Len(w[k]) <= MaxRollFiles => p = << >> /\ Len(fs) <= MaxRollFiles
      BY <3>0 DEF P
    <3>5. FilesOK(w[k])
      BY <3>0 DEF P
    <3> HIDE DEF r, o
    <3>6. FilesOK(w[k + 1])
      BY <3>2, <3>3, <3>5, RecordWritten
    <3>7. PICK q :
            /\ q \in Seq(Record)
            /\ OldestFirst(w[k]) \o <<r>> = q \o OldestFirst(w[k + 1])
            /\ Len(w[k + 1]) <= MaxRollFiles => q = << >> /\ Len(w[k]) <= MaxRollFiles
      <4>1. \E q \in Seq(Record) :
              /\ OldestFirst(w[k]) \o <<r>> = q \o OldestFirst(w[k + 1])
              /\ Len(w[k + 1]) <= MaxRollFiles => q = << >> /\ Len(w[k]) <= MaxRollFiles
        BY <3>2, <3>3, <3>5, RecordWritten
      <4> QED BY <4>1
    <3>8. OldestFirst(fs) \o (o \o <<r>>) = (p \o q) \o OldestFirst(w[k + 1])
      <4> DEFINE a == OldestFirst(fs)
                 c == OldestFirst(w[k])
                 d == OldestFirst(w[k + 1])
                 u == <<r>>
      <4>1. a \in Seq(Record) /\ c \in Seq(Record) /\ d \in Seq(Record) /\ u \in Seq(Record)
            /\ o \in Seq(Record) /\ p \in Seq(Record) /\ q \in Seq(Record)
        BY <1>3, <3>3, <3>4, <3>5, <3>6, <3>7
      <4>2. a \o o = p \o c /\ c \o u = q \o d
        BY <3>4, <3>7
      <4> HIDE DEF a, c, d, u
      <4>3. a \o (o \o u) = (p \o q) \o d
        <5>1. Follow(Record, a, o, u, p, c, q, d)
          BY ONLY <4>1, <4>2 DEF Follow
        <5>2. Dropped(a, o, u, p, q, d)
          BY ONLY <5>1, Regroup
        <5> QED BY <5>2, Zenon DEF Dropped
      <4> QED BY <4>3 DEF a, d, u
    <3>9. p \o q \in Seq(Record) /\ (p = << >> /\ q = << >> => p \o q = << >>)
      BY <1>1, <3>4, <3>7, ConcatProperties, ConcatEmptySeq
    <3> QED BY <3>3, <3>4, <3>6, <3>7, <3>8, <3>9 DEF P
  <2>2. k + 1 \in Nat
    OBVIOUS
  <2> QED BY <2>1, <2>2, Zenon
<1> HIDE DEF T
<1>6. \A k \in Nat : k \in T
  BY <1>4, <1>5, Climb
<1>7. P(n)
  BY <1>1, <1>6 DEF T
<1>8. SubSeq(b, 1, n) = b
  BY SubSeqFull
<1> QED BY <1>2, <1>7, <1>8 DEF P

\* An event with its file, as it is queued.
Entry == LogFiles \X Record

\* What a file gets of some events: nothing of none, one more of one more, and first the first.
LEMMA OfShape ==
  ASSUME NEW f, NEW q \in Seq(Entry), NEW e \in Entry
  PROVE  /\ Of(f, q) \in Seq(Record) /\ Of(f, << >>) = << >>
         /\ Of(f, Append(q, e)) = IF e[1] = f THEN Append(Of(f, q), e[2]) ELSE Of(f, q)
         /\ q # << >> => Of(f, q) = (IF Head(q)[1] = f THEN <<Head(q)[2]>> ELSE << >>) \o Of(f, Tail(q))
<1> DEFINE piece(x) == IF x[1] = f THEN <<x[2]>> ELSE << >>
           P(u) == [i \in DOMAIN u |-> piece(u[i])]
           Q == Seq(Record)
<1>1. \A x \in Entry : piece(x) \in Q
  BY DEF Entry
<1>2. \A u : Of(f, u) = FlattenSeq(P(u))
  BY DEF Of
<1> HIDE DEF piece
<1>3. ASSUME NEW u \in Seq(Entry)
      PROVE  P(u) \in Seq(Q) /\ Len(P(u)) = Len(u) /\ \A i \in 1..Len(u) : P(u)[i] = piece(u[i])
  <2>1. DOMAIN u = 1..Len(u) /\ Len(u) \in Nat /\ \A i \in 1..Len(u) : u[i] \in Entry
    BY LenProperties, ElementOfSeq
  <2> DEFINE n == Len(u)
  <2>2. n \in Nat /\ \A i \in 1..n : piece(u[i]) \in Q
    BY <1>1, <2>1
  <2>3. P(u) = [i \in 1..n |-> piece(u[i])]
    BY <2>1
  <2> HIDE DEF n, Q
  <2>4. [i \in 1..n |-> piece(u[i])] \in Seq(Q)
    BY <2>2, IsASeq
  <2>5. P(u) \in Seq(Q)
    BY <2>3, <2>4
  <2> QED BY <2>2, <2>3, <2>5 DEF n
<1>4. Of(f, q) \in Seq(Record)
  BY <1>2, <1>3, FlattenType
<1>5. Of(f, << >>) = << >>
  <2>1. << >> \in Seq(Entry)
    OBVIOUS
  <2>2. P(<< >>) = << >>
    <3>1. P(<< >>) \in Seq(Q) /\ Len(P(<< >>)) = 0
      BY <1>3, <2>1
    <3> HIDE DEF P, Q
    <3> QED BY <3>1, EmptySeq
  <2>3. Of(f, << >>) = FlattenSeq(P(<< >>))
    BY <1>2
  <2>4. FlattenSeq(<< >>) = << >>
    <3>1. << >> \in Seq(Seq(Record))
      OBVIOUS
    <3> QED BY ONLY <3>1, FlattenType
  <2> HIDE DEF P
  <2> QED BY <2>2, <2>3, <2>4
<1> DEFINE w == Append(q, e)
<1>6. Of(f, w) = Of(f, q) \o piece(e)
  <2>1. e \in Entry
    OBVIOUS
  <2>2. w \in Seq(Entry) /\ Len(w) = Len(q) + 1 /\ w[Len(q) + 1] = e /\ Len(q) \in Nat
        /\ \A i \in 1..Len(q) : w[i] = q[i]
    BY <2>1, AppendProperties, LenProperties
  <2> HIDE DEF w
  <2>3. P(w) \in Seq(Q) /\ Len(P(w)) = Len(q) + 1 /\ \A i \in 1..Len(q) + 1 : P(w)[i] = piece(w[i])
    BY <1>3, <2>2
  <2>4. P(q) \in Seq(Q) /\ Len(P(q)) = Len(q) /\ \A i \in 1..Len(q) : P(q)[i] = piece(q[i])
    BY <1>3
  <2>5. piece(e) \in Q
    BY <1>1, <2>1
  <2> DEFINE n == Len(q)
             pw == P(w)
             pq == P(q)
             x == piece(e)
  <2>6. /\ n \in Nat /\ pw \in Seq(Q) /\ pq \in Seq(Q) /\ x \in Q /\ Len(pw) = n + 1 /\ Len(pq) = n
        /\ pw[n + 1] = x /\ \A i \in 1..n : pw[i] = pq[i]
    <3>1. n + 1 \in 1..n + 1 /\ \A i \in 1..n : i \in 1..n + 1
      BY <2>2
    <3> HIDE DEF P
    <3> QED BY <2>2, <2>3, <2>4, <2>5, <3>1
  <2> HIDE DEF n, pw, pq, x, Q, P
  <2>7. pw = Append(pq, x)
    <3> DEFINE v == Append(pq, x)
    <3>1. v \in Seq(Q) /\ Len(v) = n + 1 /\ v[n + 1] = x /\ \A i \in 1..n : v[i] = pq[i]
      BY <2>6, AppendProperties
    <3> HIDE DEF v
    <3>2. \A i \in 1..n + 1 : pw[i] = v[i]
      <4> TAKE i \in 1..n + 1
      <4>1. i = n + 1 \/ i \in 1..n
        BY <2>6
      <4> QED BY <2>6, <3>1, <4>1
    <3>3. pw = v
      BY <2>6, <3>1, <3>2, SeqEqual
    <3> QED BY <3>3 DEF v
  <2>8. FlattenSeq(pq) \in Seq(Record)
    BY <2>6, FlattenType DEF Q
  <2>9. FlattenSeq(Append(pq, x)) = FlattenSeq(pq) \o x
    BY <2>6, <2>8, FlattenAppend DEF Q
  <2>10. FlattenSeq(pw) = FlattenSeq(pq) \o x
    BY <2>7, <2>9, Zenon
  <2> QED BY <1>2, <2>10, Zenon DEF pw, pq, x
<1>7. Of(f, w) = IF e[1] = f THEN Append(Of(f, q), e[2]) ELSE Of(f, q)
  <2>1. piece(e) = (IF e[1] = f THEN <<e[2]>> ELSE << >>) /\ e[2] \in Record
    BY DEF piece, Entry
  <2>2. CASE e[1] = f
    BY <1>4, <1>6, <2>1, <2>2, AppendIsConcat
  <2>3. CASE e[1] # f
    BY <1>4, <1>6, <2>1, <2>3, ConcatEmptySeq
  <2> QED BY <2>2, <2>3
<1>8. ASSUME q # << >> PROVE Of(f, q) = piece(Head(q)) \o Of(f, Tail(q))
  <2> DEFINE h == Head(q)
             t == Tail(q)
             n == Len(t)
  <2>1. /\ h \in Entry /\ t \in Seq(Entry) /\ n = Len(q) - 1 /\ \A i \in 1..n : t[i] = q[i + 1]
        /\ Len(q) \in Nat \ {0} /\ h = q[1]
    BY <1>8, HeadTailProperties, EmptySeq
  <2>2. P(q) \in Seq(Q) /\ Len(P(q)) = Len(q) /\ \A i \in 1..Len(q) : P(q)[i] = piece(q[i])
    BY <1>3
  <2> HIDE DEF h, t
  <2>3. P(t) \in Seq(Q) /\ Len(P(t)) = n /\ \A i \in 1..n : P(t)[i] = piece(t[i])
    BY <1>3, <2>1
  <2> DEFINE pq == P(q)
             pt == P(t)
             x == piece(h)
  <2>4. /\ n \in Nat /\ pq \in Seq(Q) /\ pt \in Seq(Q) /\ x \in Q /\ Len(pq) = n + 1 /\ Len(pt) = n
        /\ pq[1] = x /\ \A i \in 1..n : pq[i + 1] = pt[i]
    <3>1. n \in Nat /\ Len(q) = n + 1 /\ 1 \in 1..Len(q)
      BY <2>1
    <3> HIDE DEF n
    <3>2. \A i \in 1..n : i + 1 \in 1..Len(q)
      BY <3>1
    <3>3. x \in Q
      BY <1>1, <2>1
    <3> HIDE DEF P
    <3> QED BY <2>1, <2>2, <2>3, <3>1, <3>2, <3>3
  <2> HIDE DEF n, pq, pt, x, Q, P
  <2>5. pq # << >> /\ Head(pq) = x /\ Tail(pq) = pt
    <3>1. pq # << >> /\ Head(pq) = pq[1]
      BY <2>4
    <3>2. Tail(pq) \in Seq(Q) /\ Len(Tail(pq)) = Len(pq) - 1 /\ \A i \in 1..Len(Tail(pq)) : Tail(pq)[i] = pq[i + 1]
      BY <2>4, <3>1, HeadTailProperties
    <3>3. Len(Tail(pq)) = n
      BY <2>4, <3>2
    <3>4. \A i \in 1..n : Tail(pq)[i] = pt[i]
      BY <2>4, <3>2, <3>3
    <3>5. Tail(pq) = pt
      BY <2>4, <3>2, <3>3, <3>4, SeqEqual
    <3> QED BY <2>4, <3>1, <3>5
  <2>6. FlattenSeq(pq) = x \o FlattenSeq(pt)
    BY <2>4, <2>5, FlattenHead DEF Q
  <2> QED BY <1>2, <2>6, Zenon DEF pq, pt, x, h, t
<1>9. piece(Head(q)) = IF Head(q)[1] = f THEN <<Head(q)[2]>> ELSE << >>
  BY DEF piece
<1> QED BY <1>4, <1>5, <1>7, <1>8, <1>9 DEF w

Regrouped(a, b, c) == (a \o b) \o c = a \o (b \o c)

\* It does not matter which two are joined first.
LEMMA Regroups ==
  ASSUME NEW S, NEW a, NEW b, NEW c, a \in Seq(S) /\ b \in Seq(S) /\ c \in Seq(S)
  PROVE  Regrouped(a, b, c)
<1>1. (a \o b) \o c = a \o (b \o c)
  BY ConcatAssociative
<1> QED BY <1>1 DEF Regrouped

\* What has been appended to a file is in its files or on the way, in order, but for what
\* has been rolled away.
Delivered(a, fs, way) ==
  \E p \in Seq(Record) :
    /\ a = p \o (OldestFirst(fs) \o way)
    /\ Len(fs) <= MaxRollFiles => p = << >>

\* One more event.
LEMMA DeliversAppend ==
  ASSUME NEW a, NEW fs, FilesOK(fs), NEW way, way \in Seq(Record), NEW e, e \in Record,
         Delivered(a, fs, way)
  PROVE  Delivered(Append(a, e), fs, Append(way, e))
<1>1. PICK p : p \in Seq(Record) /\ a = p \o (OldestFirst(fs) \o way) /\ (Len(fs) <= MaxRollFiles => p = << >>)
  BY DEF Delivered
<1> DEFINE o == OldestFirst(fs)
           u == <<e>>
           x == o \o way
<1>2. o \in Seq(Record) /\ u \in Seq(Record)
  <2>1. << >> \in Seq(Record) /\ fs \in Seq(Seq(Record))
    BY DEF FilesOK
  <2>2. o \in Seq(Record)
    BY <2>1, OldestShape
  <2> QED BY <2>2
<1>3. x \in Seq(Record) /\ a = p \o x
  BY <1>1, <1>2, ConcatProperties
<1>4. a \in Seq(Record)
  BY <1>1, <1>3, ConcatProperties
<1>5. Append(a, e) = a \o u /\ Append(way, e) = way \o u
  BY <1>4, AppendIsConcat
<1> HIDE DEF o, u
<1>6. Regrouped(o, way, u)
  BY <1>2, Regroups
<1>7. Regrouped(p, x, u)
  BY <1>1, <1>2, <1>3, Regroups
<1>8. Append(a, e) = p \o (o \o Append(way, e))
  BY <1>3, <1>5, <1>6, <1>7, Zenon DEF Regrouped
<1> QED BY <1>1, <1>8, Zenon DEF Delivered, o

\* A buffer is written: it is no longer on the way.
LEMMA DeliversBuffer ==
  ASSUME NEW a, NEW fs, FilesOK(fs), NEW b, b \in Seq(Record), NEW way, way \in Seq(Record),
         Delivered(a, fs, b \o way)
  PROVE  FilesOK(WriteBuffer(fs, b)) /\ Delivered(a, WriteBuffer(fs, b), way)
<1> DEFINE g == WriteBuffer(fs, b)
           o == OldestFirst(fs)
           n == OldestFirst(g)
<1>1. PICK p : p \in Seq(Record) /\ a = p \o (o \o (b \o way)) /\ (Len(fs) <= MaxRollFiles => p = << >>)
  BY DEF Delivered
<1>2. /\ FilesOK(g)
      /\ \E q \in Seq(Record) : /\ o \o b = q \o n
                                /\ Len(g) <= MaxRollFiles => q = << >> /\ Len(fs) <= MaxRollFiles
  BY BufferWritten
<1>3. PICK q : /\ q \in Seq(Record) /\ o \o b = q \o n
               /\ Len(g) <= MaxRollFiles => q = << >> /\ Len(fs) <= MaxRollFiles
  BY <1>2
<1>4. o \in Seq(Record) /\ n \in Seq(Record)
  <2>1. << >> \in Seq(Record) /\ fs \in Seq(Seq(Record)) /\ g \in Seq(Seq(Record))
    BY <1>2 DEF FilesOK
  <2> QED BY <2>1, OldestShape
<1> HIDE DEF g, o, n
<1> DEFINE x == o \o b
           y == n \o way
<1>5. o \o (b \o way) = x \o way
  <2>1. Regrouped(o, b, way)
    BY <1>4, Regroups
  <2> QED BY <2>1, Zenon DEF Regrouped
<1>6. (q \o n) \o way = q \o y
  <2>1. Regrouped(q, n, way)
    BY <1>3, <1>4, Regroups
  <2> QED BY <2>1, Zenon DEF Regrouped
<1>7. y \in Seq(Record)
  BY <1>4, ConcatProperties
<1>8. p \o (q \o y) = (p \o q) \o y
  <2>1. Regrouped(p, q, y)
    <3> HIDE DEF y
    <3> QED BY <1>1, <1>3, <1>7, Regroups
  <2> QED BY <2>1, Zenon DEF Regrouped
<1>9. a = (p \o q) \o y
  BY <1>1, <1>3, <1>5, <1>6, <1>8, Zenon
<1>10. p \o q \in Seq(Record) /\ (p = << >> /\ q = << >> => p \o q = << >>)
  BY <1>1, <1>3, ConcatProperties, ConcatEmptySeq
<1>11. Len(g) <= MaxRollFiles => p \o q = << >>
  BY <1>1, <1>3, <1>10
<1>12. Delivered(a, g, way)
  BY <1>9, <1>10, <1>11, Zenon DEF Delivered, n
<1> QED BY <1>2, <1>12 DEF g

\* As the run checks it.
LEMMA DeliveredIs ==
  ASSUME NEW a, NEW fs, FilesOK(fs), NEW way, way \in Seq(Record), Delivered(a, fs, way)
  PROVE  \E k \in 0..Len(a) :
           /\ OldestFirst(fs) \o way = SubSeq(a, k + 1, Len(a))
           /\ Len(fs) <= MaxRollFiles => k = 0
<1> DEFINE x == OldestFirst(fs) \o way
<1>1. PICK p : p \in Seq(Record) /\ a = p \o x /\ (Len(fs) <= MaxRollFiles => p = << >>)
  BY DEF Delivered
<1>2. x \in Seq(Record)
  <2>1. << >> \in Seq(Record) /\ fs \in Seq(Seq(Record))
    BY DEF FilesOK
  <2>2. OldestFirst(fs) \in Seq(Record)
    BY <2>1, OldestShape
  <2> QED BY <2>2, ConcatProperties
<1> HIDE DEF x
<1> DEFINE k == Len(p)
           m == Len(x)
           s == SubSeq(a, k + 1, Len(a))
<1>3. k \in Nat /\ m \in Nat /\ (p = << >> => k = 0)
  BY <1>1, <1>2, LenProperties
<1>4. /\ a \in Seq(Record) /\ Len(a) = k + m
      /\ \A i \in 1..k + m : a[i] = IF i <= k THEN p[i] ELSE x[i - k]
  BY <1>1, <1>2, ConcatProperties
<1> HIDE DEF k, m
<1>5. s \in Seq(Record) /\ Len(s) = m /\ \A i \in 1..m : s[i] = a[k + i]
  <2>1. k + 1 \in Int /\ k + m \in Int
    BY <1>3
  <2>2. \A i \in k + 1..k + m : a[i] \in Record
    <3> TAKE i \in k + 1..k + m
    <3>1. i \in 1..Len(a)
      BY <1>3, <1>4
    <3> QED BY <1>4, <3>1, ElementOfSeq
  <2> DEFINE lo == k + 1
             hi == k + m
  <2>3. /\ SubSeq(a, lo, hi) \in Seq(Record)
        /\ Len(SubSeq(a, lo, hi)) = IF lo <= hi THEN hi - lo + 1 ELSE 0
        /\ \A i \in 1..hi - lo + 1 : SubSeq(a, lo, hi)[i] = a[lo + i - 1]
    <3>1. lo \in Int /\ hi \in Int /\ \A i \in lo..hi : a[i] \in Record
      BY <2>1, <2>2
    <3> HIDE DEF lo, hi
    <3> QED BY ONLY <3>1, SubSeqProperties
  <2>4. (IF k + 1 <= k + m THEN k + m - (k + 1) + 1 ELSE 0) = m /\ k + m - (k + 1) + 1 = m
    BY <1>3
  <2>5. \A i \in 1..m : k + 1 + i - 1 = k + i
    BY <1>3
  <2>6. s = SubSeq(a, lo, hi)
    BY <1>4
  <2> DEFINE v == SubSeq(a, lo, hi)
  <2>7. v \in Seq(Record) /\ Len(v) = m /\ \A i \in 1..m : v[i] = a[k + i]
    <3>1. /\ (IF lo <= hi THEN hi - lo + 1 ELSE 0) = m /\ hi - lo + 1 = m
          /\ \A i \in 1..m : lo + i - 1 = k + i
      BY <1>3
    <3> HIDE DEF lo, hi
    <3> QED BY <2>3, <3>1
  <2> HIDE DEF v
  <2> QED BY <2>6, <2>7 DEF v
<1> HIDE DEF s
<1>6. \A i \in 1..m : s[i] = x[i]
  <2> TAKE i \in 1..m
  <2>1. PICK j \in 1..k + m : j = k + i /\ ~(j <= k) /\ j - k = i
    BY <1>3
  <2>2. s[i] = a[j]
    BY <1>5, <2>1
  <2>3. a[j] = IF j <= k THEN p[j] ELSE x[j - k]
    BY <1>4
  <2>4. a[j] = x[j - k]
    BY <2>1, <2>3
  <2> QED BY <2>1, <2>2, <2>4
<1>7. s = x
  BY <1>2, <1>5, <1>6, SeqEqual DEF m
<1>8. k \in 0..Len(a) /\ (Len(fs) <= MaxRollFiles => k = 0)
  BY <1>1, <1>3, <1>4
<1> QED BY <1>7, <1>8 DEF s, x
-----------------------------------------------------------------------------
(* The logger's deliveries: the invariant.                                 *)

\* A file's records are on file or on the way.
FileInv(f) ==
  /\ appended[f] \in Seq(Record) /\ buffers[f] \in Seq(Record) /\ FilesOK(files[f])
  /\ Delivered(appended[f], files[f], OnItsWay(f))
  /\ logWorker \in {"answer", "gone"} => buffers[f] = << >>

\* What was appended before a flush() is on file once its generation is flushed, and not
\* queued any more once it is in the worker's hands.
MarkInv(c, f) ==
  /\ mark[c][f] \in Nat /\ mark[c][f] <= Len(appended[f])
  /\ generation[c] <= flushedGeneration => mark[c][f] + Len(OnItsWay(f)) <= Len(appended[f])
  /\ logWorker \in {"writing", "answer"} /\ generation[c] <= batch.generation
       => mark[c][f] + Len(Of(f, pending)) <= Len(appended[f])

DeliveryShape ==
  /\ DOMAIN appended = LogFiles /\ DOMAIN files = LogFiles /\ DOMAIN buffers = LogFiles
  /\ DOMAIN mark = Loggers /\ \A c \in Loggers : DOMAIN mark[c] = LogFiles
  /\ pending \in Seq(Entry) /\ batch.events \in Seq(Entry)
  /\ logWorker # "writing" => batch.events = << >>

DeliveryInv ==
  /\ DeliveryShape
  /\ \A f \in LogFiles : FileInv(f)
  /\ \A c \in Loggers, f \in LogFiles : MarkInv(c, f)

\* Three sequences on the way, one after the other.
LEMMA ThreeJoined ==
  ASSUME NEW b, NEW e, NEW q, b \in Seq(Record) /\ e \in Seq(Record) /\ q \in Seq(Record)
  PROVE  /\ b \o e \o q \in Seq(Record) /\ e \o q \in Seq(Record) /\ b \o e \o q = b \o (e \o q)
         /\ Len(b) \in Nat /\ Len(e) \in Nat /\ Len(q) \in Nat
         /\ Len(b \o e \o q) = Len(b) + Len(e) + Len(q)
<1>1. Regrouped(b, e, q)
  BY Regroups
<1>2. b \o e \in Seq(Record) /\ Len(b \o e) = Len(b) + Len(e) /\ e \o q \in Seq(Record)
  BY ConcatProperties
<1> DEFINE x == b \o e
<1>3. x \o q \in Seq(Record) /\ Len(x \o q) = Len(x) + Len(q)
  <2>1. x \in Seq(Record)
    BY <1>2
  <2> HIDE DEF x
  <2> QED BY <2>1, ConcatProperties
<1>4. Len(b) \in Nat /\ Len(e) \in Nat /\ Len(q) \in Nat
  BY LenProperties
<1>5. b \o e \o q = b \o (e \o q)
  BY <1>1, Zenon DEF Regrouped
<1> QED BY <1>2, <1>3, <1>4, <1>5

\* A file's records and their numbers.
LEMMA AtFile ==
  ASSUME DeliveryInv, NEW f \in LogFiles
  PROVE  /\ FileInv(f)
         /\ appended[f] \in Seq(Record) /\ buffers[f] \in Seq(Record)
         /\ Of(f, batch.events) \in Seq(Record) /\ Of(f, pending) \in Seq(Record) /\ Of(f, << >>) = << >>
         /\ OnItsWay(f) \in Seq(Record)
         /\ Len(appended[f]) \in Nat /\ Len(OnItsWay(f)) \in Nat /\ Len(Of(f, pending)) \in Nat
         /\ Len(buffers[f]) \in Nat /\ Len(Of(f, batch.events)) \in Nat
         /\ Len(OnItsWay(f)) = Len(buffers[f]) + Len(Of(f, batch.events)) + Len(Of(f, pending))
<1>1. FileInv(f) /\ appended[f] \in Seq(Record) /\ buffers[f] \in Seq(Record)
      /\ pending \in Seq(Entry) /\ batch.events \in Seq(Entry)
  BY DEF DeliveryInv, DeliveryShape, FileInv
<1>2. Of(f, batch.events) \in Seq(Record) /\ Of(f, pending) \in Seq(Record) /\ Of(f, << >>) = << >>
  <2>1. <<f, [n |-> 0, size |-> 1]>> \in Entry
    BY DEF Record, Entry
  <2> QED BY <1>1, <2>1, OfShape
<1>3. /\ OnItsWay(f) \in Seq(Record) /\ Len(buffers[f]) \in Nat /\ Len(Of(f, batch.events)) \in Nat
      /\ Len(Of(f, pending)) \in Nat
      /\ Len(OnItsWay(f)) = Len(buffers[f]) + Len(Of(f, batch.events)) + Len(Of(f, pending))
  <2> DEFINE b == buffers[f]
             e == Of(f, batch.events)
             q == Of(f, pending)
  <2>1. OnItsWay(f) = b \o e \o q
    BY DEF OnItsWay
  <2>2. b \in Seq(Record) /\ e \in Seq(Record) /\ q \in Seq(Record)
    BY <1>1, <1>2
  <2> HIDE DEF b, e, q
  <2>3. /\ b \o e \o q \in Seq(Record) /\ Len(b) \in Nat /\ Len(e) \in Nat /\ Len(q) \in Nat
        /\ Len(b \o e \o q) = Len(b) + Len(e) + Len(q)
    BY <2>2, ThreeJoined
  <2> QED BY <2>1, <2>3, Zenon DEF b, e, q
<1>4. Len(appended[f]) \in Nat /\ Len(OnItsWay(f)) \in Nat
  BY <1>1, <1>3, LenProperties
<1> QED BY <1>1, <1>2, <1>3, <1>4

\* As many more records as there are more on the way, or fewer on the way.
LEMMA MarkStep ==
  ASSUME NEW c, NEW f, MarkInv(c, f), mark'[c][f] = mark[c][f], generation'[c] = generation[c], NEW x \in Nat,
         Len(appended[f]) \in Nat, Len(OnItsWay(f)) \in Nat, Len(Of(f, pending)) \in Nat,
         Len(OnItsWay(f)') \in Nat, Len(Of(f, pending')) \in Nat,
         Len(appended'[f]) = Len(appended[f]) + x, Len(OnItsWay(f)') <= Len(OnItsWay(f)) + x,
         flushedGeneration' = flushedGeneration,
         logWorker' \in {"writing", "answer"} =>
           \/ Len(Of(f, pending')) = 0
           \/ /\ Len(Of(f, pending')) <= Len(Of(f, pending)) + x
              /\ batch'.generation = batch.generation /\ logWorker \in {"writing", "answer"}
  PROVE  MarkInv(c, f)'
<1> DEFINE m == mark[c][f]
           a == Len(appended[f])
           w == Len(OnItsWay(f))
           p == Len(Of(f, pending))
           v == Len(OnItsWay(f)')
           q == Len(Of(f, pending'))
<1>1. m \in Nat /\ a \in Nat /\ w \in Nat /\ p \in Nat /\ v \in Nat /\ q \in Nat /\ m <= a
  BY DEF MarkInv
<1>2. v <= w + x
  OBVIOUS
<1>3. ASSUME generation'[c] <= flushedGeneration' PROVE m + v <= a + x
  <2>1. m + w <= a
    BY <1>3 DEF MarkInv
  <2> HIDE DEF m, a, w, p, v, q
  <2> QED BY <1>1, <1>2, <2>1
<1>4. ASSUME logWorker' \in {"writing", "answer"}, generation'[c] <= batch'.generation PROVE m + q <= a + x
  <2>1. CASE q = 0
    <3> HIDE DEF m, a, w, p, v, q
    <3> QED BY <1>1, <2>1
  <2>2. CASE q # 0
    <3>1. m + p <= a /\ q <= p + x
      BY <1>4, <2>2 DEF MarkInv
    <3> HIDE DEF m, a, w, p, v, q
    <3> QED BY <1>1, <3>1
  <2> QED BY <2>1, <2>2
<1>5. m <= a + x
  <2> HIDE DEF m, a, w, p, v, q
  <2> QED BY <1>1
<1> QED BY <1>1, <1>3, <1>4, <1>5 DEF MarkInv

\* ensure_started_locked leaves a worker that is there alone.
LEMMA StartedKeeps ==
  ASSUME Started, logStarted <=> logWorker # "none"
  PROVE  /\ logWorker' \in {"writing", "answer"} => logWorker \in {"writing", "answer"}
         /\ logWorker' # "writing" /\ DeliveryShape => batch.events = << >>
         /\ logWorker' \in {"answer", "gone"} => logWorker' = logWorker
BY DEF Started, DeliveryShape

\* append: the event is the last of its file, and the last on the way.
LEMMA AppendDelivers ==
  ASSUME DeliveryInv, NEW c \in Loggers, NEW g \in LogFiles, AppendEvent(c, g), logStarted <=> logWorker # "none"
  PROVE  DeliveryInv'
<1> DEFINE n == Len(appended[g]) + 1
           r == [n |-> n, size |-> RecordSizes[n]]
<1>1. r \in Record
  <2>1. n \in DOMAIN RecordSizes /\ RecordSizes \in Seq(Nat \ {0})
    BY AsyncLoggerAssumption DEF AppendEvent
  <2>2. n \in Nat /\ RecordSizes[n] \in Nat \ {0}
    BY <2>1, LenProperties, ElementOfSeq
  <2> QED BY <2>2 DEF Record
<1>2. /\ pending' = Append(pending, <<g, r>>) /\ appended' = [appended EXCEPT ![g] = Append(appended[g], r)]
      /\ Started /\ UNCHANGED <<batch, buffers, files, mark, generation, flushedGeneration>>
  BY DEF AppendEvent, logDisk
<1> HIDE DEF r
<1>3. DeliveryShape'
  <2>1. <<g, r>> \in Entry
    BY <1>1 DEF Entry
  <2>2. pending' \in Seq(Entry)
    BY <1>2, <2>1, AppendProperties DEF DeliveryInv, DeliveryShape
  <2>3. logWorker' # "writing" => batch.events = << >>
    BY <1>2, StartedKeeps DEF DeliveryInv
  <2> QED BY <1>2, <2>2, <2>3 DEF DeliveryInv, DeliveryShape
<1>4. ASSUME NEW f \in LogFiles
      PROVE  /\ Of(f, pending') = IF g = f THEN Append(Of(f, pending), r) ELSE Of(f, pending)
             /\ OnItsWay(f)' = IF g = f THEN Append(OnItsWay(f), r) ELSE OnItsWay(f)
             /\ appended'[f] = IF g = f THEN Append(appended[f], r) ELSE appended[f]
  <2>1. Of(f, pending') = IF g = f THEN Append(Of(f, pending), r) ELSE Of(f, pending)
    <3>1. pending \in Seq(Entry)
      BY DEF DeliveryInv, DeliveryShape
    <3> DEFINE e == <<g, r>>
    <3>2. e \in Entry /\ e[1] = g /\ e[2] = r /\ pending' = Append(pending, e)
      BY <1>1, <1>2 DEF Entry
    <3> HIDE DEF e
    <3>3. Of(f, Append(pending, e)) = IF e[1] = f THEN Append(Of(f, pending), e[2]) ELSE Of(f, pending)
      BY <3>1, <3>2, OfShape
    <3> QED BY <3>2, <3>3
  <2>2. OnItsWay(f)' = buffers[f] \o Of(f, batch.events) \o Of(f, pending')
    BY <1>2 DEF OnItsWay
  <2>3. ASSUME g = f PROVE OnItsWay(f)' = Append(OnItsWay(f), r)
    <3> DEFINE x == buffers[f] \o Of(f, batch.events)
               q == Of(f, pending)
    <3>1. x \in Seq(Record) /\ q \in Seq(Record)
      BY AtFile, ConcatProperties
    <3>2. OnItsWay(f)' = x \o Append(q, r) /\ OnItsWay(f) = x \o q
      BY <2>1, <2>2, <2>3 DEF OnItsWay
    <3> HIDE DEF x, q
    <3>3. x \o Append(q, r) = Append(x \o q, r)
      <4> DEFINE u == <<r>>
      <4>1. u \in Seq(Record) /\ Append(q, r) = q \o u
        BY <1>1, <3>1, AppendIsConcat
      <4>2. x \o q \in Seq(Record)
        BY <3>1, ConcatProperties
      <4>3. Append(x \o q, r) = (x \o q) \o u
        BY <1>1, <4>2, AppendIsConcat
      <4> HIDE DEF u
      <4>4. Regrouped(x, q, u)
        BY <3>1, <4>1, Regroups
      <4> QED BY <4>1, <4>3, <4>4, Zenon DEF Regrouped
    <3> QED BY <3>2, <3>3
  <2>4. g # f => OnItsWay(f)' = OnItsWay(f)
    BY <2>1, <2>2 DEF OnItsWay
  <2>5. appended'[f] = IF g = f THEN Append(appended[f], r) ELSE appended[f]
    BY <1>2 DEF DeliveryInv, DeliveryShape
  <2> QED BY <2>1, <2>3, <2>4, <2>5
<1>5. ASSUME NEW f \in LogFiles PROVE FileInv(f)'
  <2>1. /\ FilesOK(files'[f]) /\ buffers'[f] \in Seq(Record)
        /\ logWorker' \in {"answer", "gone"} => buffers'[f] = << >>
    BY <1>2, AtFile, StartedKeeps DEF FileInv
  <2>2. appended'[f] \in Seq(Record)
    BY <1>1, <1>4, AtFile, AppendProperties
  <2>3. Delivered(appended'[f], files'[f], OnItsWay(f)')
    <3>1. FilesOK(files[f]) /\ Delivered(appended[f], files[f], OnItsWay(f)) /\ OnItsWay(f) \in Seq(Record)
      BY AtFile DEF FileInv
    <3>2. Delivered(Append(appended[f], r), files[f], Append(OnItsWay(f), r))
      BY <1>1, <3>1, DeliversAppend
    <3> QED BY <1>2, <1>4, <3>1, <3>2, Zenon
  <2> QED BY <2>1, <2>2, <2>3 DEF FileInv
<1>6. ASSUME NEW d \in Loggers, NEW f \in LogFiles PROVE MarkInv(d, f)'
  <2> DEFINE x == IF g = f THEN 1 ELSE 0
  <2>1. /\ Len(appended[f]) \in Nat /\ Len(OnItsWay(f)) \in Nat /\ Len(Of(f, pending)) \in Nat
        /\ appended[f] \in Seq(Record) /\ OnItsWay(f) \in Seq(Record) /\ Of(f, pending) \in Seq(Record)
    BY AtFile
  <2>2. \A q \in Seq(Record) : Len(Append(q, r)) = Len(q) + 1
    BY <1>1, AppendProperties
  <2>3. /\ x \in Nat /\ Len(appended'[f]) = Len(appended[f]) + x /\ Len(OnItsWay(f)') = Len(OnItsWay(f)) + x
        /\ Len(Of(f, pending')) = Len(Of(f, pending)) + x
    <3>1. CASE g = f
      BY <1>4, <2>1, <2>2, <3>1
    <3>2. CASE g # f
      BY <1>4, <2>1, <3>2
    <3> QED BY <3>1, <3>2
  <2> HIDE DEF x
  <2>4. /\ Len(OnItsWay(f)') \in Nat /\ Len(Of(f, pending')) \in Nat
        /\ Len(OnItsWay(f)') <= Len(OnItsWay(f)) + x /\ Len(Of(f, pending')) <= Len(Of(f, pending)) + x
    BY <2>1, <2>3
  <2>5. MarkInv(d, f) /\ mark'[d][f] = mark[d][f] /\ generation'[d] = generation[d]
    BY <1>2 DEF DeliveryInv
  <2>6. logWorker' \in {"writing", "answer"} => batch'.generation = batch.generation /\ logWorker \in {"writing", "answer"}
    BY <1>2, StartedKeeps
  <2> QED BY <1>2, <2>1, <2>3, <2>4, <2>5, <2>6, MarkStep
<1> QED BY <1>3, <1>5, <1>6 DEF DeliveryInv

\* flush: nothing that was asked for before is asked for now.
LEMMA FlushDelivers ==
  ASSUME DeliveryInv, LogTypeOK, FlushInv, NEW c \in Loggers, Flush(c)
  PROVE  DeliveryInv'
<1>1. /\ UNCHANGED <<pending, appended, batch, buffers, files, flushedGeneration>> /\ Started
      /\ generation' = [generation EXCEPT ![c] = flushGeneration + 1]
      /\ mark' = [mark EXCEPT ![c] = [f \in LogFiles |-> Len(appended[f])]]
  BY DEF Flush, logDisk
<1>2. logStarted <=> logWorker # "none"
  BY DEF FlushInv
<1>3. DeliveryShape'
  <2>1. logWorker' # "writing" => batch.events = << >>
    BY <1>1, <1>2, StartedKeeps DEF DeliveryInv
  <2> QED BY <1>1, <2>1 DEF DeliveryInv, DeliveryShape
<1>4. ASSUME NEW f \in LogFiles PROVE FileInv(f)' /\ OnItsWay(f)' = OnItsWay(f)
  <2>1. OnItsWay(f)' = OnItsWay(f)
    BY <1>1 DEF OnItsWay
  <2>2. logWorker' \in {"answer", "gone"} => buffers'[f] = << >>
    BY <1>1, <1>2, AtFile, StartedKeeps DEF FileInv
  <2> QED BY <1>1, <2>1, <2>2, AtFile DEF FileInv
<1>5. ASSUME NEW d \in Loggers, NEW f \in LogFiles PROVE MarkInv(d, f)'
  <2>1. Len(appended[f]) \in Nat /\ Len(OnItsWay(f)) \in Nat /\ Len(Of(f, pending)) \in Nat
    BY AtFile
  <2>2. CASE d = c
    <3>1. mark'[d][f] = Len(appended[f]) /\ generation'[d] = flushGeneration + 1
      BY <1>1, <2>2 DEF DeliveryInv, DeliveryShape, LogTypeOK
    <3>2. ~(generation'[d] <= flushedGeneration) /\ ~(generation'[d] <= batch.generation)
      <4>1. /\ flushGeneration \in Nat /\ flushedGeneration \in Nat /\ batch.generation \in Nat
            /\ flushedGeneration <= batch.generation /\ batch.generation <= flushGeneration
        BY DEF LogTypeOK, FlushInv
      <4> QED BY <3>1, <4>1
    <3>3. Len(appended[f]) <= Len(appended[f])
      BY <2>1
    <3> QED BY <1>1, <2>1, <3>1, <3>2, <3>3 DEF MarkInv
  <2>3. CASE d # c
    <3>1. MarkInv(d, f) /\ mark'[d][f] = mark[d][f] /\ generation'[d] = generation[d]
      BY <1>1, <2>3 DEF DeliveryInv, DeliveryShape, LogTypeOK
    <3>2. logWorker' \in {"writing", "answer"} => logWorker \in {"writing", "answer"}
      BY <1>1, <1>2, StartedKeeps
    <3> QED BY <1>1, <1>4, <3>1, <3>2 DEF MarkInv
  <2> QED BY <2>2, <2>3
<1> QED BY <1>3, <1>4, <1>5 DEF DeliveryInv

\* run: the queue becomes the worker's batch.
LEMMA TakesDelivers ==
  ASSUME DeliveryInv, LogTypeOK, NEW due \in BOOLEAN, WorkerTakesEvents(due)
  PROVE  DeliveryInv'
<1>1. /\ UNCHANGED <<appended, buffers, files, flushedGeneration, generation, mark>>
      /\ pending' = << >> /\ batch'.events = pending /\ logWorker = "ready" /\ logWorker' = "writing"
  BY DEF WorkerTakesEvents, logHistory
<1>2. batch.events = << >> /\ pending \in Seq(Entry)
  BY <1>1 DEF DeliveryInv, DeliveryShape
<1>3. DeliveryShape'
  <2>1. << >> \in Seq(Entry)
    OBVIOUS
  <2> QED BY <1>1, <1>2, <2>1 DEF DeliveryInv, DeliveryShape
<1>4. ASSUME NEW f \in LogFiles
      PROVE  OnItsWay(f)' = OnItsWay(f) /\ Of(f, pending') = << >>
  <2> DEFINE b == buffers[f]
             q == Of(f, pending)
  <2>1. b \in Seq(Record) /\ q \in Seq(Record) /\ Of(f, << >>) = << >>
    BY AtFile
  <2>2. OnItsWay(f) = b \o << >> \o q /\ OnItsWay(f)' = b \o q \o << >>
    BY <1>1, <1>2, <2>1 DEF OnItsWay
  <2> HIDE DEF b, q
  <2>3. b \o q \in Seq(Record)
    BY <2>1, ConcatProperties
  <2>4. b \o << >> = b /\ b \o q \o << >> = b \o q
    BY <2>1, <2>3, ConcatEmptySeq
  <2> QED BY <1>1, <2>1, <2>2, <2>4
<1>5. ASSUME NEW f \in LogFiles PROVE FileInv(f)'
  BY <1>1, <1>4, AtFile DEF FileInv
<1>6. ASSUME NEW d \in Loggers, NEW f \in LogFiles PROVE MarkInv(d, f)'
  <2>1. MarkInv(d, f) /\ Len(appended[f]) \in Nat /\ Len(Of(f, pending')) = 0 /\ mark[d][f] + 0 = mark[d][f]
    BY <1>4, AtFile DEF DeliveryInv, MarkInv
  <2> QED BY <1>1, <1>4, <2>1 DEF MarkInv
<1> QED BY <1>3, <1>5, <1>6 DEF DeliveryInv

\* flush_buffers: every buffer is on file.
LEMMA BuffersDeliver ==
  ASSUME DeliveryInv, FlushBuffers, batch.events = << >>, UNCHANGED <<appended, pending, batch>>,
         NEW f \in LogFiles
  PROVE  /\ FilesOK(files'[f]) /\ buffers'[f] = << >> /\ OnItsWay(f)' = Of(f, pending)
         /\ DOMAIN files' = LogFiles /\ DOMAIN buffers' = LogFiles
         /\ Delivered(appended'[f], files'[f], OnItsWay(f)')
         /\ Len(OnItsWay(f)') <= Len(OnItsWay(f)) /\ Len(OnItsWay(f)') = Len(Of(f, pending))
<1>1. files'[f] = WriteBuffer(files[f], buffers[f]) /\ buffers'[f] = << >>
      /\ DOMAIN files' = LogFiles /\ DOMAIN buffers' = LogFiles
  BY DEF FlushBuffers
<1> DEFINE b == buffers[f]
           q == Of(f, pending)
<1>2. b \in Seq(Record) /\ q \in Seq(Record) /\ Of(f, << >>) = << >>
  BY AtFile
<1>3. OnItsWay(f) = b \o << >> \o q /\ OnItsWay(f)' = << >> \o << >> \o q
  BY <1>1, <1>2 DEF OnItsWay
<1>4. FilesOK(files[f]) /\ Delivered(appended[f], files[f], OnItsWay(f))
      /\ Len(OnItsWay(f)) = Len(b) + Len(Of(f, << >>)) + Len(q) /\ Len(b) \in Nat /\ Len(q) \in Nat
  BY AtFile DEF FileInv
<1> HIDE DEF b, q
<1>5. b \o << >> = b /\ << >> \o << >> = << >> /\ << >> \o q = q
  BY <1>2, ConcatEmptySeq
<1>6. FilesOK(WriteBuffer(files[f], b)) /\ Delivered(appended[f], WriteBuffer(files[f], b), q)
  <2>1. Delivered(appended[f], files[f], b \o q)
    BY <1>3, <1>4, <1>5
  <2> QED BY <1>2, <1>4, <2>1, DeliversBuffer
<1>7. OnItsWay(f)' = q
  BY <1>3, <1>5
<1>8. Len(q) <= Len(b) + Len(Of(f, << >>)) + Len(q)
  <2>1. Len(Of(f, << >>)) = 0
    BY <1>2
  <2> QED BY <1>4, <2>1
<1> QED BY <1>1, <1>4, <1>6, <1>7, <1>8 DEF b, q

\* One record goes from the head of the batch to the end of the buffer (run).
Moved(b, r, e, q) ==
  /\ Append(b, r) \in Seq(Record)
  /\ b \o (<<r>> \o e) \o q = Append(b, r) \o e \o q
  /\ b \o (<<r>> \o e) \o q = Append(b, r) \o (e \o q)

\* That step of run's loop leaves what is on its way to the file as it was.
LEMMA OneMoved ==
  ASSUME NEW b, NEW r, NEW e, NEW q, b \in Seq(Record), r \in Record, e \in Seq(Record), q \in Seq(Record)
  PROVE  Moved(b, r, e, q)
<1> DEFINE u == <<r>>
           a == Append(b, r)
<1>1. u \in Seq(Record) /\ a \in Seq(Record) /\ a = b \o u
  BY AppendProperties, AppendIsConcat
<1> HIDE DEF u, a
<1>2. Regrouped(b, u, e) /\ Regrouped(a, e, q)
  BY <1>1, Regroups
<1> QED BY <1>1, <1>2, Zenon DEF Regrouped, Moved, u, a

\* The worker's loop: the batch's first record is the buffer's last, or on file with it.
LEMMA BatchDelivers ==
  ASSUME DeliveryInv, LogTypeOK, WorkerBuffers
  PROVE  DeliveryInv'
<1> DEFINE h == Head(batch.events)
           g == h[1]
           r == h[2]
           v == Append(buffers[g], r)
           full == Size(v) >= BufferLimit
<1>1. batch.events \in Seq(Entry) /\ batch.events # << >> /\ logWorker = "writing"
  BY DEF WorkerBuffers, DeliveryInv, DeliveryShape
<1>2. h \in Entry /\ g \in LogFiles /\ r \in Record /\ Tail(batch.events) \in Seq(Entry)
  BY <1>1, HeadTailProperties DEF Entry
<1>3. /\ UNCHANGED <<appended, pending, mark, generation, flushedGeneration, logWorker>>
      /\ batch'.events = Tail(batch.events) /\ batch'.generation = batch.generation
      /\ buffers' = [buffers EXCEPT ![g] = IF full THEN << >> ELSE v]
      /\ files' = IF full THEN [files EXCEPT ![g] = WriteBuffer(files[g], v)] ELSE files
  BY DEF WorkerBuffers, logQueue, logHistory, LogTypeOK
<1> HIDE DEF h, full
<1>4. DeliveryShape'
  <2>1. DOMAIN files' = LogFiles /\ DOMAIN buffers' = LogFiles
    BY <1>3 DEF DeliveryInv, DeliveryShape
  <2> QED BY <1>1, <1>2, <1>3, <2>1 DEF DeliveryInv, DeliveryShape
<1>5. ASSUME NEW f \in LogFiles
      PROVE  /\ buffers'[f] \in Seq(Record) /\ FilesOK(files'[f])
             /\ Delivered(appended'[f], files'[f], OnItsWay(f)')
             /\ Len(OnItsWay(f)') <= Len(OnItsWay(f)) /\ Len(OnItsWay(f)') \in Nat
  <2> DEFINE b == buffers[f]
             e == Of(f, Tail(batch.events))
             q == Of(f, pending)
             way == OnItsWay(f)
  <2>1. /\ b \in Seq(Record) /\ e \in Seq(Record) /\ q \in Seq(Record) /\ Of(f, << >>) = << >>
        /\ FilesOK(files[f]) /\ Delivered(appended[f], files[f], OnItsWay(f)) /\ Len(OnItsWay(f)) \in Nat
    <3>1. e \in Seq(Record)
      BY <1>2, OfShape
    <3> QED BY <3>1, AtFile DEF FileInv
  <2>2. Of(f, batch.events) = (IF g = f THEN <<r>> ELSE << >>) \o e
    BY <1>1, <1>2, OfShape DEF h
  <2>3. OnItsWay(f) = b \o Of(f, batch.events) \o q /\ OnItsWay(f)' = buffers'[f] \o e \o q
    BY <1>3 DEF OnItsWay
  <2>4. DOMAIN buffers = LogFiles /\ DOMAIN files = LogFiles
    BY DEF DeliveryInv, DeliveryShape
  <2> HIDE DEF e, q
  <2>5. CASE g # f
    <3>1. << >> \o e = e
      BY <2>1, ConcatEmptySeq
    <3>2. buffers'[f] = b /\ files'[f] = files[f] /\ OnItsWay(f)' = OnItsWay(f)
      BY <1>3, <2>2, <2>3, <2>4, <2>5, <3>1
    <3>3. Len(OnItsWay(f)) <= Len(OnItsWay(f))
      BY <2>1
    <3> QED BY <1>3, <2>1, <3>2, <3>3
  <2>6. CASE g = f
    <3> DEFINE a == Append(b, r)
    <3>1. /\ a \in Seq(Record) /\ OnItsWay(f) = a \o e \o q /\ OnItsWay(f) = a \o (e \o q)
      <4>1. OnItsWay(f) = b \o (<<r>> \o e) \o q
        BY <2>2, <2>3, <2>6
      <4> HIDE DEF b
      <4>2. b \in Seq(Record) /\ r \in Record /\ e \in Seq(Record) /\ q \in Seq(Record)
        BY <1>2, <2>1
      <4>3. Moved(b, r, e, q)
        BY ONLY <4>2, OneMoved, Zenon
      <4> QED BY <4>1, <4>3, Zenon DEF Moved
    <3>2. v = a
      BY <2>6
    <3> HIDE DEF a, b
    <3>3. CASE ~full
      <4>1. buffers'[f] = a /\ files'[f] = files[f]
        BY <1>3, <2>4, <2>6, <3>2, <3>3
      <4>2. OnItsWay(f)' = OnItsWay(f)
        BY <2>3, <3>1, <4>1, Zenon
      <4>3. Len(OnItsWay(f)) <= Len(OnItsWay(f))
        BY <2>1
      <4> QED BY <1>3, <2>1, <3>1, <4>1, <4>2, <4>3
    <3>4. CASE full
      <4>1. buffers'[f] = << >> /\ files'[f] = WriteBuffer(files[f], a)
        BY <1>3, <2>4, <2>6, <3>2, <3>4
      <4>2. << >> \o e = e
        BY <2>1, ConcatEmptySeq
      <4>3. OnItsWay(f)' = e \o q /\ e \o q \in Seq(Record)
        BY <2>1, <2>3, <4>1, <4>2, ConcatProperties
      <4>4. FilesOK(WriteBuffer(files[f], a)) /\ Delivered(appended[f], WriteBuffer(files[f], a), e \o q)
        <5> DEFINE rest == e \o q
        <5>1. rest \in Seq(Record) /\ Delivered(appended[f], files[f], a \o rest)
          BY <2>1, <3>1, <4>3
        <5> HIDE DEF rest
        <5>2. FilesOK(WriteBuffer(files[f], a)) /\ Delivered(appended[f], WriteBuffer(files[f], a), rest)
          BY <2>1, <3>1, <5>1, DeliversBuffer
        <5> QED BY <5>2 DEF rest
      <4>5. Len(e \o q) <= Len(OnItsWay(f)) /\ Len(e \o q) \in Nat
        <5>1. Len(e \o q) = Len(e) + Len(q) /\ Len(a \o e \o q) = Len(a) + Len(e) + Len(q)
              /\ Len(a) \in Nat /\ Len(e) \in Nat /\ Len(q) \in Nat
          <6>1. Len(e \o q) = Len(e) + Len(q)
            BY <2>1, ConcatProperties
          <6> QED BY <2>1, <3>1, <6>1, ThreeJoined
        <5> DEFINE x == Len(a)
                   y == Len(e)
                   z == Len(q)
        <5>2. x \in Nat /\ y \in Nat /\ z \in Nat /\ Len(e \o q) = y + z /\ Len(OnItsWay(f)) = x + y + z
          BY <3>1, <5>1
        <5> HIDE DEF x, y, z
        <5> QED BY ONLY <5>2
      <4>6. << >> \in Seq(Record)
        OBVIOUS
      <4> QED BY <1>3, <4>1, <4>3, <4>4, <4>5, <4>6
    <3> QED BY <3>3, <3>4
  <2> QED BY <2>5, <2>6
<1>6. ASSUME NEW f \in LogFiles PROVE FileInv(f)'
  BY <1>1, <1>3, <1>5, AtFile DEF FileInv
<1>7. ASSUME NEW d \in Loggers, NEW f \in LogFiles PROVE MarkInv(d, f)'
  <2>1. /\ Len(appended[f]) \in Nat /\ Len(OnItsWay(f)) \in Nat /\ Len(Of(f, pending)) \in Nat
        /\ MarkInv(d, f)
    BY AtFile DEF DeliveryInv
  <2>2. /\ Len(OnItsWay(f)') <= Len(OnItsWay(f)) + 0 /\ Len(appended[f]) = Len(appended[f]) + 0
        /\ Len(Of(f, pending')) <= Len(Of(f, pending)) + 0 /\ Len(Of(f, pending')) \in Nat /\ 0 \in Nat
    BY <1>3, <1>5, <2>1
  <2> QED BY <1>3, <1>5, <2>1, <2>2, MarkStep
<1> QED BY <1>4, <1>6, <1>7 DEF DeliveryInv

\* The end of a round, flushed or not, and the end of the worker.
LEMMA RoundDelivers ==
  ASSUME DeliveryInv, WorkerFlushes \/ WorkerChecks
  PROVE  DeliveryInv'
<1>1. /\ UNCHANGED <<appended, pending, batch, mark, generation, flushedGeneration>> /\ batch.events = << >>
      /\ logWorker' # "writing"
      /\ logWorker' \in {"writing", "answer"} => logWorker \in {"writing", "answer"}
      /\ \/ FlushBuffers
         \/ UNCHANGED <<buffers, files>> /\ logWorker' \notin {"answer", "gone"}
  BY DEF WorkerFlushes, WorkerChecks, logQueue, logHistory, DeliveryInv, DeliveryShape
<1>2. ASSUME NEW f \in LogFiles
      PROVE  /\ FileInv(f)' /\ Len(OnItsWay(f)') <= Len(OnItsWay(f)) /\ Len(OnItsWay(f)') \in Nat
             /\ DOMAIN files' = LogFiles /\ DOMAIN buffers' = LogFiles
  <2>1. /\ appended[f] \in Seq(Record) /\ Len(Of(f, pending)) \in Nat /\ Len(OnItsWay(f)) \in Nat /\ FileInv(f)
        /\ DOMAIN files = LogFiles /\ DOMAIN buffers = LogFiles
    BY AtFile DEF DeliveryInv, DeliveryShape
  <2>2. CASE FlushBuffers
    <3>1. << >> \in Seq(Record)
      OBVIOUS
    <3> QED BY <1>1, <2>1, <2>2, <3>1, BuffersDeliver DEF FileInv
  <2>3. CASE UNCHANGED <<buffers, files>> /\ logWorker' \notin {"answer", "gone"}
    <3>1. OnItsWay(f)' = OnItsWay(f) /\ Len(OnItsWay(f)) <= Len(OnItsWay(f))
      BY <1>1, <2>1, <2>3 DEF OnItsWay
    <3> QED BY <1>1, <2>1, <2>3, <3>1 DEF FileInv
  <2> QED BY <1>1, <2>2, <2>3
<1>3. DeliveryShape'
  <2>1. DOMAIN files' = LogFiles /\ DOMAIN buffers' = LogFiles
    BY <1>1 DEF FlushBuffers, DeliveryInv, DeliveryShape
  <2> QED BY <1>1, <2>1 DEF DeliveryInv, DeliveryShape
<1>4. ASSUME NEW d \in Loggers, NEW f \in LogFiles PROVE MarkInv(d, f)'
  <2>1. /\ Len(appended[f]) \in Nat /\ Len(OnItsWay(f)) \in Nat /\ Len(Of(f, pending)) \in Nat
        /\ MarkInv(d, f)
    BY AtFile DEF DeliveryInv
  <2>2. /\ Len(OnItsWay(f)') <= Len(OnItsWay(f)) + 0 /\ Len(appended[f]) = Len(appended[f]) + 0
        /\ Len(Of(f, pending')) <= Len(Of(f, pending)) + 0 /\ Len(Of(f, pending')) \in Nat /\ 0 \in Nat
    BY <1>1, <1>2, <2>1
  <2> QED BY <1>1, <1>2, <2>1, <2>2, MarkStep
<1> QED BY <1>2, <1>3, <1>4 DEF DeliveryInv

\* The generation that is answered is on file.
LEMMA AnswerDelivers ==
  ASSUME DeliveryInv, WorkerAnswers
  PROVE  DeliveryInv'
<1>1. /\ UNCHANGED <<appended, pending, batch, buffers, files, mark, generation>> /\ batch.events = << >>
      /\ logWorker = "answer" /\ logWorker' = "check" /\ flushedGeneration' = batch.generation
  BY DEF WorkerAnswers, logDisk, logHistory, DeliveryInv, DeliveryShape
<1>2. DeliveryShape'
  BY <1>1 DEF DeliveryInv, DeliveryShape
<1>3. ASSUME NEW f \in LogFiles PROVE FileInv(f)' /\ OnItsWay(f)' = OnItsWay(f)
  <2>1. OnItsWay(f)' = OnItsWay(f)
    BY <1>1 DEF OnItsWay
  <2> QED BY <1>1, <2>1, AtFile DEF FileInv
<1>4. ASSUME NEW d \in Loggers, NEW f \in LogFiles PROVE MarkInv(d, f)'
  <2>1. Len(OnItsWay(f)) = Len(Of(f, pending))
    <3>1. /\ buffers[f] = << >> /\ Of(f, batch.events) = << >> /\ Len(Of(f, pending)) \in Nat
          /\ Len(OnItsWay(f)) = Len(buffers[f]) + Len(Of(f, batch.events)) + Len(Of(f, pending))
      BY <1>1, AtFile DEF FileInv
    <3> QED BY <3>1
  <2>2. MarkInv(d, f)
    BY DEF DeliveryInv
  <2> QED BY <1>1, <1>3, <2>1, <2>2 DEF MarkInv
<1> QED BY <1>2, <1>3, <1>4 DEF DeliveryInv

\* What does not touch the events.
LEMMA OthersDeliver ==
  ASSUME DeliveryInv,
         UNCHANGED <<appended, pending, batch, buffers, files, mark, generation, flushedGeneration, logWorker>>
  PROVE  DeliveryInv'
<1>1. DeliveryShape'
  BY DEF DeliveryInv, DeliveryShape
<1>2. ASSUME NEW f \in LogFiles PROVE FileInv(f)' /\ OnItsWay(f)' = OnItsWay(f)
  <2>1. OnItsWay(f)' = OnItsWay(f)
    BY DEF OnItsWay
  <2> QED BY <2>1 DEF DeliveryInv, FileInv
<1>3. ASSUME NEW d \in Loggers, NEW f \in LogFiles PROVE MarkInv(d, f)'
  BY <1>2 DEF DeliveryInv, MarkInv
<1> QED BY <1>1, <1>2, <1>3 DEF DeliveryInv

LEMMA DeliveryStarts == LogInit => DeliveryInv
<1> SUFFICES ASSUME LogInit PROVE DeliveryInv
  OBVIOUS
<1>1. << >> \in Seq(Entry) /\ << >> \in Seq(Record) /\ << >> \in Seq(Seq(Record)) /\ Len(<< >>) = 0
  OBVIOUS
<1>2. DeliveryShape
  BY <1>1 DEF LogInit, DeliveryShape
<1>3. ASSUME NEW f \in LogFiles
      PROVE  /\ appended[f] = << >> /\ buffers[f] = << >> /\ files[f] = << >>
             /\ pending = << >> /\ batch.events = << >> /\ logWorker = "none"
  BY DEF LogInit
<1>4. ASSUME NEW f \in LogFiles PROVE Of(f, << >>) = << >> /\ OnItsWay(f) = << >>
  <2>1. <<f, [n |-> 0, size |-> 1]>> \in Entry
    BY DEF Record, Entry
  <2>2. Of(f, << >>) = << >>
    BY <1>1, <2>1, OfShape
  <2>3. << >> \o << >> \o << >> = << >>
    OBVIOUS
  <2> QED BY <1>3, <2>2, <2>3 DEF OnItsWay
<1>5. ASSUME NEW f \in LogFiles PROVE FileInv(f)
  <2>1. FilesOK(<< >>)
    BY <1>1, AsyncLoggerAssumption DEF FilesOK
  <2>2. Delivered(<< >>, << >>, << >>)
    <3>1. OldestFirst(<< >>) = << >>
      BY <1>1, OldestShape
    <3>2. << >> = << >> \o (<< >> \o << >>)
      OBVIOUS
    <3> QED BY <1>1, <3>1, <3>2 DEF Delivered
  <2> QED BY <1>1, <1>3, <1>4, <2>1, <2>2 DEF FileInv
<1>6. ASSUME NEW c \in Loggers, NEW f \in LogFiles PROVE MarkInv(c, f)
  <2>1. mark[c][f] = 0
    BY DEF LogInit
  <2> QED BY <1>1, <1>3, <1>4, <2>1 DEF MarkInv
<1> QED BY <1>2, <1>5, <1>6 DEF DeliveryInv

LEMMA DeliveryKept ==
  ASSUME DeliveryInv, LogTypeOK, FlushInv, [LogNext]_logVars
  PROVE  DeliveryInv'
<1>1. logStarted <=> logWorker # "none"
  BY DEF FlushInv
<1>2. ASSUME NEW c \in Loggers, NEW f \in LogFiles, AppendEvent(c, f) PROVE DeliveryInv'
  BY <1>1, <1>2, AppendDelivers
<1>3. ASSUME NEW c \in Loggers, AppendNotify(c) \/ FlushWaits(c) \/ SetFlushInterval(c) PROVE DeliveryInv'
  BY <1>3, OthersDeliver DEF AppendNotify, FlushWaits, SetFlushInterval, logQueue, logDisk, logHistory
<1>4. ASSUME NEW c \in Loggers, Flush(c) PROVE DeliveryInv'
  BY <1>4, FlushDelivers
<1>5. ASSUME NEW t, WakesUp(t) PROVE DeliveryInv'
  BY <1>5, OthersDeliver DEF WakesUp, logQueue, logDisk, logHistory
<1>6. CASE StopLogger \/ StopNotify \/ WorkerWaits \/ UNCHANGED logVars
  BY <1>6, OthersDeliver DEF StopLogger, StopNotify, WorkerWaits, logVars, logQueue, logDisk, logHistory
<1>7. ASSUME NEW due \in BOOLEAN, WorkerTakesEvents(due) PROVE DeliveryInv'
  BY <1>7, TakesDelivers
<1>8. CASE WorkerBuffers
  BY <1>8, BatchDelivers
<1>9. CASE WorkerFlushes \/ WorkerChecks
  BY <1>9, RoundDelivers
<1>10. CASE WorkerAnswers
  BY <1>10, AnswerDelivers
<1> QED BY <1>2, <1>3, <1>4, <1>5, <1>6, <1>7, <1>8, <1>9, <1>10 DEF LogNext

\* For any threads that log and flush, any files and any sizes: what is appended is on file or
\* on its way, once and in order, but for what rolls out of the last file, and a flush() that
\* may return has on file what was appended before it (append, flush, run, write_buffer,
\* roll_sink).
THEOREM LogStaysFaithful == LogSpec => []LogFaithful
<1>1. ASSUME LogTypeOK, DeliveryInv PROVE LogFaithful
  <2>1. ASSUME NEW f \in LogFiles
        PROVE  /\ \E k \in 0..Len(appended[f]) :
                    /\ OnFile(f) \o OnItsWay(f) = SubSeq(appended[f], k + 1, Len(appended[f]))
                    /\ Len(files[f]) <= MaxRollFiles => k = 0
               /\ \A i \in DOMAIN files[f] : Size(files[f][i]) > RollSize => Len(files[f][i]) = 1
               /\ logWorker = "gone" => buffers[f] = << >> /\ batch.events = << >>
    <3>1. /\ FilesOK(files[f]) /\ Delivered(appended[f], files[f], OnItsWay(f)) /\ OnItsWay(f) \in Seq(Record)
          /\ logWorker = "gone" => buffers[f] = << >> /\ batch.events = << >>
      BY <1>1, AtFile DEF FileInv, DeliveryInv, DeliveryShape
    <3>2. \E k \in 0..Len(appended[f]) :
             /\ OldestFirst(files[f]) \o OnItsWay(f) = SubSeq(appended[f], k + 1, Len(appended[f]))
             /\ Len(files[f]) <= MaxRollFiles => k = 0
      BY <3>1, DeliveredIs
    <3>3. OnFile(f) = OldestFirst(files[f])
      BY DEF OnFile, OldestFirst
    <3>4. DOMAIN files[f] = 1..Len(files[f])
      BY <3>1, LenProperties DEF FilesOK
    <3> QED BY <3>1, <3>2, <3>3, <3>4 DEF FilesOK
  <2>2. ASSUME NEW c \in Loggers, flushedGeneration >= generation[c], NEW f \in LogFiles
        PROVE  Len(appended[f]) - Len(OnItsWay(f)) >= mark[c][f]
    <3>1. generation[c] \in Nat /\ flushedGeneration \in Nat
      BY <1>1 DEF LogTypeOK
    <3>2. /\ Len(appended[f]) \in Nat /\ Len(OnItsWay(f)) \in Nat /\ mark[c][f] \in Nat
          /\ generation[c] <= flushedGeneration => mark[c][f] + Len(OnItsWay(f)) <= Len(appended[f])
      BY <1>1, <2>2, AtFile DEF DeliveryInv, MarkInv
    <3> DEFINE x == generation[c]
               y == flushedGeneration
               m == mark[c][f]
               a == Len(appended[f])
               o == Len(OnItsWay(f))
    <3>3. /\ x \in Nat /\ y \in Nat /\ m \in Nat /\ a \in Nat /\ o \in Nat
          /\ y >= x /\ (x <= y => m + o <= a)
      BY <2>2, <3>1, <3>2
    <3> HIDE DEF x, y, m, a, o
    <3>4. a - o >= m
      BY ONLY <3>3
    <3> QED BY <3>4 DEF a, o, m
  <2>3. LogComplete
    BY <2>1 DEF LogComplete
  <2>4. FlushedIsOnFile
    BY <2>2 DEF FlushedIsOnFile
  <2> QED BY <2>3, <2>4 DEF LogFaithful
<1>2. LogInit => LogInv /\ DeliveryInv
  BY LogInductive, DeliveryStarts
<1>3. LogInv /\ DeliveryInv /\ [LogNext]_logVars => (LogInv /\ DeliveryInv)'
  BY LogInductive, DeliveryKept DEF LogInv
<1> QED BY <1>1, <1>2, <1>3, PTL DEF LogSpec, LogInv

=============================================================================
