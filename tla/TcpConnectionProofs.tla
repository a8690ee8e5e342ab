-------------------------- MODULE TcpConnectionProofs --------------------------
(***************************************************************************)
(* Theorems about TcpConnection, for any set of client threads and any     *)
(* bounds on their calls.                                                  *)
(***************************************************************************)
EXTENDS TcpConnection, SequenceTheorems, TLAPS

-----------------------------------------------------------------------------
(* Sequences.                                                              *)

\* Where the elements of an appended, a shortened and a joined sequence come from.
LEMMA AppendedAt ==
  ASSUME NEW S, NEW q \in Seq(S), NEW e \in S
  PROVE  /\ q \o <<e>> \in Seq(S) /\ Len(q \o <<e>>) = Len(q) + 1
         /\ (q \o <<e>>)[Len(q) + 1] = e
         /\ \A i \in 1..Len(q) : (q \o <<e>>)[i] = q[i]
OBVIOUS

\* The head and the rest of a queue that is not empty (do_pending_functors).
LEMMA TailAt ==
  ASSUME NEW S, NEW q \in Seq(S), q # << >>
  PROVE  /\ Head(q) = q[1] /\ Head(q) \in S /\ 1 \in 1..Len(q) /\ Len(q) \in Nat
         /\ Tail(q) \in Seq(S) /\ Len(Tail(q)) = Len(q) - 1
         /\ \A i \in 1..Len(Tail(q)) : i + 1 \in 1..Len(q) /\ Tail(q)[i] = q[i + 1]
OBVIOUS

\* A sequence is cut into two pieces and joined again.
LEMMA CutAndJoin ==
  ASSUME NEW S, NEW q \in Seq(S), NEW n \in 0..Len(q)
  PROVE  /\ SubSeq(q, 1, n) \in Seq(S) /\ SubSeq(q, n + 1, Len(q)) \in Seq(S)
         /\ SubSeq(q, 1, n) \o SubSeq(q, n + 1, Len(q)) = q
         /\ n = Len(q) <=> SubSeq(q, n + 1, Len(q)) = << >>
         /\ n = 0 => SubSeq(q, 1, n) = << >> /\ SubSeq(q, n + 1, Len(q)) = q
<1>1. /\ SubSeq(q, 1, n) \in Seq(S) /\ SubSeq(q, n + 1, Len(q)) \in Seq(S)
      /\ Len(SubSeq(q, n + 1, Len(q))) = Len(q) - n
  <2>1. Len(q) \in Nat /\ n \in Nat /\ \A i \in 1..Len(q) : q[i] \in S
    OBVIOUS
  <2>2. \A i \in 1..n : q[i] \in S
    BY <2>1
  <2>3. \A i \in n + 1..Len(q) : q[i] \in S
    BY <2>1
  <2> QED BY <2>1, <2>2, <2>3, SubSeqProperties
<1>2. SubSeq(q, 1, n) \o SubSeq(q, n + 1, Len(q)) = SubSeq(q, 1, Len(q))
  <2>1. 1 \in 1..Len(q) + 1 /\ n \in (1 - 1)..Len(q) /\ Len(q) \in n..Len(q)
    OBVIOUS
  <2> QED BY <2>1, ConcatAdjacentSubSeq
<1>3. SubSeq(q, 1, Len(q)) = q
  BY SubSeqFull
<1>4. SubSeq(q, 1, 0) = << >>
  BY SubSeqEmpty
<1> DEFINE rest == SubSeq(q, n + 1, Len(q))
<1>5. n = Len(q) <=> rest = << >>
  <2>1. rest \in Seq(S) /\ Len(rest) = Len(q) - n /\ Len(q) \in Nat /\ n \in Nat
    BY <1>1
  <2> HIDE DEF rest
  <2> QED BY <2>1
<1>6. n = 0 => SubSeq(q, 1, n) = << >> /\ rest = q
  BY <1>3, <1>4
<1> QED BY <1>1, <1>2, <1>3, <1>5, <1>6

\* Joining is associative: how the wire and the buffer grow.
LEMMA Assoc ==
  \A a, b, c \in Seq(Message) : (a \o b) \o c = a \o (b \o c)
OBVIOUS

\* Joining with an empty buffer.
LEMMA JoinEmpty ==
  ASSUME NEW S, NEW a \in Seq(S)
  PROVE  a \o << >> = a /\ << >> \o a = a
OBVIOUS

-----------------------------------------------------------------------------
(* Type correctness.                                                       *)

\* A client that is about to post a message has counted it.
TypeInv == TypeOK /\ \A t \in Clients : cpc[t] = "send" => sent[t] > 0

\* Op(o) is a functor for every operation but send.
LEMMA OpIsFunctor == \A o \in Ops \ {"send"} : Op(o) \in Functor /\ Op(o).op = o
BY DEF Op, Functor, Ops

\* The two units of a message.
LEMMA UnitsType ==
  \A m \in Message : UnitsOf(m) \in Seq(Message) /\ Len(UnitsOf(m)) = 2 /\ UnitsOf(m) # << >>
BY DEF UnitsOf

\* Channel::update leaves the poller with the channel's events.
LEMMA UpdateType ==
  ASSUME events \subseteq {"read", "write"}, polled \subseteq events,
         NEW evs \in SUBSET {"read", "write"}, Update(evs) \/ UNCHANGED chan
  PROVE  events' \subseteq {"read", "write"} /\ polled' \subseteq events'
<1>1. CASE Update(evs)
  BY <1>1 DEF Update
<1>2. CASE UNCHANGED chan
  BY <1>2 DEF chan
<1> QED BY <1>1, <1>2

\* What send_raw_in_loop leaves: nothing, or the units split between the wire
\* and the buffer.
LEMMA BufferedType ==
  ASSUME TypeInv, NEW m \in Message, NEW n \in 0..Len(UnitsOf(m)), Buffered(UnitsOf(m), n)
  PROVE  /\ wire' \in Seq(Message) /\ output' \in Seq(Message) /\ accepted' \in Seq(Message)
         /\ events' \subseteq {"read", "write"} /\ polled' \subseteq events'
<1> DEFINE u == UnitsOf(m)
           rest == SubSeq(u, n + 1, Len(u))
           first == SubSeq(u, 1, n)
<1>1. u \in Seq(Message) /\ n \in 0..Len(u)
  BY UnitsType
<1>2. rest \in Seq(Message) /\ first \in Seq(Message)
  BY <1>1, CutAndJoin
<1>3. /\ wire' = wire \o first /\ accepted' = accepted \o u /\ output' = output \o rest
      /\ IF rest # << >> /\ ~Writing THEN Update(events \cup {"write"}) ELSE UNCHANGED chan
  BY DEF Buffered
<1> HIDE DEF u, rest, first
<1>4. events \subseteq {"read", "write"} /\ polled \subseteq events
      /\ output \in Seq(Message) /\ wire \in Seq(Message) /\ accepted \in Seq(Message)
  BY DEF TypeInv, TypeOK
<1>5. Update(events \cup {"write"}) \/ UNCHANGED chan
  BY <1>3
<1>6. events \cup {"write"} \in SUBSET {"read", "write"}
  BY <1>4
<1>7. events' \subseteq {"read", "write"} /\ polled' \subseteq events'
  BY <1>4, <1>5, <1>6, UpdateType
<1>8. wire' \in Seq(Message) /\ output' \in Seq(Message) /\ accepted' \in Seq(Message)
  BY <1>1, <1>2, <1>3, <1>4
<1> QED BY <1>7, <1>8

\* send_raw_in_loop keeps the types.
LEMMA SendType ==
  ASSUME TypeInv, NEW m \in Message, SendInLoop(m)
  PROVE  /\ wire' \in Seq(Message) /\ output' \in Seq(Message) /\ accepted' \in Seq(Message)
         /\ events' \subseteq {"read", "write"} /\ polled' \subseteq events'
         /\ UNCHANGED <<state, reading, fin, pending, ups, downs, closes, late, revived, owner>>
<1>1. UNCHANGED <<state, reading, fin, pending, ups, downs, closes, late, revived, owner>>
  BY DEF SendInLoop, callbacks
<1>2. CASE UNCHANGED <<output, wire, accepted, chan>>
  BY <1>1, <1>2 DEF TypeInv, TypeOK, chan
<1>3. CASE Buffered(UnitsOf(m), 0)
  <2>1. 0 \in 0..Len(UnitsOf(m))
    BY UnitsType
  <2> QED BY <1>1, <1>3, <2>1, BufferedType
<1>4. CASE \E n \in Written(UnitsOf(m)) : Buffered(UnitsOf(m), n)
  <2>1. PICK n \in 0..Len(UnitsOf(m)) : Buffered(UnitsOf(m), n)
    BY <1>4 DEF Written
  <2> QED BY <1>1, <2>1, BufferedType
<1> QED BY <1>2, <1>3, <1>4 DEF SendInLoop

\* Each action of the loop, its users, the owner and the peer keeps the types.
LEMMA TypeInductive == TypeInv /\ [Next]_vars => TypeInv'
<1> SUFFICES ASSUME TypeInv, [Next]_vars PROVE TypeInv'
  OBVIOUS
<1> USE DEF TypeInv, TypeOK, chan, io, peer, users, callbacks
<1>post. ASSUME NEW f \in Functor, Post(<<f>>) PROVE pending' \in Seq(Functor)
  BY <1>post, AppendedAt DEF Post
<1>op. \A o \in Ops \ {"send"} : Op(o) \in Functor
  BY OpIsFunctor
<1>ch. events \subseteq {"read", "write"} /\ polled \subseteq events
  OBVIOUS
<1>hc. ASSUME HandleClose
       PROVE  /\ state' \in States /\ events' \subseteq {"read", "write"} /\ polled' \subseteq events'
              /\ downs' \in Nat /\ closes' \in Nat /\ owner' \in {"holds", "removing", "released"}
  <2>1. Update({}) \/ UNCHANGED chan
    BY <1>hc DEF HandleClose
  <2>2. events' \subseteq {"read", "write"} /\ polled' \subseteq events'
    <3>1. {} \in SUBSET {"read", "write"}
      OBVIOUS
    <3> QED BY <1>ch, <2>1, <3>1, UpdateType
  <2>3. state' \in States /\ owner' \in {"holds", "removing", "released"}
    BY <1>hc DEF HandleClose, States
  <2>4. downs' \in Nat /\ closes' \in Nat
    BY <1>hc DEF HandleClose
  <2> QED BY <2>2, <2>3, <2>4
<1>sr. ASSUME StartReadInLoop \/ StopReadInLoop
       PROVE  /\ reading' \in BOOLEAN /\ events' \subseteq {"read", "write"} /\ polled' \subseteq events'
              /\ late' \in BOOLEAN
              /\ UNCHANGED <<state, output, wire, fin, accepted, pending, ups, downs, closes, revived, owner>>
  BY <1>sr DEF StartReadInLoop, StopReadInLoop, Update
<1>de. ASSUME Destroy
       PROVE  /\ state' \in States /\ events' \subseteq {"read", "write"} /\ polled' \subseteq events'
              /\ downs' \in Nat
              /\ UNCHANGED <<reading, output, wire, fin, accepted, pending, ups, closes, late, revived>>
  <2>1. polled' = {} /\ (events' = events \/ events' = {})
    BY <1>de DEF Destroy
  <2>2. events' \subseteq {"read", "write"} /\ polled' \subseteq events'
    BY <1>ch, <2>1
  <2>3. state' \in States /\ downs' \in Nat
    BY <1>de DEF Destroy, States
  <2>4. UNCHANGED <<reading, output, wire, fin, accepted, pending, ups, closes, late, revived>>
    BY <1>de DEF Destroy
  <2> QED BY <2>2, <2>3, <2>4
<1>1. CASE Poll
  <2>1. Ready \subseteq {"close", "read", "write"}
    BY DEF Ready
  <2> QED BY <1>1, <2>1 DEF Poll
<1>2. CASE HandleCloseEvent
  BY <1>2, <1>hc DEF HandleCloseEvent
<1>3. CASE HandleReadData \/ HandleFails \/ HandleWriteNothing
  <2>1. CASE HandleReadData
    <3>1. inbox' \in BOOLEAN
      BY <2>1, Zenon DEF HandleReadData
    <3> QED BY <2>1, <3>1 DEF HandleReadData
  <2>2. CASE HandleFails
    BY <2>2 DEF HandleFails
  <2>3. CASE HandleWriteNothing
    BY <2>3 DEF HandleWriteNothing
  <2> QED BY <1>3, <2>1, <2>2, <2>3
<1>4. CASE HandleReadEnd
  BY <1>4, <1>hc DEF HandleReadEnd
<1>5. CASE HandleWrite
  <2>1. PICK n \in 1..Len(output) :
          /\ wire' = wire \o SubSeq(output, 1, n)
          /\ output' = SubSeq(output, n + 1, Len(output))
          /\ IF n = Len(output)
             THEN /\ Update(events \ {"write"})
                  /\ IF state = "disconnecting" THEN ShutdownInLoop(FALSE) ELSE UNCHANGED fin
             ELSE UNCHANGED <<chan, fin>>
    BY <1>5 DEF HandleWrite
  <2>2. SubSeq(output, 1, n) \in Seq(Message) /\ SubSeq(output, n + 1, Len(output)) \in Seq(Message)
    BY <2>1, CutAndJoin
  <2>3. wire' \in Seq(Message) /\ output' \in Seq(Message)
    BY <2>1, <2>2
  <2>4. fin' \in BOOLEAN /\ events' \subseteq {"read", "write"} /\ polled' \subseteq events'
    BY <2>1 DEF Update, ShutdownInLoop
  <2> QED BY <1>5, <2>3, <2>4 DEF HandleWrite
<1>6. CASE EventsDone \/ BatchDone
  <2>1. CASE EventsDone
    BY <2>1 DEF EventsDone
  <2>2. CASE BatchDone
    BY <2>2 DEF BatchDone
  <2> QED BY <1>6, <2>1, <2>2
<1>7. CASE RunFunctor
  <2> DEFINE f == Head(batch)
  <2>1. f \in Functor /\ Tail(batch) \in Seq(Functor)
    BY <1>7, TailAt DEF RunFunctor
  <2>2. UNCHANGED <<sock, inbox, peerDone, phase, revents, cpc, sent, readCtl, forces, promised>>
        /\ batch' \in Seq(Functor)
    BY <1>7, <2>1 DEF RunFunctor
  <2>3. f.op \in Ops
    BY <2>1 DEF Functor, Ops
  <2>4. CASE f.op = "establish"
    <3>1. Establish
      BY <1>7, <2>4 DEF RunFunctor
    <3>2. events \cup {"read"} \in SUBSET {"read", "write"} /\ Update(events \cup {"read"})
      BY <1>ch, <3>1 DEF Establish
    <3>3. events' \subseteq {"read", "write"} /\ polled' \subseteq events'
      BY <1>ch, <3>2, UpdateType
    <3>4. state' \in States /\ ups' \in Nat
          /\ UNCHANGED <<reading, output, wire, fin, accepted, pending, downs, closes, late, revived, owner>>
      BY <3>1 DEF Establish, States
    <3> QED BY <2>2, <3>3, <3>4
  <2>5. CASE f.op = "send"
    <3>1. f.m \in Message
      BY <2>1, <2>5 DEF Functor
    <3>2. SendInLoop(f.m)
      BY <1>7, <2>5 DEF RunFunctor
    <3>3. /\ wire' \in Seq(Message) /\ output' \in Seq(Message) /\ accepted' \in Seq(Message)
          /\ events' \subseteq {"read", "write"} /\ polled' \subseteq events'
          /\ UNCHANGED <<state, reading, fin, pending, ups, downs, closes, late, revived, owner>>
      BY <3>1, <3>2, SendType
    <3> QED BY <2>2, <3>3
  <2>6. CASE f.op = "shutdown"
    BY <1>7, <2>2, <2>6 DEF RunFunctor, ShutdownInLoop
  <2>7. CASE f.op = "forceClose"
    BY <1>7, <2>2, <2>7, <1>hc DEF RunFunctor
  <2>8. CASE f.op = "start" \/ f.op = "stop"
    <3>1. StartReadInLoop \/ StopReadInLoop
      BY <1>7, <2>8 DEF RunFunctor
    <3> QED BY <2>2, <3>1, <1>sr
  <2>9. CASE f.op = "destroy"
    <3>1. Destroy /\ UNCHANGED owner
      BY <1>7, <2>9 DEF RunFunctor
    <3> QED BY <2>2, <3>1, <1>de
  <2> QED BY <2>3, <2>4, <2>5, <2>6, <2>7, <2>8, <2>9 DEF Ops
<1>8. CASE LoopSend
  <2> DEFINE m == [by |-> "loop", n |-> sent["loop"] + 1]
  <2>1. m \in Message /\ sent' \in [Threads -> 0..MaxSends] /\ SendInLoop(m)
        /\ \A t \in Clients : sent'[t] = sent[t]
    BY ConnAssumption, <1>8 DEF LoopSend, MaySend, Message, Threads
  <2> HIDE DEF m
  <2>2. /\ wire' \in Seq(Message) /\ output' \in Seq(Message) /\ accepted' \in Seq(Message)
        /\ events' \subseteq {"read", "write"} /\ polled' \subseteq events'
        /\ UNCHANGED <<state, reading, fin, pending, ups, downs, closes, late, revived, owner>>
    BY <2>1, SendType
  <2>3. UNCHANGED <<sock, inbox, peerDone, batch, phase, revents, cpc, readCtl, forces, promised>>
    BY <1>8 DEF LoopSend
  <2> QED BY <2>1, <2>2, <2>3
<1>9. CASE LoopShutdown
  <2>1. SentBy("loop") \subseteq Message
    BY ConnAssumption DEF SentBy, Message, Threads
  <2> QED BY <1>9, <2>1 DEF LoopShutdown, ShutdownInLoop, States
<1>10. CASE LoopForceClose
  <2>1. pending' \in Seq(Functor)
    BY <1>10, <1>op, <1>post DEF LoopForceClose, Ops
  <2> QED BY <1>10, <2>1, ConnAssumption DEF LoopForceClose, States
<1>11. CASE LoopReadCtl
  BY <1>11, <1>sr, ConnAssumption DEF LoopReadCtl, MayControl
<1>12. ASSUME NEW t \in Clients, ClientStep(t) PROVE TypeInv'
  <2>1. CASE ClientSend(t)
    BY <2>1, ConnAssumption DEF ClientSend, MaySend, Threads
  <2>2. CASE ClientShutdown(t)
    <3>1. SentBy(t) \subseteq Message
      BY ConnAssumption DEF SentBy, Message, Threads
    <3> QED BY <2>2, <3>1 DEF ClientShutdown, States
  <2>3. CASE ClientPost(t)
    <3> DEFINE f == IF cpc[t] = "send" THEN [op |-> "send", m |-> [by |-> t, n |-> sent[t]]]
                    ELSE Op(IF cpc[t] = "shutdown" THEN "shutdown" ELSE "forceClose")
    <3>1. f \in Functor
      <4>1. CASE cpc[t] = "send"
        <5>1. [by |-> t, n |-> sent[t]] \in Message
          BY ConnAssumption, <4>1 DEF Message, Threads
        <5> QED BY <4>1, <5>1 DEF Functor
      <4>2. CASE cpc[t] # "send"
        BY <4>2, <1>op DEF Ops
      <4> QED BY <4>1, <4>2
    <3>2. Post(<<f>>)
      BY <2>3 DEF ClientPost
    <3>3. pending' \in Seq(Functor)
      BY <3>1, <3>2, <1>post
    <3> QED BY <2>3, <3>3 DEF ClientPost
  <2>4. CASE ClientReadCtl(t)
    <3>1. pending' \in Seq(Functor)
      BY <2>4, <1>op, <1>post DEF ClientReadCtl, Ops
    <3> QED BY <2>4, <3>1, ConnAssumption DEF ClientReadCtl, MayControl
  <2>5. CASE ClientForceTest(t)
    BY <2>5, ConnAssumption DEF ClientForceTest
  <2>6. CASE ClientForceStore(t)
    BY <2>6 DEF ClientForceStore, States
  <2> QED BY <1>12, <2>1, <2>2, <2>3, <2>4, <2>5, <2>6 DEF ClientStep
<1>13. CASE OwnerRemoves
  <2>1. pending' \in Seq(Functor)
    BY <1>13, <1>op, <1>post DEF OwnerRemoves, Ops
  <2> QED BY <1>13, <2>1 DEF OwnerRemoves
<1>14. CASE OwnerDestroys
  BY <1>14, <1>de DEF OwnerDestroys
<1>15. CASE PeerSends \/ PeerCloses \/ PeerResets
  <2>1. inbox' \in BOOLEAN /\ peerDone' \in BOOLEAN
    <3>1. CASE PeerSends
      BY <3>1, Zenon DEF PeerSends
    <3>2. CASE PeerCloses
      BY <3>2, Zenon DEF PeerCloses
    <3>3. CASE PeerResets
      BY <3>3, Zenon DEF PeerResets
    <3> QED BY <1>15, <3>1, <3>2, <3>3
  <2> QED BY <1>15, <2>1 DEF PeerSends, PeerCloses, PeerResets
<1>16. CASE UNCHANGED vars
  BY <1>16 DEF vars
<1> QED
  BY <1>1, <1>2, <1>3, <1>4, <1>5, <1>6, <1>7, <1>8, <1>9, <1>10, <1>11, <1>12, <1>13,
     <1>14, <1>15, <1>16
  DEF Next, Handlers, LoopUser

\* The types hold when the server has just made the connection.
LEMMA TypeInitially == Init => TypeInv
<1> SUFFICES ASSUME Init PROVE TypeInv
  OBVIOUS
<1>1. Op("establish") \in Functor
  BY OpIsFunctor DEF Ops
<1>2. pending \in Seq(Functor)
  BY <1>1 DEF Init, Op
<1>3. << >> \in Seq(Message) /\ << >> \in Seq(Functor)
  OBVIOUS
<1>4. /\ reading \in BOOLEAN /\ fin \in BOOLEAN /\ inbox \in BOOLEAN /\ peerDone \in BOOLEAN
      /\ late \in BOOLEAN /\ revived \in BOOLEAN
  BY Zenon DEF Init
<1>5. /\ cpc \in [Clients -> {"idle", "send", "shutdown", "force1", "force2"}]
      /\ \A t \in Clients : cpc[t] # "send"
      /\ sent \in [Threads -> 0..MaxSends] /\ readCtl \in 0..MaxReadCtl /\ forces \in 0..MaxForces
  BY ConnAssumption DEF Init
<1> QED BY <1>2, <1>3, <1>4, <1>5 DEF Init, TypeInv, TypeOK, States

\* The variables of TcpConnection, its channel and its registration keep their
\* types, and the poller never has an event the channel does not ask for
\* (Channel::update, Poller::update_channel).
THEOREM ConnectionTypeCorrect == Spec => []TypeOK
<1>1. TypeInv => TypeOK
  BY DEF TypeInv
<1> QED BY <1>1, TypeInitially, TypeInductive, PTL DEF Spec

-----------------------------------------------------------------------------
(* The invariants.                                                         *)

(***************************************************************************)
(* OneLife is about the counters only.  Inductively: connect_established   *)
(* is posted once and run once; before it nothing happens to the           *)
(* connection but that its owner may let go of it, so nobody is inside a   *)
(* call and nothing else is queued; after it the state is never            *)
(* "connecting" again; and "disconnected" is entered once, from a state in *)
(* which neither callback has been called.                                 *)
(***************************************************************************)
EstablishOnce ==
  /\ \A i \in 1..Len(pending) : pending[i].op = "establish" => i = 1 /\ batch = << >> /\ ups = 0
  /\ \A i \in 1..Len(batch) :
       batch[i].op = "establish" =>
         i = 1 /\ ups = 0 /\ \A j \in 1..Len(pending) : pending[j].op # "establish"

NotYetUp ==
  /\ ups \in {0, 1} /\ (ups = 0 <=> state = "connecting")
  /\ ups = 0 =>
       /\ events = {} /\ revents = {} /\ ~revived
       /\ \A t \in Clients : cpc[t] = "idle"
       /\ \A i \in 1..Len(pending) : pending[i].op \in {"establish", "destroy"}
       /\ \A i \in 1..Len(batch) : batch[i].op \in {"establish", "destroy"}

DownOnce ==
  ~revived =>
    /\ downs \in {0, 1} /\ closes <= downs
    /\ state # "disconnected" => downs = 0

LifeInv == EstablishOnce /\ NotYetUp /\ DownOnce

\* What is posted is never a second connect_established, and before the first
\* has run only the owner posts.
LEMMA PostKeepsLife ==
  ASSUME TypeInv, EstablishOnce, NotYetUp,
         NEW f \in Functor, Post(<<f>>), f.op # "establish", ups = 0 => f.op = "destroy",
         UNCHANGED <<batch, ups>>
  PROVE  /\ EstablishOnce'
         /\ ups = 0 => \A i \in 1..Len(pending') : pending'[i].op \in {"establish", "destroy"}
<1>1. pending \in Seq(Functor) /\ pending' = pending \o <<f>>
  BY DEF TypeInv, TypeOK, Post
<1>2. /\ Len(pending') = Len(pending) + 1 /\ pending'[Len(pending) + 1] = f
      /\ \A i \in 1..Len(pending) : pending'[i] = pending[i]
  BY <1>1, AppendedAt
<1>3. Len(pending) \in Nat
  BY <1>1
<1>4. \A i \in 1..Len(pending') : i \in 1..Len(pending) \/ pending'[i] = f
  BY <1>2, <1>3
<1>5. ASSUME NEW i \in 1..Len(pending'), pending'[i].op = "establish"
      PROVE  i \in 1..Len(pending) /\ pending[i].op = "establish"
  BY <1>2, <1>4, <1>5
<1>6. EstablishOnce'
  BY <1>5 DEF EstablishOnce
<1>7. ASSUME ups = 0, NEW i \in 1..Len(pending')
      PROVE  pending'[i].op \in {"establish", "destroy"}
  BY <1>2, <1>4, <1>7 DEF NotYetUp
<1> QED BY <1>6, <1>7

\* Every step keeps LifeInv.
LEMMA LifeInductive == TypeInv /\ LifeInv /\ [Next]_vars => LifeInv'
<1> SUFFICES ASSUME TypeInv, EstablishOnce, NotYetUp, DownOnce, [Next]_vars PROVE LifeInv'
  BY DEF LifeInv
<1> USE DEF LifeInv, chan, io, peer, users, callbacks
<1>ty. /\ state \in States /\ pending \in Seq(Functor) /\ batch \in Seq(Functor)
       /\ downs \in Nat /\ closes \in Nat /\ cpc \in [Clients -> {"idle", "send", "shutdown", "force1", "force2"}]
       /\ polled \subseteq events
  BY DEF TypeInv, TypeOK
<1>op. \A o \in Ops \ {"send"} : Op(o) \in Functor /\ Op(o).op = o
  BY OpIsFunctor
<1>up. ASSUME state # "connecting" PROVE ups = 1
  BY <1>up DEF NotYetUp
<1>rest. ASSUME UNCHANGED <<pending, batch, ups>>, ups = 1, state' # "connecting", DownOnce'
         PROVE  LifeInv'
  <2>1. EstablishOnce'
    BY <1>rest DEF EstablishOnce
  <2>2. NotYetUp'
    BY <1>rest DEF NotYetUp
  <2> QED BY <1>rest, <2>1, <2>2
<1>hc. ASSUME HandleClose, UNCHANGED revived PROVE DownOnce'
  BY <1>hc, <1>ty DEF HandleClose, DownOnce
<1>de. ASSUME Destroy PROVE DownOnce'
  BY <1>de, <1>ty DEF Destroy, DownOnce
<1>1. CASE Poll
  <2>1. ups = 0 => Ready = {}
    BY <1>ty DEF NotYetUp, Ready
  <2>2. NotYetUp'
    BY <1>1, <2>1 DEF Poll, NotYetUp
  <2> QED BY <1>1, <2>2 DEF Poll, EstablishOnce, DownOnce
<1>2. CASE HandleCloseEvent \/ HandleReadEnd
  <2>1. ups = 1 /\ state # "connecting"
    BY <1>2 DEF HandleCloseEvent, HandleReadEnd, NotYetUp
  <2>2. UNCHANGED <<pending, batch, ups, revived>> /\ (HandleClose \/ UNCHANGED <<state, downs, closes>>)
    BY <1>2 DEF HandleCloseEvent, HandleReadEnd
  <2>3. state' # "connecting"
    BY <2>1, <2>2 DEF HandleClose
  <2>4. DownOnce'
    BY <2>2, <1>hc DEF DownOnce
  <2> QED BY <2>1, <2>2, <2>3, <2>4, <1>rest
<1>3. CASE HandleReadData \/ HandleFails \/ HandleWrite \/ HandleWriteNothing
  <2>1. ups = 1 /\ state # "connecting"
    BY <1>3 DEF HandleReadData, HandleFails, HandleWrite, HandleWriteNothing, NotYetUp
  <2>2. UNCHANGED <<state, pending, batch, ups, downs, closes, revived>>
    BY <1>3 DEF HandleReadData, HandleFails, HandleWrite, HandleWriteNothing
  <2> QED BY <2>1, <2>2, <1>rest DEF DownOnce
<1>4. CASE EventsDone
  <2>1. EstablishOnce'
    BY <1>4 DEF EventsDone, EstablishOnce
  <2>2. NotYetUp'
    BY <1>4 DEF EventsDone, NotYetUp
  <2> QED BY <1>4, <2>1, <2>2 DEF EventsDone, DownOnce
<1>5. CASE BatchDone \/ PeerSends \/ PeerCloses \/ PeerResets \/ UNCHANGED vars
  <2>1. UNCHANGED <<state, events, revents, cpc, pending, batch, ups, downs, closes, revived>>
    BY <1>5 DEF BatchDone, PeerSends, PeerCloses, PeerResets, vars
  <2> QED BY <2>1 DEF EstablishOnce, NotYetUp, DownOnce
<1>6. CASE RunFunctor
  <2> DEFINE f == Head(batch)
  <2>1. /\ f \in Functor /\ f = batch[1] /\ 1 \in 1..Len(batch) /\ batch # << >>
        /\ \A i \in 1..Len(Tail(batch)) : i + 1 \in 1..Len(batch) /\ Tail(batch)[i] = batch[i + 1]
    BY <1>6, <1>ty, TailAt DEF RunFunctor
  <2>3. f.op \in Ops
    BY <2>1 DEF Functor, Ops
  <2>2. UNCHANGED <<pending, revents, cpc>> /\ batch' = Tail(batch)
    <3>1. UNCHANGED <<revents, cpc>> /\ batch' = Tail(batch)
      BY <1>6 DEF RunFunctor
    <3>2. CASE f.op \in {"establish", "send", "shutdown", "forceClose"}
      BY <1>6, <3>1, <3>2 DEF RunFunctor, Establish, SendInLoop
    <3>3. CASE f.op \in {"start", "stop", "destroy"}
      BY <1>6, <3>1, <3>3 DEF RunFunctor, StartReadInLoop, StopReadInLoop, Destroy
    <3> QED BY <2>3, <3>1, <3>2, <3>3 DEF Ops
  <2>4. /\ \A i \in 1..Len(pending') : pending'[i].op # "establish"
        /\ \A i \in 1..Len(batch') : batch'[i].op # "establish"
    <3>1. ASSUME NEW i \in 1..Len(Tail(batch)) PROVE Tail(batch)[i].op # "establish"
      BY <2>1 DEF EstablishOnce
    <3> QED BY <2>1, <2>2, <3>1 DEF EstablishOnce
  <2>5. EstablishOnce'
    BY <2>4 DEF EstablishOnce
  <2>6. ups = 0 => \A i \in 1..Len(batch') : batch'[i].op \in {"establish", "destroy"}
    BY <2>1, <2>2 DEF NotYetUp
  <2>7. ups = 0 => f.op \in {"establish", "destroy"}
    BY <2>1 DEF NotYetUp
  <2>8. CASE f.op = "establish"
    <3>1. Establish /\ ups = 0
      BY <1>6, <2>1, <2>8 DEF RunFunctor, EstablishOnce
    <3> QED BY <2>5, <3>1 DEF Establish, NotYetUp, DownOnce
  <2>9. CASE f.op = "destroy"
    <3>1. Destroy /\ UNCHANGED <<ups, revived>>
      BY <1>6, <2>9 DEF RunFunctor, Destroy
    <3>2. NotYetUp'
      BY <2>2, <2>6, <3>1 DEF Destroy, NotYetUp
    <3> QED BY <2>5, <3>1, <3>2, <1>de
  <2>10. CASE f.op = "forceClose"
    <3>1. HandleClose /\ UNCHANGED <<ups, revived>> /\ ups = 1 /\ state # "connecting"
      BY <1>6, <2>7, <2>10 DEF RunFunctor, NotYetUp
    <3>2. NotYetUp'
      BY <3>1 DEF HandleClose, NotYetUp
    <3> QED BY <2>5, <3>1, <3>2, <1>hc
  <2>11. CASE f.op \in {"send", "shutdown", "start", "stop"}
    <3>1. ups = 1 /\ state # "connecting"
      BY <2>7, <2>11 DEF NotYetUp
    <3>2. UNCHANGED <<state, ups, downs, closes, revived>>
      BY <1>6, <2>11 DEF RunFunctor, SendInLoop, StartReadInLoop, StopReadInLoop
    <3>3. NotYetUp' /\ DownOnce'
      BY <3>1, <3>2 DEF NotYetUp, DownOnce
    <3> QED BY <2>5, <3>3
  <2> QED BY <2>3, <2>8, <2>9, <2>10, <2>11 DEF Ops
<1>7. CASE LoopSend \/ LoopShutdown
  <2>1. ups = 1
    BY <1>7, <1>up DEF LoopSend, LoopShutdown
  <2>2. UNCHANGED <<pending, batch, ups, downs, closes, revived>> /\ state = "connected"
        /\ state' \in {"connected", "disconnecting"}
    BY <1>7 DEF LoopSend, LoopShutdown, SendInLoop
  <2> QED BY <2>1, <2>2, <1>rest DEF DownOnce
<1>8. CASE LoopReadCtl
  <2>1. UNCHANGED <<state, pending, batch, ups, downs, closes, revived>> /\ ups > 0
    BY <1>8 DEF LoopReadCtl, StartReadInLoop, StopReadInLoop
  <2>2. ups = 1 /\ state # "connecting"
    BY <2>1 DEF NotYetUp
  <2> QED BY <2>1, <2>2, <1>rest DEF DownOnce
<1>9. CASE LoopForceClose
  <2>1. ups = 1 /\ UNCHANGED <<batch, ups, downs, closes, revived>>
        /\ state # "disconnected" /\ state' = "disconnecting"
    BY <1>9, <1>up DEF LoopForceClose
  <2>2. EstablishOnce'
    BY <1>9, <1>op, <2>1, PostKeepsLife DEF LoopForceClose, Ops
  <2> QED BY <2>1, <2>2 DEF NotYetUp, DownOnce
<1>10. ASSUME NEW t \in Clients, ClientStep(t) PROVE LifeInv'
  <2>0. ups = 1 /\ state # "connecting"
    <3>1. cpc[t] # "idle" => ups = 1
      BY <1>ty DEF NotYetUp
    <3>2. ups > 0 => ups = 1
      BY DEF NotYetUp
    <3> QED BY <1>10, <1>up, <3>1, <3>2 DEF ClientStep, ClientSend, ClientShutdown, ClientPost,
              ClientReadCtl, ClientForceTest, ClientForceStore, NotYetUp
  <2>1. CASE ClientSend(t) \/ ClientForceTest(t)
    <3>1. UNCHANGED <<state, pending, batch, ups, downs, closes, revived>>
      BY <2>1 DEF ClientSend, ClientForceTest
    <3> QED BY <2>0, <3>1, <1>rest DEF DownOnce
  <2>2. CASE ClientShutdown(t)
    BY <2>0, <2>2, <1>rest DEF ClientShutdown, DownOnce
  <2>3. CASE ClientPost(t) \/ ClientReadCtl(t)
    <3>1. PICK f \in Functor : Post(<<f>>) /\ f.op # "establish"
      <4>1. CASE ClientReadCtl(t)
        BY <4>1, <1>op DEF ClientReadCtl, Ops
      <4>2. CASE ClientPost(t) /\ cpc[t] = "send"
        <5>1. [by |-> t, n |-> sent[t]] \in Message
          BY <4>2, ConnAssumption DEF TypeInv, TypeOK, Message, Threads
        <5>2. [op |-> "send", m |-> [by |-> t, n |-> sent[t]]] \in Functor
          BY <5>1 DEF Functor
        <5>3. Post(<<[op |-> "send", m |-> [by |-> t, n |-> sent[t]]]>>)
          BY <4>2 DEF ClientPost
        <5> QED BY <5>2, <5>3
      <4>3. CASE ClientPost(t) /\ cpc[t] # "send"
        BY <4>3, <1>op DEF ClientPost, Ops
      <4> QED BY <2>3, <4>1, <4>2, <4>3
    <3>2. UNCHANGED <<state, batch, ups, downs, closes, revived>>
      BY <2>3 DEF ClientPost, ClientReadCtl
    <3>3. EstablishOnce'
      BY <2>0, <3>1, <3>2, PostKeepsLife
    <3> QED BY <2>0, <3>2, <3>3 DEF NotYetUp, DownOnce
  <2>4. CASE ClientForceStore(t)
    <3>1. UNCHANGED <<pending, batch, ups, downs, closes>> /\ state' = "disconnecting"
          /\ revived' = (revived \/ state = "disconnected")
      BY <2>4 DEF ClientForceStore
    <3>2. DownOnce'
      BY <3>1 DEF DownOnce
    <3> QED BY <2>0, <3>1, <3>2, <1>rest
  <2> QED BY <1>10, <2>1, <2>2, <2>3, <2>4 DEF ClientStep
<1>11. CASE OwnerRemoves
  <2>1. Post(<<Op("destroy")>>) /\ UNCHANGED <<state, events, revents, cpc, batch, ups, downs, closes, revived>>
    BY <1>11 DEF OwnerRemoves
  <2>2. /\ EstablishOnce'
        /\ ups = 0 => \A i \in 1..Len(pending') : pending'[i].op \in {"establish", "destroy"}
    BY <1>op, <2>1, PostKeepsLife DEF Ops
  <2> QED BY <2>1, <2>2 DEF NotYetUp, DownOnce
<1>12. CASE OwnerDestroys
  <2>1. Destroy /\ ups > 0 /\ UNCHANGED <<pending, batch, ups>>
    BY <1>12 DEF OwnerDestroys, Destroy
  <2>2. ups = 1 /\ state # "connecting"
    BY <2>1 DEF NotYetUp
  <2>3. state' # "connecting"
    BY <2>1, <2>2 DEF Destroy
  <2> QED BY <2>1, <2>2, <2>3, <1>rest, <1>de
<1> QED
  BY <1>1, <1>2, <1>3, <1>4, <1>5, <1>6, <1>7, <1>8, <1>9, <1>10, <1>11, <1>12
  DEF Next, Handlers, LoopUser

\* At first connect_established is all there is.
LEMMA LifeInitially == Init => LifeInv
<1> SUFFICES ASSUME Init PROVE LifeInv
  OBVIOUS
<1>1. Len(pending) = 1 /\ pending[1].op = "establish" /\ Len(batch) = 0 /\ batch = << >>
  BY DEF Init
<1>2. EstablishOnce
  BY <1>1 DEF Init, EstablishOnce
<1>3. NotYetUp
  BY <1>1 DEF Init, NotYetUp
<1> QED BY <1>2, <1>3 DEF Init, LifeInv, DownOnce

-----------------------------------------------------------------------------
(* The bytes on the wire.                                                  *)

\* send_raw_in_loop appends behind everything accepted before, whether it
\* writes at once or into the buffer.
LEMMA SendKeepsOrder ==
  ASSUME TypeInv, WireInOrder, NEW m \in Message, SendInLoop(m)
  PROVE  WireInOrder'
<1> USE DEF WireInOrder
<1> DEFINE u == UnitsOf(m)
<1>1. u \in Seq(Message) /\ Len(u) = 2
  BY UnitsType
<1>2. wire \in Seq(Message) /\ output \in Seq(Message)
  BY DEF TypeInv, TypeOK
<1>3. CASE UNCHANGED <<output, wire, accepted, chan>>
  BY <1>3
<1>4. ASSUME NEW n \in 0..Len(u), Buffered(u, n), n = 0 \/ output = << >>
      PROVE  wire' \o output' = accepted'
  <2> DEFINE first == SubSeq(u, 1, n)
             rest == SubSeq(u, n + 1, Len(u))
  <2>1. wire' = wire \o first /\ output' = output \o rest /\ accepted' = (wire \o output) \o u
    BY <1>4 DEF Buffered
  <2>2. /\ first \in Seq(Message) /\ rest \in Seq(Message) /\ first \o rest = u
        /\ n = 0 => first = << >> /\ rest = u
    BY <1>1, CutAndJoin
  <2> HIDE DEF first, rest, u
  <2>3. CASE n = 0
    <3>1. wire' = wire /\ output' = output \o u
      BY <1>2, <2>1, <2>2, <2>3, JoinEmpty, Zenon
    <3>2. wire \o (output \o u) = (wire \o output) \o u
      BY <1>1, <1>2, Assoc, Zenon
    <3> QED BY <2>1, <3>1, <3>2, Zenon
  <2>4. CASE output = << >>
    <3>1. wire' \o output' = (wire \o first) \o rest
      BY <2>1, <2>2, <2>4, JoinEmpty
    <3>2. (wire \o first) \o rest = wire \o (first \o rest)
      BY <1>2, <2>2, Assoc, Zenon
    <3>3. accepted' = wire \o u
      BY <1>2, <2>1, <2>4, JoinEmpty
    <3> QED BY <2>2, <3>1, <3>2, <3>3
  <2> QED BY <1>4, <2>3, <2>4
<1>5. CASE Buffered(u, 0)
  <2>1. 0 \in 0..Len(u)
    BY <1>1
  <2> QED BY <1>4, <1>5, <2>1
<1>6. CASE output = << >> /\ \E n \in Written(u) : Buffered(u, n)
  <2>1. PICK n \in 0..Len(u) : Buffered(u, n)
    BY <1>6 DEF Written
  <2> QED BY <1>4, <1>6, <2>1
<1> QED BY <1>3, <1>5, <1>6 DEF SendInLoop

\* Every step keeps the order; only send_raw_in_loop and handle_write touch it.
LEMMA WireInductive == TypeInv /\ WireInOrder /\ [Next]_vars => WireInOrder'
<1> SUFFICES ASSUME TypeInv, WireInOrder, [Next]_vars PROVE WireInOrder'
  OBVIOUS
<1> USE DEF chan, io, peer, users, callbacks
<1>same. ASSUME UNCHANGED <<output, wire, accepted>> PROVE WireInOrder'
  BY <1>same DEF WireInOrder
<1>ty. wire \in Seq(Message) /\ output \in Seq(Message) /\ batch \in Seq(Functor)
  BY DEF TypeInv, TypeOK
<1>1. CASE HandleWrite
  <2>1. PICK n \in 1..Len(output) : /\ wire' = wire \o SubSeq(output, 1, n)
                                    /\ output' = SubSeq(output, n + 1, Len(output))
    BY <1>1 DEF HandleWrite
  <2> DEFINE first == SubSeq(output, 1, n)
             rest == SubSeq(output, n + 1, Len(output))
  <2>2. n \in 0..Len(output)
    OBVIOUS
  <2>3. first \in Seq(Message) /\ rest \in Seq(Message) /\ first \o rest = output
    BY <1>ty, <2>2, CutAndJoin
  <2>4. wire' = wire \o first /\ output' = rest
    BY <2>1
  <2> HIDE DEF first, rest
  <2>5. (wire \o first) \o rest = wire \o (first \o rest)
    BY <1>ty, <2>3, Assoc, Zenon
  <2>6. UNCHANGED accepted
    BY <1>1 DEF HandleWrite
  <2> QED BY <2>3, <2>4, <2>5, <2>6 DEF WireInOrder
<1>2. CASE LoopSend
  <2>1. [by |-> "loop", n |-> sent["loop"] + 1] \in Message
    BY <1>2, ConnAssumption DEF LoopSend, MaySend, Message, Threads, TypeInv, TypeOK
  <2> QED BY <1>2, <2>1, SendKeepsOrder DEF LoopSend
<1>3. CASE RunFunctor
  <2> DEFINE f == Head(batch)
  <2>1. f \in Functor /\ f.op \in Ops
    BY <1>3, <1>ty, TailAt DEF RunFunctor, Functor, Ops
  <2>2. CASE f.op = "send"
    <3>1. f.m \in Message /\ SendInLoop(f.m)
      BY <1>3, <2>1, <2>2 DEF RunFunctor, Functor
    <3> QED BY <3>1, SendKeepsOrder
  <2>3. CASE f.op \in {"establish", "shutdown", "forceClose"}
    BY <1>3, <2>3, <1>same DEF RunFunctor, Establish
  <2>4. CASE f.op \in {"start", "stop", "destroy"}
    BY <1>3, <2>4, <1>same DEF RunFunctor, StartReadInLoop, StopReadInLoop, Destroy
  <2> QED BY <2>1, <2>2, <2>3, <2>4 DEF Ops
<1>4. CASE Poll \/ HandleCloseEvent \/ HandleReadData \/ HandleReadEnd \/ HandleFails
           \/ HandleWriteNothing \/ EventsDone \/ BatchDone
  BY <1>4, <1>same DEF Poll, HandleCloseEvent, HandleReadData, HandleReadEnd, HandleFails,
                       HandleWriteNothing, EventsDone, BatchDone
<1>5. CASE LoopShutdown \/ LoopForceClose \/ LoopReadCtl \/ OwnerRemoves \/ OwnerDestroys
  BY <1>5, <1>same DEF LoopShutdown, LoopForceClose, LoopReadCtl, OwnerRemoves, OwnerDestroys,
                       StartReadInLoop, StopReadInLoop, Destroy
<1>6. CASE PeerSends \/ PeerCloses \/ PeerResets \/ UNCHANGED vars
  BY <1>6, <1>same DEF PeerSends, PeerCloses, PeerResets, vars
<1>7. ASSUME NEW t \in Clients, ClientStep(t) PROVE WireInOrder'
  BY <1>7, <1>same DEF ClientStep, ClientSend, ClientShutdown, ClientPost, ClientReadCtl,
                       ClientForceTest, ClientForceStore
<1> QED BY <1>1, <1>2, <1>3, <1>4, <1>5, <1>6, <1>7 DEF Next, Handlers, LoopUser

\* What the kernel has taken, followed by output_buffer_, is what was accepted,
\* in order (send_raw_in_loop against handle_write).
THEOREM WireStaysInOrder == Spec => []WireInOrder
<1>1. Init => WireInOrder
  BY DEF Init, WireInOrder
<1> QED BY <1>1, TypeInitially, TypeInductive, WireInductive, PTL DEF Spec

-----------------------------------------------------------------------------
(* FIN and the end of the connection.                                      *)

\* send_raw_in_loop turns writing on exactly when it leaves something behind,
\* and after FIN it leaves nothing.
LEMMA SendKeepsFin ==
  ASSUME TypeInv, FinAfterData, NEW m \in Message, SendInLoop(m)
  PROVE  FinAfterData'
<1> USE DEF callbacks, chan
<1> DEFINE u == UnitsOf(m)
           Fine == (fin => output = << >>) /\ (output # << >> <=> Writing)
<1>1. u \in Seq(Message) /\ Len(u) = 2 /\ u # << >>
  BY UnitsType
<1>2. UNCHANGED <<state, fin, revived>> /\ output \in Seq(Message)
  BY DEF SendInLoop, TypeInv, TypeOK
<1>3. state # "disconnected" /\ ~revived => Fine
  BY DEF FinAfterData
<1>4. CASE UNCHANGED <<output, wire, accepted, chan>>
  BY <1>2, <1>4 DEF FinAfterData, Writing
<1>5. CASE (Writing \/ output # << >>) /\ Buffered(u, 0)
  <2>1. SubSeq(u, 0 + 1, Len(u)) = u
    <3>1. 0 \in 0..Len(u)
      BY <1>1
    <3> QED BY <1>1, <3>1, CutAndJoin
  <2> HIDE DEF u
  <2>2. output' = output \o u /\ (IF u # << >> /\ ~Writing THEN Update(events \cup {"write"}) ELSE UNCHANGED chan)
    BY <1>5, <2>1 DEF Buffered
  <2>3. output' # << >>
    BY <1>1, <1>2, <2>2
  <2>4. Writing'
    BY <1>1, <2>2 DEF Writing, Update
  <2>5. Fine => ~fin
    BY <1>5
  <2> QED BY <1>2, <1>3, <2>3, <2>4, <2>5 DEF FinAfterData
<1>6. CASE ~Writing /\ output = << >> /\ \E n \in Written(u) : Buffered(u, n)
  <2>1. PICK n \in 0..Len(u) : Buffered(u, n) /\ ~fin
    BY <1>6 DEF Written
  <2> DEFINE rest == SubSeq(u, n + 1, Len(u))
  <2>2. rest \in Seq(Message)
    BY <1>1, CutAndJoin
  <2>3. output' = output \o rest
        /\ (IF rest # << >> /\ ~Writing THEN Update(events \cup {"write"}) ELSE UNCHANGED chan)
    BY <2>1 DEF Buffered
  <2> HIDE DEF u, rest
  <2>4. output' = rest
    BY <1>6, <2>2, <2>3, JoinEmpty
  <2>5. output' # << >> <=> Writing'
    BY <1>6, <2>3, <2>4 DEF Writing, Update
  <2> QED BY <1>2, <2>1, <2>5 DEF FinAfterData
<1> QED BY <1>4, <1>5, <1>6 DEF SendInLoop

\* Every step keeps FinAfterData.  LifeInv is needed for connect_established,
\* which is never run on a closed connection.
LEMMA FinInductive == TypeInv /\ LifeInv /\ FinAfterData /\ [Next]_vars => FinAfterData'
<1> SUFFICES ASSUME TypeInv, LifeInv, FinAfterData, [Next]_vars PROVE FinAfterData'
  OBVIOUS
<1> USE DEF chan, io, peer, users, callbacks
<1>same. ASSUME UNCHANGED <<state, events, output, fin, revived>> PROVE FinAfterData'
  BY <1>same DEF FinAfterData, Writing
<1>live. ASSUME state # "disconnected", UNCHANGED <<events, output, fin, revived>> PROVE FinAfterData'
  BY <1>live DEF FinAfterData, Writing
<1>hc. ASSUME HandleClose, UNCHANGED <<output, fin, revived>> PROVE FinAfterData'
  <2>1. CASE state = "disconnected"
    BY <1>hc, <2>1 DEF HandleClose, FinAfterData, Writing
  <2>2. CASE state # "disconnected"
    BY <1>hc, <2>2 DEF HandleClose, FinAfterData
  <2> QED BY <2>1, <2>2
<1>sr. ASSUME StartReadInLoop \/ StopReadInLoop PROVE FinAfterData'
  <2>1. UNCHANGED <<state, output, fin, revived>>
    BY <1>sr DEF StartReadInLoop, StopReadInLoop
  <2>2. Writing' <=> Writing
    BY <1>sr DEF StartReadInLoop, StopReadInLoop, Update, Writing
  <2> QED BY <2>1, <2>2 DEF FinAfterData
<1>sh. ASSUME state # "disconnected" \/ UNCHANGED state, ShutdownInLoop(Writing),
              UNCHANGED <<events, output, revived>>
       PROVE  FinAfterData'
  <2>1. state' # "disconnected" /\ ~revived' => state # "disconnected" /\ ~revived
    BY <1>sh
  <2> QED BY <1>sh, <2>1 DEF ShutdownInLoop, FinAfterData, Writing
<1>de. ASSUME Destroy PROVE FinAfterData'
  BY <1>de DEF Destroy, FinAfterData, Writing
<1>ty. output \in Seq(Message) /\ batch \in Seq(Functor)
  BY DEF TypeInv, TypeOK
<1>1. CASE HandleWrite
  <2>1. PICK n \in 1..Len(output) :
          /\ output' = SubSeq(output, n + 1, Len(output))
          /\ IF n = Len(output)
             THEN /\ Update(events \ {"write"})
                  /\ IF state = "disconnecting" THEN ShutdownInLoop(FALSE) ELSE UNCHANGED fin
             ELSE UNCHANGED <<chan, fin>>
    BY <1>1 DEF HandleWrite
  <2>2. UNCHANGED <<state, revived>> /\ Writing
    BY <1>1 DEF HandleWrite
  <2>3. output # << >>
    BY <1>ty, <2>1
  <2>4. n = Len(output) <=> output' = << >>
    <3>1. n \in 0..Len(output)
      BY <1>ty
    <3> QED BY <1>ty, <2>1, <3>1, CutAndJoin
  <2>5. CASE n = Len(output)
    <3>1. output' = << >> /\ ~Writing'
      BY <2>1, <2>4, <2>5 DEF Update, Writing
    <3> QED BY <3>1 DEF FinAfterData
  <2>6. CASE n # Len(output)
    <3>1. output' # << >> /\ UNCHANGED <<events, fin>>
      BY <2>1, <2>4, <2>6
    <3> QED BY <2>2, <2>3, <3>1 DEF FinAfterData, Writing
  <2> QED BY <2>5, <2>6
<1>2. CASE LoopSend
  <2>1. [by |-> "loop", n |-> sent["loop"] + 1] \in Message
    BY <1>2, ConnAssumption DEF LoopSend, MaySend, Message, Threads, TypeInv, TypeOK
  <2> QED BY <1>2, <2>1, SendKeepsFin DEF LoopSend
<1>3. CASE RunFunctor
  <2> DEFINE f == Head(batch)
  <2>1. f \in Functor /\ f.op \in Ops /\ f = batch[1] /\ 1 \in 1..Len(batch)
    BY <1>3, <1>ty, TailAt DEF RunFunctor, Functor, Ops
  <2>2. CASE f.op = "send"
    <3>1. f.m \in Message /\ SendInLoop(f.m)
      BY <1>3, <2>1, <2>2 DEF RunFunctor, Functor
    <3> QED BY <3>1, SendKeepsFin
  <2>3. CASE f.op = "establish"
    <3>1. Establish /\ state = "connecting"
      BY <1>3, <2>1, <2>3 DEF RunFunctor, LifeInv, EstablishOnce, NotYetUp
    <3>2. UNCHANGED <<output, fin, revived>> /\ (Writing' <=> Writing)
      BY <3>1 DEF Establish, Update, Writing
    <3> QED BY <3>1, <3>2 DEF FinAfterData
  <2>4. CASE f.op = "shutdown"
    <3>1. ShutdownInLoop(Writing) /\ UNCHANGED <<state, events, output, revived>>
      BY <1>3, <2>4 DEF RunFunctor
    <3> QED BY <3>1, <1>sh
  <2>5. CASE f.op = "forceClose"
    BY <1>3, <2>5, <1>hc DEF RunFunctor
  <2>6. CASE f.op = "start" \/ f.op = "stop"
    BY <1>3, <2>6, <1>sr DEF RunFunctor
  <2>7. CASE f.op = "destroy"
    BY <1>3, <2>7, <1>de DEF RunFunctor
  <2> QED BY <2>1, <2>2, <2>3, <2>4, <2>5, <2>6, <2>7 DEF Ops
<1>4. CASE HandleCloseEvent \/ HandleReadEnd
  <2>1. HandleClose \/ UNCHANGED <<state, chan>>
    BY <1>4 DEF HandleCloseEvent, HandleReadEnd
  <2>2. UNCHANGED <<output, fin, revived>>
    BY <1>4 DEF HandleCloseEvent, HandleReadEnd
  <2> QED BY <2>1, <2>2, <1>hc, <1>same
<1>5. CASE LoopShutdown
  BY <1>5, <1>sh DEF LoopShutdown
<1>6. CASE LoopForceClose
  BY <1>6, <1>live DEF LoopForceClose
<1>7. CASE LoopReadCtl
  BY <1>7, <1>sr DEF LoopReadCtl
<1>8. CASE OwnerDestroys
  BY <1>8, <1>de DEF OwnerDestroys
<1>9. ASSUME NEW t \in Clients, ClientStep(t) PROVE FinAfterData'
  <2>1. CASE ClientSend(t) \/ ClientPost(t) \/ ClientReadCtl(t) \/ ClientForceTest(t)
    BY <2>1, <1>same DEF ClientSend, ClientPost, ClientReadCtl, ClientForceTest
  <2>2. CASE ClientShutdown(t)
    BY <2>2, <1>live DEF ClientShutdown
  <2>3. CASE ClientForceStore(t)
    <3>1. CASE state = "disconnected"
      BY <2>3, <3>1 DEF ClientForceStore, FinAfterData
    <3>2. CASE state # "disconnected"
      BY <2>3, <3>2, <1>live DEF ClientForceStore, FinAfterData, Writing
    <3> QED BY <3>1, <3>2
  <2> QED BY <1>9, <2>1, <2>2, <2>3 DEF ClientStep
<1>10. CASE Poll \/ HandleReadData \/ HandleFails \/ HandleWriteNothing \/ EventsDone \/ BatchDone
            \/ OwnerRemoves
  BY <1>10, <1>same DEF Poll, HandleReadData, HandleFails, HandleWriteNothing, EventsDone, BatchDone,
                        OwnerRemoves
<1>11. CASE PeerSends \/ PeerCloses \/ PeerResets \/ UNCHANGED vars
  BY <1>11, <1>same DEF PeerSends, PeerCloses, PeerResets, vars
<1> QED
  BY <1>1, <1>2, <1>3, <1>4, <1>5, <1>6, <1>7, <1>8, <1>9, <1>10, <1>11
  DEF Next, Handlers, LoopUser

\* Once shutdown_write() has been called nothing waits in output_buffer_, and
\* writing is on exactly while something does, until the connection is closed
\* (send_raw_in_loop, handle_write, shutdown_in_loop).
THEOREM FinFollowsData == Spec => []FinAfterData
<1>1. Init => FinAfterData
  BY DEF Init, FinAfterData, Writing
<1> QED BY <1>1, TypeInitially, TypeInductive, LifeInitially, LifeInductive, FinInductive, PTL DEF Spec

(***************************************************************************)
(* ClosedIsQuiet is about the poller's registration; what an update would  *)
(* register again are the channel's events, so these must be gone too.     *)
(***************************************************************************)
QuietInv == state = "disconnected" /\ ~late => events = {}

\* Every step keeps QuietInv.
LEMMA QuietInductive == TypeInv /\ LifeInv /\ QuietInv /\ [Next]_vars => QuietInv'
<1> SUFFICES ASSUME TypeInv, LifeInv, QuietInv, [Next]_vars PROVE QuietInv'
  OBVIOUS
<1> USE DEF QuietInv, chan, io, peer, users, callbacks
<1>sr. ASSUME StartReadInLoop \/ StopReadInLoop PROVE QuietInv'
  <2>1. CASE StartReadInLoop
    BY <2>1 DEF StartReadInLoop, Update
  <2>2. CASE StopReadInLoop
    BY <2>2 DEF StopReadInLoop, Update
  <2> QED BY <1>sr, <2>1, <2>2
<1>hc. ASSUME HandleClose, UNCHANGED late PROVE QuietInv'
  BY <1>hc DEF HandleClose, Update
<1>de. ASSUME Destroy PROVE QuietInv'
  BY <1>de DEF Destroy
<1>se. ASSUME NEW m, SendInLoop(m) PROVE QuietInv'
  BY <1>se DEF SendInLoop
<1>1. CASE HandleWrite
  BY <1>1 DEF HandleWrite, Writing
<1>2. CASE RunFunctor
  <2> DEFINE f == Head(batch)
  <2>1. f.op \in Ops /\ f = batch[1] /\ 1 \in 1..Len(batch)
    BY <1>2, TailAt DEF RunFunctor, Functor, Ops, TypeInv, TypeOK
  <2>2. CASE f.op = "establish"
    BY <1>2, <2>2 DEF RunFunctor, Establish
  <2>3. CASE f.op = "send"
    BY <1>2, <2>3, <1>se DEF RunFunctor
  <2>4. CASE f.op = "shutdown"
    BY <1>2, <2>4 DEF RunFunctor
  <2>5. CASE f.op = "forceClose"
    BY <1>2, <2>5, <1>hc DEF RunFunctor
  <2>6. CASE f.op = "start" \/ f.op = "stop"
    BY <1>2, <2>6, <1>sr DEF RunFunctor
  <2>7. CASE f.op = "destroy"
    BY <1>2, <2>7, <1>de DEF RunFunctor
  <2> QED BY <2>1, <2>2, <2>3, <2>4, <2>5, <2>6, <2>7 DEF Ops
<1>3. CASE HandleCloseEvent \/ HandleReadEnd
  BY <1>3, <1>hc DEF HandleCloseEvent, HandleReadEnd
<1>4. CASE LoopSend
  BY <1>4, <1>se DEF LoopSend
<1>5. CASE LoopShutdown \/ LoopForceClose
  BY <1>5 DEF LoopShutdown, LoopForceClose
<1>6. CASE LoopReadCtl
  BY <1>6, <1>sr DEF LoopReadCtl
<1>7. CASE OwnerDestroys
  BY <1>7, <1>de DEF OwnerDestroys
<1>8. ASSUME NEW t \in Clients, ClientStep(t) PROVE QuietInv'
  BY <1>8 DEF ClientStep, ClientSend, ClientShutdown, ClientPost, ClientReadCtl, ClientForceTest,
              ClientForceStore
<1>9. CASE Poll \/ HandleReadData \/ HandleFails \/ HandleWriteNothing \/ EventsDone \/ BatchDone
  BY <1>9 DEF Poll, HandleReadData, HandleFails, HandleWriteNothing, EventsDone, BatchDone
<1>10. CASE OwnerRemoves \/ PeerSends \/ PeerCloses \/ PeerResets \/ UNCHANGED vars
  BY <1>10 DEF OwnerRemoves, PeerSends, PeerCloses, PeerResets, vars
<1> QED
  BY <1>1, <1>2, <1>3, <1>4, <1>5, <1>6, <1>7, <1>8, <1>9, <1>10 DEF Next, Handlers, LoopUser

\* The connection callbacks are up once, then down at most once, the owner is
\* told of the close at most once, and a closed connection is off the poller
\* (connect_established, handle_close, connect_destroyed).
THEOREM ConnectionLivesOnce == Spec => []ConnectionLife
<1>1. TypeInv /\ LifeInv => OneLife
  BY DEF TypeInv, TypeOK, LifeInv, NotYetUp, DownOnce, OneLife
<1>2. TypeInv /\ QuietInv => ClosedIsQuiet
  BY DEF TypeInv, TypeOK, QuietInv, ClosedIsQuiet
<1>3. TypeInv /\ LifeInv /\ QuietInv => ConnectionLife
  BY <1>1, <1>2 DEF ConnectionLife
<1>4. Init => QuietInv
  BY DEF Init, QuietInv
<1> QED BY <1>3, <1>4, TypeInitially, TypeInductive, LifeInitially, LifeInductive, QuietInductive, PTL
        DEF Spec
=============================================================================
