---------------------------- MODULE TcpConnection ----------------------------
(***************************************************************************)
(* One TcpConnection (tcp_connection.cpp) with its Channel and the         *)
(* Poller's registration, on its event loop, used by the loop's own        *)
(* callbacks and by other threads, closed by its peer, by its users or by  *)
(* its owner (TcpServer, TcpClient).  Plain TCP: no TLS engine, no filter. *)
(*                                                                         *)
(* The loop is taken at the level EventLoop implements: a poll, the        *)
(* handlers of what it reported, then one batch of functors.  A message is *)
(* its sender and number, and UnitsOf(m) units on the wire, so that a      *)
(* write may stop half-way.  The write-complete and high-water callbacks   *)
(* are posted user code without state here: user code runs whenever the    *)
(* loop is not polling.                                                    *)
(***************************************************************************)
EXTENDS Naturals, Sequences

CONSTANTS
  Clients,      \* threads other than the loop's own
  MaxSends,     \* bound: messages each thread sends
  MaxReadCtl,   \* bound: calls of start_read and stop_read
  MaxForces,    \* bound: calls of force_close
  Mixed         \* bound: may one behaviour both send and control reading?

ASSUME ConnAssumption ==
  /\ "loop" \notin Clients
  /\ MaxSends \in Nat /\ MaxReadCtl \in Nat /\ MaxForces \in Nat /\ Mixed \in BOOLEAN

Threads == Clients \cup {"loop"}
Message == [by : Threads, n : 1..MaxSends]
UnitsOf(m) == <<m, m>>

VARIABLES
  state,      \* state_
  events,     \* channel_->events()
  polled,     \* what the poller has the channel registered for
  reading,    \* reading_
  output,     \* output_buffer_: units not yet written
  wire,       \* units the kernel has taken, in order
  fin,        \* shutdown_write() has been called
  sock,       \* "ok", or "broken" once the peer has reset the connection
  inbox,      \* the peer has sent what handle_read has not read yet
  peerDone,   \* the peer has closed its side
  pending,    \* functors posted to the loop
  batch,      \* functors of the batch being run
  phase,      \* the loop: "poll", "events" or "functors"
  revents,    \* channel_->revents() as far as it is not yet handled
  cpc,        \* where each client is inside send, shutdown, force_close
  sent,       \* sent[t]: messages of t that send() let through
  readCtl, forces,  \* calls of start_read and stop_read, of force_close
  owner,      \* the owner: "holds" it, "removing" (close callback seen), "released"
  accepted,   \* history: units send_raw_in_loop took, in order
  promised,   \* history: messages a thread sent before its own shutdown()
  ups, downs, closes,  \* history: connection callbacks up and down, close callbacks
  revived,    \* history: a force_close() of another thread overwrote "disconnected"
  late        \* history: start_read_in_loop ran on a closed connection

chan == <<events, polled>>
io == <<output, wire, fin, accepted>>
peer == <<sock, inbox, peerDone>>
users == <<cpc, sent, readCtl, forces, promised>>
callbacks == <<ups, downs, closes, late, revived>>
vars == <<state, chan, reading, io, peer, pending, batch, phase, revents, users,
          owner, callbacks>>

States == {"disconnected", "connecting", "connected", "disconnecting"}
Ops == {"establish", "send", "shutdown", "forceClose", "start", "stop", "destroy"}
NoMsg == [by |-> "loop", n |-> 0]
Functor == [op : {"send"}, m : Message] \cup [op : Ops \ {"send"}, m : {NoMsg}]

TypeOK ==
  /\ state \in States /\ events \subseteq {"read", "write"} /\ polled \subseteq events
  /\ reading \in BOOLEAN
  /\ output \in Seq(Message) /\ wire \in Seq(Message) /\ accepted \in Seq(Message)
  /\ fin \in BOOLEAN /\ sock \in {"ok", "broken"} /\ peerDone \in BOOLEAN
  /\ inbox \in BOOLEAN
  /\ pending \in Seq(Functor) /\ batch \in Seq(Functor)
  /\ phase \in {"poll", "events", "functors"} /\ revents \subseteq {"close", "read", "write"}
  /\ cpc \in [Clients -> {"idle", "send", "shutdown", "force1", "force2"}]
  /\ sent \in [Threads -> 0..MaxSends] /\ readCtl \in 0..MaxReadCtl /\ forces \in 0..MaxForces
  /\ owner \in {"holds", "removing", "released"}
  /\ promised \subseteq Message
  /\ ups \in Nat /\ downs \in Nat /\ closes \in Nat /\ late \in BOOLEAN
  /\ revived \in BOOLEAN

\* TcpServer::new_connection has made the connection and posted
\* connect_established to its io loop.
Init ==
  /\ state = "connecting" /\ events = {} /\ polled = {} /\ reading = TRUE
  /\ output = << >> /\ wire = << >> /\ accepted = << >> /\ fin = FALSE
  /\ sock = "ok" /\ inbox = FALSE /\ peerDone = FALSE
  /\ pending = <<[op |-> "establish", m |-> NoMsg]>> /\ batch = << >>
  /\ phase = "poll" /\ revents = {}
  /\ cpc = [t \in Clients |-> "idle"] /\ sent = [t \in Threads |-> 0]
  /\ readCtl = 0 /\ forces = 0 /\ promised = {}
  /\ owner = "holds" /\ ups = 0 /\ downs = 0 /\ closes = 0 /\ late = FALSE /\ revived = FALSE

-----------------------------------------------------------------------------
(* Pieces.  Each leaves to its caller the variables it does not name.      *)

\* Channel::update, Poller::update_channel: the poller follows the channel's events.
Update(evs) == events' = evs /\ polled' = evs

Op(o) == [op |-> o, m |-> NoMsg]
Post(fs) == pending' = pending \o fs

Writing == "write" \in events

\* Mutant: FIN at once, whatever is still buffered.
ShutdownInLoopAtOnce(writing) == fin' = TRUE

\* shutdown_in_loop
ShutdownInLoop(writing) == fin' = (fin \/ ~writing)

\* What ::write takes of `units`: any part, nothing (EAGAIN, or an error other
\* than EPIPE and ECONNRESET), or a fault once the socket takes no more.
Written(units) == IF fin \/ sock = "broken" THEN {} ELSE 0..Len(units)

\* The rest of send_raw_in_loop once n units of `units` are written.
Buffered(units, n) ==
  LET rest == SubSeq(units, n + 1, Len(units))
  IN  /\ wire' = wire \o SubSeq(units, 1, n)
      /\ accepted' = accepted \o units
      /\ output' = output \o rest
      /\ IF rest # << >> /\ ~Writing THEN Update(events \cup {"write"}) ELSE UNCHANGED chan

\* Mutant: the direct write does not look at the output buffer.
SendInLoopOvertaking(m) ==
  /\ \/ /\ state = "disconnected"
        /\ UNCHANGED <<output, wire, accepted, chan>>
     \/ /\ state # "disconnected"
        /\ \E n \in Written(UnitsOf(m)) : Buffered(UnitsOf(m), n)
     \/ /\ state # "disconnected"
        /\ fin \/ sock = "broken"
        /\ UNCHANGED <<output, wire, accepted, chan>>
  /\ UNCHANGED <<state, reading, fin, pending, callbacks, owner>>

\* send_raw_in_loop: nothing on a closed connection; straight to the socket when
\* nothing is queued before it; else into the buffer.  A fault drops the message.
SendInLoop(m) ==
  /\ \/ /\ state = "disconnected"
        /\ UNCHANGED <<output, wire, accepted, chan>>
     \/ /\ state # "disconnected" /\ (Writing \/ output # << >>)
        /\ Buffered(UnitsOf(m), 0)
     \/ /\ state # "disconnected" /\ ~Writing /\ output = << >>
        /\ \E n \in Written(UnitsOf(m)) : Buffered(UnitsOf(m), n)
     \/ /\ state # "disconnected" /\ ~Writing /\ output = << >>
        /\ fin \/ sock = "broken"
        /\ UNCHANGED <<output, wire, accepted, chan>>
  /\ UNCHANGED <<state, reading, fin, pending, callbacks, owner>>

\* Mutant: the channel stays with the poller.
HandleCloseRegistered ==
  IF state = "disconnected"
  THEN UNCHANGED <<state, chan, downs, closes, owner>>
  ELSE /\ state' = "disconnected" /\ UNCHANGED chan
       /\ downs' = downs + 1 /\ closes' = closes + 1
       /\ owner' = IF owner = "holds" THEN "removing" ELSE owner

\* handle_close: once; the callbacks; the owner begins to remove the connection.
HandleClose ==
  IF state = "disconnected"
  THEN UNCHANGED <<state, chan, downs, closes, owner>>
  ELSE /\ state' = "disconnected" /\ Update({})
       /\ downs' = downs + 1 /\ closes' = closes + 1
       /\ owner' = IF owner = "holds" THEN "removing" ELSE owner

\* Mutant: the flag is set, the channel is not told.
StartReadInLoopUnheard ==
  /\ reading' = TRUE /\ UNCHANGED chan
  /\ late' = (late \/ (~reading /\ state = "disconnected"))
  /\ UNCHANGED <<state, io, pending, ups, downs, closes, revived, owner>>

\* start_read_in_loop: no look at the state.  What handle_read left in the
\* input buffer is dispatched if connected.
StartReadInLoop ==
  /\ reading' = TRUE
  /\ IF reading THEN UNCHANGED chan ELSE Update(events \cup {"read"})
  /\ late' = (late \/ (~reading /\ state = "disconnected"))
  /\ UNCHANGED <<state, io, pending, ups, downs, closes, revived, owner>>

StopReadInLoop ==
  /\ reading' = FALSE
  /\ IF reading THEN Update(events \ {"read"}) ELSE UNCHANGED chan
  /\ UNCHANGED <<state, io, pending, callbacks, owner>>

\* connect_established
Establish ==
  /\ state' = "connected" /\ Update(events \cup {"read"}) /\ ups' = ups + 1
  /\ UNCHANGED <<reading, io, pending, downs, closes, late, revived, owner>>

\* Mutant: a closed connection reports down again when it is destroyed.
DestroyUnchecked ==
  /\ state' = "disconnected" /\ downs' = downs + 1
  /\ Update({})
  /\ UNCHANGED <<reading, io, pending, ups, closes, late, revived>>

\* connect_destroyed: remove() takes the channel from the poller and leaves its
\* events as they are.
Destroy ==
  /\ polled' = {}
  /\ IF state = "connected"
     THEN state' = "disconnected" /\ downs' = downs + 1 /\ events' = {}
     ELSE UNCHANGED <<state, downs, events>>
  /\ UNCHANGED <<reading, io, pending, ups, closes, late, revived>>

-----------------------------------------------------------------------------
(* User code on the loop thread, in some callback: everything is inline    *)
(* but force_close.                                                        *)

OnLoop == phase # "poll"

\* The bounds on the users' calls.
MaySend(t) == sent[t] < MaxSends /\ (Mixed \/ readCtl = 0)
MayControl == readCtl < MaxReadCtl /\ (Mixed \/ \A t \in Threads : sent[t] = 0)

LoopSend ==
  /\ OnLoop /\ state = "connected" /\ MaySend("loop")
  /\ sent' = [sent EXCEPT !["loop"] = @ + 1]
  /\ SendInLoop([by |-> "loop", n |-> sent["loop"] + 1])
  /\ UNCHANGED <<peer, batch, phase, revents, cpc, readCtl, forces, promised>>

SentBy(t) == {[by |-> t, n |-> k] : k \in 1..sent[t]}

LoopShutdown ==
  /\ OnLoop /\ state = "connected" /\ state' = "disconnecting"
  /\ promised' = promised \cup SentBy("loop")
  /\ ShutdownInLoop(Writing)
  /\ UNCHANGED <<chan, reading, output, wire, accepted, peer, pending, batch, phase,
                 revents, cpc, sent, readCtl, forces, owner, callbacks>>

LoopForceClose ==
  /\ OnLoop /\ state \in {"connected", "disconnecting"} /\ state' = "disconnecting"
  /\ forces < MaxForces /\ forces' = forces + 1
  /\ Post(<<Op("forceClose")>>)
  /\ UNCHANGED <<chan, reading, io, peer, batch, phase, revents, cpc, sent, readCtl, promised,
                 owner, callbacks>>

LoopReadCtl ==
  /\ OnLoop /\ ups > 0 /\ MayControl /\ readCtl' = readCtl + 1
  /\ StartReadInLoop \/ StopReadInLoop
  /\ UNCHANGED <<peer, batch, phase, revents, cpc, sent, forces, promised>>

-----------------------------------------------------------------------------
(* Other threads.                                                          *)

\* send(): connected() first ...
ClientSend(t) ==
  /\ cpc[t] = "idle" /\ state = "connected" /\ MaySend(t)
  /\ cpc' = [cpc EXCEPT ![t] = "send"]
  /\ sent' = [sent EXCEPT ![t] = @ + 1]
  /\ UNCHANGED <<state, chan, reading, io, peer, pending, batch, phase, revents,
                 readCtl, forces, promised, owner, callbacks>>

\* shutdown(): connected becomes disconnecting in one compare-and-swap ...
ClientShutdown(t) ==
  /\ cpc[t] = "idle" /\ state = "connected" /\ state' = "disconnecting"
  /\ cpc' = [cpc EXCEPT ![t] = "shutdown"]
  /\ promised' = promised \cup SentBy(t)
  /\ UNCHANGED <<chan, reading, io, peer, pending, batch, phase, revents, sent, readCtl, forces,
                 owner, callbacks>>

\* ... and the rest is posted.
ClientPost(t) ==
  /\ cpc[t] \in {"send", "shutdown", "force2"}
  /\ Post(<<IF cpc[t] = "send" THEN [op |-> "send", m |-> [by |-> t, n |-> sent[t]]]
            ELSE Op(IF cpc[t] = "shutdown" THEN "shutdown" ELSE "forceClose")>>)
  /\ cpc' = [cpc EXCEPT ![t] = "idle"]
  /\ UNCHANGED <<state, chan, reading, io, peer, batch, phase, revents, sent, readCtl, forces,
                 promised, owner, callbacks>>

\* start_read and stop_read go straight to the queue.
ClientReadCtl(t) ==
  /\ ups > 0 /\ cpc[t] = "idle" /\ MayControl /\ readCtl' = readCtl + 1
  /\ \E o \in {"start", "stop"} : Post(<<Op(o)>>)
  /\ UNCHANGED <<state, chan, reading, io, peer, batch, phase, revents, cpc, sent, forces,
                 promised, owner, callbacks>>

\* force_close(): a test and a store, not a compare-and-swap.
ClientForceTest(t) ==
  /\ ups > 0 /\ cpc[t] = "idle" /\ state \in {"connected", "disconnecting"}
  /\ forces < MaxForces /\ forces' = forces + 1
  /\ cpc' = [cpc EXCEPT ![t] = "force1"]
  /\ UNCHANGED <<state, chan, reading, io, peer, pending, batch, phase, revents, sent,
                 readCtl, promised, owner, callbacks>>

ClientForceStore(t) ==
  /\ cpc[t] = "force1" /\ state' = "disconnecting"
  /\ revived' = (revived \/ state = "disconnected")
  /\ cpc' = [cpc EXCEPT ![t] = "force2"]
  /\ UNCHANGED <<chan, reading, io, peer, pending, batch, phase, revents, sent,
                 readCtl, forces, promised, owner, ups, downs, closes, late>>

\* The owner removes a closed connection, on its own loop, or (a server's
\* destructor) lets go of an open one.
OwnerRemoves ==
  /\ owner \in {"holds", "removing"} /\ owner' = "released"
  /\ Post(<<Op("destroy")>>)
  /\ UNCHANGED <<state, chan, reading, io, peer, batch, phase, revents, users, callbacks>>

\* ... which on the loop's own thread is done inline.
OwnerDestroys ==
  /\ OnLoop /\ ups > 0 /\ owner = "holds" /\ owner' = "released"
  /\ Destroy
  /\ UNCHANGED <<peer, batch, phase, revents, users>>

-----------------------------------------------------------------------------
(* The peer and the network.                                               *)

PeerSends ==
  /\ ~peerDone /\ ~inbox /\ inbox' = TRUE
  /\ UNCHANGED <<state, chan, reading, io, sock, peerDone, pending, batch, phase, revents,
                 users, owner, callbacks>>

PeerCloses ==
  /\ ~peerDone /\ peerDone' = TRUE
  /\ UNCHANGED <<state, chan, reading, io, sock, inbox, pending, batch, phase,
                 revents, users, owner, callbacks>>

PeerResets ==
  /\ sock = "ok" /\ sock' = "broken" /\ peerDone' = TRUE /\ inbox' = FALSE
  /\ UNCHANGED <<state, chan, reading, io, pending, batch, phase,
                 revents, users, owner, callbacks>>

-----------------------------------------------------------------------------
(* The loop.                                                               *)

\* What epoll reports of this descriptor: EPOLLHUP comes unasked, but only for a
\* registered channel, and with EPOLLIN where reading is on.
Ready ==
  IF polled = {} THEN {}
  ELSE (polled \cap {"write"})
       \cup (IF inbox \/ peerDone THEN polled \cap {"read"} ELSE {})
       \cup (IF sock = "broken" \/ (peerDone /\ fin) THEN {"close"} ELSE {})

Poll ==
  /\ phase = "poll" /\ (Ready # {} \/ pending # << >>)
  /\ phase' = "events" /\ revents' = Ready
  /\ UNCHANGED <<state, chan, reading, io, peer, pending, batch, users, owner, callbacks>>

\* Channel::handle_event goes through close, read and write in this order.
HandleCloseEvent ==
  /\ phase = "events" /\ "close" \in revents
  /\ revents' = revents \ {"close"}
  /\ IF "read" \in revents THEN UNCHANGED <<state, chan, downs, closes, owner>>
                           ELSE HandleClose
  /\ UNCHANGED <<reading, io, peer, pending, batch, phase, users, ups, late, revived>>

\* handle_read: message_callback, whatever state_ and events_ are by now.
HandleReadData ==
  /\ phase = "events" /\ "read" \in revents /\ "close" \notin revents
  /\ inbox /\ inbox' = FALSE /\ revents' = revents \ {"read"}
  /\ UNCHANGED <<state, chan, reading, io, sock, peerDone, pending, batch, phase,
                 users, owner, callbacks>>

\* handle_read finds the end of input.
HandleReadEnd ==
  /\ phase = "events" /\ "read" \in revents /\ "close" \notin revents
  /\ ~inbox /\ peerDone /\ revents' = revents \ {"read"}
  /\ HandleClose
  /\ UNCHANGED <<reading, io, peer, pending, batch, phase, users, ups, late, revived>>

\* handle_read or handle_write fails: handle_error only logs.
HandleFails ==
  /\ phase = "events" /\ sock = "broken" /\ "close" \notin revents
  /\ revents' \in {revents \ {"read"}, revents \ {"write"}} /\ revents' # revents
  /\ "read" \in revents => "write" \in revents' \/ "write" \notin revents
  /\ UNCHANGED <<state, chan, reading, io, peer, pending, batch, phase, users, owner,
                 callbacks>>

\* Mutant: a shutdown() that had to wait is forgotten.
HandleWriteForgets ==
  /\ phase = "events" /\ revents = {"write"} /\ revents' = {}
  /\ Writing /\ sock = "ok"
  /\ \E n \in 1..Len(output) :
       /\ wire' = wire \o SubSeq(output, 1, n)
       /\ output' = SubSeq(output, n + 1, Len(output))
       /\ IF n = Len(output)
          THEN Update(events \ {"write"})
          ELSE UNCHANGED chan
  /\ UNCHANGED <<state, reading, fin, accepted, peer, pending, batch, phase, users, owner, callbacks>>

\* handle_write takes n units to the socket; when the buffer is empty, writing
\* stops and a shutdown() waiting for it is carried out.
HandleWrite ==
  /\ phase = "events" /\ revents = {"write"} /\ revents' = {}
  /\ Writing /\ sock = "ok"
  /\ \E n \in 1..Len(output) :
       /\ wire' = wire \o SubSeq(output, 1, n)
       /\ output' = SubSeq(output, n + 1, Len(output))
       /\ IF n = Len(output)
          THEN /\ Update(events \ {"write"})
               /\ IF state = "disconnecting" THEN ShutdownInLoop(FALSE) ELSE UNCHANGED fin
          ELSE UNCHANGED <<chan, fin>>
  /\ UNCHANGED <<state, reading, accepted, peer, pending, batch, phase, users, owner, callbacks>>

\* handle_write finds writing off, or the socket full after all.
HandleWriteNothing ==
  /\ phase = "events" /\ revents = {"write"} /\ revents' = {}
  /\ UNCHANGED <<state, chan, reading, io, peer, pending, batch, phase, users, owner,
                 callbacks>>

\* The handlers are done: do_pending_functors takes its batch.
EventsDone ==
  /\ phase = "events" /\ revents = {} /\ phase' = "functors"
  /\ batch' = pending /\ pending' = << >>
  /\ UNCHANGED <<state, chan, reading, io, peer, revents, users, owner, callbacks>>

BatchDone ==
  /\ phase = "functors" /\ batch = << >> /\ phase' = "poll"
  /\ UNCHANGED <<state, chan, reading, io, peer, pending, batch, revents, users, owner,
                 callbacks>>

\* The next functor.
RunFunctor ==
  /\ phase = "functors" /\ batch # << >> /\ batch' = Tail(batch)
  /\ LET f == Head(batch) IN
       CASE f.op = "establish"  -> Establish
         [] f.op = "send"       -> SendInLoop(f.m)
         [] f.op = "shutdown"   -> /\ ShutdownInLoop(Writing)
                                   /\ UNCHANGED <<state, chan, reading, output, wire,
                                                  accepted, pending, callbacks, owner>>
         [] f.op = "forceClose" -> /\ HandleClose
                                   /\ UNCHANGED <<reading, io, pending, ups, late, revived>>
         [] f.op = "start"      -> StartReadInLoop
         [] f.op = "stop"       -> StopReadInLoop
         [] f.op = "destroy"    -> Destroy /\ UNCHANGED owner
  /\ UNCHANGED <<peer, phase, revents, users>>

-----------------------------------------------------------------------------
Handlers == \/ HandleCloseEvent \/ HandleReadData \/ HandleReadEnd \/ HandleFails
            \/ HandleWrite \/ HandleWriteNothing

LoopUser == LoopSend \/ LoopShutdown \/ LoopForceClose \/ LoopReadCtl

ClientStep(t) == \/ ClientSend(t) \/ ClientShutdown(t) \/ ClientPost(t) \/ ClientReadCtl(t)
                 \/ ClientForceTest(t) \/ ClientForceStore(t)

Next == \/ Poll \/ Handlers \/ EventsDone \/ RunFunctor \/ BatchDone
        \/ LoopUser \/ OwnerRemoves \/ OwnerDestroys \/ PeerSends \/ PeerCloses \/ PeerResets
        \/ \E t \in Clients : ClientStep(t)

Spec == Init /\ [][Next]_vars

(***************************************************************************)
(* Fairness: the loop runs (a level-triggered poll, handlers that return,  *)
(* functors), a client inside an operation finishes it, and a peer that    *)
(* has not gone keeps reading, so that a socket polled again and again as  *)
(* writable takes something in the end.  A reset socket reports its error  *)
(* once and then the end of input.                                         *)
(***************************************************************************)
FairSpec ==
  /\ Spec
  /\ WF_vars(Poll \/ Handlers \/ EventsDone \/ RunFunctor \/ BatchDone)
  /\ SF_vars(HandleWrite) /\ SF_vars(HandleReadEnd)
  /\ \A t \in Clients : WF_vars(ClientPost(t) \/ ClientForceStore(t))

-----------------------------------------------------------------------------
(* Properties.                                                             *)

(* The user sees one life: up, then down at most once, and the owner is told  *)
(* at most once (connect_established, handle_close, connect_destroyed), unless *)
(* another thread's force_close() stored its state over a close.              *)
OneLife == ~revived => ups <= 1 /\ downs <= ups /\ closes <= downs

(* Nothing overtakes on the wire: what the kernel has taken, followed by the  *)
(* buffer, is what was accepted, in order (send_raw_in_loop against           *)
(* handle_write).                                                             *)
WireInOrder == wire \o output = accepted

(* FIN follows the data: once shutdown_write() is called nothing waits in     *)
(* the buffer, and there is data in the buffer exactly while writing is on,   *)
(* for as long as the connection is open (shutdown_in_loop, handle_write).    *)
FinAfterData ==
  state # "disconnected" /\ ~revived =>
    /\ fin => output = << >>
    /\ output # << >> <=> Writing

(* A closed connection is off the poller (handle_close, connect_destroyed),   *)
(* so no handler of it runs again; the exception is a start_read that comes   *)
(* after the close, which registers it once more.                             *)
ClosedIsQuiet == state = "disconnected" /\ ~late => polled = {}

(* Both: the connection's end as its owner, its user and the poller see it    *)
(* (handle_close, connect_destroyed).                                         *)
ConnectionLife == OneLife /\ ClosedIsQuiet

(* A shutdown() or force_close() ends in FIN or in a closed connection, if    *)
(* the socket keeps taking data and the owner keeps the connection            *)
(* (shutdown, shutdown_in_loop, handle_write, force_close_in_loop).           *)
ShutdownFinishes ==
  (state = "disconnecting") ~> (fin \/ state = "disconnected" \/ owner = "released")

(* The end of the peer's input is noticed as long as nobody pauses reading,   *)
(* and after a pause once reading is resumed (handle_read, stop_read_in_loop, *)
(* start_read_in_loop, and the channel off the poller in between).            *)
PeerGoneNoticed ==
  (peerDone /\ state = "connected") ~> (state = "disconnected" \/ ~reading \/ owner = "released")

(* What a thread-safe send path promises: a thread's messages reach the wire  *)
(* before the FIN its own later shutdown() asks for, if the connection lives. *)
SendBeforeShutdown ==
  fin /\ sock = "ok" /\ owner = "holds" =>
    \A m \in promised : \E i \in 1..Len(wire) : wire[i] = m
=============================================================================
