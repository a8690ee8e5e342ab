----------------------------- MODULE WebSocket -----------------------------
(***************************************************************************)
(* One WebSocket endpoint of oklib, a server's connection or a client,     *)
(* facing an arbitrary peer: the opening handshake, the frame parser that  *)
(* takes all the frames of one read at once, the message assembler, the    *)
(* callbacks, the closing handshake, the ping timer, and a second thread   *)
(* that sends and closes through the same WebSocketChannel.                *)
(*                                                                         *)
(* The TCP connection below keeps what the endpoint can tell apart: up,    *)
(* closing (shutdown() called) or down; the frames given to the socket in  *)
(* order; whether output waits for the peer to read; whether FIN was sent. *)
(***************************************************************************)
EXTENDS Integers, Sequences, FiniteSets, SequencesExt

CONSTANTS Frames,       \* the frames the peer may send, as raw headers
          FewFrames,    \* those it sends when a second thread is there
          MaxHeard,     \* bound: items the endpoint reads, handshake included
          FewHeard,     \* that bound when a second thread is there
          MaxRead,      \* bound: items one read returns
          MaxFrame,     \* options.max_frame_payload
          MaxMessage,   \* options.max_message_payload
          Compression,  \* options.enable_compression and zlib built in
          Pings,        \* bound: ticks of the ping timer
          MaxActs       \* bound: times the callbacks use the channel

ASSUME BoundsAssumption ==
    /\ MaxHeard \in Nat /\ FewHeard \in Nat /\ MaxRead \in Nat \ {0} /\ Pings \in Nat /\ MaxActs \in Nat
    /\ MaxFrame \in Nat /\ MaxMessage \in Nat /\ Compression \in BOOLEAN

Controls == {"ping", "pong", "close"}

\* A frame's header and what matters of its payload: whether it is UTF-8 and
\* inflates, and the code of a close frame (1005: none, 1: cut short).
FrameHeaders ==
    [op : Controls \cup {"data", "cont", "reserved"}, fin : BOOLEAN, maskok : BOOLEAN,
     rsv1 : BOOLEAN, size : Nat, content : {"ok", "badutf8", "garbled"}, code : Nat]

ASSUME FramesAssumption == Frames \subseteq FrameHeaders /\ FewFrames \subseteq FrameHeaders

(***************************************************************************)
(* What a peer may send as its side of the handshake: an upgrade request   *)
(* or a 101 answer that is right, with or without compression; one that is *)
(* wrong; and, to a server, an ordinary request that ends the connection   *)
(* or does not.                                                            *)
(***************************************************************************)
Openings == [op : {"good"}, zip : BOOLEAN] \cup
            [op : {"bad", "plain", "plainclose"}, zip : {FALSE}]

VARIABLES
    role,      \* "server" or "client"
    tcp,       \* the TcpConnection and the channel's close_sent_
    ep,        \* the endpoint's context
    heard,     \* history: everything read so far
    inbuf,     \* read and not yet parsed: <<position in heard, item>>
    batch,     \* the frames vector of this read, not yet handled
    queue,     \* functors of the loop that concern the connection
    off,       \* program counter of the second thread, "none" without one
    ticks      \* ping timer events so far

vars == <<role, tcp, ep, heard, inbuf, batch, queue, off, ticks>>

Frame(op, by) == [op |-> op, by |-> by]

Idle == batch = <<>> /\ ~ep.parsing
Connected == tcp.conn = "up"

-----------------------------------------------------------------------------
(* The connection *)

\* send_in_loop: nothing is written once FIN went out or the socket is gone.
Write(c, f) ==
    IF c.conn = "down" \/ c.fin THEN c
    ELSE [c EXCEPT !.out = Append(@, f), !.waiting = @ \/ c.full]

\* FIN goes out at once, or when handle_write has emptied the buffer.
ShutdownInLoop(c) == [c EXCEPT !.fin = @ \/ ~c.waiting]

Shutdown(c) ==
    IF c.conn = "up" THEN ShutdownInLoop([c EXCEPT !.conn = "closing"]) ELSE c

-----------------------------------------------------------------------------
(* WebSocketChannel on the loop's thread.  Its close() is one step here: a *)
(* second thread that tests connected() before it and queues its frame     *)
(* after it stands for the ones that slip in between.                      *)

\* Mutant: nobody looks whether a close frame has gone out.
SendFrameUnchecked(c, f) == Write(c, f)

SendFrame(c, f) == IF c.conn = "up" THEN Write(c, f) ELSE c

Close(c) ==
    IF c.closeSent THEN c
    ELSE Shutdown(SendFrame([c EXCEPT !.closeSent = TRUE], Frame("close", "loop")))

\* What a callback of the application does with the channel it is given.
React(c, r) ==
    LET once == [c EXCEPT !.acts = @ + 1] IN
    CASE r = "nothing" -> c
      [] r = "text"    -> SendFrame(once, Frame("data", "loop"))
      [] r = "close"   -> Close(once)
      [] r = "stop"    -> Shutdown(once)

\* A client may also stop(), which shuts down without a close frame.
Reactions ==
    {"nothing"} \cup
    (IF tcp.acts = MaxActs THEN {}
     ELSE {"text", "close"} \cup (IF role = "client" THEN {"stop"} ELSE {}))

-----------------------------------------------------------------------------
(* Frames and messages *)

(***************************************************************************)
(* The checks of WebSocketFrameParser::parse in its order.  A payload over *)
(* the limit is refused before it has arrived; the rest of a control       *)
(* frame's rules only after.                                               *)
(***************************************************************************)
FrameError(f) ==
    IF \/ f.op = "reserved" \/ ~f.maskok
       \/ f.rsv1 /\ (~ep.zip \/ f.op # "data")           THEN 1002
    ELSE IF f.size > MaxFrame                             THEN 1009
    ELSE IF f.op \in Controls /\ (~f.fin \/ f.size > 1)   THEN 1002
    ELSE 0

ValidCloseCode(code) ==
    code \in 1000..4999 /\ code \notin {1004, 1005, 1006} /\ code \notin 1016..2999

\* close_info_from_payload of a frame the assembler let through: an empty
\* payload leaves the code at 1005, one byte (code 1 here) is refused.
CloseInfoOk(f) == f.code # 1

(***************************************************************************)
(* WebSocketMessageAssembler::consume.  part is <<position, frame>>; the   *)
(* result's status is control, incomplete, complete or an error's code.    *)
(* An error leaves the fragments as they are; a fragment counts for        *)
(* fragmented_active_ whatever its size.                                   *)
(***************************************************************************)
Assembled(frags) == [i \in 1..Len(frags) |-> frags[i][1]]
SizeOf(frags) == SumFunction([i \in DOMAIN frags |-> frags[i][2].size])
BadText(frags) == \E i \in 1..Len(frags) : frags[i][2].content = "badutf8"
Zipped(frags) == frags[1][2].rsv1

Consumed(status, frags, message) == [status |-> status, frags |-> frags, message |-> message]

Consume(frags, part) ==
    LET f == part[2]
        all == Append(frags, part)
    IN  IF f.op \in Controls
        THEN Consumed(IF f.op # "close" \/ f.code \in {1, 1005} THEN 0
                      ELSE IF ~ValidCloseCode(f.code) THEN 1002
                      ELSE IF f.content = "badutf8" THEN 1007 ELSE 0,
                      frags, <<>>)
        ELSE IF (f.op = "data") = (frags # <<>>)  THEN Consumed(1002, frags, <<>>)
        ELSE IF SizeOf(all) > MaxMessage          THEN Consumed(1009, frags, <<>>)
        ELSE IF ~f.fin                            THEN Consumed(0, all, <<>>)
        ELSE IF BadText(all) /\ ~Zipped(all)
        THEN Consumed(1007, IF f.op = "data" THEN frags ELSE all, <<>>)
        ELSE Consumed(0, <<>>, all)

\* What is left to check of a complete message: 0 or an error's code.
InflateError(message) ==
    IF ~Zipped(message) THEN 0
    ELSE IF ~ep.zip \/ \E i \in 1..Len(message) : message[i][2].content = "garbled" THEN 1002
    ELSE IF BadText(message) THEN 1007
    ELSE 0

-----------------------------------------------------------------------------
(* Callbacks of the endpoint *)

Call(e, name, arg) == [e EXCEPT !.calls = Append(@, [cb |-> name, arg |-> arg])]

\* Mutant: the close callback does not look whether it has been called.
NotifyCloseAgain(e, code) == Call([e EXCEPT !.timer = FALSE, !.notified = TRUE], "close", code)

\* notify_close: stops the ping timer, then reports the first close only.
NotifyClose(e, code) ==
    IF e.notified THEN [e EXCEPT !.timer = FALSE]
    ELSE Call([e EXCEPT !.timer = FALSE, !.notified = TRUE], "close", code)

\* close_for_error: on_error, which may use the channel, then the close.
CloseForError(e, code, r) ==
    /\ tcp' = Close(React(tcp, r))
    /\ ep' = NotifyClose(Call(e, "error", code), code)

-----------------------------------------------------------------------------
(* Reading *)

\* handle_read: some bytes arrive; the parser sees those left over and these.
Read ==
    /\ Idle /\ tcp.conn # "down" /\ queue \in Seq({"data", "close", "shutdown"})
    /\ \E n \in 1..MaxRead :
       /\ Len(heard) + n <= IF off = "none" THEN MaxHeard ELSE FewHeard
       /\ \E items \in [1..n -> (IF ep.shook THEN {} ELSE Openings)
                                  \cup (IF off = "none" THEN Frames ELSE FewFrames)] :
         /\ \A i \in 1..n : items[i] \in Openings <=>
              \/ ~ep.shook /\ \A j \in 1..(i - 1) : items[j].op # "good"
         /\ role = "client" => \A i \in 1..n : items[i].op \notin {"plain", "plainclose"}
         /\ heard' = heard \o items
         /\ inbuf' = inbuf \o [i \in 1..n |-> <<Len(heard) + i, items[i]>>]
    /\ ep' = [ep EXCEPT !.parsing = TRUE]
    /\ UNCHANGED <<role, tcp, batch, queue, off, ticks>>

Opened(zip) ==
    Call([ep EXCEPT !.shook = TRUE, !.zip = zip, !.timer = (role = "server"),
                    !.parsing = Tail(inbuf) # <<>>], "open", 0)

Refuse(front) == front.op = "bad" \/ (role = "client" /\ front.zip /\ ~Compression)

\* try_websocket_upgrade on a request it accepts, or a 101 the client accepts:
\* the context becomes a WebSocket's, on_open runs, leftover bytes are frames.
Upgrade ==
    /\ ep.parsing /\ ~ep.shook /\ inbuf # <<>>
    /\ role = "server" => Connected
    /\ LET front == inbuf[1][2] IN
         /\ front.op = "good" /\ ~Refuse(front)
         /\ ep' = Opened(front.zip /\ Compression)
    /\ \E r \in Reactions :
         tcp' = React(IF role = "server" THEN SendFrame(tcp, Frame("http", "loop")) ELSE tcp, r)
    /\ inbuf' = Tail(inbuf)
    /\ UNCHANGED <<role, heard, batch, queue, off, ticks>>

\* A handshake that is refused: a server answers with an HTTP error and shuts
\* down; a client reports it and queues a force_close.
HandshakeRefused ==
    /\ ep.parsing /\ ~ep.shook /\ inbuf # <<>>
    /\ Refuse(inbuf[1][2])
    /\ inbuf' = Tail(inbuf)
    /\ IF role = "server"
       THEN /\ Connected
            /\ tcp' = Shutdown(SendFrame(tcp, Frame("http", "loop")))
            /\ ep' = [ep EXCEPT !.parsing = FALSE]
            /\ UNCHANGED queue
       ELSE /\ ep' = Call([ep EXCEPT !.parsing = FALSE], "error", 0)
            /\ tcp' = [tcp EXCEPT !.conn = "closing"]
            /\ queue' = Append(queue, "force")
    /\ UNCHANGED <<role, heard, batch, off, ticks>>

\* An ordinary request at a WebSocketServer: the answer, and the shutdown
\* when it closes; otherwise the next bytes are tried.
PlainRequest ==
    /\ ep.parsing /\ ~ep.shook /\ inbuf # <<>> /\ Connected
    /\ LET front == inbuf[1][2]
           answered == SendFrame(tcp, Frame("http", "loop"))
       IN  /\ front.op \in {"plain", "plainclose"}
           /\ tcp' = IF front.op = "plainclose" THEN Shutdown(answered) ELSE answered
           /\ ep' = [ep EXCEPT !.parsing = front.op = "plain" /\ Tail(inbuf) # <<>>]
    /\ inbuf' = Tail(inbuf)
    /\ UNCHANGED <<role, heard, batch, queue, off, ticks>>

\* A server that has shut down no longer parses requests.
IgnoreRequests ==
    /\ role = "server" /\ ep.parsing /\ ~ep.shook /\ ~Connected
    /\ ep' = [ep EXCEPT !.parsing = FALSE]
    /\ UNCHANGED <<role, tcp, heard, inbuf, batch, queue, off, ticks>>

(***************************************************************************)
(* WebSocketFrameParser::parse over all of the buffer.  A bad frame stays  *)
(* at its front, and the frames before it are dropped with the vector.     *)
(***************************************************************************)
ParseFrames ==
    /\ ep.parsing /\ ep.shook
    /\ LET bad == {i \in 1..Len(inbuf) : FrameError(inbuf[i][2]) # 0} IN
         IF bad = {}
         THEN /\ batch' = inbuf /\ inbuf' = <<>>
              /\ ep' = [ep EXCEPT !.parsing = FALSE]
              /\ UNCHANGED tcp
         ELSE LET first == CHOOSE i \in bad : \A j \in bad : i <= j IN
              /\ inbuf' = SubSeq(inbuf, first, Len(inbuf))
              /\ \E r \in Reactions :
                   CloseForError([ep EXCEPT !.parsing = FALSE], FrameError(inbuf[first][2]), r)
              /\ UNCHANGED batch
    /\ UNCHANGED <<role, heard, queue, off, ticks>>

-----------------------------------------------------------------------------
(* One frame of the vector.  After an error or a close the handler returns *)
(* and the frames behind it are gone.                                      *)

AtFrame(status) == batch # <<>> /\ Consume(ep.frags, batch[1]).status = status

HandleBadFrame ==
    /\ batch # <<>>
    /\ LET got == Consume(ep.frags, batch[1]) IN
         /\ got.status # 0
         /\ \E r \in Reactions : CloseForError([ep EXCEPT !.frags = got.frags], got.status, r)
    /\ batch' = <<>>
    /\ UNCHANGED <<role, heard, inbuf, queue, off, ticks>>

\* Mutant: a control frame ends the message it came in the middle of.
HandlePingResetting ==
    /\ AtFrame(0) /\ batch[1][2].op = "ping"
    /\ tcp' = SendFrame(tcp, Frame("pong", "loop"))
    /\ ep' = [ep EXCEPT !.frags = <<>>]
    /\ batch' = Tail(batch)
    /\ UNCHANGED <<role, heard, inbuf, queue, off, ticks>>

HandlePing ==
    /\ AtFrame(0) /\ batch[1][2].op = "ping"
    /\ tcp' = SendFrame(tcp, Frame("pong", "loop"))
    /\ ep' = [ep EXCEPT !.frags = Consume(@, batch[1]).frags]
    /\ batch' = Tail(batch)
    /\ UNCHANGED <<role, heard, inbuf, queue, off, ticks>>

\* A pong, or a fragment that is not the last.
HandleQuietFrame ==
    /\ AtFrame(0) /\ LET got == Consume(ep.frags, batch[1]) IN
         /\ batch[1][2].op \notin {"ping", "close"} /\ got.message = <<>>
         /\ ep' = [ep EXCEPT !.frags = got.frags]
    /\ batch' = Tail(batch)
    /\ UNCHANGED <<role, tcp, heard, inbuf, queue, off, ticks>>

\* The peer's close: answered once, with its own code, and reported.
HandleClose ==
    /\ AtFrame(0) /\ batch[1][2].op = "close" /\ CloseInfoOk(batch[1][2])
    /\ tcp' = Close(tcp)
    /\ ep' = NotifyClose(ep, batch[1][2].code)
    /\ batch' = <<>>
    /\ UNCHANGED <<role, heard, inbuf, queue, off, ticks>>

HandleBadClose ==
    /\ AtFrame(0) /\ batch[1][2].op = "close" /\ ~CloseInfoOk(batch[1][2])
    /\ \E r \in Reactions : CloseForError(ep, 1002, r)
    /\ batch' = <<>>
    /\ UNCHANGED <<role, heard, inbuf, queue, off, ticks>>

HandleMessage ==
    /\ AtFrame(0)
    /\ LET got == Consume(ep.frags, batch[1])
           kept == [ep EXCEPT !.frags = got.frags]
       IN  /\ got.message # <<>>
           /\ \E r \in Reactions :
                IF InflateError(got.message) # 0
                THEN CloseForError(kept, InflateError(got.message), r) /\ batch' = <<>>
                ELSE /\ tcp' = React(tcp, r)
                     /\ ep' = Call(kept, "message", Assembled(got.message))
                     /\ batch' = Tail(batch)
    /\ UNCHANGED <<role, heard, inbuf, queue, off, ticks>>

-----------------------------------------------------------------------------
(* Other events of the loop *)

Functor(f) == Idle /\ queue # <<>> /\ queue[1] = f /\ queue' = Tail(queue)

\* A frame or a shutdown the second thread queued.
RunSend ==
    /\ \E op \in {"data", "close"} : Functor(op) /\ tcp' = Write(tcp, Frame(op, "off"))
    /\ UNCHANGED <<role, ep, heard, inbuf, batch, off, ticks>>

RunShutdown ==
    /\ Functor("shutdown") /\ tcp' = ShutdownInLoop(tcp)
    /\ UNCHANGED <<role, ep, heard, inbuf, batch, off, ticks>>

\* on_connection of a connection that is no longer up.
Gone ==
    /\ tcp' = [tcp EXCEPT !.conn = "down"]
    /\ ep' = IF ep.shook
             THEN NotifyClose(ep, IF role = "server" THEN 1005 ELSE 1006)
             ELSE ep
    /\ UNCHANGED <<role, heard, batch, off, ticks>>

RunForceClose == Functor("force") /\ Gone /\ UNCHANGED inbuf

\* The peer's FIN, or a reset.
PeerGone ==
    /\ Idle /\ tcp.conn # "down" /\ Gone /\ UNCHANGED <<inbuf, queue>>

PeerAnswersFin == tcp.fin /\ PeerGone

\* Mutant: the shutdown that waits for the output is forgotten.
PeerReadsOnly ==
    /\ Idle /\ tcp.full /\ tcp.conn # "down"
    /\ tcp' = [tcp EXCEPT !.full = FALSE, !.waiting = FALSE]
    /\ UNCHANGED <<role, ep, heard, inbuf, batch, queue, off, ticks>>

\* The peer stops reading, and reads again: handle_write empties the buffer
\* and shuts down if that was waiting.
PeerStalls ==
    /\ ~tcp.full /\ ~tcp.fin /\ tcp.conn = "up"
    /\ off # "none"
    /\ tcp' = [tcp EXCEPT !.full = TRUE]
    /\ UNCHANGED <<role, ep, heard, inbuf, batch, queue, off, ticks>>

PeerReads ==
    /\ Idle /\ tcp.full /\ tcp.conn # "down"
    /\ LET drained == [tcp EXCEPT !.full = FALSE, !.waiting = FALSE]
       IN  tcp' = IF tcp.waiting /\ tcp.conn = "closing" THEN ShutdownInLoop(drained)
                  ELSE drained
    /\ UNCHANGED <<role, ep, heard, inbuf, batch, queue, off, ticks>>

PingTimer ==
    /\ Idle /\ ep.timer /\ ticks < Pings /\ off # "none"
    /\ ticks' = ticks + 1
    /\ tcp' = IF Connected THEN SendFrame(tcp, Frame("ping", "loop")) ELSE tcp
    /\ UNCHANGED <<role, ep, heard, inbuf, batch, queue, off>>

-----------------------------------------------------------------------------
(* The second thread, with the channel on_open gave it: send_text(), then  *)
(* close().  connected() and the queueing are two steps.                   *)

Off(from, to) == off = from /\ off' = to /\ UNCHANGED <<role, ep, heard, inbuf, batch, ticks>>

OffSend ==
    /\ ep.shook
    /\ \/ Off("idle", IF Connected THEN "queue" ELSE "sent") /\ UNCHANGED <<tcp, queue>>
       \/ Off("queue", "sent") /\ queue' = Append(queue, "data") /\ UNCHANGED tcp

\* The compare_exchange on close_sent_ decides which thread closes.
OffCloseBegin ==
    /\ Off("sent", IF tcp.closeSent THEN "done" ELSE IF Connected THEN "frame" ELSE "shut")
    /\ tcp' = [tcp EXCEPT !.closeSent = TRUE]
    /\ UNCHANGED queue

OffCloseFrame ==
    /\ Off("frame", "shut")
    /\ queue' = Append(queue, "close") /\ UNCHANGED tcp

OffShutdown ==
    /\ Off("shut", "done")
    /\ IF Connected
       THEN tcp' = [tcp EXCEPT !.conn = "closing"] /\ queue' = Append(queue, "shutdown")
       ELSE UNCHANGED <<tcp, queue>>

-----------------------------------------------------------------------------
Init ==
    /\ role \in {"server", "client"}
    /\ tcp = [conn |-> "up", full |-> FALSE, waiting |-> FALSE, fin |-> FALSE,
              out |-> <<>>, closeSent |-> FALSE, acts |-> 0]
    /\ ep = [shook |-> FALSE, zip |-> FALSE, frags |-> <<>>, notified |-> FALSE,
             timer |-> FALSE, parsing |-> FALSE, calls |-> <<>>]
    /\ heard = <<>> /\ inbuf = <<>> /\ batch = <<>> /\ queue = <<>>
    /\ off \in {"none", "idle"} /\ ticks = 0

OpenStep == Upgrade \/ HandshakeRefused \/ PlainRequest \/ IgnoreRequests
FrameStep ==
    \/ HandleBadFrame \/ HandlePing \/ HandleQuietFrame
    \/ HandleClose \/ HandleBadClose \/ HandleMessage
FunctorStep == RunSend \/ RunShutdown \/ RunForceClose
OffStep == OffSend \/ OffCloseBegin \/ OffCloseFrame \/ OffShutdown

Next ==
    \/ Read \/ OpenStep \/ ParseFrames \/ FrameStep \/ FunctorStep
    \/ PeerGone \/ PeerStalls \/ PeerReads \/ PingTimer \/ OffStep

(***************************************************************************)
(* The loop finishes the read it handles, runs its functors and flushes    *)
(* what the peer reads; a thread inside close() goes on; a peer answers a  *)
(* FIN with its own.                                                       *)
(***************************************************************************)
Fairness ==
    /\ WF_vars(OpenStep \/ ParseFrames \/ FrameStep)
    /\ WF_vars(FunctorStep)
    /\ WF_vars(PeerReads)
    /\ WF_vars(OffCloseFrame \/ OffShutdown)
    /\ WF_vars(PeerAnswersFin)

Spec == Init /\ [][Next]_vars
FairSpec == Spec /\ Fairness

-----------------------------------------------------------------------------
(* Properties *)

Calls(name) == {i \in 1..Len(ep.calls) : ep.calls[i].cb = name}

\* Positions before the first on_close: all of them if there was none.
BeforeClose == {i \in 1..Len(ep.calls) : \A j \in Calls("close") : i < j}

\* The reference, for all that was heard, h: a message ends at a last frame; it
\* starts at the nearest data frame before, and every data or continuation frame
\* since then belongs to it.
IsData(f) == f.op \in {"data", "cont"}
Starts(h, j) == {i \in 1..j : h[i].op = "data" /\ \A k \in (i + 1)..j : h[k].op # "data"}
MessageAt(h, j) == {k \in 1..j : IsData(h[k]) /\ \E i \in Starts(h, j) : i <= k}
Ends(h) == {j \in 1..Len(h) : IsData(h[j]) /\ h[j].fin /\ Starts(h, j) # {}}

\* The data or continuation frame before the i-th item.
Prior(h, i) == {j \in 1..(i - 1) : IsData(h[j]) /\ \A k \in (j + 1)..(i - 1) : ~IsData(h[k])}

\* What the rules ask of one frame, whatever came before it.
Lawful(f) ==
    /\ f.op # "reserved" /\ f.maskok /\ f.size <= MaxFrame
    /\ f.rsv1 => f.op = "data" /\ ep.zip
    /\ f.op \in Controls => f.fin /\ f.size <= 1
    /\ f.op = "close" => f.code = 1005 \/ ValidCloseCode(f.code)
    /\ f.op \in {"data", "cont", "close"} => f.content = "ok"

\* The peer kept the rules: its handshake was acceptable, its frames are lawful,
\* its data and continuation frames alternate as they should, no message is
\* too long, and its close frame is its last.
Proper ==
    \A i \in 1..Len(heard) :
      /\ heard[i].op \in {"good", "bad"} => ~Refuse(heard[i])
      /\ heard[i].op \notin {"good", "bad", "plain", "plainclose"} => Lawful(heard[i])
      /\ heard[i].op = "close" => i = Len(heard)
      /\ IsData(heard[i]) =>
           LET message == MessageAt(heard, i) IN
           /\ (heard[i].op = "data") <=> \A j \in Prior(heard, i) : heard[j].fin
           /\ SumFunctionOnSet([k \in message |-> heard[k].size], message) <= MaxMessage

Delivered == {i \in Calls("message") : i \in BeforeClose}

\* Every message on_message gets before on_close is one the peer sent, with all
\* of its fragments and no other whatever pings came between, in the order
\* sent; and when the endpoint has handled all it read without closing, none is
\* missing. A peer that kept the rules never meets an error.
\* (websocket_frame.cpp consume, on_websocket_message of both sides)
MessagesIntact ==
    /\ \A i \in Delivered :
         LET ids == ep.calls[i].arg IN
         /\ Range(ids) = MessageAt(heard, Last(ids))
         /\ \A k, l \in DOMAIN ids : k < l => ids[k] < ids[l]
         /\ Cardinality({j \in Ends(heard) : j <= Last(ids)}) = Cardinality({k \in Delivered : k <= i})
    /\ Calls("error") # {} => ~Proper
    /\ (Idle /\ ~ep.notified /\ ep.shook) => Cardinality(Delivered) = Cardinality(Ends(heard))

\* The application sees on_open once and first, one on_close at most and, once
\* the connection is down, exactly one; an error on an open connection is
\* followed by its on_close.
CallbacksOnce ==
    /\ Cardinality(Calls("open")) <= 1 /\ Cardinality(Calls("close")) <= 1
    /\ ep.shook => \A i \in 1..Len(ep.calls) : \E j \in Calls("open") : j <= i
    /\ ep.shook /\ tcp.conn = "down" => Calls("close") # {} /\ ~ep.timer
    /\ ep.shook /\ Calls("error") # {} => Calls("close") # {}

\* The callbacks come as the application may expect: each once, in order, and
\* unless the peer broke the protocol, nothing follows on_close.
\* (notify_close, close_for_error, on_connection)
CallbacksOrdered ==
    /\ CallbacksOnce
    /\ Proper => BeforeClose \cup Calls("close") = 1..Len(ep.calls)

\* Whichever threads close, one close frame at most is written, and the thread
\* that wrote it writes nothing after it: no pong, ping, text or second close.
\* (WebSocketChannel::close and send_frame)
CloseIsLastWord ==
    LET closes == {i \in 1..Len(tcp.out) : tcp.out[i].op = "close"} IN
    /\ Cardinality(closes) <= 1
    /\ \A i \in closes : \A j \in (i + 1)..Len(tcp.out) : tcp.out[j].by # tcp.out[i].by

\* A close by either side, or an error, ends with the connection down: no order
\* of the two threads' steps leaves it half closed. (close, shutdown)
CloseSettles == (tcp.closeSent \/ Calls("close") # {}) ~> (tcp.conn = "down")
=============================================================================
