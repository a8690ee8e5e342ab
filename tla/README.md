# A TLA+ verification project for oklib

oklib is a C++20 network library: an event loop with timers, a pool of loop
threads, TCP servers and clients on top of it, and HTTP/1.1 and WebSocket on top
of those, with a few example programs. Its promises are concurrent ones: "post to
the loop from any thread", "send from any thread", "answer a request later, from a
worker", "feed the parser whatever a read brings". This directory holds models of
the parts where such promises are kept, the TLC runs that check them on small
instances, and proofs, for every instance, of what most of them rest on.

Paths below are relative to the repository.

## 1. Inventory

### 1.1 net

| Component | State | Operations | Talks to |
|---|---|---|---|
| `EventLoop` (functors) `src/net/event_loop.cpp` | `pending_functors_` (mutex), `quit_`, `looping_`, `calling_pending_functors_`, wakeup pipe | `loop`, `quit`, `run_in_loop`, `queue_in_loop`, `wakeup` | every thread; Poller |
| `EventLoop` (timers) | `timers_`, `timer_generations_`, next id and generation (mutex) | `run_after`, `run_every`, `set_timer`, `cancel`; `poll_timeout_ms`, `run_due_timers` | every thread; its own `loop` |
| `EventLoopThread`, `EventLoopThreadPool` | `loop_` (plain pointer), thread, promise; round-robin index | `start_loop`, destructor; `get_next_loop` | EventLoop |
| `Poller`, `Channel` | `channels_` by descriptor; `events_`, `revents_`, registered flag | `poll`, `update_channel`, `remove_channel`; `handle_event` | the kernel; the handlers |
| `TcpConnection` | `state_` (atomic), `reading_`, input and output buffers, callbacks, optional TLS | `connect_established`, `send`, `shutdown`, `force_close`, `start_read`, `stop_read`, `handle_read/write/close/error`, `connect_destroyed` | its loop, owner, peer, user threads |
| `TcpServer`, `Acceptor` | connection map; listening channel | `start`, `new_connection`, `remove_connection`, destructor | the base loop and the pool's loops |
| `Connector`, `TcpClient` | `state_`, `connect_`, `channel_`, retry delay and address index; `connection_` (mutex) | `start`, `stop`, `retry`, `handle_write/error`; `connect`, `disconnect`, `stop`, `new_connection`, `remove_connection` | loop, timers, TcpConnection |
| `TimerThread`, `GlobalTimer` | a loop thread and its loop behind a mutex; the instance behind another | `set_timeout`, `set_interval`, `clear`, `stop`; `instance`, `shutdown` | EventLoopThread, every thread, its own callbacks |
| `Buffer`, `Socket`, `InetAddress`, `Resolver`, `TlsEngine` | bytes, a descriptor, an address, an OpenSSL session | wrappers | |

### 1.2 base

| Component | State | Operations |
|---|---|---|
| `ThreadPool` | `tasks_`, `running_`, `threads_` (mutex, one condition variable) | `start`, `stop`, `run`; the workers |
| `BlockingQueue` | `queue_`, `closed_` | `put`, `take`, `try_take_for`, `close` |
| `AsyncFileLogger`, `Logger` | `pending_`, the generations of flush and interval, one condition variable for the worker and the flushing threads; buffers and sinks per file | `append`, `flush`, `set_flush_interval`, `stop`; `run`, `roll_sink` |
| `CountDownLatch`, `LogStream`, `Timestamp` | a counter; formatting | |

### 1.3 http

| Component | State | Operations |
|---|---|---|
| `HttpServer`, `HttpContext`, `HttpParser` | parse state and limits; the streaming body's state; `reading_` of the connection | `on_message`, `parse`, `process_streaming_body`, `start_read_in_loop` |
| `HttpRequestBodyStream` | callbacks, paused, completed, canceled (mutex) | `on_data`, `on_complete`, `on_cancel`, `pause_reading`, `resume_reading` |
| `HttpResponseWriter` | `pending` responses by sequence number, `next_to_send`, `closed` (mutex); `write_state_` per writer | `send`, `start_chunked`, `write_chunk`, `finish`; `flush_ready_responses` |
| `UploadFileWriterPool` | sessions with blocks, marks, `finished`, `canceled` (a mutex each); the pool's totals and reserved paths | `create`, `append`, `finish`, `cancel`; the worker's loop |
| `MultipartParser`, `StreamingMultipartParser` | none; buffer and state | `parse_multipart_form_data`; `append`, `finish` |
| `HttpClient`, `HttpSyncClient` | requests queued and in flight, the response parser, 100-continue; a wait with a time-out | `send`, `connect`, `disconnect`, `stop`, `on_connection`, `on_message`; `execute` |
| `HttpClientCache`, `HttpCache` | entries by last use, total size; freshness rules | `lookup`, `store`, `update_from_304`, `clear` |
| `HttpSemantics`, `ContentType`, `UrlEncoding`, `HttpRouter` | none, or fixed at set-up | pure functions |

### 1.4 websocket and the examples

`WebSocketFrameParser` and the message assembler, `WebSocketChannel`
(`close_sent_`), `WebSocketServer` and `WebSocketClient` (handshake, fragments,
callbacks, ping timer), compression. The upload routes (`examples/http_demo_routes.h`)
join body stream, multipart parser and writer pool; the SOCKS5 proxy
(`examples/socks5_proxy_server.cpp`) joins a server's connection and a `TcpClient`.

### 1.5 What is hard, and what correct means

* **Wakeups** (`EventLoop`). Work is stored under a lock and the pipe is written
  after it; the loop tests, computes a timeout and sleeps, not atomically. Correct:
  the loop never sleeps on work; functors keep one FIFO order and all run; `quit`
  ends the loop and the destructor's `join` returns.
* **Condition variables notified after the unlock** (`ThreadPool`,
  `BlockingQueue`, `AsyncFileLogger`). Correct: nobody sleeps over what he waits for.
* **Locks held while waiting for another thread** (`TimerThread`). Correct: calls return.
* **Callbacks that change what is being iterated** (timers). Due timers are copied
  out and called without the lock, while callbacks and threads add, replace and
  cancel. Correct: one live timer per id, counts honoured, no timer slept past, every
  timer fires.
* **Decisions on a state that other threads store** (`TcpConnection`, `Connector`).
  `state_` or `connect_` changes at once, while the rest of the call, and earlier ones,
  are still queued. Correct: nothing overtakes on the wire, FIN follows data, one up and
  one down callback; a stop is final, no socket is lost, a start is answered.
* **Order across threads** (HTTP responses). Handlers answer pipelined requests from any
  thread and in any order. Correct: responses whole and in request order, a closing
  one last, a ready one sent.
* **Input that is cut anywhere** (HTTP requests, multipart bodies, WebSocket frames).
  Correct: what is delivered does not depend on the cuts, whatever was paused,
  refused or closed in between.
* **Back-pressure** (uploads, streaming bodies, the proxy): pause and resume cross
  threads and may swap. Correct: counts agree, queues are bounded, nothing is held back.
* **What a late event is taken for** (HTTP client, cache, WebSocket). A connection's end,
  a 304, a time-out or a close arrives after the state it was meant for. Correct: a
  response is its own request's, the cache gives out what it may, every request ends.
* **Lifetimes** (`EventLoopThread`, `TcpServer`, `Connector`, SOCKS5 session): pointers,
  channels and owners that one side clears while the other uses them.

PROJECT.json lists each hazard at its line.

## 2. Plan

Done:

1. **Core**: `FunctorQueue`, `EventLoop`, `EventLoopThread`, `LoopTimers`,
   `TcpConnection`, `HttpResponses`, `UploadWriter`, and `EventLoopProofs`.
2. **HTTP input**: `HttpInput` (parser, streaming bodies, pause and resume),
   `Multipart`, `UploadRoute`.
3. **Connecting**: `Connector` with `TcpClient`, `TcpServer` with its loops, `Socks5`.
4. **Clients and WebSocket**: `HttpClient` with `ClientCache`, `WebSocket`.
5. **Threads**: `ThreadPool`, `BlockingQueue`, `AsyncLogger`, `TimerThread`.

6. **Proofs**: eight modules, see section 5. `ServicesProofs` has those of the modules that share the
   run `services` (`Connector`, `TcpServer`, `ThreadPool`, `BlockingQueue`, `AsyncLogger`) but `Socks5`,
   which `ServersProofs` has with `HttpResponses`; `FoldLemmas` has what they need to know of sums and of
   joined sequences.

Left: the proofs listed at the end of section 5.

Abstract specifications: `FunctorQueue` is what every user of a loop relies on. For the
parsers the abstract side is a function of the whole input, computed at once: the parts
`parse_multipart_form_data` finds, the requests of a stream (`Begins`, `BodyOf`), the
message that ends at a frame (`MessageAt`); the properties compare.

## 3. The modules

### FunctorQueue, EventLoop

`FunctorQueue` is the abstract promise: a queue, `Post` appends to it, `Run` starts
its head. `EventLoop` is the code: `pending` and `running` are `pending_functors_`
and the vector swapped out of it, `pipe` counts the unread writes to the wakeup
pipe (a full pipe refuses one), `lpc` is the line of `loop()` the thread is at, and
`cpc[t]` is "wake" while a client is between its push or store and `wakeup()`. One
action per step that another thread can see: `queue_in_loop` off the loop thread is
`ClientPost` and `ClientWake`; on it, inside a callback, `LoopPost`, which wakes only
while functors are being run; before `loop()`, `SetupPost`, which never wakes.
`PollOther` is any other reason for the poll to return, the 10 s timeout included.
`run_in_loop` on the loop thread is a plain call and no action.

The refinement mapping is `queue <- running \o pending`.

### EventLoopThread

EXTENDS `EventLoop` with the thread (`tpc`), its owner (`opc`) and `loop_`. The owner
is one of the loop's clients. The loop's object dies at `ThreadExit`; a destructor
that has read `loop_` before may then touch it (`DestructorTouchesDeadLoop`, any
outcome).

### LoopTimers

The other half of `EventLoop`: `timers_` as a set, `timer_generations_` as `gens`
(0: not in the map), the copy `expired`, the callback running as `firing`, and a clock.
`add_timer` is `AddFresh` or `AddWithId`; `cancel` removes the generation only; the
callback may do either. History variables count the calls of each generation.
The order inside a batch is left open (the code uses the order of insertion, so the
model has more behaviours), generations do not wrap at 2^64, and the
rounding of the timeout to milliseconds is one more way for the poll to return
early (`PollOther`).

### TcpConnection

One connection with its channel and the poller's registration. The loop is used at
`FunctorQueue`'s level: poll, handlers, one batch. `state`, `reading`, `output`,
`events` are the members; `polled` is what the poller has registered; `wire` and
`fin` what the kernel has taken. A message is two units, so that a write can stop
half-way. Calls on the loop thread run inline (`LoopSend`, ...), calls of others
store first and post later (`ClientSend`/`ClientShutdown`/`ClientForceTest`/
`ClientForceStore`, `ClientPost`). The kernel reports `EPOLLHUP` and errors only for a
registered descriptor, which is why a paused idle connection does not notice its peer.
Left out: TLS, the send filter, the write-complete and high-water callbacks (user
code without state here).

Two things the code does are recorded in history variables so that the other
properties can say what holds apart from them: `revived` (`force_close` from another
thread tests `state_` and stores it later, over a close) and `late` (`start_read` on a
closed connection registers its channel again).

### HttpResponses

The responses of one connection whose server has an asynchronous callback. `requests`
are those parsed, `writers` maps sequence numbers to them, `pending`, `next`,
`closed` are the members of `HttpResponseWriter::State`, `posting` the handlers
between `enqueue`'s unlock and `queue_in_loop`, `flushes` the posted flushes.
`FlushReadyResponses` is the whole of `flush_ready_responses`: which entries it
completes, what it takes of the next, the sends in order and the shutdown. `OPTIONS *`
and malformed requests are answered past the writers, as in the code. Each
writer has one handler thread; the parser is reduced to the request it yields.

`ResponsesInOrder` is said of a sequence of pieces: a piece `Opens` a response, `GoesOn` or `Ends` it,
one `Follows` another within a response or from one writer to the next, and a sequence is `Ordered`
when each piece of a writer follows the writers' last piece before it. `InPlace` is the part on answers
past the writers, `ClosesLast` the one on `Connection: close`. Two things the code does are excepted,
each by name. `on_options_star` and `send_bad_request_and_close` send at once, whatever the writers
still have to send: such an answer stands ahead of responses to earlier requests, or between two chunks
of one, although `http_test.cpp:559` has pipelined responses keep the order of their requests. The
requests so answered are the history `early`. And `start_chunked` on a HEAD leaves `write_state_` open:
chunks that the handler gives before the head is flushed are sent behind it (`Surplus`), although
`http_test.cpp:457` has HEAD omit the body. A client that meets either takes one response for another.

### UploadWriter

`UploadFileWriterPool` and its sessions. `ses[s]` holds the fields under a session's
mutex, `apc[s]` the feeding thread ("high": between `append`'s unlock and the
high-watermark callback), `wpc[s]` the line of `run_upload_writer_session`, and `total`,
`active`, `reserved` the pool. The two watermark callbacks are called outside the lock
and are actions of their own; what they do is `HttpRequestBodyStream`'s flag `paused`.
Each file operation may fail (`Tries`). All sessions ask for one file name. A
byte is its number in the upload, so the file's content can be compared with it;
the memory of the blocks and its reuse are left out.

`UploadAssumption` has `BlockSize - 1 <= LowMark`: otherwise a pending block that is not
full could hold a paused upload above the low mark for ever. The defaults satisfy it, the
code does not check it. After an open that failed, `append` is accepted until
`worker_done` and its bytes stay in the pool's count; `AccountsAgree`, and with it
`QueueAccounted`, exempts that. `QueueBounded` has two bounds on what an upload may take in.
With its part file open it is the limit and the block in the worker's hands, which is in neither count
that `append` adds up. Without a file it is twice the limit: the worker's discard sets the queue's count
to zero, and until `worker_done` as much again may come in. Nothing of that is written.

### ThreadPool, BlockingQueue, AsyncLogger, TimerThread

The four users of mutexes and condition variables. A section under a mutex is one step,
a notify after the unlock another, and a waiting thread may wake up for no reason.

`ThreadPool`: `worker[w]` is the place of a thread in `run_in_thread`; `run()` comes from
other threads and from tasks; `start` and `stop` from one owner. A task that `run()` calls
itself, because there is no worker, is one step under the mutex. `PoolServes` is the
conjunction of `PoolDrains` (each task runs at most once; those promised before a
`stop()` have run when it returns) and `PoolAwake` (nobody sleeps over work).

`BlockingQueue`: `put`, `close` and their notifies, `take` and `try_take_for`. What is taken
is left out, what is left in the queue is not: `QueueAwake`.

`AsyncLogger`: the appending threads, `flush()` with its generation, the worker with its
batch, buffers, interval and rolling sinks, `stop()`, and the `Logger` whose fatal
message flushes. An event is a number with a size. One condition variable, `cvWaiters`, has the
worker and the flushing threads, and a notify may reach any of them. `LogFaithful` compares
what was appended with files, buffers, batch and queue; `LogAwake` says who may sleep. `Of(f, events)` are
the records among `events` that go to file `f`, in their order, and `WriteBuffer` is stated with it.

That nobody sleeps over work is stated as an invariant rather than as "all work is
done in the end": the invariant names the notify that must be under way at each point, and a
lost wakeup breaks it the moment it happens.

`TimerThread`: `mutex_` and the mutex of `GlobalTimer`, who holds and who waits for them, the
promise for which `schedule()` waits, and the callbacks on a loop thread that take the same
mutexes. `GlobalTimer` makes a `TimerThread`, and another one when it is asked again after a
`shutdown()`: they are numbered, `MaxTimerThreads` bounds them, and the loop thread of one may well use
the next. A loop thread is `"starting"` from `start_loop`'s return until `loop()` has cleared
`quit_`; a quit in that window is lost, and the `shutdown()` that made it never returns. The timers
are a count, since `LoopTimers` has the rest. `TimerCallsReturn` leaves out calls one by one
(`Excused`): the shutdown whose quit was lost, a call in an object that was destroyed under it, and
calls that wait for a loop thread which is in such a call.

### Connector, TcpServer

`Connector` is the connector with the `TcpClient` around it: `m` in its operators is the record
of its members, `queue` the functors posted to the loop, `timers` the retry timers not yet due,
`fds` and `polled` the open and the registered sockets. `start`, `stop` and `disconnect`
come from the loop's thread or from another, in the code's two steps (store, then post). `accepted` is
the socket for which `handle_write` has read `connect_` as true and which it now makes a connection
of: a `stop()` of another thread may come between, and the connection still comes up. A `stop()` is
therefore final from the moment its functor has run, not from its store on, and that is what
`StopIsFinal` says. Only `Retry = TRUE` is run: without retry the last failed address calls the
failure callback, a branch of `RetryOf` that the run does not meet and the theorems cover.
`overlap` is set when a `start()` comes while an attempt is under way or about to be: the code
then replaces `channel_` and loses a channel, which the properties leave out.

`TcpServer` has the base loop, the pool's loops and the map of connections; `loopQueue[l]` are
the functors in the order of `FunctorQueue`. A connection's end goes from its loop to the
base loop and back. `stray` is set when that comes back to a server that is gone.

### HttpInput

The requests of one connection. The peer sends a sequence of elements, lines or runs of body
bytes with their sizes; a read brings any number of bytes. `parser` is `HttpParser` (whole
request, or head only), `body` the streaming state of `HttpContext`, `reqs` the requests the handler
has been given with their body streams, `turn` whose turn it is on the loop thread, `resumer` the
thread in `resume_reading` between its unlock and the call it makes. What is wrong inside a line
is the line's verdict; the limits are tested on sizes, as in the code, on what has arrived so far.

`upset` marks the histories in which the code does hold data back (a pause in the body's last
bytes, a resume overtaken by a new pause), and `OnTheEdge` the one request whose fate depends on the
reads: a start line of exactly the limit passes when its CRLF is there and not when its CR is.

### Multipart, UploadRoute

`Multipart` has both parsers as operators. A body is a sequence of tokens, each counted as one
byte; header lines are classes of lines. `Step` is what one call of a `process_` function does:
new members, whether `process()` goes on, and the callback. `ParseBuffered` is
`parse_multipart_form_data`, the reference.

`UploadRoute` is the route of `http_demo_routes.h` over it: `fed` is how much of the body its stream
has delivered, in pieces of any size, `todo` what the current callback has still to do, `session`
the upload session as the route sees it, and `completion` the session's callback on a thread of the
pool, which races the route for `response_sent`. When the completion of a canceled session
comes first, it takes the exchange and sends nothing (`overtaken`).

### HttpClient, ClientCache

`HttpClient` is the client on its loop: `h` its members, `cs` its connections with the units under
way to the server and from it, `dialing` the connector, `fate` and `log` what became of the requests.
`mode` says which kind of client it is: buffered, streaming, with a cache, or wrapped in
`HttpSyncClient`. The handlers are functions from the record of the state to the next one.
`dirty` is set when connections overlap or a connect fails. The client sets no connect-failed
callback and does not ask whose down callback it gets, so there a request may wait for good or be
given what belongs to another; a behaviour ends there.

A user may send anything at any time, a request with `Expect: 100-continue` behind others too, and may
stop during the wait for the 100. The head of any answer clears `awaiting_continue_`
(`http_client.cpp:345`), and so do `stop()` and `disconnect()` (251-263), whose connection may stay for
a while; the 100 is then ignored (613) and the body never sent. `stranded` collects the requests this
happens to before their answer has come, and those sent behind one on the same connection, which a server
takes for the missing body. The behaviour goes on, with such servers, and the properties leave
out these requests alone.

`ClientCache` has the cache as operators on a record of entries, most recently used first, and the
freshness rules. Time is in seconds; a response carries its Age, its lifetime and what it varies on, and,
as histories, when it was made (`born`) and when its server sent it (`left`). The code counts an
entry's age from its arrival (`cache_current_age`, `http_cache.cpp:256`), so a response that took a second
is given out a second too long: `CacheHonest` compares the lifetime with the age since `born`, less the time the
response, or the 304 that renewed it, was on its way (`OnItsWay`). What it shows of freshness is that
nothing else makes the cache give out what is too old, through renewals, evictions and queued deliveries.

### WebSocket

One endpoint, server or client, and an arbitrary peer. `inbuf` are frames read and not parsed,
`batch` the frames of one read that are parsed and not handled, `ep` the endpoint's context with
the calls of the callbacks as a history, `tcp` the connection with `close_sent_`, `off` a second thread
that sends and closes through the same channel, in the code's steps (test, frame, flag, shutdown).
Payloads are a verdict (fine, not UTF-8, does not inflate) and a size; the masks are right or wrong.
`FrameHeaders` is every header a frame can have, and `FramesAssumption` that the frames a run takes
are among them. The reference (`Starts`, `MessageAt`, `Ends`) is a function of the whole history `h`.
A peer is `Proper` when each of its handshakes is one this endpoint accepts, each frame is `Lawful` by
itself, its data and continuation frames alternate as they should, no message is too long,
and its close frame is its last. A 101 with an extension the client did not ask for is not proper.

### Socks5

The session of the SOCKS5 example with the downstream connection, its `TcpClient` and the upstream
connection, in one record `proxy`; the handlers are functions on it. A protocol message is two elements,
so that a read may end inside it; payload is numbered. `functors` are those queued on the session's
loop: the two force-closes and the cleanup that destroys the `TcpClient`. `idles` says whether an idle
timeout is set: by default none is, and the run covers both. `ProxyFaithful` is
`RelayFaithful` and `SessionOwned`.

### The MC modules

`MCServices`, `MCHttpServer` and `MCUpload` put modules that share no state side by side. A
behaviour is one of one part, its *scene*; the others stay in one initial state, so the states add
up and are not multiplied. In `MCHttpServer` the two sides of a connection are the scenes:
the side that is not looked at starts with its connection gone. `MCEventLoopThread`, `MCHttpClient`,
`MCWebSocket`, `MCUploadWriter` and `MCUploadRoute` give constants their values.

## 4. The runs

| Run | Instance | Shows |
|---|---|---|
| `event_loop_thread` | owner and one more client, 5 posts, a pipe of 2 | `NoLostWakeup`, `NoMissedQuit`, the refinement `FunctorsAreFifo`, `FunctorsRun`, `JoinReturns` |
| `loop_timers` | one client, 2 ids, 2 timers, one cancel, time 0..3 | `OneLiveTimerPerId`, `NoOversleep`, `FiresBounded`, `TimersFire` |
| `services`, pool | 2 workers, a runner, 3 tasks, 2 starts | `PoolServes` |
| `services`, queue | 2 takers, 2 putters, 3 puts, 2 takes each | `QueueAwake` |
| `services`, log | 2 threads, one file, 3 records, buffer of 2, roll size 2, one old file kept, 2 flushes | `LogFaithful`, `LogAwake` |
| `services`, timers | 2 threads, 2 calls each, 2 callbacks | `TimerCallsReturn` |
| `services`, connector | 2 addresses, 4 attempts, 2 starts, 2 stops | `SocketsOwned`, `StopIsFinal`, `ConnectSettles` |
| `services`, server | 0 or 2 I/O loops, 4 connections | `ConnectionsOwned` |
| `services`, proxy | one client of 61 scripts, with and without passwords, 2 payload elements each way | `ProxyFaithful` |
| `tcp_connection` | the loop's thread and one client: one message each, or two pauses or resumes; one force | `WireInOrder`, `FinAfterData`, `ConnectionLife`, `ShutdownFinishes`, `PeerGoneNoticed` |
| `http_server`, requests | one or two requests of 20 kinds, read in any cuts, whole or streamed, two pauses | `RequestsFaithful`, `NothingHeldBack` |
| `http_server`, responses | two writers, one direct answer, 4 pieces | `ResponsesInOrder`, `ResponsesDelivered` |
| `upload`, pool | an upload of 7 bytes and one of 2 for the same name, one worker, one fault | `QueueAccounted`, `FilesOwned`, `UploadEnds` |
| `upload`, route | multipart bodies of up to two parts and others, fed in any cuts | `MultipartFaithful`, `UploadAnswered` |
| `http_client` | each kind of client with 2 requests, or 3 and a cache of 2 entries and 3 units of body; 3 sends and stops together, 2 connections, 1 second | `ResponsesIntact`, `CacheHonest`, `RequestsAnswered` |
| `websocket` | server and client, 4 items from the peer, 3 when a second thread is there, 2 in a read | `MessagesIntact`, `CallbacksOrdered`, `CloseIsLastWord`, `CloseSettles` |
| `tcp_send_then_shutdown` | two threads, one message each | violation: a thread's own shutdown overtakes its send |
| `drain_resumes` | one upload at a time, no fault | violation: a drained upload stays paused |
| `schedule_returns` | one thread and the callbacks of its timer | violation: setting and clearing a timer wait for each other |
| `multipart_cut` | one good body, cut in every way | violation: its last line end is refused |

Several properties (`PoolServes`, `LogFaithful`, `ConnectionLife`, `ResponsesInOrder`,
`QueueAccounted`, `FilesOwned`, `ProxyFaithful`) are conjunctions of named parts, which the modules
state and comment one by one.

**Bounds.** Wakeup races need one poster with two functors and one thread beside it;
a pipe of two has its empty, partial and full cases. A timer race needs the timer,
the one that cancels or replaces it and a time step before, at and after the due
time. A send race on a connection needs one message in the buffer and one queued,
and two units per message for the partial write; more messages repeat the
pattern, and the order argument does not depend on their number. A thread that is not the
loop's either sends or controls reading (`Mixed = FALSE`): the two touch different
members, and meet in `Writing` and `Reading` of the channel, which the loop's own calls
combine. A lost wakeup needs two sleepers, a notifier and work for one of them. Two addresses
let a connector go on, start over and retry; two starts and two stops have every
order of one pair after another. Four connections on two loops give each loop a second one.
Three pieces make a chunked response with a body, and the fourth lets another
handler answer before, between or after them. Two requests in one stream show what one leaves
to the next. The long upload has more bytes (7) than its limit and a block
(4 + 2), so every limit is met; blocks of two bytes can be empty, half full and full, and
one worker for two uploads makes one wait for the other. Two parts are a part that follows
another; the contents hold every prefix of a delimiter that is none. Two requests in flight show
one response taken for the other's. With a cache, three requests that differ in key or in the header
responses vary on make a third entry for a cache of two (`max_entries`), bodies of one and two units
pass the limit of three with two entries (`max_total_body_bytes`), and an entry is evicted for either
reason, also while a revalidation that names it is out; one second is enough for an answer
to age on its way or in the cache. An `Expect` request beside another one, and a stop during its wait, strand it. Four items are a handshake and a message of two fragments with a
control frame between them; two in one read put an error behind a good frame. Constants named
`Max...` are bounds or the code's own limits, and appear only in guards.

**Deadlock** is not checked where the system may really stop: an idle connection, a
loop whose owner has joined, responses nobody asks for, uploads that have ended. Where threads wait
for each other, a property says that they do not do so for good (`TimerCallsReturn`, `JoinReturns`,
`PoolServes`, `LogAwake`).

**Fairness.** The loop's thread runs (weak fairness on its steps); a thread inside a
library call leaves it (weak fairness on the wakeup, post or store that ends the call);
time passes; the pool's threads run, and a watermark callback that is due is called.
Nothing is assumed of user code: it need not post, answer, close or
resume. `TcpConnection` also has strong fairness on `HandleWrite` (a peer that reads
lets a writable socket take something in the end; the property exempts a broken
socket by way of the close it leads to) and on `HandleReadEnd` (an error is reported
once, then the end of input). In `TimerThread` weak fairness is enough
for a thread that waits for a mutex, since the calls of the others are bounded. In
`Connector` a connect ends, one way or the other: the kernel times it out. In `HttpClient` a
server that hears a request answers it, and a peer closes what was ended; each step takes its own
condition away and happens a bounded number of times, so fairness is stated as "the condition does
not hold for ever", which TLC checks faster. `WebSocket` assumes a peer that answers FIN with its
own and that the socket drains. `UploadEnds` exempts a pool whose threads are all held by
uploads that nobody finishes: the code has no timeout for those.

**What the properties leave out, because the code does it.** Each of these is a history variable or
a named operator, so that everything else is still checked:

| Name | Where the code goes wrong or may |
|---|---|
| `revived`, `late` (`TcpConnection`) | `force_close` stores its state over a close; `start_read` registers a closed connection |
| `overlap` (`Connector`) | a `start()` during an attempt loses a channel |
| `stray` (`TcpServer`) | a close callback reaches a server that was destroyed |
| `Standoff`, `Excused` (`TimerThread`) | the deadlock of `schedule_returns`; each call that goes on with a destroyed `GlobalTimer`, each `shutdown()` whose quit came before `loop()` cleared `quit_`, and what waits for their loop threads |
| `early`, `Surplus` (`HttpResponses`) | an answer to `OPTIONS *` or to a malformed request while earlier responses are still due (`http_server.cpp:158-160, 213-228`) is ahead of them or inside one; chunks behind the head of a HEAD's response (`http_response_writer.cpp:85-98`) |
| `upset`, `OnTheEdge` (`HttpInput`) | a pause that is lost or a resume overtaken; a start line at its limit |
| `dirty` (`HttpClient`) | overlapping connections, a connect that fails |
| `stranded` (`HttpClient`) | a request whose wait for a 100 ends with another request's answer (`http_client.cpp:345`) or in `stop()` or `disconnect()` (251-263) without its body, and those sent behind it on that connection |
| `OnItsWay` (`HttpClient`) | an answer's age on its way, which the cache does not count (`http_cache.cpp:256`) |
| `Excused`, `overtaken` (`UploadRoute`) | data after the final boundary, headers or fields at a limit; a canceled completion that takes the exchange |

In `Socks5` nothing is left out but what `SessionOwned` says itself: a session whose connect failed
while its client's connection was paused is closed, has no timer and may stay for good, since nothing
reads that connection again; and without an idle timeout, which is the default, a relaying session has
no timer either.

**What the violations mean.**
`tcp_send_then_shutdown`: the loop has older output in the buffer; a thread sends
(queued) and shuts down (state stored at once); `handle_write` empties the buffer, reads
`disconnecting` and sends FIN; the queued message then finds the socket closed for writing
(`tcp_connection.cpp:248`).
`drain_resumes`: `append` crosses the high mark and unlocks; the worker takes the block,
reaches the low mark and calls the low-watermark callback; then `append` calls the
high-watermark callback, and the pause stays (`upload_file_writer.cpp:491`).
`schedule_returns`: `schedule()` holds `mutex_` while it waits for a promise that the loop thread
keeps; a callback on that thread clears a timer, for which it wants `mutex_` (`timer_thread.cpp:69`).
`multipart_cut`: after the final boundary `append()` accepts only empty data, so a body whose last
line end comes in a read of its own is refused and answered with 400
(`streaming_multipart_parser.cpp:185`).

Every property of a passing run has at least one mutant: a definition of the model changed as a
plausible bug would change the code, under which TLC finds the property violated. A mutant is
written before the definition it replaces and says so in its comment.

## 5. The proofs

Each theorem speaks of a module's own specification (`Spec`, or `PoolSpec`, `QueueSpec`, `LogSpec`,
`ConnectorSpec`, `ServerSpec` where several modules share a run): initial predicate and steps, for
every value of the constants that satisfies the module's assumption. The bounds `Max...` are
constants too, so they may be as large as one likes. The assumptions say that bounds are
naturals, that the names used for the loop's thread or for "nobody" are no thread or upload, that
frames are frames, and, where threads or uploads are counted, that their sets are finite.
`UploadWriter` adds what its options need (a block is not empty, `LowMark < HighMark`,
`BlockSize - 1 <= LowMark`); the last of these matters for liveness only.

The proofs have one shape: an inductive invariant, a lemma that it holds initially, lemmas that
steps keep it, one case per action, and the theorem. What follows is the invariant and why the
property alone is not enough.

### FoldLemmas

Sums over a set and `FlattenSeq` are recursive functions of the library, so what they compute is shown
by induction: over the size of a set (`SumIs`, `SumMoves`: a sum changes by what one member changes),
and over the length of a sequence (`FlattenAppend`, `FlattenConcat`, `FlattenHead`). The library's
induction theorems cannot be used for that; `LeastOf`, that a set of numbers has a least one, can, and
a proof by induction is one by a least counterexample (`Climb`).

### EventLoopProofs

* `LoopTypeCorrect`: the type invariant, inductive as it stands.
* `LoopNeverOversleeps`: `NoLostWakeup` and `NoMissedQuit`. Neither is inductive: at
  the poll nothing is known of how the functor got there. `WakeupInv` says it at every
  point of `Unserved`, those from which the loop can reach `epoll_wait` without draining
  the pipe or swapping the queue in between ("init", "run", "body", "test", "poll"): a
  functor not posted by set-up code is covered by a wakeup that is in the pipe or about
  to be written, and `calling` is true exactly while a batch runs, which is why a
  callback's post from there wakes. `handle_wakeup` may drain the pipe because a swap
  follows.
* `LoopImplementsFifo`: `FunctorsAreFifo`, the refinement of `FunctorQueue`. `FifoInv`
  says that the queue holds, of each submitter, exactly the functors posted and not
  executed, once each and in increasing order, and that `running` is empty outside a batch, so
  the swap leaves `running \o pending` as it is.
* `ThreadImplementsLoop`: every step of `EventLoopThread` is a step of `EventLoop` or
  leaves it alone, so the theorems hold of a loop on its thread: `ThreadNeverOversleeps`.

### TcpConnectionProofs

* `ConnectionTypeCorrect`: `TypeOK`, with the fact that a client about to post a message has
  counted it.
* `WireStaysInOrder`: `WireInOrder` is inductive given the types. `send_raw_in_loop` writes past
  the buffer only when it is empty, and what a write leaves is joined behind it (`CutAndJoin`).
* `FinFollowsData` and `ConnectionLivesOnce` rest on `LifeInv`: `connect_established` is
  queued at most once and comes first (`EstablishOnce`); until it has run nobody but the owner
  posts and the channel has no events (`NotYetUp`); a connection that is not disconnected has
  not been reported down (`DownOnce`). `ClosedIsQuiet` needs `QuietInv`: not only the poller's
  registration is gone but the channel's events, which an update would register again.

### LoopTimersProofs

* `TimersTypeCorrect`: `TypeOK`; that the earliest due time is a time uses that naturals are
  well-founded (`LeastOf`).
* `OneTimerEach`: `OneLiveTimerPerId` needs `GenInv`, that every timer about is of a
  generation already given out, so a new one is like no other, wherever the batch is.
* `TimersFireAsAsked`: `FiresBounded` needs `CountInv`, which relates, for every timer in
  flight, the calls it has had, the calls it still has and the calls asked for.
* `PollNeverOversleeps`: `NoOversleep` is inductive given the types: a client that adds a timer while
  the loop polls is in `waking` until it has written the pipe.

### ServersProofs: the responses

* `ResponsesTypeCorrect`: `TypeOK`.
* `ResponsesStayInOrder`: `ResponsesInOrder`. What the property says of the wire must be known of what has
  not been sent. `Stage`: on the wire the responses before `next` are whole, and `next`'s own either has
  not begun or goes on after the writers' last piece. `Entry`: what waits for a writer is a stretch of
  its response that continues from there, as far as its `write_state_` says the handler has come, and
  `finished` exactly when it ends it. `Closing`: only the writer at `next` may have announced the
  close, and then its entry says so. `NumberInv`: each writer has a request of its own. One flush joins
  any number of entries, so `FlushSends` is an induction over the entries it completes (`Upto`), each
  of which leaves the wire in a `Stage` from which the next may begin. `OPTIONS *` and malformed requests
  are answered past the writers; `Due` says where those answers may stand: behind none that is not in
  `early` does a response come that an earlier request asked for, and the responses before `next`'s are
  all there. The theorem excepts what the property excepts: the place of an answer in `early`, and the
  `Surplus` behind a HEAD's head.

### ServersProofs: the proxy

`ProxyStaysFaithful` (`ProxyFaithful`) is about a session as one record, so its invariant is a predicate of
records, `GoodSession`, and there is one lemma per handler that says what it makes of a good one.

* `SessionLife`: what a session holds in each phase. A closed one has no timer; whatever it still holds of the
  target, a queued `cleanup` lets go of, which is queued once and behind the target's own close.
  `SessionOwned` follows when nothing is queued.
* `FlowInv`: the streams. What the target was sent (`SaidUp`) leads what the client sent behind its
  handshake, and is all of it while the session relays. What the client was sent is either free of the
  success and of data (`Quiet`), or a prefix of `Welcome` and the target's data of at least the length of
  `Welcome`; then the password was right if one is asked for (`Proven`). In the handshake
  the answers so far are exact (`Answered`), the bytes handled held no data, and what is left of
  the script, with what waits in the buffer, still alternates heads and rests with data behind the target
  only (`Well`); that is an invariant of the client's scripts, shown of every script for any
  amount of data.

### ServicesProofs: threads

* `PoolServesAlways`: `OwnerInv` (where `stop()` is and what workers may still do), `TaskInv` (a
  task is in one place and has run only when it is in none), `PromiseInv` (a promised task has
  run, is with a worker, or is queued with a worker left to take it) and `PoolAwake` itself.
  The last is inductive because it counts: a worker that takes a task and one that goes to
  sleep change both sides (`OneMore`, `OneLess`; this is where finiteness is used).
* `QueueAwakeAlways`: `QueueAwake` is inductive given the types, by the same counting.
* `LogAwakeAlways`: `FlushInv`. One condition variable serves the worker and the flushing threads, so
  it has to be shown that a `notify_one` cannot go to the wrong one: generations only go up, and
  the request of a thread in `flush()` is answered, there, or in the worker's hands (`InHand`),
  whether or not that thread sleeps.
* `LogStaysFaithful`: `LogFaithful`. `FileInv` is `LogComplete` file by file: files, buffer, batch and queue
  in a row are the end of what was appended. `MarkInv` follows a `flush()` through the generations:
  what was appended before it is out of the queue once its generation is in the worker's batch, and on
  file once that is the flushed one. Writing a buffer out rolls the file at any record, so the files after
  it are found by induction over its records; that rolling loses nothing but what the
  oldest file held is the heart of that step.

### ServicesProofs: connecting

`SocketsStayOwned` and `StopStaysFinal` share `ConnectorInv`. `SocketsOwned`
says nothing of what is queued or due, so it is far from inductive. `OneAttempt` says which of
four shapes the connector is in: nothing ahead (`Quiet`, and `Free` when a thread is between its
stores and its post), a connect watched (`Watching`), one start queued behind every reset
(`Retrying`), one retry timer set (`Timed`). Each functor, timer and handler moves between these, and two
of them never hold together, which is why `channel_` is free when the next attempt takes it.
`SocketsOwned` holds only without `overlap`, as the property says. Of `StopIsFinal` only the part
about sockets needs that exemption: that nothing is being connected rests on `StopInv`, on the fact
that `connect` is true exactly when the last call was a start (`WantedInv`), and on the functor of a
`stop()` coming after its store: what read `connect` before the store the functor finds.

### ServicesProofs: the server

`ConnectionsStayOwned`. `FunctorInv` says what a functor in a queue means for its connection and on which
loop it can be, `Phase` what is true in each state of a connection's life, `Holder` who holds it, and
`ShareInv` that the loops before `nextLoop` have one connection more than the others. The
destructor's loop posts in the order of a set (`SetToSeq`); the proof uses only that each
element comes once. All but the shares hold until `stray`.

### UploadWriterProofs

`UploadsKeepTheirFiles`. `Pieces` is the heart of it: what was given to `append` is cut into the part file,
the worker's block, the ready blocks and the pending block, in this order and without a gap; its
witness is the sequence of cuts. It holds while the session is good, and the worker stops only when
everything but the file is empty (`Content`). `ResultInv` and `Meet` relate a session's result to the
disk; `PathInv` says that paths under way are exactly those reserved, one upload each. That
`reserve_upload_paths` finds an index at all is a counting argument (`PathFound`): an index
that is not free is the path of some upload, and there is one index more than uploads.

`UploadAccountsBalance` (`QueueAccounted`) needs a second invariant, `AccountsInv`. `total` is the sum of
what is queued and `active` the number of live sessions, kept by `SumMoves`. Per session, `Ending` says that
`queued` is the bytes in its blocks, that a session refused something or whose worker has stopped takes
no more, and how far the worker can be with or without a part file; `Fed` bounds what came in
by what is written, queued and in the worker's hands; `Marked` that data comes in
only below the high mark, and that the feeding thread is above it exactly while the callback is due
or the stream is paused. Without `Ending` neither of the others is inductive: the discard of a session
whose file could not be opened sets `queued` to zero while `got` stays.

### WebSocketProofs

`ClosingIsFinal` (`CloseIsLastWord`) needs `EndpointInv`. `WordInv`: a close frame in the output, or on
its way there, is of the one thread that has won the exchange on `close_sent_`; once the loop has
written its own the connection is no longer up, so its later frames are refused. `OffInv`: the second
thread's frames are queued in its order, the close last. `CallInv`: `notified` is true exactly when
`on_close` was called, and the ping timer ends with it. `DownInv`: nothing is handled of a
connection that is down. The peer's frames are any frames of the model.

`MessagesStayIntact` (`MessagesIntact`) and `CallbacksStayOrdered` (`CallbacksOrdered`) need `PeerInv` on top of
it, which relates the endpoint to the whole history. `PlaceInv`: what is read and not parsed, and what
is parsed and not handled, is the end of it. `OpeningInv`: before the upgrade only handshakes
have been handled, and behind one that may be accepted there are frames. `OpenedInv`: until `on_close`
the fragments kept are exactly those of the message that is open where the endpoint has come to (`Held`), and
`on_message` has been called once for each that ended before. `Answered`: the k-th call got the k-th
message. `OverInv`: an error means a peer that broke the rules; after `on_close` nothing is left to
handle, or the peer did; and with a proper peer `on_close` is the last call. The reference is about positions
in the history, so each frame handled moves it by one: `MessageNext`, `PriorNext` and `EndsNext` say how,
and `FragmentGrows` that `consume` keeps in step.

### What the proofs found

Three statements were wrong and passed the runs all the same, because of the instance chosen.

* `AsyncLogger`: the order of a file's records was taken from a fold whose order the library does
  not promise. `Of` and `WriteBuffer` now say it.
* `UploadWriter`: the bound of `QueueBounded` did not hold of an upload whose part file cannot be opened,
  see the module.
* `WebSocket`: with compression off, a client refuses a 101 that offers it, and `MessagesIntact` still took
  that peer to be proper; several rules for frames were missing from `Proper` too.

### Only model-checked

* Liveness and fairness, everywhere, which is out of the prover's reach (`FunctorsRun`,
  `JoinReturns`, `TimersFire`, `TimerCallsReturn`, `ConnectSettles`, `ShutdownFinishes`,
  `PeerGoneNoticed`, `ResponsesDelivered`, `UploadEnds`, `RequestsAnswered`, `CloseSettles`).
* What a parser computes for every input and every way to cut it: `RequestsFaithful`,
  `NothingHeldBack`, `MultipartFaithful`, `UploadAnswered`. They compare what a parser has delivered with a
  function of the whole input; the invariant that relates the two at every point of an input has
  not been written.
* `ResponsesIntact` and `CacheHonest`: the handlers of `HttpClient` and `ClientCache` are chains of functions on
  one record of many members, and the properties select from histories. Nothing speaks against a
  proof but its length.

## 6. Not modelled

Listed in PROJECT.json with reasons. Byte storage and system-call wrappers (`Buffer`, `Socket`,
`InetAddress`, `Resolver`); TLS, in `TcpConnection` too, whose engine is a wrapper of OpenSSL's state
machine; the send filter; formatting (`LogStream`, `Timestamp`, log levels); the kqueue poller;
SHA-1, base64, masking and zlib; `CountDownLatch`, a counter under one mutex; pure functions of
headers and paths (`HttpSemantics`, `ContentType`, `UrlEncoding`, `HttpRouter`, the server-side
validators of `HttpCache`), which are single-threaded and which unit tests reach; the examples'
option parsing and the demo routes that answer at once. File systems, sockets and peers are
external: they do what the code in `src/` allows for, errors included.
