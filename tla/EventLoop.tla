------------------------------ MODULE EventLoop ------------------------------
(***************************************************************************)
(* EventLoop's cross-thread half: the pending functor queue, the wakeup    *)
(* pipe, the quit flag and the iteration of loop() (event_loop.cpp).       *)
(* Timers are a matter of module LoopTimers, descriptors of TcpConnection. *)
(*                                                                         *)
(* One thread runs the loop; Clients are all other threads.  Code running  *)
(* on the loop thread inside a callback (a channel handler, a timer, a     *)
(* functor) posts as "loop"; code running on it before loop() is entered   *)
(* (an EventLoopThread's init callback, main) posts as "setup".            *)
(* A functor's content is abstracted to who posted it and its number.      *)
(***************************************************************************)
EXTENDS Naturals, Sequences

CONSTANTS Clients,    \* threads other than the loop's own
          MaxPosts,   \* bound: MaxPosts[s] functors are posted by s
          PipeCap     \* wakeup writes the pipe takes before write() gives EAGAIN

ASSUME ClientsAssumption == Clients \cap {"loop", "setup"} = {}

Submitters == Clients \cup {"loop", "setup"}

ASSUME BoundsAssumption == MaxPosts \in [Submitters -> Nat] /\ PipeCap \in Nat \ {0}

VARIABLES
  quit,       \* quit_
  looping,    \* looping_
  calling,    \* calling_pending_functors_
  pending,    \* pending_functors_
  running,    \* the functors do_pending_functors has swapped out and not yet run
  pipe,       \* unread wakeup writes
  woken,      \* wakeup_channel_ is among active_channels_ and not yet handled
  lpc,        \* where the loop thread is
  cpc,        \* where each client is: "wake" between its store/push and wakeup()
  posted,     \* posted[s]: functors s has posted (numbers them)
  executed    \* executed[s]: functors of s started so far

loopVars == <<quit, looping, calling, running, woken, lpc>>
vars == <<quit, looping, calling, pending, running, pipe, woken, lpc, cpc,
          posted, executed>>

\* The loop thread's control points, in the order of loop().
LoopPoints == {"init", "test", "poll", "events", "timers", "pending", "run",
               "body", "done"}

\* Points at which user code runs on the loop thread inside a callback.
InCallback == lpc \in {"events", "timers", "body"}

Functor == [by : Submitters, n : Nat \ {0}]

TypeOK ==
  /\ quit \in BOOLEAN /\ looping \in BOOLEAN /\ calling \in BOOLEAN
  /\ pending \in Seq(Functor) /\ running \in Seq(Functor)
  /\ pipe \in 0..PipeCap /\ woken \in BOOLEAN
  /\ lpc \in LoopPoints
  /\ cpc \in [Clients -> {"idle", "wake"}]
  /\ posted \in [Submitters -> Nat] /\ executed \in [Submitters -> Nat]

Init ==
  /\ quit = FALSE /\ looping = FALSE /\ calling = FALSE
  /\ pending = << >> /\ running = << >>
  /\ pipe = 0 /\ woken = FALSE
  /\ lpc = "init"
  /\ cpc = [t \in Clients |-> "idle"]
  /\ posted = [s \in Submitters |-> 0]
  /\ executed = [s \in Submitters |-> 0]

-----------------------------------------------------------------------------
(* Pieces of the operations.                                               *)

\* wakeup(): one non-blocking write; a full pipe refuses it and that is fine.
Wakeup == pipe' = IF pipe < PipeCap THEN pipe + 1 ELSE pipe

\* Mutant: the push puts the functor in front.
PushFront(s) ==
  /\ posted[s] < MaxPosts[s]
  /\ posted' = [posted EXCEPT ![s] = @ + 1]
  /\ pending' = <<[by |-> s, n |-> posted[s] + 1]>> \o pending

\* pending_functors_.push_back under pending_mutex_.
Push(s) ==
  /\ posted[s] < MaxPosts[s]
  /\ posted' = [posted EXCEPT ![s] = @ + 1]
  /\ pending' = Append(pending, [by |-> s, n |-> posted[s] + 1])

-----------------------------------------------------------------------------
(* Other threads.  queue_in_loop, run_in_loop and quit from a client store *)
(* first and write the pipe afterwards, with anything in between.          *)

\* Mutant: wakeup only when functors are being run, as for the loop's own thread.
ClientPostNoWake(t) ==
  /\ cpc[t] = "idle"
  /\ Push(t)
  /\ cpc' = [cpc EXCEPT ![t] = IF calling THEN "wake" ELSE "idle"]
  /\ UNCHANGED <<quit, looping, calling, running, pipe, woken, lpc, executed>>

\* queue_in_loop (and run_in_loop, which is the same off the loop thread).
ClientPost(t) ==
  /\ cpc[t] = "idle"
  /\ Push(t)
  /\ cpc' = [cpc EXCEPT ![t] = "wake"]
  /\ UNCHANGED <<quit, looping, calling, running, pipe, woken, lpc, executed>>

\* Mutant: quit() forgets the wakeup.
ClientQuitNoWake(t) ==
  /\ cpc[t] = "idle"
  /\ quit' = TRUE
  /\ UNCHANGED <<looping, calling, pending, running, pipe, woken, lpc, cpc, posted, executed>>

\* quit() from another thread, up to its store.
ClientQuit(t) ==
  /\ cpc[t] = "idle"
  /\ quit' = TRUE
  /\ cpc' = [cpc EXCEPT ![t] = "wake"]
  /\ UNCHANGED <<looping, calling, pending, running, pipe, woken, lpc, posted, executed>>

\* The wakeup() that ends both.
ClientWake(t) ==
  /\ cpc[t] = "wake"
  /\ Wakeup
  /\ cpc' = [cpc EXCEPT ![t] = "idle"]
  /\ UNCHANGED <<quit, looping, calling, pending, running, woken, lpc, posted, executed>>

-----------------------------------------------------------------------------
(* User code on the loop thread.  run_in_loop there calls the functor at   *)
(* once and touches no state of the loop, so it is not an action.          *)

\* queue_in_loop before loop() is entered: no wakeup, nothing is being called.
SetupPost ==
  /\ lpc = "init"
  /\ Push("setup")
  /\ UNCHANGED <<quit, looping, calling, running, pipe, woken, lpc, cpc, executed>>

\* queue_in_loop from a callback: wakeup only when functors are being run.
LoopPost ==
  /\ InCallback
  /\ Push("loop")
  /\ IF calling THEN Wakeup ELSE UNCHANGED pipe
  /\ UNCHANGED <<quit, looping, calling, running, woken, lpc, cpc, executed>>

\* quit() from a callback: no wakeup, the flag is tested before the next poll.
LoopQuit ==
  /\ InCallback
  /\ quit' = TRUE
  /\ UNCHANGED <<looping, calling, pending, running, pipe, woken, lpc, cpc, posted, executed>>

-----------------------------------------------------------------------------
(* loop().                                                                 *)

Goto(from, to) == lpc = from /\ lpc' = to

\* Entry: quit_ is reset here, whatever was asked before.
LoopEnter ==
  /\ Goto("init", "test")
  /\ looping' = TRUE /\ quit' = FALSE
  /\ UNCHANGED <<calling, pending, running, pipe, woken, cpc, posted, executed>>

\* while (!quit_): one more iteration, or out.
LoopTest ==
  /\ ~quit /\ Goto("test", "poll")
  /\ UNCHANGED <<quit, looping, calling, pending, running, pipe, woken, cpc, posted, executed>>

LoopExit ==
  /\ quit /\ Goto("test", "done")
  /\ looping' = FALSE
  /\ UNCHANGED <<quit, calling, pending, running, pipe, woken, cpc, posted, executed>>

\* epoll_wait returns because the wakeup pipe is readable (level triggered:
\* other descriptors may be ready too) ...
PollWakeup ==
  /\ pipe > 0 /\ Goto("poll", "events")
  /\ woken' = TRUE
  /\ UNCHANGED <<quit, looping, calling, pending, running, pipe, cpc, posted, executed>>

\* ... or for another descriptor, a signal, a timer or the 10 s timeout.
PollOther ==
  /\ pipe = 0 /\ Goto("poll", "events")
  /\ UNCHANGED <<quit, looping, calling, pending, running, pipe, woken, cpc, posted, executed>>

\* handle_wakeup: reads until EAGAIN.  It runs before or after the handlers
\* of the other active channels.
HandleWakeup ==
  /\ lpc = "events" /\ woken
  /\ woken' = FALSE /\ pipe' = 0
  /\ UNCHANGED <<quit, looping, calling, pending, running, lpc, cpc, posted, executed>>

\* Every active channel has been handled.
EventsDone ==
  /\ ~woken /\ Goto("events", "timers")
  /\ UNCHANGED <<quit, looping, calling, pending, running, pipe, woken, cpc, posted, executed>>

\* run_due_timers has returned.
TimersDone ==
  /\ Goto("timers", "pending")
  /\ UNCHANGED <<quit, looping, calling, pending, running, pipe, woken, cpc, posted, executed>>

\* do_pending_functors: the flag, then the swap under the lock.  Only the loop
\* thread reads the flag, so the two are one step.
SwapPending ==
  /\ Goto("pending", "run")
  /\ calling' = TRUE
  /\ running' = pending /\ pending' = << >>
  /\ UNCHANGED <<quit, looping, pipe, woken, cpc, posted, executed>>

\* The next functor of the batch starts.
RunFunctor ==
  /\ running # << >> /\ Goto("run", "body")
  /\ running' = Tail(running)
  /\ executed' = [executed EXCEPT ![Head(running).by] = @ + 1]
  /\ UNCHANGED <<quit, looping, calling, pending, pipe, woken, cpc, posted>>

\* Mutant: one functor per iteration, the rest of the batch is dropped.
FunctorReturnsDropping ==
  /\ Goto("body", "run")
  /\ running' = << >>
  /\ UNCHANGED <<quit, looping, calling, pending, pipe, woken, cpc, posted, executed>>

\* It returns.
FunctorReturns ==
  /\ Goto("body", "run")
  /\ UNCHANGED <<quit, looping, calling, pending, running, pipe, woken, cpc, posted, executed>>

\* Mutant: quit_ is reset at the end of an iteration instead of at entry.
PendingDoneResetsQuit ==
  /\ running = << >> /\ Goto("run", "test")
  /\ calling' = FALSE /\ quit' = FALSE
  /\ UNCHANGED <<looping, pending, running, pipe, woken, cpc, posted, executed>>

\* The batch is over.
PendingDone ==
  /\ running = << >> /\ Goto("run", "test")
  /\ calling' = FALSE
  /\ UNCHANGED <<quit, looping, pending, running, pipe, woken, cpc, posted, executed>>

-----------------------------------------------------------------------------
LoopStep ==
  \/ LoopTest \/ LoopExit \/ PollWakeup \/ PollOther \/ HandleWakeup
  \/ EventsDone \/ TimersDone \/ SwapPending \/ RunFunctor
  \/ FunctorReturns \/ PendingDone

UserCode == SetupPost \/ LoopPost \/ LoopQuit

ClientStep(t) == ClientPost(t) \/ ClientQuit(t) \/ ClientWake(t)

Next == LoopEnter \/ LoopStep \/ UserCode \/ \E t \in Clients : ClientStep(t)

Spec == Init /\ [][Next]_vars

-----------------------------------------------------------------------------
(* Properties.                                                             *)

\* Somebody will interrupt the poll: the pipe is readable, or a client has yet
\* to write it.
WakeupDue == pipe > 0 \/ \E t \in Clients : cpc[t] = "wake"

\* A functor waiting in the queue, other than one posted before loop().
NeedsWakeup == \E i \in 1..Len(pending) : pending[i].by # "setup"

(* No lost wakeup (queue_in_loop against loop, do_pending_functors and       *)
(* handle_wakeup): the loop never sleeps in epoll_wait on a functor that a   *)
(* client or a callback has posted unless something is about to wake it.     *)
(* Functors posted on the loop's own thread before loop() are exempt: the    *)
(* code gives those no wakeup and the first poll may delay them by its       *)
(* timeout.                                                                  *)
NoLostWakeup == lpc = "poll" /\ NeedsWakeup => WakeupDue

(* No missed quit (quit against loop): the loop never sleeps in epoll_wait   *)
(* with quit_ set unless something is about to wake it.                      *)
NoMissedQuit == lpc = "poll" /\ quit => WakeupDue

(* The functor queue is one FIFO (queue_in_loop, do_pending_functors):       *)
(* batches, swaps and wakeups are invisible, nothing is lost, repeated or    *)
(* overtaken.                                                                *)
FQ == INSTANCE FunctorQueue WITH queue <- running \o pending
FunctorsAreFifo == FQ!Spec

(* Every functor handed to queue_in_loop runs, unless quit() is called.      *)
FunctorsRun ==
  \A s \in Submitters : \A k \in 1..MaxPosts[s] :
    (posted[s] >= k) ~> (executed[s] >= k \/ quit)
=============================================================================
