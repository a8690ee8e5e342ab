----------------------------- MODULE TimerThread -----------------------------
(***************************************************************************)
(* TimerThread and GlobalTimer (timer_thread.cpp): timers on a loop thread *)
(* of their own, set and cleared by other threads and by the timers'       *)
(* callbacks on a loop thread itself.  GlobalTimer makes a TimerThread     *)
(* when it is asked for one, again after a shutdown(): they are numbered,  *)
(* and a thread in a call has the number of the one it uses.               *)
(*                                                                         *)
(* Kept: the two mutexes, who holds them and who waits; the promise that   *)
(* schedule() waits for with mutex_ held; the destructor's quit and join,  *)
(* and the loop thread before it has cleared quit_ (EventLoop::loop).      *)
(* The timers are a count: what they do is LoopTimers.  The functors are   *)
(* the loop's pending ones: EventLoop.  Every call goes through            *)
(* GlobalTimer, whose clear() and instance() then call the TimerThread's.  *)
(***************************************************************************)
EXTENDS Naturals, Sequences

CONSTANTS
  TimerUsers,     \* threads that use the timer
  MaxTimerThreads, \* bound: TimerThreads that are made
  MaxTimerCalls,  \* bound: calls of each user
  MaxCallbacks    \* bound: callbacks of the timers

TimerThreads == 1..MaxTimerThreads
NoTimer == 0
Free == 0

ASSUME TimerUsersAssumption ==
  /\ MaxTimerThreads \in Nat /\ MaxTimerCalls \in Nat /\ MaxCallbacks \in Nat
  /\ TimerUsers \cap (TimerThreads \cup {NoTimer}) = {}

\* A thread: a user, or the loop thread of a TimerThread, by its number.
Callers == TimerUsers \cup TimerThreads

VARIABLES
  timer,      \* the TimerThreads: their members and their loop's
  globalTimer, \* global_timer: a number, or NoTimer
  global,     \* who holds global_timer_mutex, Free if nobody
  made,       \* TimerThreads made so far
  at,         \* where each thread is: a loop thread is "out" at its poll
  uses,       \* the TimerThread of the call it is in
  callsMade,  \* calls each user has begun
  callbacks   \* callbacks so far

timerThreadVars == <<timer, globalTimer, global, made, at, uses, callsMade, callbacks>>

TimerThreadInit ==
  /\ timer = [t \in TimerThreads |->
       [mutex |-> Free, loopPtr |-> FALSE, functors |-> << >>, kept |-> {}, armed |-> 0,
        quit |-> FALSE, lost |-> FALSE, destroyed |-> FALSE]]
  /\ globalTimer = NoTimer /\ global = Free /\ made = 0
  /\ at = [c \in Callers |-> IF c \in TimerUsers THEN "out" ELSE "none"]
  /\ uses = [c \in Callers |-> NoTimer] /\ callsMade = [c \in TimerUsers |-> 0] /\ callbacks = 0

At(c, from, to) == at[c] = from /\ at' = [at EXCEPT ![c] = to]

-----------------------------------------------------------------------------
(* The calls, of a user or of a callback on a loop thread.                 *)

Begin(c) ==
  /\ c \in TimerUsers /\ callsMade[c] < MaxTimerCalls
  /\ \E call \in {"instance", "clear", "shutdown"} : At(c, "out", call)
  /\ callsMade' = [callsMade EXCEPT ![c] = @ + 1]
  /\ UNCHANGED <<timer, globalTimer, global, made, uses, callbacks>>

\* A timer's callback that uses the timer.
CallbackBegins(t) ==
  /\ timer[t].armed > 0 /\ callbacks < MaxCallbacks
  /\ \E call \in {"instance", "clear"} : At(t, "out", call)
  /\ callbacks' = callbacks + 1
  /\ UNCHANGED <<timer, globalTimer, global, made, uses, callsMade>>

\* GlobalTimer::instance: makes a TimerThread where there is none, and with it the
\* loop thread, which has told its loop and not yet entered it.
Instance(c) ==
  /\ global = Free /\ at[c] = "instance"
  /\ IF globalTimer = NoTimer
     THEN /\ made < MaxTimerThreads /\ made' = made + 1 /\ globalTimer' = made + 1
          /\ timer' = [timer EXCEPT ![made + 1].loopPtr = TRUE]
          /\ at' = [at EXCEPT ![c] = "schedule", ![made + 1] = "starting"]
     ELSE At(c, "instance", "schedule") /\ UNCHANGED <<timer, globalTimer, made>>
  /\ uses' = [uses EXCEPT ![c] = globalTimer']
  /\ UNCHANGED <<global, callsMade, callbacks>>

\* schedule: without a loop it returns an invalid id; on the loop's own thread it sets
\* the timer; otherwise the functor is posted and the promise awaited under the lock.
Schedule(c) ==
  /\ timer[uses[c]].mutex = Free /\ ~timer[uses[c]].destroyed
  /\ IF timer[uses[c]].loopPtr /\ uses[c] # c
     THEN /\ At(c, "schedule", "future")
          /\ timer' = [timer EXCEPT ![uses[c]].mutex = c, ![uses[c]].functors = Append(@, c)]
     ELSE /\ At(c, "schedule", "out")
          /\ timer' = [timer EXCEPT ![uses[c]].armed = IF timer[uses[c]].loopPtr THEN @ + 1 ELSE @]
  /\ UNCHANGED <<globalTimer, global, made, uses, callsMade, callbacks>>

\* ... with a reference to one that has been destroyed meanwhile: the call has no
\* meaning, and may never return.
ScheduleDestroyed(c) ==
  /\ timer[uses[c]].destroyed /\ \E outcome \in {"out", "undefined"} : At(c, "schedule", outcome)
  /\ UNCHANGED <<timer, globalTimer, global, made, uses, callsMade, callbacks>>

Scheduled(c) ==
  /\ c \in timer[uses[c]].kept /\ At(c, "future", "out")
  /\ timer' = [timer EXCEPT ![uses[c]].kept = @ \ {c}, ![uses[c]].mutex = Free]
  /\ UNCHANGED <<globalTimer, global, made, uses, callsMade, callbacks>>

\* GlobalTimer::clear keeps its own mutex through TimerThread::clear.
GlobalClear(c) ==
  /\ global = Free
  /\ IF globalTimer = NoTimer
     THEN At(c, "clear", "out") /\ UNCHANGED <<global, uses>>
     ELSE At(c, "clear", "clearing") /\ global' = c /\ uses' = [uses EXCEPT ![c] = globalTimer]
  /\ UNCHANGED <<timer, globalTimer, made, callsMade, callbacks>>

Fewer(n) == IF n = 0 THEN 0 ELSE n - 1

Clear(c) ==
  /\ timer[uses[c]].mutex = Free /\ At(c, "clearing", "out")
  /\ timer' = [timer EXCEPT ![uses[c]].armed = IF timer[uses[c]].loopPtr THEN Fewer(@) ELSE @]
  /\ global' = Free
  /\ UNCHANGED <<globalTimer, made, uses, callsMade, callbacks>>

\* GlobalTimer::shutdown moves the TimerThread out and destroys it: stop() under
\* mutex_, then EventLoopThread's destructor.
GlobalShutdown(c) ==
  /\ global = Free
  /\ IF globalTimer = NoTimer
     THEN At(c, "shutdown", "out") /\ UNCHANGED uses
     ELSE At(c, "shutdown", "stop") /\ uses' = [uses EXCEPT ![c] = globalTimer]
  /\ globalTimer' = NoTimer
  /\ UNCHANGED <<timer, global, made, callsMade, callbacks>>

\* Mutant: without mutex_.
StopUnlocked(c) ==
  /\ At(c, "stop", "quit") /\ timer' = [timer EXCEPT ![uses[c]].loopPtr = FALSE]
  /\ UNCHANGED <<globalTimer, global, made, uses, callsMade, callbacks>>

Stop(c) ==
  /\ timer[uses[c]].mutex = Free
  /\ At(c, "stop", "quit") /\ timer' = [timer EXCEPT ![uses[c]].loopPtr = FALSE]
  /\ UNCHANGED <<globalTimer, global, made, uses, callsMade, callbacks>>

\* EventLoop::quit.  lost is a history: loop() has still to clear quit_.
Quit(c) ==
  /\ At(c, "quit", "join")
  /\ timer' = [timer EXCEPT ![uses[c]].quit = TRUE, ![uses[c]].lost = at[uses[c]] = "starting"]
  /\ UNCHANGED <<globalTimer, global, made, uses, callsMade, callbacks>>

Joined(c) ==
  /\ At(c, "join", "out") /\ at[uses[c]] = "gone"
  /\ timer' = [timer EXCEPT ![uses[c]].destroyed = TRUE]
  /\ UNCHANGED <<globalTimer, global, made, uses, callsMade, callbacks>>

-----------------------------------------------------------------------------
(* The loop threads.                                                       *)

\* loop() begins.
LoopEnters(t) ==
  /\ At(t, "starting", "out") /\ timer' = [timer EXCEPT ![t].quit = FALSE]
  /\ UNCHANGED <<globalTimer, global, made, uses, callsMade, callbacks>>

\* The functor sets the timer and keeps the promise.
RunScheduled(t) ==
  /\ at[t] = "out" /\ timer[t].functors # << >>
  /\ timer' = [timer EXCEPT ![t].armed = @ + 1, ![t].kept = @ \cup {Head(timer[t].functors)},
                            ![t].functors = Tail(@)]
  /\ UNCHANGED <<globalTimer, global, made, at, uses, callsMade, callbacks>>

LoopQuits(t) ==
  /\ timer[t].quit /\ At(t, "out", "gone")
  /\ UNCHANGED <<timer, globalTimer, global, made, uses, callsMade, callbacks>>

-----------------------------------------------------------------------------
CallStep(c) ==
  \/ Instance(c) \/ GlobalClear(c) \/ GlobalShutdown(c)
  \/ /\ uses[c] # NoTimer
     /\ \/ Schedule(c) \/ ScheduleDestroyed(c) \/ Scheduled(c) \/ Clear(c)
        \/ Stop(c) \/ Quit(c) \/ Joined(c)
LoopStep(t) == LoopEnters(t) \/ RunScheduled(t) \/ LoopQuits(t)

TimerThreadNext ==
  \/ \E c \in Callers : CallStep(c)
  \/ \E c \in TimerUsers : Begin(c)
  \/ \E t \in TimerThreads : LoopStep(t) \/ CallbackBegins(t)

\* Threads inside a call go on, and so do the loops.
TimerThreadFairness ==
  /\ \A c \in Callers : WF_timerThreadVars(CallStep(c))
  /\ \A t \in TimerThreads : WF_timerThreadVars(LoopStep(t))

TimerThreadSpec == TimerThreadInit /\ [][TimerThreadNext]_timerThreadVars /\ TimerThreadFairness

-----------------------------------------------------------------------------
(* Properties.                                                             *)

\* One thread waits for its promise with mutex_ held, and the loop thread that
\* would keep it waits in a callback for mutex_, or for the global mutex of a third
\* that waits for mutex_.
Standoff ==
  \E t \in TimerThreads :
    /\ timer[t].mutex # Free
    /\ \/ at[t] \in {"schedule", "clearing"} /\ uses[t] = t
       \/ at[t] \in {"instance", "clear"} /\ global # Free

\* Somebody is asking for one more TimerThread than the bound allows.
BeyondBound ==
  globalTimer = NoTimer /\ made = MaxTimerThreads /\ \E c \in Callers : at[c] = "instance"

\* The call of c cannot return: it is in a TimerThread that was destroyed after
\* instance() gave it out, or it waits for a loop whose quit was lost.
Hung(c) == at[c] = "undefined" \/ (at[c] = "join" /\ timer[uses[c]].lost)

\* ... or it waits for a loop thread that is in such a call.
Excused(c) == Hung(c) \/ (at[c] \in {"future", "join"} /\ Hung(uses[c]))

\* Every call returns, so that again and again nobody is in one: a promise is always
\* kept before the loop quits, and shutdown's join ends. Left out are the standoff
\* (ScheduleReturns); a set_timeout() that has its instance, which a shutdown then
\* destroys; a shutdown that comes so soon after the instance() that made the thread
\* that its quit comes before loop() clears quit_: it joins for ever. Each is that
\* call alone, and one that waits for the loop thread the call is on.
\* (TimerThread::schedule, stop and clear, GlobalTimer, EventLoop::loop)
TimerCallsReturn ==
  []<>(Standoff \/ BeyondBound \/ \A c \in TimerUsers : at[c] = "out" \/ Excused(c))

\* tests/net/timer_thread_test.cpp:57: "cross-thread set_timeout returns valid id",
\* in a program whose callbacks clear their timers, as that test's line 72 does.
ScheduleReturns ==
  \A c \in TimerUsers : (at[c] = "future") ~> (at[c] = "out")
=============================================================================
