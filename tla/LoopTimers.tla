------------------------------ MODULE LoopTimers ------------------------------
(***************************************************************************)
(* EventLoop's timers (event_loop.cpp): add_timer and cancel from any      *)
(* thread under timer_mutex_, poll_timeout_ms, and run_due_timers, which   *)
(* copies the due timers out under the lock and calls back outside it.     *)
(*                                                                         *)
(* A callback is abstracted to what it may do to the timers; each timer is *)
(* known by its generation, which add_timer never reuses.  timers_ is a    *)
(* set here: the order of firing inside a batch is left open.  Time counts *)
(* milliseconds; the other half of the loop (functors, quit) is EventLoop. *)
(***************************************************************************)
EXTENDS Naturals

CONSTANTS
  Clients,     \* threads other than the loop's own
  MaxId,       \* bound: timer ids are 1..MaxId (0 is the invalid TimerId)
  Delays,      \* timeouts asked for
  Repeats,     \* repeat counts asked for
  Infinite,    \* k_infinite_repeats, the largest repeat count
  PollMax,     \* k_default_poll_timeout_ms
  MaxAdds,     \* bound: calls of add_timer
  MaxKills,    \* bound: calls of cancel
  MaxTime      \* bound: the clock stops here

ASSUME TimerAssumption ==
  /\ MaxId \in Nat /\ MaxAdds \in Nat /\ MaxKills \in Nat /\ MaxTime \in Nat
  /\ Delays \subseteq Nat /\ Infinite \in Nat \ {0} /\ Repeats \subseteq 1..Infinite
  /\ PollMax \in Nat \ {0} /\ "loop" \notin Clients

TimerIds == 1..MaxId

Timer == [id : TimerIds, gen : Nat \ {0}, when : Nat, interval : Nat,
          repeat : 1..Infinite]

VARIABLES
  now,         \* Clock::now()
  timers,      \* timers_
  gens,        \* timer_generations_: 0 for an id that is not in the map
  nextId,      \* next_timer_id_
  nextGen,     \* next_timer_generation_
  kills,       \* calls of cancel so far
  pipe,        \* the wakeup pipe is readable
  waking,      \* clients between their unlock and their wakeup()
  lpc,         \* where the loop thread is
  deadline,    \* when the poll under way times out (0 outside it)
  expired,     \* run_due_timers' local copy, what is left of it
  firing,      \* the timer whose callback runs: a set of at most one
  fires,       \* history: fires[g] callbacks of generation g
  lateFires,   \* history: those that began after g had been cancelled or replaced
  asked        \* history: asked[g], the repeat count of generation g

shared == <<timers, gens, nextId, nextGen, kills, asked>>
history == <<fires, lateFires>>
vars == <<now, shared, pipe, waking, lpc, deadline, expired, firing, history>>

Generations == 1..MaxAdds

LoopPoints == {"timeout", "poll", "events", "due", "batch", "callback"}

TypeOK ==
  /\ now \in Nat /\ timers \subseteq Timer
  /\ gens \in [TimerIds -> Nat]
  /\ nextId \in Nat \ {0} /\ nextGen \in Nat \ {0} /\ kills \in Nat
  /\ pipe \in BOOLEAN /\ waking \subseteq Clients
  /\ lpc \in LoopPoints /\ deadline \in Nat
  /\ expired \subseteq Timer /\ firing \subseteq Timer
  /\ fires \in [Generations -> Nat] /\ lateFires \in [Generations -> Nat]
  /\ asked \in [Generations -> 0..Infinite]

Init ==
  /\ now = 0 /\ timers = {} /\ gens = [i \in TimerIds |-> 0]
  /\ nextId = 1 /\ nextGen = 1 /\ kills = 0
  /\ pipe = FALSE /\ waking = {}
  /\ lpc = "timeout" /\ deadline = 0 /\ expired = {} /\ firing = {}
  /\ fires = [g \in Generations |-> 0] /\ lateFires = [g \in Generations |-> 0]
  /\ asked = [g \in Generations |-> 0]

-----------------------------------------------------------------------------
(* The operations, as they are under timer_mutex_.                         *)

\* timer_is_current_locked
Current(t) == gens[t.id] = t.gen

\* next_timer_id_locked: the next id that is not in use.
FreshId(i) == /\ i >= nextId /\ gens[i] = 0
              /\ \A j \in TimerIds : j >= nextId /\ gens[j] = 0 => i <= j

\* The insertion that ends add_timer.
Insert(i, delay, interval, repeat, kept) ==
  /\ nextGen <= MaxAdds /\ now + delay <= MaxTime
  /\ nextGen' = nextGen + 1
  /\ gens' = [gens EXCEPT ![i] = nextGen]
  /\ asked' = [asked EXCEPT ![nextGen] = repeat]
  /\ timers' = kept \cup {[id |-> i, gen |-> nextGen, when |-> now + delay,
                           interval |-> interval, repeat |-> repeat]}
  /\ UNCHANGED kills

\* add_timer with no id: run_after, run_every and set_timer.
AddFresh(delay, interval, repeat) ==
  \E i \in TimerIds :
    /\ FreshId(i) /\ nextId' = i + 1
    /\ Insert(i, delay, interval, repeat, timers)

\* Mutant: the old timer of the id stays, under the id's new generation.
AddWithIdKeeping(i, delay, repeat) ==
  /\ UNCHANGED nextId
  /\ Insert(i, delay, delay, repeat,
            {IF t.id = i THEN [t EXCEPT !.gen = nextGen] ELSE t : t \in timers})

\* add_timer with the caller's id: what the id stood for is dropped.
AddWithId(i, delay, repeat) ==
  /\ UNCHANGED nextId
  /\ Insert(i, delay, delay, repeat, {t \in timers : t.id # i})

\* run_after: zero interval, once.  set_timer: the interval is the timeout.
Add ==
  \E delay \in Delays :
    \/ AddFresh(delay, 0, 1)
    \/ \E repeat \in Repeats :
         \/ AddFresh(delay, delay, repeat)
         \/ \E i \in TimerIds : AddWithId(i, delay, repeat)

\* Mutant: the timer goes and its generation stays.
CancelTimerOnly(i) ==
  /\ kills < MaxKills /\ kills' = kills + 1
  /\ timers' = {t \in timers : t.id # i}
  /\ UNCHANGED <<gens, nextId, nextGen, asked>>

\* cancel: only the generation goes, the entry in timers_ is swept later.
Cancel(i) ==
  /\ kills < MaxKills /\ kills' = kills + 1
  /\ gens' = [gens EXCEPT ![i] = 0]
  /\ UNCHANGED <<timers, nextId, nextGen, asked>>

Change == Add \/ \E i \in TimerIds : Cancel(i)

-----------------------------------------------------------------------------
(* Who calls them.                                                         *)

\* Mutant: no wakeup for a loop that is already polling.
ClientChangeSilently(c) ==
  /\ c \notin waking /\ Change
  /\ UNCHANGED <<now, pipe, waking, lpc, deadline, expired, firing, history>>

\* Another thread: the change under the lock, then wakeup().
ClientChange(c) ==
  /\ c \notin waking /\ Change
  /\ waking' = waking \cup {c}
  /\ UNCHANGED <<now, pipe, lpc, deadline, expired, firing, history>>

ClientWake(c) ==
  /\ c \in waking /\ waking' = waking \ {c} /\ pipe' = TRUE
  /\ UNCHANGED <<now, shared, lpc, deadline, expired, firing, history>>

\* The loop thread, inside a timer's callback or a channel's handler.
CallbackChange ==
  /\ lpc \in {"events", "callback"} /\ Change
  /\ pipe' = TRUE
  /\ UNCHANGED <<now, waking, lpc, deadline, expired, firing, history>>

Tick ==
  /\ now < MaxTime /\ now' = now + 1
  /\ UNCHANGED <<shared, pipe, waking, lpc, deadline, expired, firing, history>>

-----------------------------------------------------------------------------
(* The loop's iteration.                                                   *)

\* poll_timeout_ms: the earliest current timer, capped; an overdue one gives 0.
PollTimeout ==
  LET due == {t.when : t \in {u \in timers : Current(u)}}
      cap == now + PollMax
  IN  IF \E w \in due : w < cap
      THEN LET first == CHOOSE w \in due : \A v \in due : w <= v
           IN  IF first < now THEN now ELSE first
      ELSE cap

ComputeTimeout ==
  /\ lpc = "timeout" /\ lpc' = "poll" /\ deadline' = PollTimeout
  /\ UNCHANGED <<now, shared, pipe, waking, expired, firing, history>>

\* The poll returns: woken, timed out, or for some other descriptor.
PollReturns ==
  /\ lpc = "poll" /\ (pipe \/ now >= deadline)
  /\ lpc' = "events" /\ deadline' = 0
  /\ UNCHANGED <<now, shared, pipe, waking, expired, firing, history>>

\* (The timeout is rounded down to milliseconds: it may end before the timer is
\* due, which is the same to the rest of the loop.)
PollOther ==
  /\ lpc = "poll" /\ ~pipe /\ now < deadline
  /\ lpc' = "events" /\ deadline' = 0
  /\ UNCHANGED <<now, shared, pipe, waking, expired, firing, history>>

\* handle_wakeup is one of the handlers; then run_due_timers begins.
EventsDone ==
  /\ lpc = "events" /\ lpc' = "due" /\ pipe' = FALSE
  /\ UNCHANGED <<now, shared, waking, deadline, expired, firing, history>>

\* run_due_timers under the lock: stale entries are swept, due ones move out.
CollectDue ==
  /\ lpc = "due" /\ lpc' = "batch"
  /\ expired' = {t \in timers : Current(t) /\ t.when <= now}
  /\ timers' = {t \in timers : Current(t) /\ t.when > now}
  /\ UNCHANGED <<now, gens, nextId, nextGen, kills, asked, pipe, waking, deadline,
                 firing, history>>

\* timer.callback(timer.id), without the lock and without looking again.
Fire(t) ==
  /\ lpc = "batch" /\ t \in expired /\ lpc' = "callback"
  /\ expired' = expired \ {t} /\ firing' = {t}
  /\ fires' = [fires EXCEPT ![t.gen] = @ + 1]
  /\ lateFires' = [lateFires EXCEPT ![t.gen] = IF Current(t) THEN @ ELSE @ + 1]
  /\ UNCHANGED <<now, shared, pipe, waking, deadline>>

\* --timer.repeat, unless the timer is for ever.
Left(t) == IF t.repeat = Infinite THEN Infinite ELSE t.repeat - 1

\* Mutant: the count is tested before it is decremented.
RearmTestsFirst(t) == t.interval # 0 /\ t.repeat > 0

\* Is there another round?
Rearm(t) == t.interval # 0 /\ Left(t) > 0

\* After the callback, under the lock again: a stale timer is forgotten, a
\* finished one gives its id back, the others are armed anew.
Settle(t) ==
  /\ lpc = "callback" /\ t \in firing
  /\ lpc' = "batch" /\ firing' = {}
  /\ IF Current(t)
     THEN IF Rearm(t)
          THEN /\ timers' = timers \cup {[t EXCEPT !.repeat = Left(t), !.when = now + t.interval]}
               /\ UNCHANGED gens
          ELSE gens' = [gens EXCEPT ![t.id] = 0] /\ UNCHANGED timers
     ELSE UNCHANGED <<timers, gens>>
  /\ UNCHANGED <<now, nextId, nextGen, kills, asked, pipe, waking, deadline, expired, history>>

BatchDone ==
  /\ lpc = "batch" /\ expired = {} /\ lpc' = "timeout"
  /\ UNCHANGED <<now, shared, pipe, waking, deadline, expired, firing, history>>

-----------------------------------------------------------------------------
LoopStep ==
  \/ ComputeTimeout \/ PollReturns \/ EventsDone \/ CollectDue \/ BatchDone
  \/ \E t \in expired : Fire(t)
  \/ \E t \in firing : Settle(t)

Next ==
  \/ LoopStep \/ PollOther \/ CallbackChange \/ Tick
  \/ \E c \in Clients : ClientChange(c) \/ ClientWake(c)

Spec == Init /\ [][Next]_vars

\* The loop thread runs, callbacks return, time passes, and a client that has
\* changed the timers goes on to wake the loop.
FairSpec ==
  /\ Spec /\ WF_vars(LoopStep) /\ WF_vars(Tick)
  /\ \A c \in Clients : WF_vars(ClientWake(c))

-----------------------------------------------------------------------------
(* Properties.                                                             *)

InFlight == timers \cup expired \cup firing

(* timer_generations_ and the timers agree (add_timer, cancel and             *)
(* run_due_timers together): an id in the map has its timer, waiting, due or  *)
(* firing, and a generation has one timer only, in one place.  Without the    *)
(* first, a timer would never fire and its id be lost to                      *)
(* next_timer_id_locked; without the second, one would fire twice.            *)
OneLiveTimerPerId ==
  /\ \A i \in TimerIds : gens[i] # 0 => \E t \in InFlight : t.id = i /\ Current(t)
  /\ \A t, u \in InFlight : t.gen = u.gen => t = u
  /\ timers \cap expired = {} /\ (timers \cup expired) \cap firing = {}

(* The poll never sleeps past a timer (add_timer against poll_timeout_ms and  *)
(* poll): if a live timer is due before the poll times out, the pipe is       *)
(* readable or a client is about to write it.                                 *)
NoOversleep ==
  lpc = "poll" /\ ~pipe /\ waking = {} =>
    \A t \in timers : Current(t) => t.when >= deadline \/ deadline <= now

(* A repeat count is honoured, and cancelling or replacing a timer stops it:  *)
(* it can fire once more, when run_due_timers had already copied it out, but  *)
(* never twice.                                                               *)
FiresBounded ==
  \A g \in Generations : /\ asked[g] # Infinite => fires[g] <= asked[g]
                         /\ lateFires[g] <= 1

(* Every timer fires, unless it is cancelled or replaced first.               *)
TimersFire ==
  \A g \in Generations :
    (g < nextGen) ~> (fires[g] > 0 \/ \A i \in TimerIds : gens[i] # g)
=============================================================================
