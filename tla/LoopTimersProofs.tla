--------------------------- MODULE LoopTimersProofs ---------------------------
(***************************************************************************)
(* Theorems about LoopTimers, for any set of clients, any ids, delays and  *)
(* repeat counts, and any bound on calls and on the clock.                 *)
(***************************************************************************)
EXTENDS LoopTimers, WellFoundedInduction, TLAPS

-----------------------------------------------------------------------------
(* What add_timer and cancel do to the state.                              *)

\* add_timer has put t in place of what was not kept.
Added(t, kept) ==
  /\ t.gen = nextGen /\ nextGen <= MaxAdds /\ nextGen' = nextGen + 1
  /\ gens' = [gens EXCEPT ![t.id] = nextGen]
  /\ asked' = [asked EXCEPT ![nextGen] = t.repeat]
  /\ timers' = kept \cup {t}
  /\ \A u \in timers : u.id # t.id => u \in kept

\* cancel has taken i out of timer_generations_.
Cancelled(i) ==
  /\ gens' = [gens EXCEPT ![i] = 0]
  /\ UNCHANGED <<timers, nextGen, asked>>

\* add_timer builds a timer of the next generation.
LEMMA InsertAdds ==
  ASSUME TypeOK, NEW i \in TimerIds, NEW delay \in Nat, NEW interval \in Nat,
         NEW repeat \in 1..Infinite, NEW kept \in SUBSET timers,
         \A u \in timers : u.id # i => u \in kept,
         Insert(i, delay, interval, repeat, kept)
  PROVE  \E t \in Timer : Added(t, kept) /\ kills' = kills
<1> DEFINE t == [id |-> i, gen |-> nextGen, when |-> now + delay, interval |-> interval,
                 repeat |-> repeat]
<1>1. nextGen \in Nat \ {0} /\ now \in Nat
  BY DEF TypeOK
<1>2. t \in Timer
  BY <1>1 DEF Timer
<1>3. t.id = i /\ t.gen = nextGen /\ t.repeat = repeat
  OBVIOUS
<1>4. /\ nextGen <= MaxAdds /\ nextGen' = nextGen + 1 /\ kills' = kills
      /\ gens' = [gens EXCEPT ![i] = nextGen] /\ asked' = [asked EXCEPT ![nextGen] = repeat]
      /\ timers' = kept \cup {t}
  BY DEF Insert
<1> HIDE DEF t
<1> QED BY <1>2, <1>3, <1>4 DEF Added

\* add_timer and cancel do nothing else.
LEMMA ChangeShape ==
  ASSUME TypeOK, Change
  PROVE  /\ nextId' \in Nat \ {0} /\ kills' \in Nat
         /\ \/ \E t \in Timer : \E kept \in SUBSET timers : Added(t, kept)
            \/ \E i \in TimerIds : Cancelled(i)
<1> USE TimerAssumption
<1>0. nextId \in Nat \ {0} /\ kills \in Nat
  BY DEF TypeOK
<1>1. ASSUME NEW i \in TimerIds, Cancel(i)
      PROVE  nextId' \in Nat \ {0} /\ kills' \in Nat /\ Cancelled(i)
  BY <1>0, <1>1 DEF Cancel, Cancelled
<1>2. ASSUME NEW delay \in Nat, NEW interval \in Nat, NEW repeat \in 1..Infinite,
             AddFresh(delay, interval, repeat)
      PROVE  /\ nextId' \in Nat \ {0} /\ kills' \in Nat
             /\ \E t \in Timer : \E kept \in SUBSET timers : Added(t, kept)
  <2>1. PICK i \in TimerIds : nextId' = i + 1 /\ Insert(i, delay, interval, repeat, timers)
    BY <1>2 DEF AddFresh
  <2>2. \E t \in Timer : Added(t, timers) /\ kills' = kills
    <3>1. timers \in SUBSET timers /\ \A u \in timers : u.id # i => u \in timers
      OBVIOUS
    <3> QED BY <2>1, <3>1, InsertAdds
  <2>3. nextId' \in Nat \ {0}
    BY <2>1 DEF TimerIds
  <2> QED BY <1>0, <2>2, <2>3
<1>3. ASSUME NEW i \in TimerIds, NEW delay \in Nat, NEW repeat \in 1..Infinite,
             AddWithId(i, delay, repeat)
      PROVE  /\ nextId' \in Nat \ {0} /\ kills' \in Nat
             /\ \E t \in Timer : \E kept \in SUBSET timers : Added(t, kept)
  <2> DEFINE kept == {u \in timers : u.id # i}
  <2>1. nextId' = nextId /\ Insert(i, delay, delay, repeat, kept)
    BY <1>3 DEF AddWithId
  <2>2. kept \in SUBSET timers /\ \A u \in timers : u.id # i => u \in kept
    OBVIOUS
  <2> HIDE DEF kept
  <2>3. \E t \in Timer : Added(t, kept) /\ kills' = kills
    BY <2>1, <2>2, InsertAdds
  <2> QED BY <1>0, <2>1, <2>2, <2>3
<1>4. CASE Add
  <2>1. PICK delay \in Delays :
          \/ AddFresh(delay, 0, 1)
          \/ \E repeat \in Repeats : \/ AddFresh(delay, delay, repeat)
                                     \/ \E i \in TimerIds : AddWithId(i, delay, repeat)
    BY <1>4 DEF Add
  <2>2. delay \in Nat /\ 0 \in Nat /\ 1 \in 1..Infinite /\ \A repeat \in Repeats : repeat \in 1..Infinite
    OBVIOUS
  <2> QED BY <2>1, <2>2, <1>2, <1>3
<1> QED BY <1>1, <1>4 DEF Change

-----------------------------------------------------------------------------
(* Type correctness.                                                       *)

\* Among times there is an earliest one.
LEMMA LeastOf ==
  ASSUME NEW S \in SUBSET Nat, S # {}
  PROVE  \E w \in S : \A v \in S : w <= v
<1>1. PICK w \in S : \A v \in S : ~ (<<v, w>> \in OpToRel(<, Nat))
  BY NatLessThanWellFounded, WFMin
<1>2. ASSUME NEW v \in S PROVE w <= v
  <2>1. v \in Nat /\ w \in Nat
    OBVIOUS
  <2>2. v < w => <<v, w>> \in OpToRel(<, Nat)
    BY <2>1 DEF OpToRel
  <2>3. ~ (v < w)
    BY <1>1, <2>2
  <2> QED BY <2>1, <2>3
<1> QED BY <1>2

\* Another round of a timer is the same timer with one call less to come.
LEMMA Rearmed ==
  ASSUME NEW t \in Timer, Rearm(t), now \in Nat,
         NEW r, r = [t EXCEPT !.repeat = Left(t), !.when = now + t.interval]
  PROVE  /\ r \in Timer /\ r.id = t.id /\ r.gen = t.gen
         /\ t.repeat # Infinite => r.repeat = t.repeat - 1
         /\ t.repeat = Infinite => r.repeat = Infinite
<1>1. Left(t) \in 1..Infinite
  BY TimerAssumption DEF Rearm, Left, Timer
<1>2. now + t.interval \in Nat
  BY DEF Timer
<1>3. r \in Timer
  BY <1>1, <1>2 DEF Timer
<1>4. r.id = t.id /\ r.gen = t.gen /\ r.repeat = Left(t)
  BY DEF Timer
<1> QED BY <1>3, <1>4 DEF Left

\* Counting a call keeps a table of counts one.
LEMMA Bumped ==
  ASSUME NEW S, NEW f \in [S -> Nat], NEW g
  PROVE  [f EXCEPT ![g] = @ + 1] \in [S -> Nat]
<1>1. CASE g \in S
  BY <1>1
<1>2. CASE g \notin S
  BY <1>2, [f EXCEPT ![g] = @ + 1] = f, Zenon
<1> QED BY <1>1, <1>2

\* Each step of the loop and each call of a client keeps the types.
LEMMA TypeInductive == TypeOK /\ [Next]_vars => TypeOK'
<1> USE TimerAssumption
<1> SUFFICES ASSUME TypeOK, [Next]_vars PROVE TypeOK'
  OBVIOUS
<1> USE DEF shared, history
<1>ch. ASSUME Change
       PROVE  /\ timers' \subseteq Timer /\ gens' \in [TimerIds -> Nat] /\ nextId' \in Nat \ {0}
              /\ nextGen' \in Nat \ {0} /\ kills' \in Nat /\ asked' \in [Generations -> 0..Infinite]
  <2>0. timers \subseteq Timer /\ gens \in [TimerIds -> Nat] /\ nextGen \in Nat \ {0}
        /\ asked \in [Generations -> 0..Infinite]
    BY DEF TypeOK
  <2>1. nextId' \in Nat \ {0} /\ kills' \in Nat
    BY <1>ch, ChangeShape
  <2>2. ASSUME NEW i \in TimerIds, Cancelled(i)
        PROVE  /\ timers' \subseteq Timer /\ gens' \in [TimerIds -> Nat]
               /\ nextGen' \in Nat \ {0} /\ asked' \in [Generations -> 0..Infinite]
    BY <2>0, <2>2 DEF Cancelled
  <2>3. ASSUME NEW t \in Timer, NEW kept \in SUBSET timers, Added(t, kept)
        PROVE  /\ timers' \subseteq Timer /\ gens' \in [TimerIds -> Nat]
               /\ nextGen' \in Nat \ {0} /\ asked' \in [Generations -> 0..Infinite]
    <3>1. t.repeat \in 0..Infinite
      BY DEF Timer
    <3>2. timers' \subseteq Timer /\ nextGen' \in Nat \ {0}
      BY <2>0, <2>3 DEF Added
    <3>3. gens' \in [TimerIds -> Nat]
      BY <2>0, <2>3 DEF Added
    <3>4. asked' \in [Generations -> 0..Infinite]
      BY <2>0, <2>3, <3>1 DEF Added
    <3> QED BY <3>2, <3>3, <3>4
  <2> QED BY <1>ch, <2>1, <2>2, <2>3, ChangeShape
<1>1. CASE ComputeTimeout
  <2>1. PollTimeout \in Nat
    <3> DEFINE due == {t.when : t \in {u \in timers : Current(u)}}
               first == CHOOSE w \in due : \A v \in due : w <= v
    <3>1. PollTimeout = IF \E w \in due : w < now + PollMax
                        THEN IF first < now THEN now ELSE first
                        ELSE now + PollMax
      BY DEF PollTimeout
    <3>2. due \subseteq Nat /\ now \in Nat
      BY DEF TypeOK, Timer
    <3>3. ASSUME due # {} PROVE \E w \in due : \A v \in due : w <= v
      BY <3>2, <3>3, LeastOf
    <3> HIDE DEF due
    <3>4. due # {} => first \in due
      BY <3>3
    <3> HIDE DEF first
    <3> QED BY <3>1, <3>2, <3>4
  <2> QED BY <1>1, <2>1 DEF ComputeTimeout, TypeOK, LoopPoints
<1>2. CASE PollReturns \/ PollOther
  BY <1>2 DEF PollReturns, PollOther, TypeOK, LoopPoints
<1>3. CASE EventsDone
  <2>1. pipe' \in BOOLEAN
    BY <1>3, Zenon DEF EventsDone
  <2> QED BY <1>3, <2>1 DEF EventsDone, TypeOK, LoopPoints
<1>4. CASE CollectDue
  <2>1. expired' \subseteq timers /\ timers' \subseteq timers
    BY <1>4 DEF CollectDue
  <2>2. expired' \subseteq Timer /\ timers' \subseteq Timer
    BY <2>1 DEF TypeOK
  <2> QED BY <1>4, <2>2 DEF CollectDue, TypeOK, LoopPoints
<1>5. CASE BatchDone
  BY <1>5 DEF BatchDone, TypeOK, LoopPoints
<1>6. ASSUME NEW t \in expired, Fire(t) PROVE TypeOK'
  <2>1. fires' \in [Generations -> Nat] /\ lateFires' \in [Generations -> Nat]
    <3>1. fires \in [Generations -> Nat] /\ lateFires \in [Generations -> Nat]
      BY DEF TypeOK
    <3>2. fires' = [fires EXCEPT ![t.gen] = @ + 1]
          /\ (lateFires' = lateFires \/ lateFires' = [lateFires EXCEPT ![t.gen] = @ + 1])
      <4>1. CASE Current(t)
        BY <1>6, <3>1, <4>1 DEF Fire
      <4>2. CASE ~Current(t)
        BY <1>6, <3>1, <4>2 DEF Fire
      <4> QED BY <4>1, <4>2
    <3> QED BY <3>1, <3>2, Bumped
  <2>2. expired' \subseteq Timer /\ firing' \subseteq Timer
    BY <1>6 DEF Fire, TypeOK
  <2> QED BY <1>6, <2>1, <2>2 DEF Fire, TypeOK, LoopPoints
<1>7. ASSUME NEW t \in firing, Settle(t) PROVE TypeOK'
  <2>1. t \in Timer /\ now \in Nat
    BY DEF TypeOK
  <2>2. gens' \in [TimerIds -> Nat]
    BY <1>7 DEF Settle, TypeOK
  <2>3. timers' \subseteq Timer
    <3>1. CASE Current(t) /\ Rearm(t)
      <4> DEFINE r == [t EXCEPT !.repeat = Left(t), !.when = now + t.interval]
      <4>1. timers' = timers \cup {r}
        BY <1>7, <3>1 DEF Settle
      <4>2. r \in Timer
        BY <2>1, <3>1, Rearmed
      <4> HIDE DEF r
      <4> QED BY <4>1, <4>2 DEF TypeOK
    <3>2. CASE ~(Current(t) /\ Rearm(t))
      BY <1>7, <3>2 DEF Settle, TypeOK
    <3> QED BY <3>1, <3>2
  <2> QED BY <1>7, <2>2, <2>3 DEF Settle, TypeOK, LoopPoints
<1>8. CASE CallbackChange
  <2>1. pipe' \in BOOLEAN
    BY <1>8 DEF CallbackChange
  <2> QED BY <1>8, <2>1, <1>ch DEF CallbackChange, TypeOK
<1>9. ASSUME NEW c \in Clients, ClientChange(c) \/ ClientWake(c) PROVE TypeOK'
  <2>1. CASE ClientChange(c)
    BY <2>1, <1>ch DEF ClientChange, TypeOK
  <2>2. CASE ClientWake(c)
    BY <2>2 DEF ClientWake, TypeOK
  <2> QED BY <1>9, <2>1, <2>2
<1>10. CASE Tick \/ UNCHANGED vars
  BY <1>10 DEF Tick, vars, TypeOK
<1> QED
  BY <1>1, <1>2, <1>3, <1>4, <1>5, <1>6, <1>7, <1>8, <1>9, <1>10 DEF Next, LoopStep

\* A loop without timers is well typed.
LEMMA TypeInitially == Init => TypeOK
<1> SUFFICES ASSUME Init PROVE TypeOK
  OBVIOUS
<1>1. pipe \in BOOLEAN
  BY Zenon DEF Init
<1> QED BY <1>1, TimerAssumption DEF Init, TypeOK, LoopPoints

\* EventLoop's timer members keep their types (event_loop.h).
THEOREM TimersTypeCorrect == Spec => []TypeOK
BY TypeInitially, TypeInductive, PTL DEF Spec

-----------------------------------------------------------------------------
(* One live timer for each id.                                             *)

(***************************************************************************)
(* OneLiveTimerPerId says nothing of generations to come or of the batch   *)
(* outside run_due_timers.  Inductively: every timer's generation has been *)
(* given out, so that the next one is fresh; run_due_timers' local copy is *)
(* empty outside a batch, so that nothing is lost when it is filled; and   *)
(* only the callback under way is out of both sets.                        *)
(***************************************************************************)
GenInv ==
  /\ nextGen <= MaxAdds + 1
  /\ \A t \in InFlight : t.gen < nextGen
  /\ lpc \notin {"batch", "callback"} => expired = {}
  /\ IF lpc = "callback" THEN \E t \in firing : firing = {t} ELSE firing = {}

TimerInv == GenInv /\ OneLiveTimerPerId

\* add_timer and cancel keep TimerInv, whoever calls them.
LEMMA ChangeKeepsTimers ==
  ASSUME TypeOK, TimerInv, Change, UNCHANGED <<lpc, expired, firing>>
  PROVE  TimerInv'
<1> USE TimerAssumption DEF TimerInv, GenInv, OneLiveTimerPerId, InFlight
<1>0. /\ timers \subseteq Timer /\ expired \subseteq Timer /\ firing \subseteq Timer
      /\ gens \in [TimerIds -> Nat] /\ nextGen \in Nat \ {0}
  BY DEF TypeOK
<1>1. ASSUME NEW i \in TimerIds, Cancelled(i) PROVE TimerInv'
  BY <1>0, <1>1 DEF Cancelled, Current
<1>2. ASSUME NEW t \in Timer, NEW kept \in SUBSET timers, Added(t, kept) PROVE TimerInv'
  <2> USE <1>2 DEF Added
  <2>1. /\ t.gen = nextGen /\ nextGen <= MaxAdds /\ nextGen' = nextGen + 1
        /\ gens' = [gens EXCEPT ![t.id] = nextGen] /\ timers' = kept \cup {t}
        /\ \A u \in timers : u.id # t.id => u \in kept
    OBVIOUS
  <2>2. \A u \in timers \cup expired \cup firing : u.gen < nextGen /\ u.gen # t.gen /\ u # t
    BY <1>0, <2>1
  <2>3. GenInv'
    <3>1. nextGen' <= MaxAdds + 1
      BY <1>0, <2>1
    <3>2. ASSUME NEW u \in InFlight' PROVE u.gen < nextGen'
      <4>1. CASE u = t
        BY <1>0, <2>1, <4>1
      <4>2. CASE u # t
        <5>1. u \in timers \cup expired \cup firing
          BY <2>1, <4>2
        <5>2. u.gen \in Nat /\ u.gen < nextGen
          BY <1>0, <2>2, <5>1 DEF Timer
        <5> QED BY <1>0, <2>1, <5>2
      <4> QED BY <4>1, <4>2
    <3> QED BY <3>1, <3>2
  <2>4. \A u, v \in InFlight' : u.gen = v.gen => u = v
    BY <2>1, <2>2
  <2>5. (timers \cap expired = {} /\ (timers \cup expired) \cap firing = {})'
    BY <2>1, <2>2
  <2>6. ASSUME NEW i \in TimerIds, gens'[i] # 0
        PROVE  \E u \in InFlight' : u.id = i /\ Current(u)'
    <3>1. CASE i = t.id
      <4>1. t \in InFlight' /\ gens'[t.id] = t.gen
        BY <1>0, <2>1 DEF Timer
      <4> QED BY <3>1, <4>1 DEF Current
    <3>2. CASE i # t.id
      <4>1. gens'[i] = gens[i]
        BY <1>0, <2>1, <3>2
      <4>2. PICK u \in InFlight : u.id = i /\ Current(u)
        BY <2>6, <4>1
      <4>3. u \in InFlight'
        BY <2>1, <3>2, <4>2
      <4> QED BY <4>1, <4>2, <4>3 DEF Current
    <3> QED BY <3>1, <3>2
  <2> QED BY <2>3, <2>4, <2>5, <2>6
<1> QED BY <1>1, <1>2, ChangeShape

\* Each step of the loop keeps TimerInv too.
LEMMA TimerInductive == TypeOK /\ TimerInv /\ [Next]_vars => TimerInv'
<1> SUFFICES ASSUME TypeOK, TimerInv, [Next]_vars PROVE TimerInv'
  OBVIOUS
<1> USE DEF shared, history
<1>0. /\ timers \subseteq Timer /\ expired \subseteq Timer /\ firing \subseteq Timer
      /\ gens \in [TimerIds -> Nat] /\ nextGen \in Nat \ {0}
  BY DEF TypeOK
<1>1. CASE ComputeTimeout \/ PollReturns \/ PollOther \/ EventsDone
  BY <1>1 DEF ComputeTimeout, PollReturns, PollOther, EventsDone,
              TimerInv, GenInv, OneLiveTimerPerId, InFlight, Current
<1>2. CASE CollectDue
  <2> USE DEF TimerInv, GenInv, OneLiveTimerPerId, InFlight
  <2>1. /\ expired = {} /\ firing = {} /\ lpc' = "batch" /\ UNCHANGED <<gens, nextGen, firing>>
        /\ expired' = {t \in timers : Current(t) /\ t.when <= now}
        /\ timers' = {t \in timers : Current(t) /\ t.when > now}
    BY <1>2 DEF CollectDue
  <2>2. expired' \subseteq timers /\ timers' \subseteq timers
    BY <2>1
  <2>3. timers' \cap expired' = {}
    <3>1. \A t \in timers : ~ (t.when <= now /\ t.when > now)
      BY <1>0 DEF TypeOK, Timer
    <3> QED BY <2>1, <3>1
  <2>4. \A t \in timers : Current(t) => t \in timers' \cup expired'
    <3>1. \A t \in timers : t.when <= now \/ t.when > now
      BY <1>0 DEF TypeOK, Timer
    <3> QED BY <2>1, <3>1
  <2>5. \A i \in TimerIds : gens'[i] # 0 => \E t \in InFlight' : t.id = i /\ Current(t)'
    BY <2>1, <2>4 DEF Current
  <2> QED BY <2>1, <2>2, <2>3, <2>5
<1>3. CASE BatchDone
  BY <1>3 DEF BatchDone, TimerInv, GenInv, OneLiveTimerPerId, InFlight, Current
<1>4. ASSUME NEW t \in expired, Fire(t) PROVE TimerInv'
  <2> USE DEF TimerInv, GenInv, OneLiveTimerPerId, InFlight
  <2>1. /\ firing = {} /\ firing' = {t} /\ expired' = expired \ {t} /\ lpc' = "callback"
        /\ UNCHANGED <<timers, gens, nextGen>>
    BY <1>4 DEF Fire
  <2>2. InFlight' = InFlight
    BY <2>1
  <2>3. (timers \cap expired = {} /\ (timers \cup expired) \cap firing = {})'
    BY <2>1
  <2>4. GenInv'
    BY <2>1, <2>2, <1>4 DEF Fire
  <2>5. \A i \in TimerIds : gens'[i] # 0 => \E u \in InFlight' : u.id = i /\ Current(u)'
    BY <2>1, <2>2 DEF Current
  <2> QED BY <2>1, <2>2, <2>3, <2>4, <2>5
<1>5. ASSUME NEW t \in firing, Settle(t) PROVE TimerInv'
  <2> USE DEF TimerInv, GenInv, OneLiveTimerPerId, InFlight
  <2>1. /\ lpc = "callback" /\ firing = {t} /\ firing' = {} /\ lpc' = "batch" /\ t \in Timer
        /\ now \in Nat /\ UNCHANGED <<expired, nextGen>>
    BY <1>0, <1>5 DEF Settle, TypeOK
  <2>2. CASE Current(t) /\ Rearm(t)
    <3> DEFINE r == [t EXCEPT !.repeat = Left(t), !.when = now + t.interval]
    <3>1. timers' = timers \cup {r} /\ UNCHANGED gens
      BY <1>5, <2>2 DEF Settle
    <3>2. r.id = t.id /\ r.gen = t.gen
      BY <2>1, <2>2, Rearmed
    <3> HIDE DEF r
    <3>3. \A u \in timers \cup expired : u # t
      BY <2>1
    <3>4. \A u \in timers \cup expired : u.gen # r.gen /\ u # r
      BY <2>1, <3>2, <3>3
    <3>5. GenInv' /\ (timers \cap expired = {} /\ (timers \cup expired) \cap firing = {})'
      BY <2>1, <3>1, <3>2, <3>4
    <3>6. \A u, v \in InFlight' : u.gen = v.gen => u = v
      BY <2>1, <3>1, <3>4
    <3>7. ASSUME NEW i \in TimerIds, gens'[i] # 0
          PROVE  \E u \in InFlight' : u.id = i /\ Current(u)'
      <4>1. PICK u \in InFlight : u.id = i /\ Current(u)
        BY <3>1, <3>7
      <4>2. CASE u = t
        BY <2>1, <3>1, <3>2, <4>1, <4>2 DEF Current
      <4>3. CASE u # t
        BY <2>1, <3>1, <4>1, <4>3 DEF Current
      <4> QED BY <4>2, <4>3
    <3> QED BY <3>5, <3>6, <3>7
  <2>3. CASE Current(t) /\ ~Rearm(t)
    <3>1. gens' = [gens EXCEPT ![t.id] = 0] /\ UNCHANGED timers
      BY <1>5, <2>3 DEF Settle
    <3>2. ASSUME NEW i \in TimerIds, gens'[i] # 0
          PROVE  \E u \in InFlight' : u.id = i /\ Current(u)'
      <4>1. i # t.id /\ gens'[i] = gens[i]
        BY <1>0, <3>1, <3>2
      <4>2. PICK u \in InFlight : u.id = i /\ Current(u)
        BY <3>2, <4>1
      <4> QED BY <2>1, <3>1, <4>1, <4>2 DEF Current
    <3> QED BY <2>1, <3>1, <3>2
  <2>4. CASE ~Current(t)
    <3>1. UNCHANGED <<timers, gens>>
      BY <1>5, <2>4 DEF Settle
    <3>2. ASSUME NEW i \in TimerIds, gens'[i] # 0
          PROVE  \E u \in InFlight' : u.id = i /\ Current(u)'
      <4>1. PICK u \in InFlight : u.id = i /\ Current(u)
        BY <3>1, <3>2
      <4> QED BY <2>1, <2>4, <3>1, <4>1 DEF Current
    <3> QED BY <2>1, <3>1, <3>2
  <2> QED BY <2>2, <2>3, <2>4
<1>6. CASE CallbackChange
  BY <1>6, ChangeKeepsTimers DEF CallbackChange
<1>7. ASSUME NEW c \in Clients, ClientChange(c) \/ ClientWake(c) PROVE TimerInv'
  <2>1. CASE ClientChange(c)
    BY <2>1, ChangeKeepsTimers DEF ClientChange
  <2>2. CASE ClientWake(c)
    BY <2>2 DEF ClientWake, TimerInv, GenInv, OneLiveTimerPerId, InFlight, Current
  <2> QED BY <1>7, <2>1, <2>2
<1>8. CASE Tick \/ UNCHANGED vars
  BY <1>8 DEF Tick, vars, TimerInv, GenInv, OneLiveTimerPerId, InFlight, Current
<1> QED BY <1>1, <1>2, <1>3, <1>4, <1>5, <1>6, <1>7, <1>8 DEF Next, LoopStep

\* There are no timers at first.
LEMMA TimersInitially == Init => TimerInv
BY TimerAssumption DEF Init, TimerInv, GenInv, OneLiveTimerPerId, InFlight

\* An id in timer_generations_ has its timer, and a generation has one timer, in
\* one place (add_timer, cancel, run_due_timers).
THEOREM OneTimerEach == Spec => []OneLiveTimerPerId
<1>1. TimerInv => OneLiveTimerPerId
  BY DEF TimerInv
<1> QED BY <1>1, TypeInitially, TypeInductive, TimersInitially, TimerInductive, PTL DEF Spec


-----------------------------------------------------------------------------
(* How often a timer fires.                                                *)

(***************************************************************************)
(* FiresBounded speaks of the history alone.  Inductively: what a timer    *)
(* still has to fire and what it has fired add up to what was asked, its   *)
(* callback under way counted on both sides; no timer that waits has fired *)
(* late; and one that has is stale for good, since generations are never   *)
(* reused, so that run_due_timers forgets it.                              *)
(***************************************************************************)
CountInv ==
  /\ \A g \in Generations : g >= nextGen => fires[g] = 0 /\ lateFires[g] = 0
  /\ \A t \in timers \cup expired :
       /\ lateFires[t.gen] = 0
       /\ asked[t.gen] # Infinite => fires[t.gen] + t.repeat = asked[t.gen]
  /\ \A t \in firing :
       /\ lateFires[t.gen] > 0 => ~Current(t)
       /\ asked[t.gen] # Infinite => fires[t.gen] > 0 /\ fires[t.gen] + t.repeat = asked[t.gen] + 1

FireInv == CountInv /\ FiresBounded

\* The generation of a timer is one that has been given out.
LEMMA GenerationsGiven ==
  ASSUME TypeOK, TimerInv
  PROVE  \A t \in InFlight : t \in Timer /\ t.gen \in Generations /\ t.gen < nextGen /\ t.repeat \in 1..Infinite
<1>1. InFlight \subseteq Timer
  BY DEF TypeOK, InFlight
<1>2. \A t \in InFlight : t.gen < nextGen /\ t.gen \in Nat \ {0} /\ t.repeat \in 1..Infinite
  BY <1>1 DEF TimerInv, GenInv, Timer
<1>3. nextGen \in Nat /\ nextGen <= MaxAdds + 1 /\ MaxAdds \in Nat
  BY TimerAssumption DEF TypeOK, TimerInv, GenInv
<1> QED BY <1>1, <1>2, <1>3 DEF Generations

\* add_timer and cancel keep FireInv: a new generation has not fired, and a
\* cancelled one stays cancelled.
LEMMA ChangeKeepsFires ==
  ASSUME TypeOK, TimerInv, FireInv, Change, UNCHANGED <<expired, firing, fires, lateFires>>
  PROVE  FireInv'
<1> USE DEF FireInv, CountInv, FiresBounded
<1>0. /\ gens \in [TimerIds -> Nat] /\ nextGen \in Nat \ {0} /\ asked \in [Generations -> 0..Infinite]
      /\ fires \in [Generations -> Nat] /\ lateFires \in [Generations -> Nat]
      /\ MaxAdds \in Nat /\ Infinite \in Nat
  BY TimerAssumption DEF TypeOK
<1>1. ASSUME NEW i \in TimerIds, Cancelled(i) PROVE FireInv'
  <2>1. \A t \in firing : ~Current(t) => ~Current(t)'
    BY <1>0, <1>1, GenerationsGiven DEF Cancelled, Current, Timer, InFlight
  <2> QED BY <1>1, <2>1 DEF Cancelled
<1>2. ASSUME NEW t \in Timer, NEW kept \in SUBSET timers, Added(t, kept) PROVE FireInv'
  <2>1. /\ t.gen = nextGen /\ nextGen <= MaxAdds /\ nextGen' = nextGen + 1
        /\ gens' = [gens EXCEPT ![t.id] = nextGen] /\ timers' = kept \cup {t}
        /\ asked' = [asked EXCEPT ![nextGen] = t.repeat]
    BY <1>2 DEF Added
  <2>2. nextGen \in Generations /\ t.repeat \in 1..Infinite
    BY <1>0, <2>1 DEF Generations, Timer
  <2>3. /\ asked'[nextGen] = t.repeat /\ fires[nextGen] = 0 /\ lateFires[nextGen] = 0
        /\ \A g \in Generations : g # nextGen => asked'[g] = asked[g]
    BY <1>0, <2>1, <2>2
  <2>4. \A u \in InFlight : /\ u \in Timer /\ u.gen \in Generations /\ u.gen # nextGen
                            /\ asked'[u.gen] = asked[u.gen]
    BY <1>0, <2>3, GenerationsGiven
  <2>5. ASSUME NEW g \in Generations, g >= nextGen' PROVE fires'[g] = 0 /\ lateFires'[g] = 0
    BY <1>0, <2>1, <2>5 DEF Generations
  <2>6. ASSUME NEW u \in (timers \cup expired)'
        PROVE  /\ lateFires'[u.gen] = 0
               /\ asked'[u.gen] # Infinite => fires'[u.gen] + u.repeat = asked'[u.gen]
    <3>1. CASE u = t
      BY <1>0, <2>1, <2>2, <2>3, <3>1
    <3>2. CASE u \in timers \cup expired
      BY <2>4, <3>2 DEF InFlight
    <3> QED BY <2>1, <2>6, <3>1, <3>2
  <2>7. ASSUME NEW u \in firing
        PROVE  /\ lateFires'[u.gen] > 0 => ~Current(u)'
               /\ asked'[u.gen] # Infinite =>
                    fires'[u.gen] > 0 /\ fires'[u.gen] + u.repeat = asked'[u.gen] + 1
    <3>1. u.id \in TimerIds /\ u.gen # nextGen /\ asked'[u.gen] = asked[u.gen]
      BY <2>4 DEF InFlight, Timer
    <3>2. ~Current(u) => ~Current(u)'
      BY <1>0, <2>1, <3>1 DEF Current
    <3> QED BY <3>1, <3>2
  <2>8. ASSUME NEW g \in Generations
        PROVE  (asked'[g] # Infinite => fires'[g] <= asked'[g]) /\ lateFires'[g] <= 1
    <3>1. CASE g = nextGen
      BY <1>0, <2>2, <2>3, <3>1
    <3>2. CASE g # nextGen
      BY <2>3, <3>2
    <3> QED BY <3>1, <3>2
  <2> QED BY <2>5, <2>6, <2>7, <2>8
<1> QED BY <1>1, <1>2, ChangeShape

\* Each step of the loop keeps FireInv too.
LEMMA FireInductive == TypeOK /\ TimerInv /\ FireInv /\ [Next]_vars => FireInv'
<1> SUFFICES ASSUME TypeOK, TimerInv, FireInv, [Next]_vars PROVE FireInv'
  OBVIOUS
<1> USE DEF shared, history
<1>0. /\ gens \in [TimerIds -> Nat] /\ nextGen \in Nat \ {0} /\ asked \in [Generations -> 0..Infinite]
      /\ fires \in [Generations -> Nat] /\ lateFires \in [Generations -> Nat]
      /\ MaxAdds \in Nat /\ Infinite \in Nat
  BY TimerAssumption DEF TypeOK
<1>1. CASE ComputeTimeout \/ PollReturns \/ PollOther \/ EventsDone
  BY <1>1 DEF ComputeTimeout, PollReturns, PollOther, EventsDone, FireInv, CountInv, FiresBounded, Current
<1>2. CASE CollectDue
  <2>1. timers' \cup expired' \subseteq timers /\ UNCHANGED <<gens, nextGen, firing, fires, lateFires, asked>>
    BY <1>2 DEF CollectDue
  <2> QED BY <2>1 DEF FireInv, CountInv, FiresBounded, Current
<1>3. CASE BatchDone
  BY <1>3 DEF BatchDone, FireInv, CountInv, FiresBounded, Current
<1>4. ASSUME NEW t \in expired, Fire(t) PROVE FireInv'
  <2>1. /\ firing' = {t} /\ expired' = expired \ {t} /\ UNCHANGED <<timers, gens, nextGen, asked>>
        /\ fires' = [fires EXCEPT ![t.gen] = @ + 1]
        /\ lateFires' = [lateFires EXCEPT ![t.gen] = IF Current(t) THEN @ ELSE @ + 1]
    BY <1>4 DEF Fire
  <2>2. /\ t \in Timer /\ t.gen \in Generations /\ t.gen < nextGen /\ t.repeat \in 1..Infinite
        /\ lateFires[t.gen] = 0
        /\ asked[t.gen] # Infinite => fires[t.gen] + t.repeat = asked[t.gen]
    BY GenerationsGiven DEF InFlight, FireInv, CountInv
  <2>3. /\ fires'[t.gen] = fires[t.gen] + 1 /\ fires[t.gen] \in Nat
        /\ lateFires'[t.gen] \in {0, 1} /\ (lateFires'[t.gen] > 0 => ~Current(t))
        /\ \A g \in Generations : g # t.gen => fires'[g] = fires[g] /\ lateFires'[g] = lateFires[g]
    BY <1>0, <2>1, <2>2
  <2>4. ASSUME NEW u \in timers \cup expired, u # t PROVE u.gen # t.gen /\ u.gen \in Generations
    BY <2>4, GenerationsGiven DEF TimerInv, OneLiveTimerPerId, InFlight
  <2>5. t \notin timers
    BY DEF TimerInv, OneLiveTimerPerId
  <2>6. CountInv'
    <3>1. ASSUME NEW g \in Generations, g >= nextGen' PROVE fires'[g] = 0 /\ lateFires'[g] = 0
      <4>1. g # t.gen /\ g >= nextGen
        BY <1>0, <2>1, <2>2, <3>1 DEF Generations
      <4> QED BY <2>3, <4>1 DEF FireInv, CountInv
    <3>2. ASSUME NEW u \in (timers \cup expired)'
          PROVE  /\ lateFires'[u.gen] = 0
                 /\ asked'[u.gen] # Infinite => fires'[u.gen] + u.repeat = asked'[u.gen]
      <4>1. u \in timers \cup expired /\ u # t
        BY <2>1, <2>5
      <4>2. u.gen # t.gen /\ u.gen \in Generations
        BY <2>4, <4>1
      <4> QED BY <2>1, <2>3, <4>1, <4>2 DEF FireInv, CountInv
    <3>3. ASSUME NEW u \in firing'
          PROVE  /\ lateFires'[u.gen] > 0 => ~Current(u)'
                 /\ asked'[u.gen] # Infinite =>
                      fires'[u.gen] > 0 /\ fires'[u.gen] + u.repeat = asked'[u.gen] + 1
      <4>1. u = t /\ (Current(t)' <=> Current(t)) /\ asked' = asked
        BY <2>1 DEF Current
      <4>2. asked[t.gen] # Infinite =>
              fires'[t.gen] > 0 /\ fires'[t.gen] + t.repeat = asked[t.gen] + 1
        BY <1>0, <2>2, <2>3
      <4> QED BY <2>3, <4>1, <4>2
    <3> QED BY <3>1, <3>2, <3>3 DEF CountInv
  <2>7. ASSUME NEW g \in Generations
        PROVE  (asked'[g] # Infinite => fires'[g] <= asked'[g]) /\ lateFires'[g] <= 1
    <3>1. CASE g = t.gen
      <4>1. asked[g] \in Nat
        BY <1>0
      <4> QED BY <1>0, <2>1, <2>2, <2>3, <3>1, <4>1
    <3>2. CASE g # t.gen
      BY <2>1, <2>3, <3>2 DEF FireInv, FiresBounded
    <3> QED BY <3>1, <3>2
  <2> QED BY <2>6, <2>7 DEF FireInv, FiresBounded
<1>5. ASSUME NEW t \in firing, Settle(t) PROVE FireInv'
  <2>1. /\ firing = {t} /\ firing' = {} /\ UNCHANGED <<expired, nextGen, fires, lateFires, asked>>
        /\ t \in Timer /\ t.gen \in Generations /\ t.repeat \in 1..Infinite /\ now \in Nat
    BY <1>5, GenerationsGiven DEF Settle, TimerInv, GenInv, InFlight, TypeOK
  <2>2. FiresBounded'
    BY <2>1 DEF FireInv, FiresBounded
  <2>3. CASE Current(t) /\ Rearm(t)
    <3> DEFINE r == [t EXCEPT !.repeat = Left(t), !.when = now + t.interval]
    <3>1. timers' = timers \cup {r}
      BY <1>5, <2>3 DEF Settle
    <3>2. /\ r.gen = t.gen /\ (t.repeat # Infinite => r.repeat = t.repeat - 1)
      BY <2>1, <2>3, Rearmed
    <3> HIDE DEF r
    <3>3. lateFires[t.gen] = 0
      BY <1>0, <2>1, <2>3 DEF FireInv, CountInv
    <3>4. asked[t.gen] # Infinite => fires[t.gen] + r.repeat = asked[t.gen]
      <4>1. ASSUME asked[t.gen] # Infinite PROVE fires[t.gen] + r.repeat = asked[t.gen]
        <5>1. fires[t.gen] > 0 /\ fires[t.gen] + t.repeat = asked[t.gen] + 1
          BY <4>1 DEF FireInv, CountInv
        <5>2. fires[t.gen] \in Nat /\ asked[t.gen] \in 0..Infinite
          BY <1>0, <2>1
        <5>3. t.repeat # Infinite
          BY <1>0, <2>1, <4>1, <5>1, <5>2
        <5> QED BY <2>1, <3>2, <5>1, <5>2, <5>3
      <4> QED BY <4>1
    <3> QED BY <2>1, <2>2, <3>1, <3>2, <3>3, <3>4 DEF FireInv, CountInv
  <2>4. CASE ~(Current(t) /\ Rearm(t))
    <3>1. UNCHANGED timers
      BY <1>5, <2>4 DEF Settle
    <3> QED BY <2>1, <2>2, <3>1 DEF FireInv, CountInv
  <2> QED BY <2>3, <2>4
<1>6. CASE CallbackChange
  BY <1>6, ChangeKeepsFires DEF CallbackChange
<1>7. ASSUME NEW c \in Clients, ClientChange(c) \/ ClientWake(c) PROVE FireInv'
  <2>1. CASE ClientChange(c)
    BY <2>1, ChangeKeepsFires DEF ClientChange
  <2>2. CASE ClientWake(c)
    BY <2>2 DEF ClientWake, FireInv, CountInv, FiresBounded, Current
  <2> QED BY <1>7, <2>1, <2>2
<1>8. CASE Tick \/ UNCHANGED vars
  BY <1>8 DEF Tick, vars, FireInv, CountInv, FiresBounded, Current
<1> QED BY <1>1, <1>2, <1>3, <1>4, <1>5, <1>6, <1>7, <1>8 DEF Next, LoopStep

\* Nothing has fired at first.
LEMMA FiresInitially == Init => FireInv
BY TimerAssumption DEF Init, FireInv, CountInv, FiresBounded, Generations

\* A timer fires as often as was asked at most, and once at most after it has
\* been cancelled or replaced (run_due_timers against cancel and add_timer).
THEOREM TimersFireAsAsked == Spec => []FiresBounded
<1>1. FireInv => FiresBounded
  BY DEF FireInv
<1> QED BY <1>1, TypeInitially, TypeInductive, TimersInitially, TimerInductive, FiresInitially,
           FireInductive, PTL DEF Spec

-----------------------------------------------------------------------------
(* The poll's timeout.                                                     *)

\* poll_timeout_ms: no live timer is due before the poll ends, unless it ends
\* at once.
LEMMA PollTimeoutIsEarly ==
  ASSUME TypeOK
  PROVE  PollTimeout <= now \/ \A t \in timers : Current(t) => t.when >= PollTimeout
<1> DEFINE due == {t.when : t \in {u \in timers : Current(u)}}
           cap == now + PollMax
           first == CHOOSE w \in due : \A v \in due : w <= v
<1>1. PollTimeout = IF \E w \in due : w < cap THEN IF first < now THEN now ELSE first ELSE cap
  BY DEF PollTimeout
<1>2. due \subseteq Nat /\ now \in Nat /\ cap \in Nat
  BY TimerAssumption DEF TypeOK, Timer
<1>3. \A t \in timers : Current(t) => t.when \in due
  OBVIOUS
<1>4. due # {} => first \in due /\ \A v \in due : first <= v
  <2>1. ASSUME due # {} PROVE \E w \in due : \A v \in due : w <= v
    BY <1>2, <2>1, LeastOf
  <2> QED BY <2>1
<1> HIDE DEF due, cap, first
<1>5. CASE \E w \in due : w < cap
  <2>1. first \in Nat /\ \A v \in due : v \in Nat /\ first <= v
    BY <1>2, <1>4, <1>5
  <2>2. CASE first < now
    BY <1>1, <1>2, <1>5, <2>2
  <2>3. CASE ~(first < now)
    BY <1>1, <1>3, <1>5, <2>1, <2>3
  <2> QED BY <2>2, <2>3
<1>6. CASE ~ \E w \in due : w < cap
  <2>1. \A w \in due : w >= cap
    BY <1>2, <1>6
  <2> QED BY <1>1, <1>3, <1>6, <2>1
<1> QED BY <1>5, <1>6

\* Each step keeps NoOversleep: the poll begins with it, and whoever changes the
\* timers meanwhile owes the loop a wakeup.
LEMMA NoOversleepInductive == TypeOK /\ NoOversleep /\ [Next]_vars => NoOversleep'
<1> SUFFICES ASSUME TypeOK, NoOversleep, [Next]_vars PROVE NoOversleep'
  OBVIOUS
<1> USE DEF NoOversleep, shared, history
<1>1. CASE ComputeTimeout
  <2>1. UNCHANGED <<now, timers, gens>> /\ deadline' = PollTimeout
    BY <1>1 DEF ComputeTimeout
  <2> QED BY <2>1, PollTimeoutIsEarly DEF Current
<1>2. CASE PollReturns \/ PollOther \/ EventsDone \/ CollectDue \/ BatchDone
  BY <1>2 DEF PollReturns, PollOther, EventsDone, CollectDue, BatchDone
<1>3. ASSUME NEW t \in expired, Fire(t) PROVE NoOversleep'
  BY <1>3 DEF Fire
<1>4. ASSUME NEW t \in firing, Settle(t) PROVE NoOversleep'
  BY <1>4 DEF Settle
<1>5. CASE CallbackChange
  BY <1>5 DEF CallbackChange
<1>6. ASSUME NEW c \in Clients, ClientChange(c) \/ ClientWake(c) PROVE NoOversleep'
  BY <1>6 DEF ClientChange, ClientWake
<1>7. CASE Tick
  <2>1. UNCHANGED <<lpc, pipe, waking, timers, gens, deadline>> /\ now' = now + 1
    BY <1>7 DEF Tick
  <2>2. now \in Nat /\ deadline \in Nat
    BY DEF TypeOK
  <2> QED BY <2>1, <2>2 DEF Current
<1>8. CASE UNCHANGED vars
  BY <1>8 DEF vars, Current
<1> QED BY <1>1, <1>2, <1>3, <1>4, <1>5, <1>6, <1>7, <1>8 DEF Next, LoopStep

\* While the loop polls past a live timer, its pipe is readable or somebody is
\* about to write it (add_timer against poll_timeout_ms and the poll).
THEOREM PollNeverOversleeps == Spec => []NoOversleep
<1>1. Init => NoOversleep
  BY DEF Init, NoOversleep
<1> QED BY <1>1, TypeInitially, TypeInductive, NoOversleepInductive, PTL DEF Spec
=============================================================================
