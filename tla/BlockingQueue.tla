----------------------------- MODULE BlockingQueue -----------------------------
(***************************************************************************)
(* BlockingQueue (blocking_queue.h): put() and close() notify after they   *)
(* have unlocked; take() and try_take_for() wait for an item or the close. *)
(* A value is a number, in the order of the calls of put(); what take()    *)
(* returns is left out.  A section under mutex_ is one step.               *)
(***************************************************************************)
EXTENDS Naturals, Sequences, FiniteSets

CONSTANTS
  Takers,     \* threads that take
  Putters,    \* threads that put
  MaxPuts,    \* bound: calls of put()
  MaxTakes    \* bound: calls of take() and try_take_for() of a thread

ASSUME BlockingQueueAssumption ==
  MaxPuts \in Nat /\ MaxTakes \in Nat /\ IsFiniteSet(Takers) /\ IsFiniteSet(Putters)

VARIABLES
  items,      \* queue_
  closed,     \* closed_
  taker,      \* out of a call, "ready" to test the predicate, or "asleep" on cv_
  timed,      \* the call is try_take_for()
  expiredT,   \* ... and its time is up
  putter,     \* in put() or close() between unlock and notify: "one", "all" or "out"
  puts,       \* calls of put()
  takes       \* calls of a thread

queueVars == <<items, closed, taker, timed, expiredT, putter, puts, takes>>

QueueInit ==
  /\ items = << >> /\ closed = FALSE /\ puts = 0
  /\ taker = [c \in Takers |-> "out"] /\ timed = [c \in Takers |-> FALSE]
  /\ expiredT = [c \in Takers |-> FALSE] /\ takes = [c \in Takers |-> 0]
  /\ putter = [p \in Putters |-> "out"]

Sleepers == {c \in Takers : taker[c] = "asleep"}
Rouse(C) == taker' = [c \in Takers |-> IF c \in C THEN "ready" ELSE taker[c]]

\* Mutant: only a put into an empty queue notifies.
PutOnEmpty(p) ==
  /\ putter[p] = "out" /\ puts < MaxPuts /\ puts' = puts + 1
  /\ items' = Append(items, puts + 1)
  /\ putter' = [putter EXCEPT ![p] = IF items = << >> THEN "one" ELSE "out"]
  /\ UNCHANGED <<closed, taker, timed, expiredT, takes>>

Put(p) ==
  /\ putter[p] = "out" /\ puts < MaxPuts /\ puts' = puts + 1
  /\ items' = Append(items, puts + 1)
  /\ putter' = [putter EXCEPT ![p] = "one"]
  /\ UNCHANGED <<closed, taker, timed, expiredT, takes>>

CloseQueue(p) ==
  /\ putter[p] = "out" /\ ~closed /\ closed' = TRUE
  /\ putter' = [putter EXCEPT ![p] = "all"]
  /\ UNCHANGED <<items, taker, timed, expiredT, puts, takes>>

Notify(p) ==
  /\ putter[p] # "out" /\ putter' = [putter EXCEPT ![p] = "out"]
  /\ \/ Sleepers = {} /\ UNCHANGED taker
     \/ Sleepers # {} /\ putter[p] = "all" /\ Rouse(Sleepers)
     \/ putter[p] = "one" /\ \E c \in Sleepers : Rouse({c})
  /\ UNCHANGED <<items, closed, timed, expiredT, puts, takes>>

Take(c, isTimed) ==
  /\ taker[c] = "out" /\ takes[c] < MaxTakes /\ takes' = [takes EXCEPT ![c] = @ + 1]
  /\ taker' = [taker EXCEPT ![c] = "ready"] /\ timed' = [timed EXCEPT ![c] = isTimed]
  /\ expiredT' = [expiredT EXCEPT ![c] = FALSE]
  /\ UNCHANGED <<items, closed, putter, puts>>

Returns(c) == taker' = [taker EXCEPT ![c] = "out"]

\* The predicate, under the lock; wait_for tests it once more when the time is up.
Tested(c) ==
  /\ taker[c] = "ready"
  /\ \/ items # << >> /\ Returns(c) /\ items' = Tail(items)
     \/ items = << >> /\ (closed \/ expiredT[c]) /\ Returns(c) /\ UNCHANGED items
     \/ items = << >> /\ ~closed /\ ~expiredT[c]
        /\ taker' = [taker EXCEPT ![c] = "asleep"] /\ UNCHANGED items
  /\ UNCHANGED <<closed, timed, expiredT, putter, puts, takes>>

\* Woken up by the clock, or for no reason.
WakesAlone(c) ==
  /\ taker[c] = "asleep" /\ Rouse({c})
  /\ \E late \in {FALSE, timed[c]} : expiredT' = [expiredT EXCEPT ![c] = late]
  /\ UNCHANGED <<items, closed, timed, putter, puts, takes>>

-----------------------------------------------------------------------------
QueueNext ==
  \/ \E p \in Putters : Put(p) \/ CloseQueue(p) \/ Notify(p)
  \/ \E c \in Takers : (\E isTimed \in BOOLEAN : Take(c, isTimed)) \/ Tested(c) \/ WakesAlone(c)

QueueSpec == QueueInit /\ [][QueueNext]_queueVars

-----------------------------------------------------------------------------
(* Properties.                                                             *)

\* Nobody sleeps over an item or over the close, although a notify comes after the
\* unlock and may reach a thread that finds its item gone: while a thread sleeps,
\* every item has a thread that is awake in its call or a notify on its way, and
\* after a close there is the notify_all (put, close, take, try_take_for).
QueueAwake ==
  Sleepers # {} =>
    /\ Len(items) <= Cardinality({c \in Takers : taker[c] = "ready"})
                     + Cardinality({p \in Putters : putter[p] = "one"})
    /\ closed => \E p \in Putters : putter[p] = "all"
=============================================================================
