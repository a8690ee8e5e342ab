------------------------------ MODULE ThreadPool ------------------------------
(***************************************************************************)
(* ThreadPool (thread_pool.cpp): tasks in a deque, workers that wait on a  *)
(* condition variable, run() from any thread and from the tasks            *)
(* themselves, start() and stop() by the owner.                            *)
(*                                                                         *)
(* A section under mutex_ is one step; a notify outside it is another.  A  *)
(* worker that waits on cv_ may wake up for no reason.  A task is a        *)
(* number, in the order of the calls of run().  A task that run() calls    *)
(* itself, for lack of workers, holds mutex_; it is one step and calls     *)
(* nothing (a run() in it would block for good).                           *)
(***************************************************************************)
EXTENDS Naturals, Sequences, FiniteSets

CONSTANTS
  Workers,        \* threads a start() can make
  Runners,        \* threads that call run()
  MaxTasks,       \* bound: calls of run()
  MaxPoolStarts   \* bound: calls of start()

ASSUME ThreadPoolAssumption ==
  /\ MaxTasks \in Nat /\ MaxPoolStarts \in Nat
  /\ IsFiniteSet(Workers) /\ IsFiniteSet(Runners) /\ Workers \cap Runners = {}

VARIABLES
  poolRunning,  \* running_
  poolTasks,    \* tasks_
  worker,       \* where each worker is; "none": it is not in workers_
  task,         \* the task a worker runs (0: none)
  notifying,    \* threads in run() between unlock and notify_one
  owner,        \* where the owner is in stop()
  poolStarts,   \* calls of start()
  issued,       \* calls of run()
  done,         \* history: how often each task has run
  promised      \* history: tasks that were queued while workers were there to run them

poolVars == <<poolRunning, poolTasks, worker, task, notifying, owner, poolStarts, issued, done,
              promised>>

PoolInit ==
  /\ poolRunning = FALSE /\ poolTasks = << >> /\ owner = "out" /\ poolStarts = 0
  /\ worker = [w \in Workers |-> "none"] /\ task = [w \in Workers |-> 0]
  /\ notifying = {} /\ issued = 0 /\ done = [t \in 1..MaxTasks |-> 0] /\ promised = {}

Employed == {w \in Workers : worker[w] # "none"}
Asleep == {w \in Workers : worker[w] = "asleep"}
Wake(W) == worker' = [w \in Workers |-> IF w \in W THEN "ready" ELSE worker[w]]

-----------------------------------------------------------------------------
(* The owner.                                                              *)

\* start(n): workers only if it was not running and n > 0.
PoolStart(W) ==
  /\ owner = "out" /\ poolStarts < MaxPoolStarts /\ poolStarts' = poolStarts + 1
  /\ poolRunning' = TRUE
  /\ worker' = IF poolRunning THEN worker
               ELSE [w \in Workers |-> IF w \in W THEN "ready" ELSE worker[w]]
  /\ UNCHANGED <<poolTasks, task, notifying, owner, issued, done, promised>>

\* stop(): nothing to stop, or the flag, the notify, the joins and the clear.
PoolStopFlag ==
  /\ owner = "out" /\ (poolRunning \/ Employed # {})
  /\ poolRunning' = FALSE /\ owner' = "notify"
  /\ UNCHANGED <<poolTasks, worker, task, notifying, poolStarts, issued, done, promised>>

\* Mutant: one worker is told.
StopNotifiesOne ==
  /\ owner = "notify" /\ owner' = "join"
  /\ \/ Asleep = {} /\ UNCHANGED worker
     \/ \E w \in Asleep : Wake({w})
  /\ UNCHANGED <<poolRunning, poolTasks, task, notifying, poolStarts, issued, done, promised>>

PoolStopNotify ==
  /\ owner = "notify" /\ owner' = "join" /\ Wake(Asleep)
  /\ UNCHANGED <<poolRunning, poolTasks, task, notifying, poolStarts, issued, done, promised>>

PoolStopped ==
  /\ owner = "join" /\ \A w \in Employed : worker[w] = "exited"
  /\ owner' = "out" /\ worker' = [w \in Workers |-> "none"]
  /\ UNCHANGED <<poolRunning, poolTasks, task, notifying, poolStarts, issued, done, promised>>

-----------------------------------------------------------------------------
(* run().                                                                  *)

\* Whether a task that is queued now will be run: a start() with workers and no
\* stop() yet, or the caller is itself a worker.
WillRun(c) == c \in Workers \/ (poolRunning /\ Employed # {})

MayCall(c) ==
  IF c \in Workers THEN worker[c] = "running" /\ c \notin notifying ELSE c \notin notifying

Run(c) ==
  /\ MayCall(c) /\ issued < MaxTasks /\ issued' = issued + 1
  /\ IF ~poolRunning /\ Employed = {}
     THEN done' = [done EXCEPT ![issued + 1] = @ + 1] /\ UNCHANGED <<poolTasks, notifying, promised>>
     ELSE /\ poolTasks' = Append(poolTasks, issued + 1) /\ notifying' = notifying \cup {c}
          /\ promised' = IF WillRun(c) THEN promised \cup {issued + 1} ELSE promised
          /\ UNCHANGED done
  /\ UNCHANGED <<poolRunning, worker, task, owner, poolStarts>>

RunNotify(c) ==
  /\ c \in notifying /\ notifying' = notifying \ {c}
  /\ IF Asleep = {} THEN UNCHANGED worker ELSE \E w \in Asleep : Wake({w})
  /\ UNCHANGED <<poolRunning, poolTasks, task, owner, poolStarts, issued, done, promised>>

-----------------------------------------------------------------------------
(* run_worker().                                                           *)

\* Mutant: a worker that sees the flag leaves.
ExitsAtOnce == ~poolRunning

\* The test after the wait.
Exits == ~poolRunning /\ poolTasks = << >>

\* The wait's predicate under the lock, and what follows it.
WorkerTakes(w) ==
  /\ worker[w] = "ready"
  /\ \/ Exits /\ worker' = [worker EXCEPT ![w] = "exited"] /\ UNCHANGED <<poolTasks, task>>
     \/ ~Exits /\ poolTasks = << >> /\ worker' = [worker EXCEPT ![w] = "asleep"]
        /\ UNCHANGED <<poolTasks, task>>
     \/ ~Exits /\ poolTasks # << >> /\ worker' = [worker EXCEPT ![w] = "running"]
        /\ task' = [task EXCEPT ![w] = Head(poolTasks)] /\ poolTasks' = Tail(poolTasks)
  /\ UNCHANGED <<poolRunning, notifying, owner, poolStarts, issued, done, promised>>

WorkerRuns(w) ==
  /\ worker[w] = "running" /\ w \notin notifying
  /\ done' = [done EXCEPT ![task[w]] = @ + 1] /\ task' = [task EXCEPT ![w] = 0]
  /\ worker' = [worker EXCEPT ![w] = "ready"]
  /\ UNCHANGED <<poolRunning, poolTasks, notifying, owner, poolStarts, issued, promised>>

WorkerWakes(w) ==
  /\ worker[w] = "asleep" /\ Wake({w})
  /\ UNCHANGED <<poolRunning, poolTasks, task, notifying, owner, poolStarts, issued, done, promised>>

-----------------------------------------------------------------------------
PoolNext ==
  \/ \E W \in {{}, Workers} : PoolStart(W)
  \/ PoolStopFlag \/ PoolStopNotify \/ PoolStopped
  \/ \E c \in Workers \cup Runners : Run(c) \/ RunNotify(c)
  \/ \E w \in Workers : WorkerTakes(w) \/ WorkerRuns(w) \/ WorkerWakes(w)

PoolSpec == PoolInit /\ [][PoolNext]_poolVars

-----------------------------------------------------------------------------
(* Properties.                                                             *)

\* No task runs twice, and a stop() that has returned leaves no promised task
\* behind, also not one that a task queued while the pool was stopping (run,
\* run_worker, stop).
PoolDrains ==
  /\ \A t \in 1..MaxTasks : done[t] <= 1
  /\ (owner = "out" /\ ~poolRunning /\ poolStarts > 0) => \A t \in promised : done[t] = 1

\* No task and no stop() is slept over, although both notify only after they have
\* unlocked and a worker that wakes up may find its task gone: while a worker sleeps,
\* every queued task has a worker that is awake or a notify on its way, and after
\* stop()'s notify nobody sleeps (run, stop, the wait of run_worker).
PoolAwake ==
  /\ Asleep # {} =>
       Len(poolTasks) <= Cardinality({w \in Workers : worker[w] = "ready"}) + Cardinality(notifying)
  /\ ~poolRunning /\ Asleep # {} => owner = "notify"

\* The two together: work given to the pool is neither lost nor slept over (run, stop,
\* run_worker).
PoolServes == PoolDrains /\ PoolAwake
=============================================================================
