--------------------------- MODULE EventLoopProofs ---------------------------
(***************************************************************************)
(* Theorems about EventLoop and EventLoopThread, for any set of clients,   *)
(* any number of posts and any pipe capacity.                              *)
(***************************************************************************)
EXTENDS EventLoopThread, TLAPS

-----------------------------------------------------------------------------
(* Type correctness.                                                       *)

\* Each action keeps the types: the pipe count stays within its capacity and
\* functors stay well formed.
LEMMA TypeInductive == TypeOK /\ [Next]_vars => TypeOK'
<1> USE ClientsAssumption, BoundsAssumption DEF TypeOK, Submitters
<1> SUFFICES ASSUME TypeOK, [Next]_vars PROVE TypeOK'
  OBVIOUS
<1>p. ASSUME NEW s \in Submitters, Push(s)
      PROVE  /\ posted' \in [Submitters -> Nat]
             /\ pending' \in Seq(Functor)
  <2>1. posted' \in [Submitters -> Nat]
    BY <1>p DEF Push
  <2>2. [by |-> s, n |-> posted[s] + 1] \in Functor
    BY DEF Functor
  <2>3. pending' \in Seq(Functor)
    BY <1>p, <2>2 DEF Push
  <2> QED BY <2>1, <2>3
<1>w. Wakeup => pipe' \in 0..PipeCap
  BY DEF Wakeup
<1>1. CASE LoopEnter
  BY <1>1 DEF LoopEnter, Goto, LoopPoints
<1>2. CASE LoopTest \/ LoopExit \/ PollWakeup \/ PollOther
  BY <1>2 DEF LoopTest, LoopExit, PollWakeup, PollOther, Goto, LoopPoints
<1>3. CASE HandleWakeup \/ EventsDone \/ TimersDone
  <2>1. 0 \in 0..PipeCap
    OBVIOUS
  <2> QED BY <1>3, <2>1 DEF HandleWakeup, EventsDone, TimersDone, Goto, LoopPoints
<1>4. CASE SwapPending
  BY <1>4 DEF SwapPending, Goto, LoopPoints
<1>5. CASE RunFunctor
  <2>1. Head(running) \in Functor /\ Tail(running) \in Seq(Functor)
    BY <1>5 DEF RunFunctor
  <2>2. executed' \in [Submitters -> Nat]
    BY <1>5, <2>1 DEF RunFunctor, Functor
  <2> QED BY <1>5, <2>1, <2>2 DEF RunFunctor, Goto, LoopPoints
<1>6. CASE FunctorReturns \/ PendingDone
  BY <1>6 DEF FunctorReturns, PendingDone, Goto, LoopPoints
<1>7. CASE SetupPost
  BY <1>7, <1>p DEF SetupPost
<1>8. CASE LoopPost
  BY <1>8, <1>p, <1>w DEF LoopPost
<1>9. CASE LoopQuit
  BY <1>9 DEF LoopQuit
<1>10. ASSUME NEW t \in Clients, ClientStep(t) PROVE TypeOK'
  <2>1. CASE ClientPost(t)
    BY <2>1, <1>p DEF ClientPost
  <2>2. CASE ClientQuit(t)
    BY <2>2 DEF ClientQuit
  <2>3. CASE ClientWake(t)
    BY <2>3, <1>w DEF ClientWake
  <2> QED BY <1>10, <2>1, <2>2, <2>3 DEF ClientStep
<1>11. CASE UNCHANGED vars
  BY <1>11 DEF vars
<1> QED
  BY <1>1, <1>2, <1>3, <1>4, <1>5, <1>6, <1>7, <1>8, <1>9, <1>10, <1>11
  DEF Next, LoopStep, UserCode

\* The variables of the loop keep their types (event_loop.h, the members of
\* EventLoop).
THEOREM LoopTypeCorrect == Spec => []TypeOK
<1>1. Init => TypeOK
  <2>1. 0 \in 0..PipeCap
    BY BoundsAssumption
  <2>2. << >> \in Seq(Functor)
    OBVIOUS
  <2>3. Init => /\ cpc \in [Clients -> {"idle", "wake"}]
                /\ posted \in [Submitters -> Nat] /\ executed \in [Submitters -> Nat]
                /\ lpc \in LoopPoints
    BY DEF Init, LoopPoints
  <2>4. Init => quit \in BOOLEAN /\ looping \in BOOLEAN /\ calling \in BOOLEAN /\ woken \in BOOLEAN
    BY DEF Init
  <2>5. Init => pending \in Seq(Functor) /\ running \in Seq(Functor) /\ pipe \in 0..PipeCap
    BY <2>1, <2>2 DEF Init
  <2> QED BY <2>3, <2>4, <2>5 DEF TypeOK
<1> QED BY <1>1, TypeInductive, PTL DEF Spec

-----------------------------------------------------------------------------
(* Wakeups.                                                                *)

\* The points from which the loop can reach epoll_wait without draining the
\* pipe or swapping the queue in between.
Unserved == {"init", "run", "body", "test", "poll"}

(***************************************************************************)
(* NoLostWakeup is about "poll" only and says nothing of the steps before  *)
(* it.  Inductively: from the swap on, every functor in the queue has its  *)
(* wakeup under way; the points between a drain and the swap need none.    *)
(* For this "calling" must be set exactly while a batch runs, and quit_ is *)
(* covered from the test on.                                               *)
(***************************************************************************)
WakeupInv ==
  /\ lpc \in Unserved /\ NeedsWakeup => WakeupDue
  /\ lpc = "poll" /\ quit => WakeupDue
  /\ calling <=> lpc \in {"run", "body"}

\* Every step keeps WakeupInv.
LEMMA WakeupInductive == TypeOK /\ WakeupInv /\ [Next]_vars => WakeupInv'
<1> USE ClientsAssumption, BoundsAssumption
<1> SUFFICES ASSUME TypeOK, WakeupInv, [Next]_vars PROVE WakeupInv'
  OBVIOUS
<1>1. CASE LoopEnter
  BY <1>1 DEF LoopEnter, Goto, WakeupInv, NeedsWakeup, WakeupDue, Unserved
<1>2. CASE LoopTest \/ LoopExit \/ PollWakeup \/ PollOther
  BY <1>2 DEF LoopTest, LoopExit, PollWakeup, PollOther, Goto, WakeupInv,
              NeedsWakeup, WakeupDue, Unserved
<1>3. CASE HandleWakeup \/ EventsDone \/ TimersDone
  BY <1>3 DEF HandleWakeup, EventsDone, TimersDone, Goto, WakeupInv,
              NeedsWakeup, WakeupDue, Unserved
<1>4. CASE SwapPending
  BY <1>4 DEF SwapPending, Goto, WakeupInv, NeedsWakeup, WakeupDue, Unserved
<1>5. CASE RunFunctor \/ FunctorReturns \/ PendingDone
  BY <1>5 DEF RunFunctor, FunctorReturns, PendingDone, Goto, WakeupInv,
              NeedsWakeup, WakeupDue, Unserved
<1>6. CASE SetupPost
  \* The functor appended is a "setup" one: whatever needed a wakeup did before.
  <2>1. NeedsWakeup' => NeedsWakeup
    BY <1>6 DEF SetupPost, Push, NeedsWakeup, TypeOK, Functor
  <2> QED BY <1>6, <2>1 DEF SetupPost, Push, WakeupInv, WakeupDue, Unserved
<1>7. CASE LoopPost
  <2>1. CASE calling
    <3>1. pipe' > 0
      BY <1>7, <2>1 DEF LoopPost, Wakeup, TypeOK
    <3> QED BY <1>7, <3>1 DEF LoopPost, WakeupInv, WakeupDue
  <2>2. CASE ~calling
    \* Not in a batch: the callback runs before the swap of this iteration.
    <3>1. lpc \in {"events", "timers"}
      BY <1>7, <2>2 DEF LoopPost, InCallback, WakeupInv
    <3> QED BY <1>7, <3>1 DEF LoopPost, WakeupInv, Unserved
  <2> QED BY <2>1, <2>2
<1>8. CASE LoopQuit
  BY <1>8 DEF LoopQuit, InCallback, WakeupInv, NeedsWakeup, WakeupDue, Unserved
<1>9. ASSUME NEW t \in Clients, ClientStep(t) PROVE WakeupInv'
  <2>1. CASE ClientPost(t) \/ ClientQuit(t)
    <3>1. cpc'[t] = "wake"
      BY <2>1 DEF ClientPost, ClientQuit, TypeOK
    <3> QED BY <2>1, <3>1 DEF ClientPost, ClientQuit, WakeupInv, WakeupDue
  <2>2. CASE ClientWake(t)
    <3>1. pipe' > 0
      BY <2>2 DEF ClientWake, Wakeup, TypeOK
    <3> QED BY <2>2, <3>1 DEF ClientWake, WakeupInv, WakeupDue
  <2> QED BY <1>9, <2>1, <2>2 DEF ClientStep
<1>10. CASE UNCHANGED vars
  BY <1>10 DEF vars, WakeupInv, NeedsWakeup, WakeupDue
<1> QED
  BY <1>1, <1>2, <1>3, <1>4, <1>5, <1>6, <1>7, <1>8, <1>9, <1>10
  DEF Next, LoopStep, UserCode

\* The loop never sleeps on a posted functor or on quit_ with nobody about to
\* wake it (queue_in_loop and quit against loop()).
THEOREM LoopNeverOversleeps == Spec => [](NoLostWakeup /\ NoMissedQuit)
<1>1. Init => WakeupInv
  BY DEF Init, WakeupInv, NeedsWakeup
<1>2. WakeupInv => NoLostWakeup /\ NoMissedQuit
  BY DEF WakeupInv, NoLostWakeup, NoMissedQuit, Unserved
<1> QED BY <1>1, <1>2, WakeupInductive, LoopTypeCorrect, PTL DEF Spec

-----------------------------------------------------------------------------
(* The queue is one FIFO.                                                  *)

\* The functors that have not started, in order: what FunctorQueue calls queue.
Q == running \o pending

\* Sequences: appending, taking the head and swapping, seen through \o.
LEMMA ConcatAppend ==
  ASSUME NEW S, NEW a \in Seq(S), NEW b \in Seq(S), NEW e \in S
  PROVE  a \o Append(b, e) = Append(a \o b, e)
OBVIOUS

\* A non-empty first part gives the head and keeps the rest.
LEMMA ConcatTail ==
  ASSUME NEW S, NEW a \in Seq(S), NEW b \in Seq(S), a # << >>
  PROVE  /\ a \o b # << >>
         /\ Head(a \o b) = Head(a)
         /\ Tail(a) \o b = Tail(a \o b)
OBVIOUS

\* The empty sequence on either side.
LEMMA ConcatEmpty ==
  ASSUME NEW S, NEW a \in Seq(S)
  PROVE  a \o << >> = a /\ << >> \o a = a
OBVIOUS

\* Positions after an append ...
LEMMA AppendAt ==
  ASSUME NEW S, NEW q \in Seq(S), NEW e \in S
  PROVE  /\ Len(q) \in Nat /\ Len(Append(q, e)) = Len(q) + 1
         /\ Append(q, e)[Len(q) + 1] = e
         /\ \A i \in 1..Len(q) : Append(q, e)[i] = q[i]
OBVIOUS

\* ... and after the head has gone.
LEMMA TailAt ==
  ASSUME NEW S, NEW q \in Seq(S), q # << >>
  PROVE  /\ Len(q) \in Nat /\ Len(q) > 0 /\ Len(Tail(q)) = Len(q) - 1
         /\ Head(q) = q[1]
         /\ \A i \in 1..Len(Tail(q)) : i + 1 \in 1..Len(q) /\ Tail(q)[i] = q[i + 1]
OBVIOUS

\* A functor in the queue has a submitter and a number.
LEMMA FunctorAt ==
  ASSUME NEW q \in Seq(Functor), NEW i \in 1..Len(q)
  PROVE  q[i].by \in Submitters /\ q[i].n \in Nat
<1>1. q[i] \in Functor
  OBVIOUS
<1> QED BY <1>1 DEF Functor

(***************************************************************************)
(* FunctorQueue lets the head run only if it is its submitter's next       *)
(* functor.  That takes: the queue holds, for each submitter, exactly the  *)
(* functors numbered executed+1 .. posted, in increasing order; and a      *)
(* batch is non-empty only between the swap and the end of the batch.      *)
(***************************************************************************)
FifoInv ==
  /\ \A i \in 1..Len(Q) : /\ executed[Q[i].by] < Q[i].n
                          /\ Q[i].n <= posted[Q[i].by]
  /\ \A i, j \in 1..Len(Q) : i < j /\ Q[i].by = Q[j].by => Q[i].n < Q[j].n
  /\ \A s \in Submitters : \A k \in Nat :
        executed[s] < k /\ k <= posted[s] => \E i \in 1..Len(Q) : Q[i] = [by |-> s, n |-> k]
  /\ \A s \in Submitters : executed[s] <= posted[s]
  /\ running # << >> => lpc \in {"run", "body"}

\* The queue is a sequence of functors.
LEMMA QType == TypeOK => Q \in Seq(Functor)
BY DEF TypeOK, Q

\* The head of the queue is its submitter's next functor.
LEMMA HeadIsNext ==
  ASSUME TypeOK, FifoInv, Q # << >>
  PROVE  Head(Q).n = executed[Head(Q).by] + 1
<1>1. /\ Q \in Seq(Functor) /\ 1 \in 1..Len(Q) /\ Head(Q) = Q[1]
      /\ Q[1].by \in Submitters /\ Q[1].n \in Nat
      /\ executed[Q[1].by] \in Nat /\ posted[Q[1].by] \in Nat
  <2>1. Q \in Seq(Functor) /\ 1 \in 1..Len(Q) /\ Head(Q) = Q[1]
    BY QType, TailAt
  <2>2. Q[1].by \in Submitters /\ Q[1].n \in Nat
    BY <2>1, FunctorAt
  <2> QED BY <2>1, <2>2 DEF TypeOK
<1> DEFINE s == Q[1].by  k == executed[s] + 1
<1>2. executed[s] < k /\ k <= posted[s] /\ k \in Nat
  BY <1>1 DEF FifoInv
<1>3. PICK i \in 1..Len(Q) : Q[i] = [by |-> s, n |-> k]
  BY <1>1, <1>2 DEF FifoInv
<1>4. ~(1 < i)
  BY <1>1, <1>3 DEF FifoInv
<1> QED BY <1>1, <1>3, <1>4

\* Posting: the new functor is last, and the next of its submitter.
LEMMA PostStep ==
  ASSUME TypeOK, FifoInv, NEW s \in Submitters, Push(s),
         running' = running, executed' = executed, lpc' = lpc
  PROVE  FQ!Post(s) /\ FifoInv'
<1> DEFINE f == [by |-> s, n |-> posted[s] + 1]
<1>1. Q \in Seq(Functor) /\ f \in Functor /\ Q' = Append(Q, f)
  <2>1. f \in Functor /\ running \in Seq(Functor) /\ pending \in Seq(Functor)
    BY DEF TypeOK, Functor
  <2>2. running \o Append(pending, f) = Append(running \o pending, f)
    BY <2>1, ConcatAppend
  <2> QED BY <2>1, <2>2, QType DEF Push, Q
<1>2. FQ!Post(s)
  BY <1>1 DEF FQ!Post, Push, Q
<1>3. /\ Len(Q') = Len(Q) + 1 /\ Len(Q) \in Nat
      /\ Q'[Len(Q) + 1] = f
      /\ \A i \in 1..Len(Q) : Q'[i] = Q[i] /\ Q[i].by \in Submitters /\ Q[i].n \in Nat
  BY <1>1, AppendAt, FunctorAt
<1>4. /\ posted'[s] = posted[s] + 1
      /\ \A r \in Submitters : /\ r # s => posted'[r] = posted[r]
                              /\ posted[r] \in Nat /\ executed[r] \in Nat
  BY DEF TypeOK, Push
<1>5. \A i \in 1..Len(Q') : executed'[Q'[i].by] < Q'[i].n /\ Q'[i].n <= posted'[Q'[i].by]
  <2> TAKE i \in 1..Len(Q')
  <2>1. CASE i = Len(Q) + 1
    BY <2>1, <1>3, <1>4 DEF FifoInv
  <2>2. CASE i \in 1..Len(Q)
    <3>1. executed[Q[i].by] < Q[i].n /\ Q[i].n <= posted[Q[i].by]
      BY <2>2 DEF FifoInv
    <3>2. Q'[i] = Q[i] /\ Q[i].by \in Submitters /\ Q[i].n \in Nat
      BY <2>2, <1>3
    <3>3. posted[Q[i].by] <= posted'[Q[i].by] /\ posted'[Q[i].by] \in Nat
      BY <3>2, <1>4
    <3> QED BY <3>1, <3>2, <3>3, <1>4
  <2> QED BY <2>1, <2>2, <1>3
<1>6. \A i, j \in 1..Len(Q') : i < j /\ Q'[i].by = Q'[j].by => Q'[i].n < Q'[j].n
  <2> SUFFICES ASSUME NEW i \in 1..Len(Q'), NEW j \in 1..Len(Q'), i < j, Q'[i].by = Q'[j].by
               PROVE  Q'[i].n < Q'[j].n
    OBVIOUS
  <2>1. i \in 1..Len(Q)
    BY <1>3
  <2>2. CASE j = Len(Q) + 1
    BY <2>1, <2>2, <1>3, <1>4 DEF FifoInv
  <2>3. CASE j \in 1..Len(Q)
    BY <2>1, <2>3, <1>3 DEF FifoInv
  <2> QED BY <2>2, <2>3, <1>3
<1>7. ASSUME NEW r \in Submitters, NEW k \in Nat, executed'[r] < k, k <= posted'[r]
      PROVE  \E i \in 1..Len(Q') : Q'[i] = [by |-> r, n |-> k]
  <2>1. CASE r = s /\ k = posted[s] + 1
    BY <2>1, <1>3
  <2>2. CASE ~(r = s /\ k = posted[s] + 1)
    <3>1. k <= posted[r]
      BY <1>7, <2>2, <1>4
    <3>2. PICK i \in 1..Len(Q) : Q[i] = [by |-> r, n |-> k]
      BY <1>7, <3>1 DEF FifoInv
    <3> QED BY <3>2, <1>3
  <2> QED BY <2>1, <2>2
<1>8. \A r \in Submitters : executed'[r] <= posted'[r]
  BY <1>4 DEF FifoInv
<1>9. running' # << >> => lpc' \in {"run", "body"}
  BY DEF FifoInv
<1> QED BY <1>2, <1>5, <1>6, <1>7, <1>8, <1>9 DEF FifoInv

\* Running: the head leaves, and was the next of its submitter.
LEMMA RunStep ==
  ASSUME TypeOK, FifoInv, RunFunctor
  PROVE  FQ!Run /\ FifoInv'
<1>1. /\ running \in Seq(Functor) /\ pending \in Seq(Functor) /\ running # << >>
      /\ Q \in Seq(Functor)
  BY QType DEF TypeOK, RunFunctor
<1>2. Q # << >> /\ Head(Q) = Head(running) /\ Q' = Tail(Q)
  BY <1>1, ConcatTail DEF RunFunctor, Q
<1> DEFINE s == Head(Q).by
<1>3. Head(Q).n = executed[s] + 1
  BY <1>2, HeadIsNext
<1>4. executed' = [executed EXCEPT ![s] = @ + 1] /\ posted' = posted
  BY <1>2 DEF RunFunctor
<1>5. FQ!Run
  BY <1>2, <1>3, <1>4 DEF FQ!Run, Q
<1>6. /\ Len(Q) \in Nat /\ Len(Q) > 0 /\ Len(Q') = Len(Q) - 1 /\ Head(Q) = Q[1]
      /\ \A i \in 1..Len(Q') : i + 1 \in 1..Len(Q) /\ Q'[i] = Q[i + 1]
      /\ \A i \in 1..Len(Q) : Q[i].by \in Submitters /\ Q[i].n \in Nat
  BY <1>1, <1>2, TailAt, FunctorAt
<1>7. /\ executed'[s] = executed[s] + 1
      /\ \A r \in Submitters : /\ r # s => executed'[r] = executed[r]
                              /\ posted[r] \in Nat /\ executed[r] \in Nat
  BY <1>4, <1>6 DEF TypeOK
<1>8. \A i \in 1..Len(Q') : executed'[Q'[i].by] < Q'[i].n /\ Q'[i].n <= posted'[Q'[i].by]
  <2> TAKE i \in 1..Len(Q')
  <2>1. CASE Q[i + 1].by = s
    <3>1. Q[1].n < Q[i + 1].n
      BY <2>1, <1>6 DEF FifoInv
    <3> QED BY <2>1, <3>1, <1>3, <1>4, <1>6, <1>7 DEF FifoInv
  <2>2. CASE Q[i + 1].by # s
    BY <2>2, <1>4, <1>6, <1>7 DEF FifoInv
  <2> QED BY <2>1, <2>2
<1>9. \A i, j \in 1..Len(Q') : i < j /\ Q'[i].by = Q'[j].by => Q'[i].n < Q'[j].n
  <2> SUFFICES ASSUME NEW i \in 1..Len(Q'), NEW j \in 1..Len(Q'), i < j, Q'[i].by = Q'[j].by
               PROVE  Q'[i].n < Q'[j].n
    OBVIOUS
  <2>1. /\ i + 1 \in 1..Len(Q) /\ j + 1 \in 1..Len(Q) /\ i + 1 < j + 1
        /\ Q'[i] = Q[i + 1] /\ Q'[j] = Q[j + 1]
    BY <1>6
  <2>2. Q[i + 1].n < Q[j + 1].n
    BY <2>1 DEF FifoInv
  <2> QED BY <2>1, <2>2
<1>10. ASSUME NEW r \in Submitters, NEW k \in Nat, executed'[r] < k, k <= posted'[r]
       PROVE  \E i \in 1..Len(Q') : Q'[i] = [by |-> r, n |-> k]
  <2>1. executed[r] < k /\ k <= posted[r]
    BY <1>10, <1>4, <1>7
  <2>2. PICK i \in 1..Len(Q) : Q[i] = [by |-> r, n |-> k]
    BY <2>1 DEF FifoInv
  <2>3. i # 1
    BY <2>2, <1>3, <1>6, <1>7, <1>10
  <2>4. i - 1 \in 1..Len(Q') /\ Q'[i - 1] = Q[i]
    BY <2>3, <1>6
  <2> QED BY <2>2, <2>4
<1>11. \A r \in Submitters : executed'[r] <= posted'[r]
  <2>1. executed[s] + 1 <= posted[s]
    BY <1>3, <1>6 DEF FifoInv
  <2> QED BY <2>1, <1>4, <1>7 DEF FifoInv
<1>12. running' # << >> => lpc' \in {"run", "body"}
  BY DEF RunFunctor, Goto
<1> QED BY <1>5, <1>8, <1>9, <1>10, <1>11, <1>12 DEF FifoInv

\* What leaves the queue, the numbers and the emptiness of the batch alone.
LEMMA SameQueue ==
  ASSUME FifoInv, Q' = Q, posted' = posted, executed' = executed,
         running' # << >> => lpc' \in {"run", "body"}
  PROVE  FifoInv'
BY DEF FifoInv

\* Every step is a step of FunctorQueue or leaves it alone, and keeps FifoInv.
LEMMA FifoStep ==
  ASSUME TypeOK, FifoInv, [Next]_vars
  PROVE  [FQ!Next]_<<Q, posted, executed>> /\ FifoInv'
<1>1. CASE RunFunctor
  BY <1>1, RunStep DEF FQ!Next
<1>2. ASSUME NEW t \in Clients, ClientPost(t)
      PROVE  [FQ!Next]_<<Q, posted, executed>> /\ FifoInv'
  BY <1>2, PostStep DEF ClientPost, FQ!Next, Submitters
<1>3. CASE SetupPost \/ LoopPost
  BY <1>3, PostStep DEF SetupPost, LoopPost, FQ!Next, Submitters
<1>4. CASE SwapPending
  <2>1. running = << >>
    BY <1>4 DEF SwapPending, Goto, FifoInv
  <2>2. Q' = Q
    BY <1>4, <2>1, ConcatEmpty DEF SwapPending, TypeOK, Q
  <2> QED BY <1>4, <2>2, SameQueue DEF SwapPending, Goto
<1>5. CASE \/ LoopEnter \/ LoopTest \/ LoopExit \/ PollWakeup \/ PollOther
           \/ HandleWakeup \/ EventsDone \/ TimersDone \/ LoopQuit
           \/ FunctorReturns \/ PendingDone \/ UNCHANGED vars
           \/ \E t \in Clients : ClientQuit(t) \/ ClientWake(t)
  <2>1. running' = running /\ pending' = pending /\ posted' = posted /\ executed' = executed
    BY <1>5 DEF LoopEnter, LoopTest, LoopExit, PollWakeup, PollOther, HandleWakeup,
                EventsDone, TimersDone, LoopQuit, FunctorReturns, PendingDone, vars,
                ClientQuit, ClientWake
  <2>2. running' # << >> => lpc' \in {"run", "body"}
    BY <1>5, <2>1
    DEF LoopEnter, LoopTest, LoopExit, PollWakeup, PollOther, HandleWakeup,
        EventsDone, TimersDone, LoopQuit, FunctorReturns, PendingDone, vars,
        ClientQuit, ClientWake, Goto, FifoInv
  <2>3. Q' = Q
    BY <2>1 DEF Q
  <2> QED BY <2>1, <2>2, <2>3, SameQueue
<1> QED
  BY <1>1, <1>2, <1>3, <1>4, <1>5 DEF Next, LoopStep, UserCode, ClientStep

\* EventLoop's functor queue implements the FIFO of FunctorQueue.
THEOREM LoopImplementsFifo == Spec => FunctorsAreFifo
<1>1. Init => FQ!Init /\ FifoInv
  <2>1. Init => Q = << >> /\ Len(Q) = 0
    BY DEF Init, Q
  <2> QED BY <2>1 DEF Init, FQ!Init, FifoInv, Q
<1>2. TypeOK /\ FifoInv /\ [Next]_vars => [FQ!Next]_<<Q, posted, executed>> /\ FifoInv'
  BY FifoStep
<1>3. Spec => [](TypeOK /\ FifoInv)
  BY <1>1, <1>2, LoopTypeCorrect, PTL DEF Spec
<1> QED BY <1>1, <1>2, <1>3, PTL DEF Spec, FunctorsAreFifo, FQ!Spec, Q

-----------------------------------------------------------------------------
(* The loop in its thread.                                                 *)

\* Every step of the thread and of its owner is a step of EventLoop or leaves
\* it alone, so the three theorems above hold of an EventLoopThread's loop.
THEOREM ThreadImplementsLoop == ThreadSpec => Spec
<1>1. ThreadInit => Init
  BY DEF ThreadInit
<1>2. [ThreadNext]_tvars => [Next]_vars
  BY OwnerAssumption
  DEF ThreadNext, tvars, threadVars, ThreadStep, InitCallbackPosts, CallbackCode,
      StartLoop, GetLoop, UseLoop, FinishUse, DestructorTests, OwnerEnds, SetReady,
      EnterLoop, RunLoop, ClearPointer, ThreadExit, DestructorQuits, DestructorWakes,
      DestructorTouchesDeadLoop, Join, Next, UserCode, ClientStep
<1> QED BY <1>1, <1>2, PTL DEF ThreadSpec, Spec

\* The loop of an EventLoopThread never oversleeps either.
THEOREM ThreadNeverOversleeps == ThreadSpec => [](NoLostWakeup /\ NoMissedQuit)
BY ThreadImplementsLoop, LoopNeverOversleeps, PTL
=============================================================================
