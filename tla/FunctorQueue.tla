---------------------------- MODULE FunctorQueue ----------------------------
(***************************************************************************)
(* What EventLoop::queue_in_loop promises its callers, and nothing else:   *)
(* one FIFO of functors.  A functor joins at the tail, in one step, and    *)
(* only the functor at the head runs, once.  Whatever threads, batches,    *)
(* wakeups and polls the implementation uses must be invisible here.       *)
(***************************************************************************)
EXTENDS Naturals, Sequences

CONSTANT Submitters      \* whoever may post a functor

VARIABLES queue,         \* functors posted and not yet started, in order
          posted,        \* posted[s]: how many functors s has posted
          executed       \* executed[s]: how many of s's functors have run

Init == /\ queue = << >>
        /\ posted = [s \in Submitters |-> 0]
        /\ executed = [s \in Submitters |-> 0]

\* A functor is its submitter and its number among that submitter's posts.
Post(s) == /\ posted' = [posted EXCEPT ![s] = @ + 1]
           /\ queue' = Append(queue, [by |-> s, n |-> posted[s] + 1])
           /\ UNCHANGED executed

\* The head runs, and it is its submitter's next one: nothing is run twice,
\* skipped or overtaken.
Run == /\ queue # << >>
       /\ Head(queue).n = executed[Head(queue).by] + 1
       /\ queue' = Tail(queue)
       /\ executed' = [executed EXCEPT ![Head(queue).by] = @ + 1]
       /\ UNCHANGED posted

Next == Run \/ \E s \in Submitters : Post(s)

Spec == Init /\ [][Next]_<<queue, posted, executed>>
=============================================================================
