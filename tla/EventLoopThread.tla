--------------------------- MODULE EventLoopThread ---------------------------
(***************************************************************************)
(* EventLoopThread (event_loop_thread.cpp): the thread that constructs an  *)
(* EventLoop on its stack, publishes its address through a promise, runs   *)
(* loop() and lets the loop die on return, and the owner that starts it,   *)
(* uses it and, in the destructor, calls quit() and joins.                 *)
(*                                                                         *)
(* The owner is one of the loop's clients.  The other clients have the     *)
(* pointer from the owner and, as their contract, are done with the loop   *)
(* when the owner destroys the thread object.                              *)
(***************************************************************************)
EXTENDS EventLoop

CONSTANT Owner

ASSUME OwnerAssumption == Owner \in Clients

VARIABLES
  tpc,      \* the thread: "none", "building" (constructor and init callback),
            \* "ready" (promise set, loop() next or entered), "cleared"
            \* (loop_ = nullptr done), "exited" (the EventLoop is destroyed)
  opc,      \* the owner: "new", "await" (future.get()), "have", "quit" (read a
            \* non-null loop_), "waking", "join", "gone", or "crashed"
  loopPtr   \* loop_: TRUE when not null

threadVars == <<tpc, opc, loopPtr>>

ThreadTypeOK ==
  /\ TypeOK
  /\ tpc \in {"none", "building", "ready", "cleared", "exited"}
  /\ opc \in {"new", "await", "have", "quit", "waking", "join", "gone", "crashed"}
  /\ loopPtr \in BOOLEAN

ThreadInit == Init /\ tpc = "none" /\ opc = "new" /\ loopPtr = FALSE

-----------------------------------------------------------------------------
(* The thread.                                                             *)

\* callback_(&loop) may post to the loop it is given.
InitCallbackPosts ==
  /\ tpc = "building" /\ SetupPost /\ UNCHANGED threadVars

\* ready.set_value(&loop)
SetReady ==
  /\ tpc = "building" /\ tpc' = "ready"
  /\ UNCHANGED <<vars, opc, loopPtr>>

\* loop.loop()
EnterLoop == tpc = "ready" /\ LoopEnter /\ UNCHANGED threadVars

RunLoop == LoopStep /\ UNCHANGED threadVars

CallbackCode == (LoopPost \/ LoopQuit) /\ UNCHANGED threadVars

\* loop_ = nullptr, a plain store the owner may read at any time.
ClearPointer ==
  /\ tpc = "ready" /\ lpc = "done"
  /\ tpc' = "cleared" /\ loopPtr' = FALSE
  /\ UNCHANGED <<vars, opc>>

\* The EventLoop goes out of scope and the thread ends.
ThreadExit ==
  /\ tpc = "cleared" /\ tpc' = "exited"
  /\ UNCHANGED <<vars, opc, loopPtr>>

-----------------------------------------------------------------------------
(* The owner.                                                              *)

\* start_loop: the thread starts ...
StartLoop ==
  /\ opc = "new" /\ opc' = "await"
  /\ tpc' = "building"
  /\ UNCHANGED <<vars, loopPtr>>

\* ... and the future gives its loop, which may have ended meanwhile.
GetLoop ==
  /\ opc = "await" /\ tpc \notin {"none", "building"}
  /\ opc' = "have" /\ loopPtr' = TRUE
  /\ UNCHANGED <<vars, tpc>>

\* Any client uses the loop while the owner keeps it.
UseLoop ==
  /\ opc = "have" /\ tpc # "exited"
  /\ \E t \in Clients : ClientPost(t) \/ (t # Owner /\ ClientQuit(t))
  /\ UNCHANGED threadVars

\* The wakeup that ends the use: the loop may have seen the client's quit_ and
\* be gone by now, and the write then goes to a closed descriptor.
FinishUse ==
  /\ opc = "have"
  /\ \E t \in Clients : ClientWake(t)
  /\ UNCHANGED threadVars

\* ~EventLoopThread: the test of loop_ ...
DestructorTests ==
  /\ opc = "have" /\ \A t \in Clients : cpc[t] = "idle"
  /\ opc' = IF loopPtr THEN "quit" ELSE "join"
  /\ UNCHANGED <<vars, tpc, loopPtr>>

\* ... then loop_->quit(), store and wakeup ...
DestructorQuits ==
  /\ opc = "quit" /\ tpc # "exited" /\ ClientQuit(Owner)
  /\ opc' = "waking"
  /\ UNCHANGED <<tpc, loopPtr>>

DestructorWakes ==
  /\ opc = "waking" /\ tpc # "exited" /\ ClientWake(Owner)
  /\ opc' = "join"
  /\ UNCHANGED <<tpc, loopPtr>>

\* ... either of which may find the loop destroyed: it exited by itself after
\* loop_ was read, or saw quit_ before the wakeup.  Undefined behaviour: a
\* crash, or a stray store or write that goes unnoticed.
DestructorTouchesDeadLoop ==
  /\ opc \in {"quit", "waking"} /\ tpc = "exited"
  /\ opc' \in {"join", "crashed"}
  /\ UNCHANGED <<vars, tpc, loopPtr>>

\* thread_.join()
Join ==
  /\ opc = "join" /\ tpc = "exited"
  /\ opc' = "gone"
  /\ UNCHANGED <<vars, tpc, loopPtr>>

-----------------------------------------------------------------------------
ThreadStep == SetReady \/ EnterLoop \/ RunLoop \/ ClearPointer \/ ThreadExit

OwnerEnds == DestructorQuits \/ DestructorWakes \/ DestructorTouchesDeadLoop \/ Join

ThreadNext ==
  \/ ThreadStep \/ InitCallbackPosts \/ CallbackCode
  \/ StartLoop \/ GetLoop \/ UseLoop \/ FinishUse \/ DestructorTests
  \/ OwnerEnds

tvars == <<vars, threadVars>>

ThreadSpec == ThreadInit /\ [][ThreadNext]_tvars

(***************************************************************************)
(* Fairness: both threads are scheduled, and a client that has stored goes *)
(* on to wake the loop.  Nothing obliges callbacks or clients to post, or  *)
(* the owner to start or to destroy.                                       *)
(***************************************************************************)
ThreadFairSpec ==
  /\ ThreadSpec
  /\ WF_tvars(ThreadStep) /\ WF_tvars(GetLoop) /\ WF_tvars(OwnerEnds)
  /\ WF_tvars(FinishUse)

-----------------------------------------------------------------------------
(* A destructor that calls quit() once loop() has been entered gets its      *)
(* thread back: join() returns (unless the process is lost to the touch of a *)
(* dead loop).  Without "entered" it does not hold: loop() begins with       *)
(* quit_ = false, and start_loop returns before that store.                  *)
JoinReturns == (opc = "waking" /\ looping /\ quit) ~> (opc \in {"gone", "crashed"})
=============================================================================
