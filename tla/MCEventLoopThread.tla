-------------------------- MODULE MCEventLoopThread --------------------------
(* Two client threads, one of them the owner.  The client that is not the  *)
(* owner posts twice, so that a submitter has an order to keep; the owner, *)
(* the callbacks and the init callback post once.                          *)
EXTENDS EventLoopThread

CONSTANTS o, c

MCMaxPosts == [s \in {o, c, "loop", "setup"} |-> IF s = c THEN 2 ELSE 1]
=============================================================================
