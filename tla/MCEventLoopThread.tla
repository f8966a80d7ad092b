------------------------- MODULE MCEventLoopThread -------------------------
(* One loop, of the program's own or in an EventLoopThread; its owner and  *)
(* another thread; three functors, one of which the loop's thread may      *)
(* queue outside Loop().                                                   *)
EXTENDS EventLoopThread

CONSTANTS own, t1, a, b, c

MCThreads == {own, t1}
MCTasks == {a, b, c}
MCEarly == {a}
=============================================================================
