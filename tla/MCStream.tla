------------------------------ MODULE MCStream ------------------------------
(* A connection on which the loop and another thread send a message each,  *)
(* and the client sends three bytes, through buffers with room for two     *)
(* at first.                                                               *)
EXTENDS Stream

CONSTANT t1

MCByte == 0 .. 6
MCThreads == {t1}
MCMessages == {<<1, 2>>, <<3>>}
MCSender == [m \in MCMessages |-> IF Len(m) = 2 THEN LoopThread ELSE t1]
MCIncoming == <<4, 5, 6>>
=============================================================================
