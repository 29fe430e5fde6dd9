---------------------------- MODULE MCSharedPipe ----------------------------
(* An instance of SharedPipe for TLC: one pipe whose consumer cancels the *)
(* execution with itself, and which takes two chunks in its life. *)
EXTENDS SharedPipe, TLC

TwoChunks == [e \in Edge |-> 2]
EveryEdge == Edge
=============================================================================
