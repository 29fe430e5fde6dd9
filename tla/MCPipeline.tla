---------------------------- MODULE MCPipeline ----------------------------
(* Instances of Pipeline for TLC. *)
EXTENDS Pipeline, TLC

OutAndErr == {N, N + 1}
Edges == 1 .. N + 1
Chunks == (1 .. N + 1) \X (0 .. MaxOut)
Unlimited == [e \in 1 .. N + 1 |-> 9]
=============================================================================
