--------------------------- MODULE MCCollaboration ---------------------------
(* Instances of Collaboration for TLC. *)
EXTENDS Collaboration, TLC

ValuesAndPathsInterchangeable == Permutations(Value) \cup Permutations(Path)
=============================================================================
