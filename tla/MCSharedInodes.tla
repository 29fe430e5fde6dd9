--------------------------- MODULE MCSharedInodes ---------------------------
(* An instance of SharedInodes for TLC: an empty body and one of a byte. *)
EXTENDS SharedInodes, TLC

CONSTANT Full

OneByte == [b \in Body |-> IF b = Empty THEN 0 ELSE 1]
NamesAndHandlesInterchangeable == Permutations(Dir) \cup Permutations(Leaf) \cup Permutations(Handle)
=============================================================================
