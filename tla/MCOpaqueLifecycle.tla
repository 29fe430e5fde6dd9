------------------------ MODULE MCOpaqueLifecycle ------------------------
(* Instances of OpaqueLifecycle for TLC. *)
EXTENDS OpaqueLifecycle, TLC

AllPaths == {Path}
NoSubtrees == {}
NoHost == {}
HostAtThree == {3}

Interchangeable == Permutations(Upload) \cup Permutations(Caller)
DrainsAndPathsInterchangeable == Permutations(Drain) \cup Permutations(Path)
=============================================================================
