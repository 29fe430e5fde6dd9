----------------------------- MODULE MCNamespace -----------------------------
(* Two directories with a name below each: enough for a rename, a copy, a  *)
(* replacement and a link between trees, and for parents created on the way. *)
EXTENDS MetadataIndex

PathsDef == {<< >>, <<"a">>, <<"a", "x">>, <<"b">>, <<"b", "x">>}
SizesDef == {0, 2}
Roomy == [inlineBytes |-> 4, entries |-> 4]
LimitsDef == {Roomy, [inlineBytes |-> 2, entries |-> 3]}
=============================================================================
