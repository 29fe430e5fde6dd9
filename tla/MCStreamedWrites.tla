--------------------------- MODULE MCStreamedWrites ---------------------------
(* Two directories with a name below each, bodies of one unit. *)
EXTENDS StreamedWrites

PathsDef == {<< >>, <<"a">>, <<"a", "x">>, <<"b">>, <<"b", "x">>}
TargetsDef == {<<"a">>, <<"b">>}
SizesDef == {0, 1, 2}
LimitsDef == {[inlineBytes |-> 2, entries |-> n] : n \in {3, 4}}

Put(written, createParents) ==
  [written |-> written, size |-> 1, createParents |-> createParents]
Request(op, items, guarded) == [op |-> op, items |-> items, guarded |-> guarded]

(* A body below a directory that may be gone, with and without parents made *)
(* for it, sets that make or occupy a parent of another of their paths, and *)
(* an append.                                                               *)
RequestsDef ==
  {Request("writeFile", <<Put(<<"a", "x">>, FALSE)>>, FALSE),
   Request("writeFile", <<Put(<<"a", "x">>, TRUE)>>, TRUE),
   Request("writeFiles", <<Put(<<"a", "x">>, TRUE), Put(<<"b">>, TRUE)>>, FALSE),
   Request("writeFiles", <<Put(<<"a">>, TRUE), Put(<<"a", "x">>, TRUE)>>, FALSE),
   Request("appendFile", <<Put(<<"b">>, FALSE)>>, FALSE)}

(* What happens while a body streams: directories, links and files come and *)
(* go where the requests write, and below.                                  *)
Interference ==
  \/ WriteFile(<<"a", "x">>, 1, FALSE)
  \/ WriteFile(<<"b">>, 1, FALSE)
  \/ \E p \in Targets :
       \/ Mkdir(p, FALSE) \/ RemovePath(p, TRUE)
       \/ \E target \in Targets \ {p} : Symlink(p, target, FALSE, FALSE)

StreamNext ==
  \/ TakeToken(<<"a", "x">>)
  \/ EvictCalls
  \/ \E c \in Calls :
       \/ \E r \in Requests : StartWrite(c, r)
       \/ OpenRead(c, <<"b">>)
       \/ Receive(c) \/ BodyFails(c) \/ CommitWrite(c) \/ CloseRead(c)
  \/ Interference /\ UNCHANGED streams
CallSymmetry == Permutations(Calls)
StreamSpec == StreamsInit /\ [][StreamNext]_svars

(* An empty body written under a token, where a link becomes a directory. *)
GuardedRequest ==
  {Request("writeFile", <<[Put(<<"a", "x">>, FALSE) EXCEPT !.size = 0]>>, TRUE)}
GuardNext ==
  \/ CallNext
  \/ /\ \E p \in Paths :
          \/ Mkdir(p, FALSE) \/ RemovePath(p, TRUE)
          \/ Symlink(p, <<"b">>, FALSE, FALSE)
     /\ UNCHANGED streams
GuardSpec == StreamsInit /\ [][GuardNext]_svars
=============================================================================
