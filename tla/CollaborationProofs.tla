------------------------- MODULE CollaborationProofs -------------------------
(***************************************************************************)
(* Proofs about Collaboration: for any number of files, lines, values and  *)
(* operations under way.                                                   *)
(*                                                                         *)
(* Every step is described by what it makes of one path, its document d    *)
(* and its file f at clock c, which become e and g at clock b; an          *)
(* operation under way on that path keeps what it relies on across any     *)
(* such change (OperationKept).                                            *)
(***************************************************************************)
EXTENDS Collaboration, WellFoundedInduction, TLAPS

\* The invariant, of one path.
GoodFile(f) == f \in File /\ (f.there => f.text \in Text)

GoodDoc(d, f, c) ==
    /\ d \in Entry /\ f.there
    /\ d.id <= c /\ 0 < d.version /\ d.version <= c
    /\ d.shared = d.published
    /\ d.dirty \/ d.text = d.published
    /\ ~d.refresh => d.token <= f.version /\ (d.token = f.version => d.published = f.text)

GoodPath(d, f, c) == GoodFile(f) /\ (d # None => GoodDoc(d, f, c))

\* And of one operation, on the document and the file at its path.
GoodPublish(op, d, f, c) ==
    /\ op.open.id <= c /\ op.open.version <= c /\ op.open.token <= f.version
    /\ d # None /\ d.version = op.open.version => d.text = op.open.text
    /\ d # None /\ d.id = op.open.id /\ f.version = op.open.token => d.token = op.open.token

Merged(op, d) ==
    \/ d.published = op.open.published
    \/ /\ d.published = op.incoming
       /\ Merge(op.open.published, op.open.text, op.incoming) = op.open.text

GoodReconcile(op, d, f, c) ==
    /\ op.open.id <= c /\ op.open.version <= c /\ op.token <= f.version
    /\ d # None /\ d.version = op.open.version => d.text = op.open.text
    /\ f.version = op.token =>
        /\ f.there /\ f.text = op.incoming
        /\ d # None /\ d.id = op.open.id /\ op.open.token = op.token => d.token = op.token
        /\ /\ d # None /\ d.id = op.open.id /\ d.version = op.open.version
           /\ d.token = op.open.token /\ ~d.unread
           => Merged(op, d)

GoodRead(op, d, f, c) ==
    /\ op.token[1] <= c /\ op.token[2] <= f.version
    /\ d # None /\ d.version = op.token[1] /\ f.version = op.token[2] => op.seen \in {d.text, f.text}

GoodCollect(op, d, f, c) ==
    /\ op.open.id <= c /\ op.open.version <= c /\ op.token <= f.version
    /\ d # None /\ d.version = op.open.version /\ f.version = op.token => op.seen \in {d.text, f.text}

GoodOp(op, d, f, c) ==
    /\ op.kind = "publishing" => GoodPublish(op, d, f, c)
    /\ op.kind = "reconciling" => GoodReconcile(op, d, f, c)
    /\ op.kind = "read" => GoodRead(op, d, f, c)
    /\ op.kind = "collecting" => GoodCollect(op, d, f, c)

\* What a step may make of a file and of a document.
FileMove(f, g) == g = f \/ f.version < g.version

\* The document is told of its file, or nothing of what it knows changes.
Told(d, e, f) ==
    /\ d.unread => e.unread
    /\ \/ e.token = d.token /\ e.published = d.published
       \/ /\ e.token = f.version /\ e.published = f.text
          /\ \/ e.unread \/ e.published = d.published \/ e.version # d.version
             \/ Merge(d.published, d.text, f.text) = d.text

DocMove(d, e, f, g, c, b) ==
    \/ e = None
    \/ e.version = b /\ c < b /\ (e.id = b \/ f.version < g.version)
    \/ /\ d # None /\ e.id = d.id
       /\ (e.version = b /\ c < b) \/ (e.version = d.version /\ e.text = d.text)
       /\ f.version < g.version \/ (g = f /\ Told(d, e, f))

PathMove(d, e, f, g, c, b) ==
    /\ GoodPath(e, g, b) /\ FileMove(f, g) /\ DocMove(d, e, f, g, c, b)
-----------------------------------------------------------------------------
(* What operations rely on survives the steps of others. *)

\* A publication in flight still knows what it has to.
LEMMA PublishKept ==
    ASSUME NEW op, op.open \in Snap, NEW d, NEW e, NEW f, NEW g, NEW c \in Nat, NEW b \in Nat,
           c <= b, GoodPath(d, f, c), PathMove(d, e, f, g, c, b), GoodPublish(op, d, f, c)
    PROVE  GoodPublish(op, e, g, b)
<1>1. /\ op.open.id \in Nat /\ op.open.version \in Nat /\ op.open.token \in Nat
      /\ f.version \in Nat /\ g.version \in Nat /\ f.version <= g.version
  BY DEF Snap, PathMove, GoodPath, GoodFile, File, FileMove
<1>2. e # None /\ e.version = op.open.version => e.text = op.open.text
  BY <1>1 DEF PathMove, DocMove, GoodPublish
<1>3. e # None /\ e.id = op.open.id /\ g.version = op.open.token => e.token = op.open.token
  BY <1>1 DEF PathMove, DocMove, Told, GoodPublish
<1> QED  BY <1>1, <1>2, <1>3 DEF GoodPublish

\* So does a reconciliation: at the version it read, the file is as it was, and
\* the document was told of it at most once.
LEMMA ReconcileKept ==
    ASSUME NEW op, op.open \in Snap, op.token \in Nat,
           NEW d, NEW e, NEW f, NEW g, NEW c \in Nat, NEW b \in Nat,
           c <= b, GoodPath(d, f, c), PathMove(d, e, f, g, c, b), GoodReconcile(op, d, f, c)
    PROVE  GoodReconcile(op, e, g, b)
<1>1. /\ op.open.id \in Nat /\ op.open.version \in Nat /\ op.open.token \in Nat
      /\ f.version \in Nat /\ g.version \in Nat /\ f.version <= g.version
  BY DEF Snap, PathMove, GoodPath, GoodFile, File, FileMove
<1>2. op.open.id <= b /\ op.open.version <= b /\ op.token <= g.version
  BY <1>1 DEF GoodReconcile
<1>3. e # None /\ e.version = op.open.version => e.text = op.open.text
  BY <1>1 DEF PathMove, DocMove, GoodReconcile
<1>4. ASSUME g.version = op.token
      PROVE  /\ g.there /\ g.text = op.incoming
             /\ e # None /\ e.id = op.open.id /\ op.open.token = op.token => e.token = op.token
             /\ /\ e # None /\ e.id = op.open.id /\ e.version = op.open.version
                /\ e.token = op.open.token /\ ~e.unread
                => Merged(op, e)
  <2>1. g = f /\ f.version = op.token
    BY <1>1, <1>4 DEF PathMove, FileMove, GoodReconcile
  <2>2. g.there /\ g.text = op.incoming
    BY <2>1 DEF GoodReconcile
  <2>3. ASSUME e # None, e.id = op.open.id
        PROVE  d # None /\ d.id = op.open.id /\ Told(d, e, f)
    BY <1>1, <2>1, <2>3 DEF PathMove, DocMove, GoodReconcile
  <2>4. e # None /\ e.id = op.open.id /\ op.open.token = op.token => e.token = op.token
    BY <2>1, <2>3 DEF Told, GoodReconcile
  <2>5. ASSUME e # None, e.id = op.open.id, e.version = op.open.version,
               e.token = op.open.token, ~e.unread
        PROVE  Merged(op, e)
    <3>1. d # None /\ d.id = op.open.id /\ Told(d, e, f)
      BY <2>3, <2>5
    <3>2. d.version = e.version /\ d.text = op.open.text
      BY <1>1, <2>1, <2>5, <3>1 DEF PathMove, DocMove, GoodReconcile
    <3>3. ~d.unread
      BY <2>5, <3>1 DEF Told
    <3>4. d.token = op.open.token
      BY <2>1, <2>5, <3>1 DEF Told, GoodReconcile
    <3>5. Merged(op, d) /\ f.text = op.incoming
      BY <2>1, <2>5, <3>1, <3>2, <3>3, <3>4 DEF GoodReconcile
    <3>6. \/ e.published = d.published
          \/ e.published = f.text /\ Merge(d.published, d.text, f.text) = d.text
      BY <2>5, <3>1, <3>2 DEF Told
    <3> QED  BY <3>2, <3>5, <3>6 DEF Merged
  <2> QED  BY <2>2, <2>4, <2>5
<1> QED  BY <1>2, <1>3, <1>4 DEF GoodReconcile

\* A caller that has read saw the document or the file, as long as both are at
\* the versions of its token.
LEMMA ReadKept ==
    ASSUME NEW op, op.token \in Nat \X Nat,
           NEW d, NEW e, NEW f, NEW g, NEW c \in Nat, NEW b \in Nat,
           c <= b, GoodPath(d, f, c), PathMove(d, e, f, g, c, b), GoodRead(op, d, f, c)
    PROVE  GoodRead(op, e, g, b)
<1>1. /\ op.token[1] \in Nat /\ op.token[2] \in Nat
      /\ f.version \in Nat /\ g.version \in Nat /\ f.version <= g.version
  BY DEF PathMove, GoodPath, GoodFile, File, FileMove
<1>2. e # None /\ e.version = op.token[1] /\ g.version = op.token[2] => op.seen \in {e.text, g.text}
  BY <1>1 DEF PathMove, FileMove, DocMove, GoodRead
<1> QED  BY <1>1, <1>2 DEF GoodRead

\* So did a write that waits for its body.
LEMMA CollectKept ==
    ASSUME NEW op, op.open \in Token, op.token \in Nat,
           NEW d, NEW e, NEW f, NEW g, NEW c \in Nat, NEW b \in Nat,
           c <= b, GoodPath(d, f, c), PathMove(d, e, f, g, c, b), GoodCollect(op, d, f, c)
    PROVE  GoodCollect(op, e, g, b)
<1>1. /\ op.open.id \in Nat /\ op.open.version \in Nat
      /\ f.version \in Nat /\ g.version \in Nat /\ f.version <= g.version
  BY DEF Token, PathMove, GoodPath, GoodFile, File, FileMove
<1>2. /\ e # None /\ e.version = op.open.version /\ g.version = op.token
      => op.seen \in {e.text, g.text}
  BY <1>1 DEF PathMove, FileMove, DocMove, GoodCollect
<1> QED  BY <1>1, <1>2 DEF GoodCollect

\* Whatever a step makes of a path, the operations of others go on from it.
LEMMA OperationKept ==
    ASSUME NEW op \in Operation, NEW d, NEW e, NEW f, NEW g, NEW c \in Nat, NEW b \in Nat,
           c <= b, GoodPath(d, f, c), PathMove(d, e, f, g, c, b), GoodOp(op, d, f, c)
    PROVE  GoodOp(op, e, g, b)
<1>1. CASE op.kind = "publishing"
  <2>1. op.open \in Snap
    BY <1>1 DEF Operation, Idle
  <2> QED  BY <1>1, <2>1, PublishKept DEF GoodOp
<1>2. CASE op.kind = "reconciling"
  <2>1. op.open \in Snap /\ op.token \in Nat
    BY <1>2 DEF Operation, Idle
  <2> QED  BY <1>2, <2>1, ReconcileKept DEF GoodOp
<1>3. CASE op.kind = "read"
  <2>1. op.token \in Nat \X Nat
    BY <1>3 DEF Operation, Idle
  <2> QED  BY <1>3, <2>1, ReadKept DEF GoodOp
<1>4. CASE op.kind = "collecting"
  <2>1. op.open \in Token /\ op.token \in Nat
    BY <1>4 DEF Operation, Idle
  <2> QED  BY <1>4, <2>1, CollectKept DEF GoodOp
<1> QED  BY <1>1, <1>2, <1>3, <1>4 DEF GoodOp
-----------------------------------------------------------------------------
(* The invariant, and steps as changes of paths.                           *)

PathsGood == \A p \in Path : GoodPath(registry[p], stored[p], clock)
OpsGood == \A o \in Op : ops[o].kind # "idle" =>
    GoodOp(ops[o], registry[ops[o].path], stored[ops[o].path], clock)

\* The invariant by path and by operation.
Parts ==
    /\ stored \in [Path -> File] /\ registry \in [Path -> Entry \cup {None}]
    /\ clock \in Nat /\ ops \in [Op -> Operation]
    /\ PathsGood /\ OpsGood

\* An operation that is not idle is at a path.
LEMMA OperationShape ==
    ASSUME NEW op \in Operation
    PROVE  /\ op.kind \in {"idle", "publishing", "reconciling", "read", "collecting"}
           /\ op.kind # "idle" => op.path \in Path
           /\ op.kind = "read" => op.token = <<op.token[1], op.token[2]>>
BY DEF Operation, Idle

\* The invariant, taken apart by path and by operation,
LEMMA IInvHasParts == IInv => Parts
<1> SUFFICES ASSUME IInv PROVE Parts
  OBVIOUS
<1> USE DEF IInv
<1>1. PathsGood
  BY DEF PathsGood, GoodPath, GoodFile, GoodDoc, TypeOK, Shapes, NamesAreOld, TokensLag,
         KnownBase, CleanIsPublished, SharedIsPublished, Opened
<1>2. OpsGood
  <2> SUFFICES ASSUME NEW o \in Op, ops[o].kind # "idle"
               PROVE  GoodOp(ops[o], registry[ops[o].path], stored[ops[o].path], clock)
    BY DEF OpsGood
  <2>1. ops[o] \in Operation /\ ops[o].path \in Path
    BY OperationShape DEF Shapes
  <2>2. ASSUME ops[o].kind = "publishing"
        PROVE  GoodPublish(ops[o], registry[ops[o].path], stored[ops[o].path], clock)
    BY <2>1, <2>2 DEF GoodPublish, NamesAreOld, PublishesKnown, Holds, Meets, Opened
  <2>3. ASSUME ops[o].kind = "reconciling"
        PROVE  GoodReconcile(ops[o], registry[ops[o].path], stored[ops[o].path], clock)
    BY <2>1, <2>3 DEF GoodReconcile, Merged, NamesAreOld, ReconcilesKnown, Holds, Meets, Opened
  <2>4. ASSUME ops[o].kind = "read"
        PROVE  GoodRead(ops[o], registry[ops[o].path], stored[ops[o].path], clock)
    <3>1. ops[o].token = <<ops[o].token[1], ops[o].token[2]>>
      BY <2>1, <2>4, OperationShape
    <3> QED  BY <2>1, <2>4, <3>1 DEF GoodRead, NamesAreOld, WritersSaw, ViewToken, Opened
  <2>5. ASSUME ops[o].kind = "collecting"
        PROVE  GoodCollect(ops[o], registry[ops[o].path], stored[ops[o].path], clock)
    BY <2>1, <2>5 DEF GoodCollect, NamesAreOld, WritersSaw, Holds, Opened
  <2> QED  BY <2>2, <2>3, <2>4, <2>5 DEF GoodOp
<1> QED  BY <1>1, <1>2 DEF Parts, TypeOK, Shapes

\* and put together again.
LEMMA PartsMakeIInv == Parts => IInv
<1> SUFFICES ASSUME Parts PROVE IInv
  OBVIOUS
<1> USE DEF Parts
<1>1. \A o \in Op : /\ ops[o].kind \in {"idle", "publishing", "reconciling", "read", "collecting"}
                    /\ ops[o].kind # "idle" => ops[o].path \in Path
  BY OperationShape
<1>2. TypeOK /\ Shapes
  BY <1>1 DEF TypeOK, Shapes, PathsGood, GoodPath, GoodFile, GoodDoc, Opened
<1>3. TokensLag /\ KnownBase /\ CleanIsPublished /\ SharedIsPublished
  BY DEF TokensLag, KnownBase, CleanIsPublished, SharedIsPublished, PathsGood, GoodPath, GoodDoc,
         Opened
<1>4. NamesAreOld
  BY DEF NamesAreOld, PathsGood, GoodPath, GoodDoc, OpsGood, GoodOp, GoodPublish, GoodReconcile,
         GoodRead, GoodCollect, Opened
<1>5. PublishesKnown
  BY DEF PublishesKnown, OpsGood, GoodOp, GoodPublish, Holds, Meets, Opened
<1>6. ReconcilesKnown
  BY DEF ReconcilesKnown, OpsGood, GoodOp, GoodReconcile, Merged, Holds, Meets, Opened
<1>7. WritersSaw
  BY DEF WritersSaw, OpsGood, GoodOp, GoodRead, GoodCollect, Holds, Opened, ViewToken
<1> QED  BY <1>2, <1>3, <1>4, <1>5, <1>6, <1>7 DEF IInv

\* A path that a step leaves alone, while the clock may go on.
LEMMA PathKept ==
    ASSUME NEW d \in Entry \cup {None}, NEW f, NEW c \in Nat, NEW b \in Nat, c <= b,
           GoodPath(d, f, c)
    PROVE  PathMove(d, d, f, f, c, b)
<1>1. d # None => d.id \in Nat /\ d.version \in Nat
  BY DEF Entry
<1>2. GoodPath(d, f, b)
  BY <1>1 DEF GoodPath, GoodDoc
<1> QED  BY <1>2 DEF PathMove, FileMove, DocMove, Told

\* What an action makes of the paths.
Moves ==
    /\ stored' \in [Path -> File] /\ registry' \in [Path -> Entry \cup {None}]
    /\ clock' \in Nat /\ clock <= clock'
    /\ \A p \in Path : PathMove(registry[p], registry'[p], stored[p], stored'[p], clock, clock')

\* An action that changes one path.
LEMMA OneMoves ==
    ASSUME Parts, NEW p \in Path, NEW e, e = None \/ e \in Entry, NEW g \in File,
           registry' = [registry EXCEPT ![p] = e], stored' = [stored EXCEPT ![p] = g],
           clock' = clock \/ clock' = clock + 1,
           PathMove(registry[p], e, stored[p], g, clock, clock')
    PROVE  Moves
<1>0. clock' \in Nat /\ clock <= clock'
  BY DEF Parts
<1>1. ASSUME NEW q \in Path
      PROVE  PathMove(registry[q], registry'[q], stored[q], stored'[q], clock, clock')
  <2>1. CASE q = p
    BY <2>1 DEF Parts
  <2>2. CASE q # p
    <3>1. registry'[q] = registry[q] /\ stored'[q] = stored[q]
      BY <2>2 DEF Parts
    <3> QED  BY <1>0, <3>1, PathKept DEF Parts, PathsGood
  <2> QED  BY <2>1, <2>2
<1> QED  BY <1>0, <1>1 DEF Moves, Parts

\* An action that changes none.
LEMMA NoneMoves ==
    ASSUME Parts, UNCHANGED <<stored, registry, clock>>
    PROVE  Moves
BY PathKept DEF Parts, PathsGood, Moves

\* An action of nobody's operation.
LEMMA OthersKeep ==
    ASSUME Parts, Moves, UNCHANGED ops
    PROVE  Parts'
<1>1. PathsGood'
  BY DEF Moves, PathMove, PathsGood
<1>2. OpsGood'
  <2> SUFFICES ASSUME NEW o \in Op, ops[o].kind # "idle"
               PROVE  GoodOp(ops[o], registry'[ops[o].path], stored'[ops[o].path], clock')
    BY DEF OpsGood
  <2>1. ops[o] \in Operation /\ ops[o].path \in Path
    BY OperationShape DEF Parts
  <2> QED  BY <2>1, OperationKept DEF Parts, PathsGood, OpsGood, Moves
<1> QED  BY <1>1, <1>2 DEF Parts, Moves

\* An action of one operation, which goes on as "op".
LEMMA OperationMoves ==
    ASSUME Parts, Moves, NEW o \in Op, NEW op \in Operation, Run(o, op),
           op.kind # "idle" => GoodOp(op, registry'[op.path], stored'[op.path], clock')
    PROVE  Parts'
<1>1. PathsGood'
  BY DEF Moves, PathMove, PathsGood
<1>2. ops' \in [Op -> Operation] /\ ops'[o] = op /\ \A x \in Op \ {o} : ops'[x] = ops[x]
  BY DEF Run, Parts
<1>3. OpsGood'
  <2> SUFFICES ASSUME NEW x \in Op, ops'[x].kind # "idle"
               PROVE  GoodOp(ops'[x], registry'[ops'[x].path], stored'[ops'[x].path], clock')
    BY DEF OpsGood
  <2>1. CASE x = o
    BY <1>2, <2>1
  <2>2. CASE x # o
    <3>1. ops'[x] = ops[x] /\ ops[x] \in Operation /\ ops[x].path \in Path
      BY <1>2, <2>2, OperationShape DEF Parts
    <3> QED  BY <3>1, OperationKept DEF Parts, PathsGood, OpsGood, Moves
  <2> QED  BY <2>1, <2>2
<1> QED  BY <1>1, <1>2, <1>3 DEF Parts, Moves

\* It ends.
LEMMA OperationEnds ==
    ASSUME Parts, Moves, NEW o \in Op, Finish(o)
    PROVE  Parts'
<1>1. Idle \in Operation /\ Idle.kind = "idle"
  BY DEF Operation, Idle
<1> QED  BY <1>1, OperationMoves DEF Finish
-----------------------------------------------------------------------------
(* The host and the others.                                                *)

\* What one path holds.
LEMMA Holding ==
    ASSUME Parts, NEW p \in Path
    PROVE  /\ stored[p] \in File /\ registry[p] \in Entry \cup {None} /\ clock \in Nat
           /\ GoodPath(registry[p], stored[p], clock)
           /\ Opened(p) => /\ registry[p] \in Entry /\ stored[p].there
                           /\ GoodDoc(registry[p], stored[p], clock)
           /\ stored[p].there => stored[p].text \in Text
           /\ stored[p].version \in Nat
BY DEF Parts, PathsGood, GoodPath, GoodFile, GoodDoc, Opened, File

\* Edits of texts are texts.
LEMMA EditedIsText ==
    ASSUME NEW text \in Text, NEW other \in Edited(text)
    PROVE  other \in Text
BY DEF Edited, Text

\* So are the texts that files are made with.
LEMMA PlainIsText ==
    ASSUME NEW text \in Plain
    PROVE  text \in Text
BY DEF Plain, Text

\* A document is opened with a name and a version that nobody has.
LEMMA OpenMoves ==
    ASSUME Parts, NEW p \in Path, Open(p)
    PROVE  Moves
<1> DEFINE f == stored[p]
           e == [id |-> clock + 1, text |-> f.text, token |-> f.version, dirty |-> FALSE,
                 version |-> clock + 1, published |-> f.text, refresh |-> FALSE,
                 shared |-> f.text, unread |-> FALSE]
<1>1. /\ f.there /\ clock' = clock + 1 /\ registry' = [registry EXCEPT ![p] = e]
      /\ stored' = stored
  BY DEF Open, Ticks
<1>2. f \in File /\ f.text \in Text /\ f.version \in Nat /\ clock \in Nat
  BY <1>1, Holding
<1>3. e \in Entry
  BY <1>2 DEF Entry
<1>4. GoodFile(f)
  BY <1>2 DEF GoodFile
<1>5. GoodDoc(e, f, clock + 1)
  BY <1>1, <1>2, <1>3 DEF GoodDoc
<1>6. PathMove(registry[p], e, f, f, clock, clock + 1)
  BY <1>2, <1>4, <1>5 DEF PathMove, GoodPath, FileMove, DocMove
<1>7. stored' = [stored EXCEPT ![p] = f]
  BY <1>1 DEF Parts
<1>8. clock' = clock + 1 /\ registry' = [registry EXCEPT ![p] = e] /\ f \in File
      /\ PathMove(registry[p], e, stored[p], f, clock, clock')
  BY <1>1, <1>2, <1>6
<1> HIDE DEF e, f
<1> QED  BY <1>3, <1>7, <1>8, OneMoves

\* A document that closes.
LEMMA GoneMove ==
    ASSUME NEW d, NEW f, NEW g, NEW c, NEW b, GoodFile(g), FileMove(f, g)
    PROVE  PathMove(d, None, f, g, c, b)
BY DEF PathMove, GoodPath, DocMove

\* It closes.
LEMMA CloseMoves ==
    ASSUME Parts, NEW p \in Path, Close(p)
    PROVE  Moves
<1>1. stored[p] \in File /\ GoodFile(stored[p]) /\ clock \in Nat
  BY Holding DEF GoodPath
<1>2. /\ registry' = [registry EXCEPT ![p] = None] /\ stored' = [stored EXCEPT ![p] = stored[p]]
      /\ clock' = clock
  BY DEF Close, Parts
<1>3. PathMove(registry[p], None, stored[p], stored[p], clock, clock')
  BY <1>1, GoneMove DEF FileMove
<1> QED  BY <1>1, <1>2, <1>3, OneMoves

\* A document with one field changed.
LEMMA EntryFields ==
    ASSUME NEW d \in Entry
    PROVE  /\ \A text \in Text : /\ [d EXCEPT !.text = text] \in Entry
                               /\ [d EXCEPT !.shared = text] \in Entry
                               /\ [d EXCEPT !.published = text] \in Entry
           /\ \A flag \in BOOLEAN : /\ [d EXCEPT !.dirty = flag] \in Entry
                                  /\ [d EXCEPT !.refresh = flag] \in Entry
                                  /\ [d EXCEPT !.unread = flag] \in Entry
           /\ \A n \in Nat : /\ [d EXCEPT !.version = n] \in Entry
                           /\ [d EXCEPT !.token = n] \in Entry
<1>1. ASSUME NEW text \in Text
      PROVE  [d EXCEPT !.text = text] \in Entry /\ [d EXCEPT !.shared = text] \in Entry
  BY DEF Entry
<1>2. ASSUME NEW text \in Text
      PROVE  [d EXCEPT !.published = text] \in Entry
  BY DEF Entry
<1>3. ASSUME NEW flag \in BOOLEAN
      PROVE  [d EXCEPT !.dirty = flag] \in Entry /\ [d EXCEPT !.refresh = flag] \in Entry
  BY DEF Entry
<1>4. ASSUME NEW flag \in BOOLEAN
      PROVE  [d EXCEPT !.unread = flag] \in Entry
  BY DEF Entry
<1>5. ASSUME NEW n \in Nat
      PROVE  [d EXCEPT !.version = n] \in Entry /\ [d EXCEPT !.token = n] \in Entry
  BY DEF Entry
<1> QED  BY <1>1, <1>2, <1>3, <1>4, <1>5

\* A document that takes an edit.
Typed(d, text, c) == [d EXCEPT !.text = text, !.dirty = TRUE, !.version = c + 1]

\* What it says then.
LEMMA EditedFields ==
    ASSUME NEW d \in Entry, NEW c \in Nat, NEW text \in Text
    PROVE  LET e == Typed(d, text, c)
           IN  /\ e \in Entry /\ e.text = text /\ e.dirty /\ e.version = c + 1
               /\ e.id = d.id /\ e.token = d.token /\ e.published = d.published
               /\ e.shared = d.shared /\ e.refresh = d.refresh /\ e.unread = d.unread
<1> DEFINE e == Typed(d, text, c)
           typed == [d EXCEPT !.text = text]
           marked == [typed EXCEPT !.dirty = TRUE]
<1>1. e = [marked EXCEPT !.version = c + 1]
  BY DEF Typed
<1>2. typed \in Entry
  BY EntryFields
<1> HIDE DEF typed
<1>3. marked \in Entry
  BY <1>2, EntryFields
<1> DEFINE n == c + 1
<1>4. n \in Nat /\ e = [marked EXCEPT !.version = n]
  BY <1>1
<1> HIDE DEF marked, n, e
<1>5. [marked EXCEPT !.version = n] \in Entry
  BY <1>3, <1>4, EntryFields
<1>6. /\ e.text = text /\ e.dirty /\ e.version = c + 1
      /\ e.id = d.id /\ e.token = d.token /\ e.published = d.published /\ e.shared = d.shared
      /\ e.refresh = d.refresh /\ e.unread = d.unread
  BY DEF Entry, Typed, e
<1> QED  BY <1>4, <1>5, <1>6 DEF e

\* An edit is a change of the document alone.
LEMMA EditMove ==
    ASSUME NEW d \in Entry, NEW f, NEW c \in Nat, GoodDoc(d, f, c), GoodFile(f), NEW text \in Text,
           NEW e, e = Typed(d, text, c)
    PROVE  e \in Entry /\ PathMove(d, e, f, f, c, c + 1)
<1>1. /\ e \in Entry /\ e.id = d.id /\ e.version = c + 1 /\ e.dirty /\ e.shared = d.shared
      /\ e.published = d.published /\ e.refresh = d.refresh /\ e.token = d.token
      /\ e.unread = d.unread
  BY EditedFields
<1>2. d.id \in Nat
  BY DEF Entry
<1>3. GoodDoc(e, f, c + 1)
  BY <1>1, <1>2 DEF GoodDoc
<1>4. DocMove(d, e, f, f, c, c + 1)
  BY <1>1, NoneIsNoDocument DEF DocMove, Told
<1> QED  BY <1>1, <1>3, <1>4 DEF PathMove, GoodPath, FileMove

\* It is edited.
LEMMA HostEditsMoves ==
    ASSUME Parts, NEW p \in Path, HostEdits(p)
    PROVE  Moves
<1> DEFINE d == registry[p]
<1>1. /\ d \in Entry /\ GoodDoc(d, stored[p], clock) /\ GoodFile(stored[p])
      /\ clock \in Nat /\ stored[p] \in File
  BY Holding DEF HostEdits, GoodPath
<1>2. PICK text \in Edited(d.text) : registry' = [registry EXCEPT ![p] = EditTo(d, text)]
  BY DEF HostEdits
<1> DEFINE e == Typed(d, text, clock)
<1>3. text \in Text
  BY <1>1, EditedIsText DEF Entry
<1>4. registry' = [registry EXCEPT ![p] = e]
  BY <1>2 DEF EditTo, Typed
<1>5. stored' = [stored EXCEPT ![p] = stored[p]] /\ clock' = clock + 1
  BY DEF HostEdits, Ticks, Parts
<1> HIDE DEF e, d
<1>6. e \in Entry /\ PathMove(d, e, stored[p], stored[p], clock, clock')
  BY <1>1, <1>3, <1>5, EditMove DEF e
<1> QED  BY <1>1, <1>4, <1>5, <1>6, OneMoves DEF d

\* A file that is given another text.
Written(f, text) == [f EXCEPT !.text = text, !.version = f.version + 1]

\* It is a version on.
LEMMA WrittenFile ==
    ASSUME NEW f \in File, NEW text \in Text
    PROVE  LET g == Written(f, text)
           IN  /\ g \in File /\ g.there = f.there /\ g.text = text /\ g.version = f.version + 1
               /\ g.version \in Nat
<1> DEFINE n == f.version + 1
           g == [f EXCEPT !.text = text, !.version = n]
<1>1. n \in Nat
  BY DEF File
<1>2. g = Written(f, text)
  BY DEF Written
<1> HIDE DEF n
<1>3. g \in File /\ g.there = f.there /\ g.text = text /\ g.version = n
  BY <1>1 DEF File
<1> HIDE DEF g
<1> QED  BY <1>1, <1>2, <1>3 DEF n

\* A file that is written, with nothing said of it to its document.
LEMMA WrittenMove ==
    ASSUME NEW d \in Entry \cup {None}, NEW f \in File, NEW g \in File, NEW c \in Nat,
           GoodPath(d, f, c), g.there, g.text \in Text, g.version = f.version + 1
    PROVE  PathMove(d, d, f, g, c, c)
<1>1. f.version \in Nat /\ f.version < g.version
  BY DEF File
<1>2. d # None => d.token \in Nat /\ GoodDoc(d, f, c)
  BY DEF GoodPath, Entry
<1>3. GoodPath(d, g, c)
  BY <1>1, <1>2 DEF GoodPath, GoodDoc, GoodFile
<1> QED  BY <1>1, <1>3 DEF PathMove, FileMove, DocMove

\* Its file is written by someone else.
LEMMA OutsideWriteMoves ==
    ASSUME Parts, NEW p \in Path, OutsideWrite(p)
    PROVE  Moves
<1>1. PICK text \in IF stored[p].there THEN Edited(stored[p].text) ELSE Plain :
        stored' = [stored EXCEPT ![p] = [there |-> TRUE, text |-> text,
                                         version |-> stored[p].version + 1]]
  BY DEF OutsideWrite, Parts
<1>2. text \in Text
  BY <1>1, Holding, EditedIsText, PlainIsText
<1> DEFINE g == [there |-> TRUE, text |-> text, version |-> stored[p].version + 1]
<1>3. g \in File /\ g.there /\ g.text \in Text /\ g.version = stored[p].version + 1
  BY <1>2, Holding DEF File
<1>4. stored' = [stored EXCEPT ![p] = g]
  BY <1>1
<1> HIDE DEF g
<1>5. registry' = [registry EXCEPT ![p] = registry[p]] /\ clock' = clock
  BY DEF OutsideWrite, Parts
<1>6. /\ PathMove(registry[p], registry[p], stored[p], g, clock, clock')
      /\ registry[p] = None \/ registry[p] \in Entry
  BY <1>3, <1>5, Holding, WrittenMove
<1> QED  BY <1>3, <1>4, <1>5, <1>6, OneMoves

\* A file that goes.
LEMMA GoneFile ==
    ASSUME NEW f \in File
    PROVE  Gone(f) \in File /\ GoodFile(Gone(f)) /\ FileMove(f, Gone(f))
BY DEF Gone, File, GoodFile, FileMove

\* Its file goes, and the document with it.
LEMMA RemoveMoves ==
    ASSUME Parts, NEW p \in Path, Remove(p)
    PROVE  Moves
<1>1. /\ Gone(stored[p]) \in File
      /\ PathMove(registry[p], None, stored[p], Gone(stored[p]), clock, clock')
  BY Holding, GoneFile, GoneMove
<1>2. /\ stored' = [stored EXCEPT ![p] = Gone(stored[p])]
      /\ registry' = [registry EXCEPT ![p] = None] /\ clock' = clock
  BY DEF Remove, Parts
<1> QED  BY <1>1, <1>2, OneMoves

\* Its file moves, and it follows, at a new version: the only action that
\* changes two paths.
LEMMA MoveMoves ==
    ASSUME Parts, NEW p \in Path, NEW q \in Path, Move(p, q)
    PROVE  Moves
<1> DEFINE d == registry[p]
           e == IF Opened(p) THEN [d EXCEPT !.version = clock + 1, !.refresh = TRUE] ELSE None
           g == [there |-> TRUE, text |-> stored[p].text, version |-> stored[q].version + 1]
<1>1. /\ p # q /\ stored[p].there
      /\ clock' = IF Opened(p) THEN clock + 1 ELSE clock
      /\ stored' = [stored EXCEPT ![p] = Gone(stored[p]), ![q] = g]
      /\ registry' = [registry EXCEPT ![p] = None, ![q] = e]
  BY DEF Move, Ticks, Relocate, Parts
<1>2. /\ g \in File /\ GoodFile(g) /\ FileMove(stored[q], g)
      /\ stored[q].version < g.version /\ g.there
  BY <1>1, Holding DEF File, GoodFile, FileMove
<1>3. clock' \in Nat /\ clock <= clock' /\ clock \in Nat
  BY <1>1, Holding
<1>4. ASSUME Opened(p)
      PROVE  e \in Entry /\ GoodDoc(e, g, clock + 1) /\ e.version = clock + 1
    <2>1. d \in Entry /\ GoodDoc(d, stored[p], clock)
      BY <1>4, Holding
    <2> DEFINE n == clock + 1
               moved == [d EXCEPT !.version = n]
    <2>2. e = [moved EXCEPT !.refresh = TRUE]
      BY <1>4
    <2>3. moved \in Entry
      <3>1. n \in Nat
        BY <1>3
      <3> HIDE DEF n, d
      <3> QED  BY <2>1, <3>1, EntryFields
    <2>4. /\ e.id = d.id /\ e.version = clock + 1 /\ e.shared = d.shared /\ e.dirty = d.dirty
          /\ e.published = d.published /\ e.refresh /\ e.text = d.text
      <3> HIDE DEF e
      <3> QED  BY <2>1, <2>2 DEF Entry
    <2> HIDE DEF moved, e, g, d
    <2>5. e \in Entry
      BY <2>2, <2>3, EntryFields
    <2>6. d.id \in Nat
      BY <2>1 DEF Entry
    <2> QED  BY <1>2, <1>3, <2>1, <2>4, <2>5, <2>6 DEF GoodDoc
<1>5. /\ e = None \/ e \in Entry
      /\ PathMove(registry[q], e, stored[q], g, clock, clock')
  <2>1. CASE Opened(p)
    <3>1. clock' = clock + 1 /\ clock < clock'
      BY <1>1, <1>3, <2>1
    <3> HIDE DEF e, g
    <3> QED  BY <1>2, <1>4, <2>1, <3>1 DEF PathMove, GoodPath, DocMove
  <2>2. CASE ~Opened(p)
    <3>1. e = None
      BY <2>2
    <3> HIDE DEF e, g
    <3> QED  BY <1>2, <3>1, GoneMove
  <2> QED  BY <2>1, <2>2
<1>6. Gone(stored[p]) \in File /\ PathMove(registry[p], None, stored[p], Gone(stored[p]), clock, clock')
  BY Holding, GoneFile, GoneMove
<1> HIDE DEF e, g, d
<1>7. stored' \in [Path -> File] /\ registry' \in [Path -> Entry \cup {None}]
  BY <1>1, <1>2, <1>5, <1>6 DEF Parts
<1>8. ASSUME NEW r \in Path
      PROVE  PathMove(registry[r], registry'[r], stored[r], stored'[r], clock, clock')
  <2>1. CASE r = p
    <3>1. registry'[p] = None /\ stored'[p] = Gone(stored[p])
      BY <1>1 DEF Parts
    <3> QED  BY <1>6, <2>1, <3>1
  <2>2. CASE r = q
    <3>1. registry'[q] = e /\ stored'[q] = g
      BY <1>1 DEF Parts
    <3> QED  BY <1>5, <2>2, <3>1
  <2>3. CASE r # p /\ r # q
    <3>1. registry'[r] = registry[r] /\ stored'[r] = stored[r]
      BY <1>1, <2>3 DEF Parts
    <3> QED  BY <1>3, <3>1, Holding, PathKept
  <2> QED  BY <2>1, <2>2, <2>3
<1> QED  BY <1>3, <1>7, <1>8 DEF Moves

\* A file that keeps its text at a new version, which a document that knows its
\* base is told of.
LEMMA TouchMove ==
    ASSUME NEW d \in Entry, NEW f \in File, NEW g \in File, NEW c \in Nat, GoodPath(d, f, c),
           f.there, g.there, g.text = f.text, g.version = f.version + 1, f.text \in Text,
           d.token = f.version, NEW e, e = [d EXCEPT !.token = f.version + 1]
    PROVE  e \in Entry /\ PathMove(d, e, f, g, c, c)
<1>1. f.version \in Nat /\ f.version < g.version
  BY DEF File
<1>2. e \in Entry
  <2> DEFINE n == f.version + 1
  <2>1. n \in Nat /\ e = [d EXCEPT !.token = n]
    BY <1>1
  <2> HIDE DEF n
  <2> QED  BY <2>1, EntryFields
<1>3. /\ e.id = d.id /\ e.version = d.version /\ e.dirty = d.dirty /\ e.shared = d.shared
      /\ e.published = d.published /\ e.refresh = d.refresh /\ e.token = g.version
      /\ e.text = d.text
  BY DEF Entry
<1>4. GoodDoc(d, f, c) /\ d # None
  BY NoneIsNoDocument DEF GoodPath
<1>5. GoodDoc(e, g, c)
  BY <1>1, <1>2, <1>3, <1>4 DEF GoodDoc
<1> QED  BY <1>1, <1>2, <1>3, <1>4, <1>5 DEF PathMove, GoodPath, GoodFile, FileMove, DocMove

\* The metadata of its file changes.
LEMMA TouchMoves ==
    ASSUME Parts, NEW p \in Path, Touch(p)
    PROVE  Moves
<1> DEFINE f == stored[p]
           d == registry[p]
           g == Written(f, f.text)
           e == IF d # None /\ d.token = f.version THEN [d EXCEPT !.token = f.version + 1] ELSE d
<1>1. /\ f.there /\ clock' = clock /\ stored' = [stored EXCEPT ![p] = g]
      /\ registry' = [registry EXCEPT ![p] = e]
  BY DEF Touch, Put, Written, Parts
<1>2. /\ g \in File /\ g.there /\ g.text = f.text /\ g.version = f.version + 1
      /\ f \in File /\ f.text \in Text
  <2>1. f \in File /\ f.text \in Text
    BY <1>1, Holding
  <2> HIDE DEF f
  <2> QED  BY <1>1, <2>1, WrittenFile
<1>3. /\ e = None \/ e \in Entry
      /\ PathMove(d, e, f, g, clock, clock')
  <2> HIDE DEF g, f
  <2>1. CASE d # None /\ d.token = f.version
    <3>1. d \in Entry /\ e = [d EXCEPT !.token = f.version + 1] /\ GoodPath(d, f, clock)
          /\ clock \in Nat
      BY <2>1, Holding DEF f
    <3> HIDE DEF d, e
    <3> QED  BY <1>1, <1>2, <2>1, <3>1, TouchMove
  <2>2. CASE ~(d # None /\ d.token = f.version)
    <3>1. d \in Entry \cup {None} /\ e = d /\ GoodPath(d, f, clock) /\ clock \in Nat
      BY <2>2, Holding DEF f
    <3> HIDE DEF d, e
    <3> QED  BY <1>1, <1>2, <3>1, WrittenMove
  <2> QED  BY <2>1, <2>2
<1> HIDE DEF e, g
<1> QED  BY <1>1, <1>2, <1>3, OneMoves
-----------------------------------------------------------------------------
(* Publications and reconciliations.                                       *)

\* A document that is told of what was stored, by the operation that met it.
LEMMA RecordedFields ==
    ASSUME NEW d \in Entry, NEW text \in Text, NEW token \in Nat,
           NEW open, d.id = open.id, d.token = open.token,
           NEW e, e = RecordStored(Shared(d, open, text), open, text, token)
    PROVE  /\ e \in Entry /\ e.id = d.id /\ e.text = d.text /\ e.version = d.version
           /\ e.token = token /\ e.published = text /\ e.shared = text /\ ~e.refresh
           /\ e.dirty = (d.text # text) /\ e.unread = d.unread
<1> DEFINE shared == [d EXCEPT !.shared = text]
           told == [shared EXCEPT !.token = token]
           known == [told EXCEPT !.published = text]
           fresh == [known EXCEPT !.refresh = FALSE]
           dirty == shared.text # text
<1>1. shared \in Entry /\ d # None
  BY EntryFields, NoneIsNoDocument
<1>2. Shared(d, open, text) = shared
  BY <1>1 DEF Shared
<1>3. shared.id = d.id /\ shared.token = d.token /\ shared.text = d.text
      /\ shared.version = d.version /\ shared.unread = d.unread /\ shared.shared = text
  BY DEF Entry
<1>4. e = [fresh EXCEPT !.dirty = dirty]
  <2> HIDE DEF shared
  <2> QED  BY <1>1, <1>2, <1>3, NoneIsNoDocument DEF RecordStored
<1>5. dirty = (d.text # text) /\ dirty \in BOOLEAN
  BY <1>3
<1> HIDE DEF dirty, shared
<1>6. told \in Entry /\ told.token = token /\ told.id = shared.id /\ told.text = shared.text
      /\ told.version = shared.version /\ told.unread = shared.unread
      /\ told.shared = shared.shared
  <2>1. told \in Entry
    BY <1>1, EntryFields
  <2> QED  BY <1>1, <2>1 DEF Entry
<1> HIDE DEF told
<1>7. known \in Entry /\ known.published = text /\ known.token = told.token
      /\ known.id = told.id /\ known.text = told.text
      /\ known.version = told.version /\ known.unread = told.unread
      /\ known.shared = told.shared
  <2>1. known \in Entry
    BY <1>6, EntryFields
  <2> QED  BY <1>6, <2>1 DEF Entry
<1> HIDE DEF known
<1>8. fresh \in Entry /\ fresh.refresh = FALSE /\ fresh.published = known.published
      /\ fresh.token = known.token /\ fresh.id = known.id /\ fresh.text = known.text
      /\ fresh.version = known.version /\ fresh.unread = known.unread
      /\ fresh.shared = known.shared
  <2>1. fresh \in Entry
    BY <1>7, EntryFields
  <2> QED  BY <1>7, <2>1 DEF Entry
<1> HIDE DEF fresh
<1>9. e \in Entry
  BY <1>4, <1>5, <1>8, EntryFields
<1>10. /\ e.dirty = dirty /\ e.refresh = fresh.refresh /\ e.published = fresh.published
       /\ e.token = fresh.token /\ e.id = fresh.id /\ e.text = fresh.text
       /\ e.version = fresh.version /\ e.unread = fresh.unread /\ e.shared = fresh.shared
  BY <1>4, <1>8 DEF Entry
<1> QED  BY <1>3, <1>5, <1>6, <1>7, <1>8, <1>9, <1>10

\* What an operation keeps of a document.
LEMMA SnapshotType ==
    ASSUME NEW d \in Entry
    PROVE  /\ Snapshot(d) \in Snap
           /\ Snapshot(d).id = d.id /\ Snapshot(d).token = d.token /\ Snapshot(d).text = d.text
           /\ Snapshot(d).version = d.version /\ Snapshot(d).published = d.published
BY DEF Snapshot, Snap, Entry

\* A publication that captures the document, after a step that leaves the files.
LEMMA CaptureKeeps ==
    ASSUME Parts, Moves, NEW o \in Op, NEW p \in Path, UNCHANGED stored, Capture(o, p, registry')
    PROVE  Parts'
<1> DEFINE d == registry'[p]
           op == [kind |-> "publishing", path |-> p, open |-> Snapshot(d)]
<1>1. CASE Finish(o)
  BY <1>1, OperationEnds
<1>2. CASE d # None /\ d.token = stored[p].version /\ Run(o, op)
  <2>1. d \in Entry /\ GoodDoc(d, stored[p], clock')
    BY <1>2 DEF Moves, PathMove, GoodPath
  <2>2. op \in Operation
    BY <2>1, SnapshotType DEF Operation
  <2>3. d.token \in Nat
    BY <2>1 DEF Entry
  <2>4. GoodPublish(op, d, stored'[p], clock')
    <3> DEFINE open == Snapshot(d)
    <3>1. open.id = d.id /\ open.token = d.token /\ open.text = d.text /\ open.version = d.version
      BY <2>1, SnapshotType
    <3>2. op.open = open
      OBVIOUS
    <3> HIDE DEF open, op, d
    <3> QED  BY <1>2, <2>1, <2>3, <3>1, <3>2 DEF GoodPublish, GoodDoc
  <2>5. op.kind = "publishing" /\ op.path = p
    OBVIOUS
  <2> HIDE DEF op
  <2>6. GoodOp(op, registry'[op.path], stored'[op.path], clock')
    BY <2>4, <2>5 DEF GoodOp
  <2> QED  BY <1>2, <2>2, <2>6, OperationMoves
<1> QED  BY <1>1, <1>2 DEF Capture

\* A reconciliation that starts to read the file.
LEMMA ReadKeeps ==
    ASSUME Parts, UNCHANGED <<stored, registry, clock>>, NEW o \in Op, NEW p \in Path, Opened(p),
           NEW flush \in BOOLEAN, ReadStored(o, p, flush)
    PROVE  Parts'
<1> DEFINE d == registry[p]
           f == stored[p]
           open == Snapshot(d)
           op == [kind |-> "reconciling", path |-> p, open |-> open, flush |-> flush,
                  incoming |-> f.text, token |-> f.version]
<1>1. d \in Entry /\ f.there /\ GoodDoc(d, f, clock) /\ f.text \in Text /\ f.version \in Nat
  BY Holding
<1>2. open \in Snap /\ open.id = d.id /\ open.token = d.token /\ open.text = d.text
      /\ open.version = d.version /\ open.published = d.published
  BY <1>1, SnapshotType
<1>3. Run(o, op)
  BY DEF ReadStored
<1> HIDE DEF d, f, open
<1>4. op \in Operation
  BY <1>1, <1>2 DEF Operation
<1>5. /\ op.kind = "reconciling" /\ op.path = p /\ op.open = open /\ op.incoming = f.text
      /\ op.token = f.version
  OBVIOUS
<1> HIDE DEF op
<1>6. GoodReconcile(op, d, f, clock)
  BY <1>1, <1>2, <1>5 DEF GoodReconcile, GoodDoc, Merged
<1>7. GoodOp(op, registry'[op.path], stored'[op.path], clock')
  BY <1>5, <1>6 DEF GoodOp, d, f
<1> QED  BY <1>3, <1>4, <1>7, NoneMoves, OperationMoves

\* A publication that starts.
LEMMA PublishKeeps ==
    ASSUME Parts, NEW o \in Op, NEW p \in Path, Publish(o, p)
    PROVE  Parts'
<1>1. UNCHANGED <<stored, registry, clock>> /\ Opened(p)
  BY DEF Publish
<1>2. CASE ReadStored(o, p, TRUE)
  BY <1>1, <1>2, ReadKeeps
<1>3. CASE Capture(o, p, registry)
  <2>1. Capture(o, p, registry')
    BY <1>1, <1>3 DEF Capture
  <2> QED  BY <1>1, <2>1, NoneMoves, CaptureKeeps
<1> QED  BY <1>2, <1>3 DEF Publish

\* A reconciliation that starts.
LEMMA ReconcileKeeps ==
    ASSUME Parts, NEW o \in Op, NEW p \in Path, Reconcile(o, p)
    PROVE  Parts'
BY ReadKeeps DEF Reconcile

\* The history field of a publication.
LEMMA PublishedFields ==
    ASSUME NEW d \in Entry, NEW text \in Text, NEW open, d.id = open.id, d.token = open.token,
           NEW token \in Nat,
           NEW e, e = RecordStored(Published(Shared(d, open, text), open), open, text, token)
    PROVE  /\ e \in Entry /\ e.id = d.id /\ e.text = d.text /\ e.version = d.version
           /\ e.token = token /\ e.published = text /\ e.shared = text /\ ~e.refresh
           /\ e.dirty = (d.text # text) /\ (d.unread \/ d.refresh => e.unread)
<1> DEFINE flag == d.unread \/ d.refresh
           past == [d EXCEPT !.unread = flag]
           shared == [d EXCEPT !.shared = text]
<1>1. flag \in BOOLEAN /\ d # None
  BY NoneIsNoDocument
<1>2. past.id = d.id /\ past.token = d.token /\ past.text = d.text /\ past.version = d.version
      /\ past.unread = flag
  BY DEF Entry
<1>3. Published(Shared(d, open, text), open) = Shared(past, open, text)
  <2>1. Shared(d, open, text) = shared
    BY <1>1 DEF Shared
  <2>2. shared \in Entry /\ shared.id = d.id /\ shared.unread = d.unread
        /\ shared.refresh = d.refresh
    BY EntryFields DEF Entry
  <2>3. Published(shared, open) = [shared EXCEPT !.unread = flag]
    <3> HIDE DEF shared
    <3> QED  BY <2>2, NoneIsNoDocument DEF Published
  <2>4. past \in Entry /\ past # None
    BY <1>1, EntryFields, NoneIsNoDocument
  <2>5. Shared(past, open, text) = [past EXCEPT !.shared = text]
    <3> HIDE DEF past
    <3> QED  BY <1>2, <2>4 DEF Shared
  <2>6. [shared EXCEPT !.unread = flag] = [past EXCEPT !.shared = text]
    <3> HIDE DEF flag
    <3> QED  BY DEF Entry
  <2> QED  BY <2>1, <2>3, <2>5, <2>6
<1>4. past \in Entry
  BY <1>1, EntryFields
<1> HIDE DEF past
<1>5. e = RecordStored(Shared(past, open, text), open, text, token)
      /\ past.id = open.id /\ past.token = open.token
  BY <1>2, <1>3
<1>6. /\ e \in Entry /\ e.id = past.id /\ e.text = past.text /\ e.version = past.version
      /\ e.token = token /\ e.published = text /\ e.shared = text /\ ~e.refresh
      /\ e.dirty = (past.text # text) /\ e.unread = past.unread
  BY <1>4, <1>5, RecordedFields
<1>7. d.unread \/ d.refresh => e.unread
  BY <1>2, <1>6
<1>8. e.dirty = (d.text # text)
  BY <1>2, <1>6
<1> QED  BY <1>2, <1>6, <1>7, <1>8

\* A document whose text is what its file holds now, or goes on from it.
LEMMA ToldMove ==
    ASSUME NEW d \in Entry, NEW f \in File, NEW c \in Nat, GoodPath(d, f, c), NEW text \in Text,
           NEW g \in File, g.there, g.text = text, g = f \/ f.version < g.version,
           NEW e \in Entry, e.id = d.id, e.version = d.version, e.text = d.text,
           e.token = g.version, e.published = text, e.shared = text, ~e.refresh,
           e.dirty = (d.text # text), d.unread => e.unread,
           g = f => e.unread \/ text = d.published \/ Merge(d.published, d.text, text) = d.text
    PROVE  PathMove(d, e, f, g, c, c)
<1>1. GoodDoc(d, f, c) /\ d # None
  BY NoneIsNoDocument DEF GoodPath
<1>2. e.dirty \/ e.text = e.published
  OBVIOUS
<1>3. GoodDoc(e, g, c)
  <2>1. g.version \in Nat
    BY DEF File
  <2>2. e.token <= g.version /\ e.published = g.text
    BY <2>1
  <2> QED  BY <1>1, <1>2, <2>2 DEF GoodDoc
<1>4. FileMove(f, g) /\ GoodFile(g)
  BY DEF FileMove, GoodFile
<1>5. g = f => Told(d, e, f)
  BY DEF Told
<1>6. DocMove(d, e, f, g, c, c)
  BY <1>1, <1>5 DEF DocMove
<1> QED  BY <1>3, <1>4, <1>6 DEF PathMove, GoodPath

\* A publication that reaches the file it was planned for.
LEMMA CommitMove ==
    ASSUME NEW op, op.open \in Snap, NEW d, d = None \/ d \in Entry, NEW f \in File, NEW c \in Nat,
           GoodPath(d, f, c), GoodPublish(op, d, f, c), f.there, f.version = op.open.token,
           NEW g \in File, g.there, g.text = op.open.text, g = f \/ g.version = f.version + 1,
           NEW token \in Nat, token = g.version,
           NEW e, e = RecordStored(Published(Shared(d, op.open, op.open.text), op.open),
                                   op.open, op.open.text, token)
    PROVE  (e = None \/ e \in Entry) /\ PathMove(d, e, f, g, c, c)
<1>1. op.open.text \in Text /\ op.open.token \in Nat /\ f.version \in Nat
  BY DEF Snap, File
<1>2. FileMove(f, g) /\ GoodFile(g)
  BY <1>1 DEF FileMove, GoodFile
<1>3. CASE d = None
  <2>1. e = None
    BY <1>3 DEF RecordStored, Published, Shared
  <2> QED  BY <1>2, <2>1, GoneMove
<1>4. CASE d # None /\ d.id # op.open.id
  <2>1. e = d
    BY <1>4 DEF RecordStored, Published, Shared
  <2>2. PathMove(d, d, f, g, c, c)
    BY <1>1, <1>4, PathKept, WrittenMove
  <2> QED  BY <1>4, <2>1, <2>2
<1>5. CASE d # None /\ d.id = op.open.id
  <2>1. d \in Entry /\ GoodDoc(d, f, c) /\ d.token = op.open.token
    BY <1>5 DEF GoodPath, GoodPublish
  <2>2. /\ e \in Entry /\ e.id = d.id /\ e.text = d.text /\ e.version = d.version
        /\ e.token = token /\ e.published = op.open.text /\ e.shared = op.open.text /\ ~e.refresh
        /\ e.dirty = (d.text # op.open.text) /\ (d.unread \/ d.refresh => e.unread)
    BY <1>1, <1>5, <2>1, PublishedFields
  <2>3. ASSUME g = f
        PROVE  e.unread \/ op.open.text = d.published
    BY <2>1, <2>2, <2>3 DEF GoodDoc
  <2>4. (d.unread => e.unread) /\ (g = f \/ f.version < g.version) /\ e.token = g.version
    BY <1>1, <2>2
  <2>5. PathMove(d, e, f, g, c, c)
    BY <1>1, <2>1, <2>2, <2>3, <2>4, ToldMove
  <2> QED  BY <2>2, <2>5
<1> QED  BY <1>3, <1>4, <1>5

\* The commit of a publication, whatever is at its path by then.
LEMMA CommitPublishKeeps ==
    ASSUME Parts, NEW o \in Op, CommitPublish(o)
    PROVE  Parts'
<1> DEFINE op == ops[o]
           p == op.path
           f == stored[p]
           d == registry[p]
           same == f.text = op.open.text
           token == IF same THEN op.open.token ELSE op.open.token + 1
           g == IF same THEN f ELSE Written(f, op.open.text)
           e == RecordStored(Published(Shared(d, op.open, op.open.text), op.open),
                             op.open, op.open.text, token)
<1>1. op.kind = "publishing" /\ Finish(o) /\ clock' = clock
  BY DEF CommitPublish, At
<1>2. p \in Path /\ op.open \in Snap
  BY <1>1 DEF Parts, Operation, Idle
<1>3. GoodPublish(op, d, f, clock)
  BY <1>1 DEF Parts, OpsGood, GoodOp
<1>4. CASE ~(f.there /\ f.version = op.open.token)
  <2>1. UNCHANGED <<stored, registry, clock>>
    BY <1>4 DEF CommitPublish
  <2> QED  BY <1>1, <2>1, NoneMoves, OperationEnds
<1>5. CASE f.there /\ f.version = op.open.token
  <2>1. stored' = [stored EXCEPT ![p] = g]
    BY <1>5 DEF CommitPublish, Put, Written, Parts
  <2>2. registry' = [registry EXCEPT ![p] = e]
    BY <1>5 DEF CommitPublish, Parts
  <2>3. f \in File /\ d \in Entry \cup {None} /\ clock \in Nat /\ GoodPath(d, f, clock)
    BY <1>2, Holding
  <2> HIDE DEF op, p, f, d
  <2>4. op.open.text \in Text /\ op.open.token \in Nat
    BY <1>2 DEF Snap
  <2>5. /\ token \in Nat /\ token = g.version /\ g \in File /\ g.there /\ g.text = op.open.text
        /\ g = f \/ g.version = f.version + 1
    <3>1. CASE same
      <4>1. token = op.open.token /\ g = f
        BY <3>1
      <4> QED  BY <1>5, <2>3, <2>4, <3>1, <4>1
    <3>2. CASE ~same
      <4>1. token = f.version + 1 /\ g = Written(f, op.open.text)
        BY <1>5, <3>2
      <4> HIDE DEF token, g
      <4> QED  BY <1>5, <2>3, <2>4, <4>1, WrittenFile
    <3> QED  BY <3>1, <3>2
  <2> HIDE DEF token, g, same
  <2>6. (e = None \/ e \in Entry) /\ PathMove(d, e, f, g, clock, clock)
    BY <1>2, <1>3, <1>5, <2>3, <2>5, CommitMove
  <2> HIDE DEF e
  <2>7. Moves
    BY <1>1, <1>2, <2>1, <2>2, <2>5, <2>6, OneMoves DEF d, f
  <2> QED  BY <1>1, <2>7, OperationEnds
<1> QED  BY <1>4, <1>5

\* A merge of texts.
LEMMA MergeIsText ==
    ASSUME NEW base \in Text, NEW local \in Text, NEW incoming \in Text
    PROVE  Merge(base, local, incoming) \in Text
<1>1. [l \in Line |-> IF incoming[l] # base[l] THEN incoming[l] ELSE local[l]] \in Text
  BY DEF Text
<1> QED  BY <1>1 DEF Merge

\* A document that takes an edit and is told of its file.
LEMMA EditedAndToldMove ==
    ASSUME NEW d \in Entry, NEW f \in File, NEW c \in Nat, GoodPath(d, f, c), f.there,
           NEW text \in Text, NEW open, d.id = open.id, d.token = open.token,
           NEW incoming \in Text, f.text = incoming, NEW token \in Nat, f.version = token,
           NEW e, e = RecordStored(Shared(Typed(d, text, c), open, incoming), open, incoming, token)
    PROVE  e \in Entry /\ PathMove(d, e, f, f, c, c + 1)
<1> DEFINE edit == Typed(d, text, c)
<1>1. GoodDoc(d, f, c) /\ GoodFile(f) /\ d # None
  BY NoneIsNoDocument DEF GoodPath
<1>2. /\ edit \in Entry /\ edit.text = text /\ edit.version = c + 1
      /\ edit.id = d.id /\ edit.token = d.token /\ edit.unread = d.unread
  BY EditedFields
<1> HIDE DEF edit
<1>3. e = RecordStored(Shared(edit, open, incoming), open, incoming, token)
      /\ edit.id = open.id /\ edit.token = open.token
  BY <1>2 DEF edit
<1>4. /\ e \in Entry /\ e.id = edit.id /\ e.text = edit.text /\ e.version = edit.version
      /\ e.token = token /\ e.published = incoming /\ e.shared = incoming /\ ~e.refresh
      /\ e.dirty = (edit.text # incoming) /\ e.unread = edit.unread
  BY <1>2, <1>3, RecordedFields
<1>5. e.version = c + 1 /\ e.id = d.id /\ e.version # d.version /\ d.id \in Nat
  BY <1>1, <1>2, <1>4 DEF GoodDoc, Entry
<1>6. e.dirty \/ e.text = e.published
  BY <1>4
<1>7. e.id <= c + 1 /\ 0 < e.version /\ e.version <= c + 1
  BY <1>1, <1>5 DEF GoodDoc
<1>8. GoodDoc(e, f, c + 1)
  BY <1>4, <1>6, <1>7 DEF GoodDoc
<1>9. Told(d, e, f)
  BY <1>2, <1>4, <1>5 DEF Told
<1>10. DocMove(d, e, f, f, c, c + 1)
  BY <1>1, <1>5, <1>9 DEF DocMove
<1> QED  BY <1>1, <1>4, <1>8, <1>10 DEF PathMove, GoodPath, FileMove

\* A document that is told of the file that was read for it and takes what that
\* changed.
LEMMA MergeMove ==
    ASSUME NEW op, op.open \in Snap, op.incoming \in Text, op.token \in Nat,
           NEW d \in Entry, NEW f \in File, NEW c \in Nat,
           GoodPath(d, f, c), GoodReconcile(op, d, f, c),
           d.id = op.open.id, d.token = op.open.token, d.version = op.open.version,
           f.version = op.token,
           NEW merged, merged = Merge(op.open.published, op.open.text, op.incoming),
           NEW edit, NEW b,
           \/ merged = op.open.text /\ edit = d /\ b = c
           \/ edit = Typed(d, merged, c) /\ b = c + 1,
           NEW e, e = RecordStored(Shared(edit, op.open, op.incoming), op.open, op.incoming,
                                   op.token)
    PROVE  e \in Entry /\ PathMove(d, e, f, f, c, b)
<1>1. GoodDoc(d, f, c) /\ GoodFile(f) /\ d # None
  BY NoneIsNoDocument DEF GoodPath
<1>2. /\ f.there /\ f.text = op.incoming /\ d.text = op.open.text
      /\ ~d.unread => Merged(op, d)
  BY <1>1 DEF GoodReconcile
<1>3. CASE merged = op.open.text /\ edit = d /\ b = c
  <2>1. e = RecordStored(Shared(d, op.open, op.incoming), op.open, op.incoming, op.token)
    BY <1>3
  <2>2. /\ e \in Entry /\ e.id = d.id /\ e.text = d.text /\ e.version = d.version
        /\ e.token = op.token /\ e.published = op.incoming /\ e.shared = op.incoming /\ ~e.refresh
        /\ e.dirty = (d.text # op.incoming) /\ e.unread = d.unread
    BY <2>1, RecordedFields
  <2>3. \/ e.unread \/ op.incoming = d.published
        \/ Merge(d.published, d.text, op.incoming) = d.text
    BY <1>2, <1>3, <2>2 DEF Merged
  <2>4. d.unread => e.unread
    BY <2>2
  <2>5. PathMove(d, e, f, f, c, c)
    BY <1>2, <2>2, <2>3, <2>4, ToldMove
  <2> QED  BY <1>3, <2>2, <2>5
<1>4. CASE edit = Typed(d, merged, c) /\ b = c + 1
  <2>1. merged \in Text
    BY MergeIsText DEF Snap
  <2>2. e = RecordStored(Shared(Typed(d, merged, c), op.open, op.incoming), op.open, op.incoming,
                         op.token)
    BY <1>4
  <2> QED  BY <1>2, <1>4, <2>1, <2>2, EditedAndToldMove
<1> QED  BY <1>3, <1>4

\* The end of a reconciliation, whatever the document at its path is by then.
LEMMA FinishReconcileKeeps ==
    ASSUME Parts, NEW o \in Op, FinishReconcile(o)
    PROVE  Parts'
<1> DEFINE op == ops[o]
           p == op.path
           f == stored[p]
           d == registry[p]
           merged == Merge(op.open.published, op.open.text, op.incoming)
           edit == IF merged = op.open.text THEN d ELSE EditTo(d, merged)
           e == RecordStored(Shared(edit, op.open, op.incoming), op.open, op.incoming, op.token)
<1>1. op.kind = "reconciling" /\ stored' = stored
  BY DEF FinishReconcile, At
<1>2. p \in Path /\ op.open \in Snap /\ op.incoming \in Text /\ op.token \in Nat
  BY <1>1 DEF Parts, Operation, Idle
<1>3. GoodReconcile(op, d, f, clock)
  BY <1>1 DEF Parts, OpsGood, GoodOp
<1>4. CASE /\ UNCHANGED <<registry, clock>>
           /\ Finish(o) \/ Capture(o, p, registry)
  <2>1. Moves
    BY <1>1, <1>4, NoneMoves
  <2>2. Finish(o) \/ Capture(o, p, registry')
    BY <1>4
  <2> QED  BY <1>1, <1>2, <2>1, <2>2, OperationEnds, CaptureKeeps
<1>5. CASE /\ IsUnchanged(p, op.open) /\ d.version = op.open.version /\ f.version = op.token
           /\ IF merged = op.open.text THEN UNCHANGED clock ELSE Ticks
           /\ registry' = [registry EXCEPT ![p] = e]
           /\ Finish(o) \/ Capture(o, p, registry')
  <2>1. d \in Entry /\ f \in File /\ clock \in Nat /\ GoodPath(d, f, clock)
    BY <1>2, <1>5, Holding DEF IsUnchanged
  <2>2. d.id = op.open.id /\ d.token = op.open.token
    BY <1>5 DEF IsUnchanged
  <2>3. \/ merged = op.open.text /\ edit = d /\ clock' = clock
        \/ edit = Typed(d, merged, clock) /\ clock' = clock + 1
    BY <1>5 DEF Ticks, EditTo, Typed
  <2>4. stored' = [stored EXCEPT ![p] = f]
    BY <1>1, <1>2 DEF Parts
  <2> HIDE DEF op, p, f, d, merged, edit
  <2>5. e \in Entry /\ PathMove(d, e, f, f, clock, clock')
    BY <1>2, <1>3, <1>5, <2>1, <2>2, <2>3, MergeMove DEF merged
  <2> HIDE DEF e
  <2>6. clock' = clock \/ clock' = clock + 1
    BY <2>3
  <2>7. Moves
    BY <1>2, <1>5, <2>1, <2>4, <2>5, <2>6, OneMoves DEF d, f
  <2> QED  BY <1>1, <1>2, <1>5, <2>7, OperationEnds, CaptureKeeps
<1> QED  BY <1>4, <1>5 DEF FinishReconcile
-----------------------------------------------------------------------------
(* Writes through the view.                                                *)

\* What a caller sees at a path.
LEMMA ViewShape ==
    ASSUME Parts, NEW p \in Path, stored[p].there
    PROVE  /\ ViewText(p) \in Text
           /\ ViewToken(p) \in Nat \X Nat /\ ViewToken(p)[2] = stored[p].version
           /\ ~Opened(p) => ViewToken(p)[1] = 0
           /\ Opened(p) => /\ ViewToken(p)[1] = registry[p].version
                           /\ ViewText(p) \in {registry[p].text, stored[p].text}
<1>1. Opened(p) => registry[p].version \in Nat /\ registry[p].text \in Text
  BY Holding DEF Entry
<1> QED  BY <1>1, Holding DEF ViewText, ViewToken

\* A caller that reads.
LEMMA ViewReadKeeps ==
    ASSUME Parts, NEW o \in Op, NEW p \in Path, ViewRead(o, p)
    PROVE  Parts'
<1> DEFINE seen == ViewText(p)
           token == ViewToken(p)
           op == [kind |-> "read", path |-> p, seen |-> seen, token |-> token]
<1>1. stored[p].there /\ Run(o, op) /\ UNCHANGED <<stored, registry, clock>>
  BY DEF ViewRead
<1>2. /\ seen \in Text /\ token \in Nat \X Nat /\ token[2] = stored[p].version
      /\ ~Opened(p) => token[1] = 0
      /\ Opened(p) => token[1] = registry[p].version /\ seen \in {registry[p].text, stored[p].text}
  BY <1>1, ViewShape
<1> HIDE DEF seen, token
<1>3. op \in Operation
  BY <1>2 DEF Operation
<1>4. op.kind = "read" /\ op.path = p /\ op.seen = seen /\ op.token = token
  OBVIOUS
<1> HIDE DEF op
<1>5. GoodRead(op, registry[p], stored[p], clock)
  <2>1. op.token[1] <= clock /\ op.token[2] <= stored[p].version
    BY <1>2, <1>4, Holding DEF GoodDoc
  <2>2. registry[p] # None => op.seen \in {registry[p].text, stored[p].text}
    BY <1>2, <1>4 DEF Opened
  <2> QED  BY <2>1, <2>2 DEF GoodRead
<1>6. GoodOp(op, registry'[op.path], stored'[op.path], clock')
  BY <1>1, <1>4, <1>5 DEF GoodOp
<1> QED  BY <1>1, <1>3, <1>6, NoneMoves, OperationMoves

\* A write that waits for its body, with the guard just checked.
LEMMA StartWriteKeeps ==
    ASSUME Parts, NEW o \in Op, StartWrite(o)
    PROVE  Parts'
<1> DEFINE op == ops[o]
           p == op.path
           f == stored[p]
           d == registry[p]
           open == [id |-> d.id, token |-> d.token, version |-> d.version]
           next == [kind |-> "collecting", path |-> p, open |-> open, token |-> f.version,
                    seen |-> op.seen]
<1>1. op.kind = "read" /\ UNCHANGED <<stored, registry, clock>>
  BY DEF StartWrite, At
<1>2. p \in Path /\ op.seen \in Text
  BY <1>1 DEF Parts, Operation, Idle
<1>3. GoodRead(op, d, f, clock)
  BY <1>1 DEF Parts, OpsGood, GoodOp
<1>4. Moves
  BY <1>1, NoneMoves
<1>5. CASE Finish(o)
  BY <1>4, <1>5, OperationEnds
<1>6. CASE f.there /\ ViewToken(p) = op.token /\ Opened(p) /\ Run(o, next)
  <2>1. d \in Entry /\ d # None /\ GoodDoc(d, f, clock) /\ f.version \in Nat
    BY <1>2, <1>6, Holding DEF Opened
  <2>2. op.token[1] = d.version /\ op.token[2] = f.version
    BY <1>2, <1>6, ViewShape
  <2> HIDE DEF op, f, d, p
  <2>3. op.seen \in {d.text, f.text}
    BY <1>3, <2>1, <2>2 DEF GoodRead
  <2>4. open \in Token /\ open.id = d.id /\ open.version = d.version
    BY <2>1 DEF Token, Entry
  <2>5. /\ next.kind = "collecting" /\ next.path = p /\ next.open = open
        /\ next.token = f.version /\ next.seen = op.seen
    OBVIOUS
  <2> HIDE DEF open
  <2>6. next \in Operation
    BY <1>2, <2>1, <2>4 DEF Operation
  <2> HIDE DEF next
  <2>7. GoodCollect(next, d, f, clock)
    BY <2>1, <2>3, <2>4, <2>5 DEF GoodCollect, GoodDoc
  <2>8. GoodOp(next, registry'[next.path], stored'[next.path], clock')
    BY <1>1, <2>5, <2>7 DEF GoodOp, d, f
  <2> QED  BY <1>4, <1>6, <2>6, <2>8, OperationMoves
<1> QED  BY <1>5, <1>6 DEF StartWrite

\* A document that takes a write, told of its file or not.
LEMMA TakenMove ==
    ASSUME NEW d \in Entry, NEW f \in File, NEW g \in File, NEW c \in Nat, GoodPath(d, f, c),
           NEW text \in Text, NEW known \in Entry, known.id = d.id, known.published = d.published,
           known.shared = d.shared, known.refresh = d.refresh, known.unread = d.unread,
           g.there, g.text = f.text, f.text \in Text,
           \/ g = f /\ known.token = d.token
           \/ g.version = f.version + 1 /\ known.token = d.token
           \/ g.version = f.version + 1 /\ known.token = g.version /\ d.token = f.version,
           NEW e, e = Typed(known, text, c)
    PROVE  e \in Entry /\ PathMove(d, e, f, g, c, c + 1)
<1>1. GoodDoc(d, f, c) /\ d # None
  BY NoneIsNoDocument DEF GoodPath
<1>2. /\ e \in Entry /\ e.version = c + 1 /\ e.dirty /\ e.id = known.id /\ e.token = known.token
      /\ e.published = known.published /\ e.shared = known.shared /\ e.refresh = known.refresh
      /\ e.unread = known.unread
  BY EditedFields
<1>3. /\ f.version \in Nat /\ g.version \in Nat /\ d.token \in Nat /\ d.id \in Nat
  BY DEF File, Entry
<1>4. GoodDoc(e, g, c + 1)
  <2>1. e.id <= c + 1 /\ 0 < e.version /\ e.version <= c + 1
    BY <1>1, <1>2, <1>3 DEF GoodDoc
  <2>2. ~e.refresh => e.token <= g.version /\ (e.token = g.version => e.published = g.text)
    BY <1>1, <1>2, <1>3 DEF GoodDoc
  <2> QED  BY <1>1, <1>2, <2>1, <2>2 DEF GoodDoc
<1>5. FileMove(f, g) /\ GoodFile(g)
  BY <1>3 DEF FileMove, GoodFile
<1>6. f.version < g.version \/ (g = f /\ Told(d, e, f))
  BY <1>2, <1>3 DEF Told
<1>7. DocMove(d, e, f, g, c, c + 1)
  BY <1>1, <1>2, <1>6 DEF DocMove
<1> QED  BY <1>2, <1>4, <1>5, <1>7 DEF PathMove, GoodPath

\* The end of a write.
LEMMA FinishWriteKeeps ==
    ASSUME Parts, NEW o \in Op, FinishWrite(o)
    PROVE  Parts'
<1> DEFINE op == ops[o]
           p == op.path
           f == stored[p]
           d == registry[p]
<1>1. op.kind = "collecting"
  BY DEF FinishWrite, At
<1>2. p \in Path /\ op.token \in Nat /\ op.seen \in Text
  BY <1>1 DEF Parts, Operation, Idle
<1>3. CASE Finish(o) /\ UNCHANGED <<stored, registry, clock>>
  BY <1>3, NoneMoves, OperationEnds
<1>4. ASSUME f.there, f.version = op.token, Opened(p) => IsUnchanged(p, op.open),
             NEW text \in Edited(op.seen) \cup {op.seen},
             \/ ~Opened(p) /\ Delegate(o, text)
             \/ Opened(p) /\ text = d.text /\ WriteThrough(o, text)
             \/ Opened(p) /\ \E chmod \in BOOLEAN : WriteToDocument(o, text, chmod)
      PROVE  Parts'
  <2>1. /\ f \in File /\ f.version \in Nat /\ f.text \in Text /\ clock \in Nat
        /\ GoodPath(d, f, clock) /\ text \in Text
    BY <1>2, <1>4, Holding, EditedIsText
  <2>2. Opened(p) => d \in Entry /\ d # None /\ d.id = op.open.id /\ d.token = op.open.token
    BY <1>2, <1>4, Holding DEF IsUnchanged, Opened
  <2>3. \A new \in Text : /\ Written(f, new) \in File /\ Written(f, new).there
                          /\ Written(f, new).text = new
                          /\ Written(f, new).version = f.version + 1
    BY <1>4, <2>1, WrittenFile
  <2>4. \A new \in Text : Put(p, new) = [stored EXCEPT ![p] = Written(f, new)]
    BY DEF Put, Written
  <2>5. CASE ~Opened(p) /\ Delegate(o, text)
    <3> DEFINE g == Written(f, text)
    <3>1. /\ stored' = [stored EXCEPT ![p] = g] /\ registry' = [registry EXCEPT ![p] = None]
          /\ clock' = clock /\ Finish(o) /\ d = None
      BY <2>1, <2>4, <2>5 DEF Delegate, Opened, Parts
    <3>2. g \in File /\ g.there /\ g.text \in Text /\ g.version = f.version + 1
      BY <2>1, <2>3
    <3> HIDE DEF g, f, d, p, op
    <3>3. PathMove(d, None, f, g, clock, clock')
      BY <2>1, <3>1, <3>2, WrittenMove
    <3>4. Moves
      BY <1>2, <3>1, <3>2, <3>3, OneMoves DEF f, d
    <3> QED  BY <3>1, <3>4, OperationEnds
  <2>6. CASE Opened(p) /\ text = d.text /\ WriteThrough(o, text)
    <3> DEFINE g == Written(f, text)
               n == op.token + 1
               e == RecordStored(Shared(d, op.open, text), op.open, text, n)
    <3>1. /\ stored' = [stored EXCEPT ![p] = g] /\ registry' = [registry EXCEPT ![p] = e]
          /\ clock' = clock /\ Finish(o)
      BY <2>1, <2>4, <2>6 DEF WriteThrough, Parts
    <3>2. g \in File /\ g.there /\ g.text = text /\ g.version = n /\ n \in Nat /\ f.version < g.version
      BY <1>2, <1>4, <2>1, <2>3
    <3> HIDE DEF g, f, d, p, op, n
    <3>3. /\ e \in Entry /\ e.id = d.id /\ e.text = d.text /\ e.version = d.version
          /\ e.token = n /\ e.published = text /\ e.shared = text /\ ~e.refresh
          /\ e.dirty = (d.text # text) /\ e.unread = d.unread
      BY <2>1, <2>2, <2>6, <3>2, RecordedFields
    <3>4. (d.unread => e.unread) /\ g # f /\ e.token = g.version /\ d \in Entry
      BY <2>1, <2>2, <2>6, <3>2, <3>3
    <3> HIDE DEF e
    <3>5. PathMove(d, e, f, g, clock, clock')
      BY <2>1, <3>1, <3>2, <3>3, <3>4, ToldMove
    <3>6. Moves
      BY <1>2, <3>1, <3>2, <3>3, <3>5, OneMoves DEF f, d
    <3> QED  BY <3>1, <3>6, OperationEnds
  <2>7. CASE Opened(p) /\ \E chmod \in BOOLEAN : WriteToDocument(o, text, chmod)
    <3>1. PICK chmod \in BOOLEAN : WriteToDocument(o, text, chmod)
      BY <2>7
    <3> DEFINE g == IF chmod THEN Written(f, f.text) ELSE f
               tells == chmod /\ op.open.token = f.version
               known == IF tells THEN [d EXCEPT !.token = d.token + 1] ELSE d
               e == Typed(known, text, clock)
    <3>2. /\ stored' = [stored EXCEPT ![p] = g] /\ registry' = [registry EXCEPT ![p] = e]
          /\ clock' = clock + 1 /\ Finish(o)
      BY <2>1, <2>4, <3>1 DEF WriteToDocument, Ticks, EditTo, Typed, Parts
    <3>3. g \in File /\ g.there /\ g.text = f.text /\ (IF chmod THEN g.version = f.version + 1 ELSE g = f)
      BY <1>4, <2>1, <2>3
    <3>4. /\ known \in Entry /\ known.id = d.id /\ known.published = d.published
          /\ known.shared = d.shared /\ known.refresh = d.refresh /\ known.unread = d.unread
          /\ IF tells THEN known.token = f.version + 1 /\ d.token = f.version
             ELSE known.token = d.token
      <4> HIDE DEF f, d, op
      <4>1. CASE tells
        <5> DEFINE n == f.version + 1
        <5>1. n \in Nat /\ known = [d EXCEPT !.token = n] /\ d.token = f.version /\ d \in Entry
          BY <2>1, <2>2, <2>7, <4>1
        <5> HIDE DEF n, known
        <5>2. /\ known \in Entry /\ known.id = d.id /\ known.published = d.published
              /\ known.shared = d.shared /\ known.refresh = d.refresh /\ known.unread = d.unread
              /\ known.token = n
          BY <5>1, EntryFields DEF Entry
        <5> QED  BY <4>1, <5>1, <5>2 DEF n
      <4>2. CASE ~tells
        BY <2>2, <2>7, <4>2
      <4> QED  BY <4>1, <4>2
    <3>5. \/ g = f /\ known.token = d.token
          \/ g.version = f.version + 1 /\ known.token = d.token
          \/ g.version = f.version + 1 /\ known.token = g.version /\ d.token = f.version
      <4> HIDE DEF f, d, op, g, known
      <4> QED  BY <3>3, <3>4
    <3> HIDE DEF f, d, op, p, g, known
    <3>6. d \in Entry
      BY <2>2, <2>7
    <3>7. e \in Entry /\ PathMove(d, e, f, g, clock, clock')
      BY <2>1, <3>2, <3>3, <3>4, <3>5, <3>6, TakenMove
    <3> HIDE DEF e
    <3>8. Moves
      BY <1>2, <3>2, <3>3, <3>7, OneMoves DEF f, d
    <3> QED  BY <3>2, <3>8, OperationEnds
  <2> QED  BY <1>4, <2>5, <2>6, <2>7
<1> QED  BY <1>3, <1>4 DEF FinishWrite
-----------------------------------------------------------------------------
(* The theorems.                                                           *)

\* The invariant holds of the first states,
LEMMA InitParts == Init => Parts
<1> SUFFICES ASSUME Init PROVE Parts
  OBVIOUS
<1>1. \A p \in Path : stored[p] \in File /\ GoodFile(stored[p])
  <2>1. PICK first \in Path, text \in Plain :
          stored = [p \in Path |-> IF p = first THEN [there |-> TRUE, text |-> text, version |-> 1]
                                   ELSE [there |-> FALSE, text |-> None, version |-> 0]]
    BY DEF Init
  <2>2. text \in Text
    BY PlainIsText
  <2>3. /\ [there |-> TRUE, text |-> text, version |-> 1] \in File
        /\ [there |-> FALSE, text |-> None, version |-> 0] \in File
    BY <2>2 DEF File
  <2>4. /\ GoodFile([there |-> TRUE, text |-> text, version |-> 1])
        /\ GoodFile([there |-> FALSE, text |-> None, version |-> 0])
    BY <2>2, <2>3 DEF GoodFile
  <2> QED  BY <2>1, <2>3, <2>4
<1>2. stored \in [Path -> File]
  BY <1>1 DEF Init
<1>3. /\ registry \in [Path -> Entry \cup {None}] /\ \A p \in Path : registry[p] = None
      /\ clock \in Nat
  BY DEF Init
<1>4. ops \in [Op -> Operation] /\ \A o \in Op : ops[o].kind = "idle"
  BY DEF Init, Operation, Idle
<1>5. PathsGood
  BY <1>1, <1>3 DEF PathsGood, GoodPath
<1>6. OpsGood
  BY <1>4 DEF OpsGood
<1> QED  BY <1>2, <1>3, <1>4, <1>5, <1>6 DEF Parts

\* and every step keeps it.
LEMMA StepParts == Parts /\ [Next]_vars => Parts'
<1> SUFFICES ASSUME Parts, [Next]_vars PROVE Parts'
  OBVIOUS
<1>1. ASSUME NEW p \in Path, Host(p) \/ Others(p)
      PROVE  Parts'
  <2>1. UNCHANGED ops
    BY <1>1 DEF Host, Others, Open, Close, HostEdits, OutsideWrite, Remove, Touch
  <2>2. Moves
    BY <1>1, OpenMoves, CloseMoves, HostEditsMoves, OutsideWriteMoves, RemoveMoves, TouchMoves
       DEF Host, Others
  <2> QED  BY <2>1, <2>2, OthersKeep
<1>2. ASSUME NEW p \in Path, NEW q \in Path, Move(p, q)
      PROVE  Parts'
  <2>1. UNCHANGED ops
    BY <1>2 DEF Move
  <2> QED  BY <1>2, <2>1, MoveMoves, OthersKeep
<1>3. ASSUME NEW o \in Op, Steps(o)
      PROVE  Parts'
  BY <1>3, PublishKeeps, ReconcileKeeps, ViewReadKeeps, CommitPublishKeeps, FinishReconcileKeeps,
     StartWriteKeeps, FinishWriteKeeps DEF Steps
<1>4. CASE UNCHANGED vars
  <2>1. Moves /\ UNCHANGED ops
    BY <1>4, NoneMoves DEF vars
  <2> QED  BY <2>1, OthersKeep
<1> QED  BY <1>1, <1>2, <1>3, <1>4 DEF Next

\* The invariant holds in every reachable state.
THEOREM Invariance == Spec => []IInv
<1>1. Init => IInv
  BY InitParts, PartsMakeIInv
<1>2. IInv /\ [Next]_vars => IInv'
  <2>1. Parts => IInv
    BY PartsMakeIInv
  <2>2. (Parts => IInv)'
    BY <2>1, PTL
  <2> QED  BY <2>2, IInvHasParts, StepParts
<1> QED  BY <1>1, <1>2, PTL DEF Spec

\* Files and documents have their shape, and no document is open where no file
\* is: moves and removals take the documents with them.
THEOREM TypeCorrect == Spec => []TypeOK
<1>1. IInv => TypeOK
  BY DEF IInv
<1> QED  BY <1>1, Invariance, PTL

\* A document that holds the token of its file knows what the file holds.
THEOREM BaseIsKnown == Spec => []KnownBase
<1>1. IInv => KnownBase
  BY DEF IInv
<1> QED  BY <1>1, Invariance, PTL

\* A clean document shows what its file was when they last met.
THEOREM CleanShowsPublished == Spec => []CleanIsPublished
<1>1. IInv => CleanIsPublished
  BY DEF IInv
<1> QED  BY <1>1, Invariance, PTL

\* A guarded write changes what its caller saw.
THEOREM WriterSaw == Spec => GuardedWriteSaw
<1>1. ASSUME IInv, [Next]_vars, NEW o \in Op, FinishWrite(o), Opened(ops[o].path)
      PROVE  \/ UNCHANGED <<stored, registry>>
             \/ ops[o].seen \in {registry[ops[o].path].text, stored[ops[o].path].text}
  <2> DEFINE op == ops[o]
             p == op.path
  <2>1. op.kind = "collecting"
    BY <1>1 DEF FinishWrite, At
  <2>2. GoodCollect(op, registry[p], stored[p], clock)
    BY <1>1, <2>1, IInvHasParts DEF Parts, OpsGood, GoodOp
  <2>3. CASE stored[p].version = op.token /\ registry[p].version = op.open.version
    BY <1>1, <2>2, <2>3 DEF GoodCollect, Opened
  <2>4. CASE UNCHANGED <<stored, registry, clock>>
    BY <2>4
  <2> QED  BY <1>1, <2>3, <2>4 DEF FinishWrite
<1>2. IInv /\ [Next]_vars =>
        \A o \in Op : FinishWrite(o) /\ Opened(ops[o].path) =>
            UNCHANGED <<stored, registry>> \/ ops[o].seen \in {registry[ops[o].path].text, stored[ops[o].path].text}
  BY <1>1
<1> QED  BY <1>2, Invariance, PTL DEF Spec, GuardedWriteSaw
-----------------------------------------------------------------------------
(* No merge undoes an edit.                                                *)

\* A nonempty set of numbers has a least one.
LEMMA HasLeast ==
    ASSUME NEW S, S \subseteq Nat, S # {}
    PROVE  \E n \in S : \A m \in S : n <= m
<1>1. PICK x \in S : \A y \in S : <<y, x>> \notin OpToRel(<, Nat)
  BY NatLessThanWellFounded, WFMin, Zenon
<1>2. \A y \in S : ~(y < x)
  BY <1>1, Zenon DEF OpToRel
<1> QED  BY <1>2

\* Every line of a set belongs to a hunk of it.
LEMMA InHunk ==
    ASSUME NEW lines, lines \subseteq Line, NEW l \in lines
    PROVE  \E h \in Hunks(lines) : l \in h
<1>0. Height \in Nat /\ Line = 1 .. Height /\ l \in Nat /\ 1 <= l /\ l <= Height
  BY CollaborationAssumption DEF Line
<1> DEFINE starts == {x \in Nat : 1 <= x /\ x <= l /\ x .. l \subseteq lines}
           stops == {y \in Nat : l < y /\ y \notin lines}
<1>1. PICK a \in starts : \A x \in starts : a <= x
  <2>1. l \in starts
    BY <1>0
  <2> QED  BY <2>1, HasLeast
<1>2. PICK c \in stops : \A y \in stops : c <= y
  <2>1. Height + 1 \in stops
    BY <1>0
  <2> QED  BY <2>1, HasLeast
<1> DEFINE b == c - 1
           h == a .. b
<1>3. /\ a \in Nat /\ b \in Nat /\ c \in Nat /\ 1 <= a /\ a <= l /\ l <= b /\ b < c
      /\ b + 1 = c
  BY <1>0, <1>1, <1>2
<1>4. \A x \in h : x \in lines
  <2> SUFFICES ASSUME NEW x \in h PROVE x \in lines
    OBVIOUS
  <2>1. x \in Nat /\ a <= x /\ x < c
    BY <1>3
  <2>2. CASE x <= l
    <3>1. x \in a .. l
      BY <1>0, <1>3, <2>1, <2>2
    <3> QED  BY <1>1, <3>1
  <2>3. CASE l < x
    BY <1>2, <1>3, <2>1, <2>3
  <2> QED  BY <1>0, <2>1, <2>2, <2>3
<1>5. ASSUME NEW m \in lines \ h
      PROVE  m + 1 \notin h /\ m - 1 \notin h
  <2>1. m \in Nat /\ 1 <= m /\ m <= Height
    BY <1>0
  <2>2. m < a \/ b < m
    BY <1>3, <2>1
  <2>3. m # c
    BY <1>2
  <2>4. a # m + 1
    <3> SUFFICES ASSUME a = m + 1 PROVE FALSE
      OBVIOUS
    <3>1. \A x \in m .. l : x = m \/ x \in a .. l
      BY <1>0, <2>1
    <3>2. m .. l \subseteq lines
      BY <1>1, <3>1
    <3>3. m \in starts
      BY <1>0, <1>3, <2>1, <3>2
    <3> QED  BY <1>1, <1>3, <2>1, <3>3
  <2> QED  BY <1>3, <2>1, <2>2, <2>3, <2>4
<1>6. a \in Line /\ b \in Line /\ l \in h
  BY <1>0, <1>3, <1>4
<1>7. \E x, y \in Line : h = x .. y
  BY <1>6
<1> HIDE DEF h
<1>8. h \in (SUBSET lines) \ {{}}
  BY <1>4, <1>6
<1>9. h \in Hunks(lines)
  <2>1. \A m \in lines \ h : m + 1 \notin h /\ m - 1 \notin h
    BY <1>5
  <2> QED  BY <1>7, <1>8, <2>1, Zenon DEF Hunks
<1> QED  BY <1>6, <1>9

\* A merge without conflict takes nothing from a line that the document changed.
LEMMA MergeKeepsEdits ==
    ASSUME NEW base \in Text, NEW local \in Text, NEW incoming \in Text,
           ~Conflict(base, local, incoming), NEW l \in Changed(base, local)
    PROVE  Merge(base, local, incoming)[l] = local[l]
<1>1. l \in Line /\ local[l] # base[l]
  BY DEF Changed
<1>2. CASE local = incoming
  BY <1>2 DEF Merge
<1>3. CASE local # incoming /\ incoming[l] = base[l]
  BY <1>1, <1>3 DEF Merge
<1>4. CASE local # incoming /\ incoming[l] # base[l]
  <2>1. local # base /\ incoming # base
    BY <1>1, <1>4
  <2>2. /\ Changed(base, local) \subseteq Line /\ Changed(base, incoming) \subseteq Line
        /\ l \in Changed(base, incoming)
    BY <1>1, <1>4 DEF Changed
  <2>3. PICK ours \in Hunks(Changed(base, local)) : l \in ours
    BY <2>2, InHunk
  <2>4. PICK theirs \in Hunks(Changed(base, incoming)) : l \in theirs
    BY <2>2, InHunk
  <2>5. local[l] = incoming[l]
    BY <1>4, <2>1, <2>3, <2>4 DEF Conflict
  <2> QED  BY <1>1, <1>4, <2>1, <2>5 DEF Merge
<1> QED  BY <1>2, <1>3, <1>4

\* What the document says that its file never said survives the merge.
THEOREM EditsSurvive == Spec => NoEditLost
<1>1. ASSUME IInv, [Next]_vars, NEW o \in Op, FinishReconcile(o),
             NEW p \in Path, Opened(p), ~registry[p].unread, registry'[p] # None,
             NEW l \in Changed(registry[p].shared, registry[p].text)
      PROVE  registry'[p].text[l] = registry[p].text[l]
  <2> DEFINE op == ops[o]
             f == stored[p]
             d == registry[p]
             merged == Merge(op.open.published, op.open.text, op.incoming)
             edit == IF merged = op.open.text THEN d ELSE EditTo(d, merged)
             e == RecordStored(Shared(edit, op.open, op.incoming), op.open, op.incoming, op.token)
  <2>1. Parts /\ op.kind = "reconciling"
    BY <1>1, IInvHasParts DEF FinishReconcile, At
  <2>2. op.path \in Path /\ op.open \in Snap /\ op.incoming \in Text /\ op.token \in Nat
    BY <2>1 DEF Parts, Operation, Idle
  <2>3. CASE UNCHANGED registry \/ p # op.path
    <3>1. registry'[p] = registry[p]
      BY <1>1, <2>1, <2>3 DEF FinishReconcile, Parts
    <3> QED  BY <3>1
  <2>4. CASE /\ p = op.path /\ IsUnchanged(p, op.open) /\ d.version = op.open.version
             /\ f.version = op.token
             /\ ~Conflict(op.open.published, op.open.text, op.incoming)
             /\ registry' = [registry EXCEPT ![p] = e]
    <3>1. /\ d \in Entry /\ d # None /\ d.id = op.open.id /\ d.token = op.open.token
          /\ GoodDoc(d, f, clock) /\ clock \in Nat
      BY <1>1, <2>1, <2>4, Holding DEF IsUnchanged, Opened
    <3>2. GoodReconcile(op, d, f, clock)
      BY <2>1, <2>4 DEF Parts, OpsGood, GoodOp
    <3>3. d.text = op.open.text /\ Merged(op, d) /\ d.shared = d.published
      BY <1>1, <2>4, <3>1, <3>2 DEF GoodReconcile, GoodDoc
    <3>4. registry'[p] = e /\ l \in Changed(d.published, d.text)
      BY <1>1, <2>1, <2>4, <3>3 DEF Parts
    <3>5. merged[l] = d.text[l]
      <4>1. CASE merged = op.open.text
        BY <3>3, <4>1
      <4>2. CASE merged # op.open.text
        <5>1. d.published = op.open.published
          BY <3>3, <4>2 DEF Merged
        <5>2. l \in Changed(op.open.published, op.open.text)
          BY <3>3, <3>4, <5>1
        <5>3. op.open.published \in Text /\ op.open.text \in Text
          BY <2>2 DEF Snap
        <5> HIDE DEF op
        <5> QED  BY <2>2, <2>4, <3>3, <5>2, <5>3, MergeKeepsEdits
      <4> QED  BY <4>1, <4>2
    <3>6. e.text = merged
      <4> HIDE DEF op, f, d
      <4>1. CASE merged = op.open.text
        <5>1. edit = d
          BY <4>1
        <5> HIDE DEF edit, merged
        <5> QED  BY <2>2, <3>1, <3>3, <4>1, <5>1, RecordedFields
      <4>2. CASE merged # op.open.text
        <5>1. edit = Typed(d, merged, clock)
          BY <4>2 DEF EditTo, Typed
        <5>2. merged \in Text
          BY <2>2, MergeIsText DEF Snap
        <5> HIDE DEF edit, merged
        <5>3. /\ edit \in Entry /\ edit.text = merged /\ edit.id = op.open.id
              /\ edit.token = op.open.token
          BY <3>1, <5>1, <5>2, EditedFields
        <5> QED  BY <2>2, <5>3, RecordedFields
      <4> QED  BY <4>1, <4>2
    <3> QED  BY <3>4, <3>5, <3>6
  <2> QED  BY <1>1, <2>3, <2>4 DEF FinishReconcile
<1>2. IInv /\ [Next]_vars =>
        \A o \in Op : FinishReconcile(o) =>
            \A p \in Path : Opened(p) /\ ~registry[p].unread /\ registry'[p] # None =>
                \A l \in Changed(registry[p].shared, registry[p].text) :
                    registry'[p].text[l] = registry[p].text[l]
  BY <1>1
<1> QED  BY <1>2, Invariance, PTL DEF Spec, NoEditLost

=============================================================================
