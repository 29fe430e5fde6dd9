--------------------------- MODULE Collaboration ---------------------------
(***************************************************************************)
(* Documents that are edited while their files live on in the namespace:   *)
(* collab/registry.ts, operations.ts, filesystem.ts and merge.ts.          *)
(*                                                                         *)
(* A text is a row of lines that keep their places: an edit replaces       *)
(* lines, and what inserts or removes them (append among it) is left out,  *)
(* as are links, modes and quotas.  Between two awaits an operation is one *)
(* action; callers, the host and writers that do not use this view run     *)
(* between them.  The events of the namespace reach the registry within    *)
(* the commit that causes them, as docs/collaboration.md asks of a host.   *)
(***************************************************************************)
EXTENDS Naturals, FiniteSets, Functions

CONSTANTS
    Path,           \* the files
    Height,         \* lines of a text
    Value,          \* what a line can hold
    Op,             \* operations under way at a time:
    Publisher,      \*   those that may be publications,
    Caller,         \*   writes through the view
    Reconciler,     \*   and reconciliations
    MaxChanges,     \* BOUND: versions of all files and of the registry
    None

ASSUME CollaborationAssumption ==
    /\ Height \in Nat \ {0}
    /\ Publisher \subseteq Op /\ Caller \subseteq Op /\ Reconciler \subseteq Op
    /\ MaxChanges \in Nat

Line == 1 .. Height
Text == [Line -> Value]

VARIABLES
    stored,     \* the file at each path; the version of an absent one is its tombstone's
    registry,   \* the document open at each path, or None
    clock,      \* the registry's version counter
    ops         \* operations under way

vars == <<stored, registry, clock, ops>>

\* An open document: who it is, its text, the registry's fields, and two history
\* fields: the last text it shared with its file, recorded or not, and whether
\* it was published before it was refreshed after a move.
Entry ==
    [id : Nat, text : Text, token : Nat, dirty : BOOLEAN, version : Nat,
     published : Text, refresh : BOOLEAN, shared : Text, unread : BOOLEAN]

ASSUME NoneIsNoDocument == None \notin Entry

Idle == [kind |-> "idle"]

\* A text that differs from another in one line.
Edited(text) == {[text EXCEPT ![l] = v] : l \in Line, v \in Value} \ {text}

\* The texts files are made with.
Plain == {[l \in Line |-> v] : v \in Value}

Opened(p) == registry[p] # None
-----------------------------------------------------------------------------
(* mergeText(): what two texts made of their base.                         *)

Changed(base, text) == {l \in Line : text[l] # base[l]}

\* Lines next to each other are replaced together.
Hunks(lines) ==
    {h \in (SUBSET lines) \ {{}} :
        /\ \E a, b \in Line : h = a .. b
        /\ \A l \in lines \ h : l + 1 \notin h /\ l - 1 \notin h}

Conflict(base, local, incoming) ==
    /\ local # base /\ local # incoming /\ incoming # base
    /\ \E ours \in Hunks(Changed(base, local)), theirs \in Hunks(Changed(base, incoming)) :
        /\ ours \cap theirs # {}
        /\ ours # theirs \/ \E l \in ours : local[l] # incoming[l]

Merge(base, local, incoming) ==
    IF local = base \/ local = incoming THEN incoming
    ELSE [l \in Line |-> IF incoming[l] # base[l] THEN incoming[l] ELSE local[l]]
-----------------------------------------------------------------------------
(* The registry.                                                           *)

IsUnchanged(p, open) ==
    Opened(p) /\ registry[p].id = open.id /\ registry[p].token = open.token

\* Mutant: whatever the document says by then counts as saved.
RecordStoredAsClean(entry, open, text, token) ==
    IF entry = None \/ entry.id # open.id \/ entry.token # open.token THEN entry
    ELSE [entry EXCEPT !.token = token, !.published = text, !.refresh = FALSE, !.dirty = FALSE]

\* Mutant: the base of the next merge stays the text the document was opened with.
RecordStoredOldBase(entry, open, text, token) ==
    IF entry = None \/ entry.id # open.id \/ entry.token # open.token THEN entry
    ELSE [entry EXCEPT !.token = token, !.refresh = FALSE, !.dirty = entry.text # text]

\* recordStored(), of the entry as it is when it is called.
RecordStored(entry, open, text, token) ==
    IF entry = None \/ entry.id # open.id \/ entry.token # open.token THEN entry
    ELSE [entry EXCEPT !.token = token, !.published = text, !.refresh = FALSE,
                       !.dirty = entry.text # text]

\* A document that is the one an operation met has this text in common with its file.
Shared(entry, open, text) ==
    IF entry = None \/ entry.id # open.id THEN entry ELSE [entry EXCEPT !.shared = text]

\* A document that was moved has not read the file that it is published to.
Published(entry, open) ==
    IF entry = None \/ entry.id # open.id THEN entry
    ELSE [entry EXCEPT !.unread = @ \/ entry.refresh]

\* markDirty() after the document took an edit.
EditTo(entry, text) == [entry EXCEPT !.text = text, !.dirty = TRUE, !.version = clock + 1]

\* Mutant: the document stays open where the file was.
RelocateCopying(from, to) ==
    [registry EXCEPT ![to] = IF Opened(from)
                             THEN [registry[from] EXCEPT !.version = clock + 1, !.refresh = TRUE]
                             ELSE None]

\* observe() of a move: what was open below the target closes, the rest follows.
Relocate(from, to) ==
    [registry EXCEPT ![from] = None,
                     ![to] = IF Opened(from)
                             THEN [registry[from] EXCEPT !.version = clock + 1, !.refresh = TRUE]
                             ELSE None]

\* get(): what an operation keeps of the entry it met.
Snapshot(entry) == [id |-> entry.id, token |-> entry.token, version |-> entry.version,
                    text |-> entry.text, published |-> entry.published]

\* Mutant: the view answers with the token of the file.
ViewTokenOfFile(p) == <<0, stored[p].version>>

\* The token of the view covers the document and the file.
ViewToken(p) == <<IF Opened(p) THEN registry[p].version ELSE 0, stored[p].version>>
ViewText(p) == IF Opened(p) /\ registry[p].dirty THEN registry[p].text ELSE stored[p].text
-----------------------------------------------------------------------------
(* The file underneath.                                                    *)

Put(p, text) == [stored EXCEPT ![p].text = text, ![p].version = @ + 1]
Gone(file) == [there |-> FALSE, text |-> None, version |-> file.version + 1]
Fits(n) == FoldFunction(LAMBDA file, sum : file.version + sum, clock + n, stored) <= MaxChanges

Run(o, operation) == ops' = [ops EXCEPT ![o] = operation]
Finish(o) == Run(o, Idle)
At(o, kind) == ops[o].kind = kind
Ticks == Fits(1) /\ clock' = clock + 1
-----------------------------------------------------------------------------
(* The host and the others.                                                *)

\* The host opens a document with the text and the token of one read.
Open(p) ==
    /\ stored[p].there /\ Ticks
    /\ registry' = [registry EXCEPT ![p] =
            [id |-> clock + 1, text |-> stored[p].text, token |-> stored[p].version,
             dirty |-> FALSE, version |-> clock + 1, published |-> stored[p].text,
             refresh |-> FALSE, shared |-> stored[p].text, unread |-> FALSE]]
    /\ UNCHANGED <<stored, ops>>

Close(p) ==
    /\ Opened(p)
    /\ registry' = [registry EXCEPT ![p] = None]
    /\ UNCHANGED <<stored, clock, ops>>

\* Someone types, and the host marks the document.
HostEdits(p) ==
    /\ Opened(p) /\ Ticks
    /\ \E text \in Edited(registry[p].text) :
        registry' = [registry EXCEPT ![p] = EditTo(@, text)]
    /\ UNCHANGED <<stored, ops>>

\* A writer that does not know of the documents.
OutsideWrite(p) ==
    /\ Fits(1)
    /\ \E text \in IF stored[p].there THEN Edited(stored[p].text) ELSE Plain :
        stored' = [stored EXCEPT ![p] = [there |-> TRUE, text |-> text, version |-> @.version + 1]]
    /\ UNCHANGED <<registry, clock, ops>>

Remove(p) ==
    /\ stored[p].there /\ Fits(1)
    /\ stored' = [stored EXCEPT ![p] = Gone(@)]
    /\ registry' = [registry EXCEPT ![p] = None]
    /\ UNCHANGED <<clock, ops>>

\* The target's versions go on from its own, whatever the file had before.
Move(p, q) ==
    /\ p # q /\ stored[p].there /\ Fits(3)
    /\ IF Opened(p) THEN Ticks ELSE UNCHANGED clock
    /\ stored' = [stored EXCEPT ![p] = Gone(@),
                                ![q] = [there |-> TRUE, text |-> stored[p].text,
                                        version |-> @.version + 1]]
    /\ registry' = Relocate(p, q)
    /\ UNCHANGED ops

\* Mutant: a metadata change acknowledges whatever the file holds.
TouchAnyBase(p) ==
    /\ stored[p].there /\ Fits(1)
    /\ stored' = Put(p, stored[p].text)
    /\ registry' = [registry EXCEPT ![p] =
            IF @ # None THEN [@ EXCEPT !.token = stored[p].version + 1] ELSE @]
    /\ UNCHANGED <<clock, ops>>

\* touch(), setMetadata() and setOwnership() of the view: a base the document
\* knows stays known.
Touch(p) ==
    /\ stored[p].there /\ Fits(1)
    /\ stored' = Put(p, stored[p].text)
    /\ registry' = [registry EXCEPT ![p] =
            IF @ # None /\ @.token = stored[p].version
            THEN [@ EXCEPT !.token = stored[p].version + 1] ELSE @]
    /\ UNCHANGED <<clock, ops>>
-----------------------------------------------------------------------------
(* publish() and reconcile().                                              *)

\* The text is captured, and the write planned, if the guard still holds.
Capture(o, p, docs) ==
    LET open == docs[p]
    IN  IF open # None /\ open.dirty /\ stored[p].there /\ open.token = stored[p].version
        THEN Run(o, [kind |-> "publishing", path |-> p, open |-> Snapshot(open)])
        ELSE Finish(o)

ReadStored(o, p, flush) ==
    Run(o, [kind |-> "reconciling", path |-> p, open |-> Snapshot(registry[p]),
            flush |-> flush, incoming |-> stored[p].text, token |-> stored[p].version])

Publish(o, p) ==
    /\ o \in Publisher /\ At(o, "idle") /\ Opened(p) /\ registry[p].dirty
    /\ IF registry[p].refresh THEN ReadStored(o, p, TRUE) ELSE Capture(o, p, registry)
    /\ UNCHANGED <<stored, registry, clock>>

\* The digest is known: the write is revalidated and committed, or skipped, and
\* what it answers is recorded.
CommitPublish(o) ==
    LET op == ops[o]
        same == stored[op.path].text = op.open.text
        token == IF same THEN op.open.token ELSE op.open.token + 1
    IN  /\ At(o, "publishing")
        /\ IF stored[op.path].there /\ stored[op.path].version = op.open.token
           THEN /\ same \/ Fits(1)
                /\ stored' = IF same THEN stored ELSE Put(op.path, op.open.text)
                /\ registry' = [registry EXCEPT ![op.path] =
                        RecordStored(Published(Shared(@, op.open, op.open.text), op.open),
                                     op.open, op.open.text, token)]
           ELSE UNCHANGED <<stored, registry>>
        /\ Finish(o)
        /\ UNCHANGED clock

Reconcile(o, p) ==
    /\ o \in Reconciler /\ At(o, "idle") /\ Opened(p)
    /\ ReadStored(o, p, FALSE)
    /\ UNCHANGED <<stored, registry, clock>>

\* The bytes are read; a publication that waited for them goes on, whatever
\* the document at its path is by then.
FinishReconcile(o) ==
    LET op == ops[o]
        entry == registry[op.path]
        merged == Merge(op.open.published, op.open.text, op.incoming)
        edit == IF merged = op.open.text THEN entry ELSE EditTo(entry, merged)
        next == RecordStored(Shared(edit, op.open, op.incoming), op.open, op.incoming, op.token)
        docs == [registry EXCEPT ![op.path] = next]
        goOn(to) == IF op.flush THEN Capture(o, op.path, to) ELSE Finish(o)
    IN  /\ At(o, "reconciling")
        /\ IF ~IsUnchanged(op.path, op.open)
           THEN goOn(registry) /\ UNCHANGED <<registry, clock>>
           ELSE IF \/ entry.version # op.open.version
                   \/ stored[op.path].version # op.token
                   \/ Conflict(op.open.published, op.open.text, op.incoming)
           THEN Finish(o) /\ UNCHANGED <<registry, clock>>
           ELSE /\ IF merged = op.open.text THEN UNCHANGED clock ELSE Ticks
                /\ registry' = docs
                /\ goOn(docs)
        /\ UNCHANGED stored
-----------------------------------------------------------------------------
(* write() through the view.                                               *)

\* A caller reads, and will change one line of what it saw.
ViewRead(o, p) ==
    /\ o \in Caller /\ At(o, "idle") /\ stored[p].there
    /\ Run(o, [kind |-> "read", path |-> p, seen |-> ViewText(p), token |-> ViewToken(p)])
    /\ UNCHANGED <<stored, registry, clock>>

\* The body of the write is collected; with no document open it is the
\* namespace's own write.
StartWrite(o) ==
    LET op == ops[o]
    IN  /\ At(o, "read")
        /\ IF ~stored[op.path].there \/ ViewToken(op.path) # op.token \/ ~Opened(op.path)
           THEN Finish(o)
           ELSE Run(o, [kind |-> "collecting", path |-> op.path,
                        open |-> [id |-> registry[op.path].id, token |-> registry[op.path].token,
                                  version |-> registry[op.path].version],
                        token |-> stored[op.path].version, seen |-> op.seen])
        /\ UNCHANGED <<stored, registry, clock>>

\* A write whose document closed goes to the file.
Delegate(o, text) ==
    LET op == ops[o]
    IN  /\ stored' = Put(op.path, text)
        /\ Finish(o)
        /\ UNCHANGED <<registry, clock>>

\* The document says already what is written: the file is told.
WriteThrough(o, text) ==
    LET op == ops[o]
    IN  /\ stored' = Put(op.path, text)
        /\ registry' = [registry EXCEPT ![op.path] =
                RecordStored(Shared(@, op.open, text), op.open, text, op.token + 1)]
        /\ Finish(o)
        /\ UNCHANGED clock

\* The write becomes an edit; a new mode goes to the file at once.
WriteToDocument(o, text, chmod) ==
    LET op == ops[o]
        known == chmod /\ op.open.token = stored[op.path].version
        entry == IF known THEN [registry[op.path] EXCEPT !.token = @ + 1] ELSE registry[op.path]
    IN  /\ Ticks
        /\ stored' = IF chmod THEN Put(op.path, stored[op.path].text) ELSE stored
        /\ registry' = [registry EXCEPT ![op.path] = EditTo(entry, text)]
        /\ Finish(o)

\* The guard is checked again when the body is there.
FinishWrite(o) ==
    LET op == ops[o]
        entry == registry[op.path]
        current == stored[op.path].there /\ stored[op.path].version = op.token
        unchanged == /\ IsUnchanged(op.path, op.open)
                     /\ entry.version = op.open.version
    IN  /\ At(o, "collecting")
        /\ IF ~current \/ (Opened(op.path) /\ ~unchanged)
           THEN Finish(o) /\ UNCHANGED <<stored, registry, clock>>
           ELSE /\ Fits(1)
                /\ \E text \in Edited(op.seen) \cup {op.seen} :
                    IF ~Opened(op.path) THEN Delegate(o, text)
                    ELSE IF text = entry.text THEN WriteThrough(o, text)
                    ELSE \E chmod \in BOOLEAN : WriteToDocument(o, text, chmod)
-----------------------------------------------------------------------------
Init ==
    /\ \E first \in Path, text \in Plain :
        stored = [p \in Path |-> IF p = first THEN [there |-> TRUE, text |-> text, version |-> 1]
                                 ELSE [there |-> FALSE, text |-> None, version |-> 0]]
    /\ registry = [p \in Path |-> None]
    /\ clock = 0
    /\ ops = [o \in Op |-> Idle]

Host(p) == Open(p) \/ Close(p) \/ HostEdits(p)

Others(p) == OutsideWrite(p) \/ Remove(p) \/ Touch(p)

Steps(o) ==
    \/ \E p \in Path : Publish(o, p) \/ Reconcile(o, p) \/ ViewRead(o, p)
    \/ CommitPublish(o) \/ FinishReconcile(o) \/ StartWrite(o) \/ FinishWrite(o)

Next ==
    \/ \E p \in Path : Host(p) \/ Others(p)
    \/ \E p, q \in Path : Move(p, q)
    \/ \E o \in Op : Steps(o)

Spec == Init /\ [][Next]_vars
-----------------------------------------------------------------------------
(* What the layer promises.                                                *)

\* The state has its shape, and only a file that is there has an open document:
\* removals and moves take the documents with them.
File == [there : BOOLEAN, text : Text \cup {None}, version : Nat]

TypeOK ==
    /\ stored \in [Path -> File]
    /\ \A p \in Path : registry[p] \in Entry \cup {None} /\ (Opened(p) => stored[p].there)
    /\ clock \in Nat
    /\ \A o \in Op : ops[o].kind \in {"idle", "publishing", "reconciling", "read", "collecting"}

\* The token of a document stands for its base: when it is the file's, the file
\* holds what the document was last known to share with it, so that a write
\* guarded by it overwrites nothing unseen.  A document that was moved and not
\* yet refreshed makes no such claim.
KnownBase ==
    \A p \in Path :
        Opened(p) /\ ~registry[p].refresh /\ registry[p].token = stored[p].version
            => registry[p].published = stored[p].text

\* A clean document shows what its file was when they last met.
CleanIsPublished ==
    \A p \in Path : Opened(p) => (registry[p].dirty \/ registry[p].text = registry[p].published)

\* What the document says that its file never said is never undone by a merge
\* with what others stored, unless the document was published to a file that it
\* had not read since it was moved there (FlushSeesWhatItReplaces).
NoEditLost ==
    [][\A o \in Op : FinishReconcile(o) =>
        \A p \in Path : Opened(p) /\ ~registry[p].unread /\ registry'[p] # None =>
            \A l \in Changed(registry[p].shared, registry[p].text) :
                registry'[p].text[l] = registry[p].text[l]]_vars

\* A guarded write to an open document changes what its caller saw: the document
\* or the file as they still are, never a text that was edited since.
GuardedWriteSaw ==
    [][\A o \in Op : FinishWrite(o) /\ Opened(ops[o].path) =>
        UNCHANGED <<stored, registry>> \/ ops[o].seen \in {registry[ops[o].path].text, stored[ops[o].path].text}]_vars

\* docs/operations.md: a flush overwrites no change it did not see.
FlushSeesWhatItReplaces ==
    [][\A o \in Op : CommitPublish(o) =>
        UNCHANGED stored \/ stored[ops[o].path].text = ops[o].open.published]_vars
-----------------------------------------------------------------------------
(* Why it holds: the inductive invariant of the proofs.                    *)

Token == [id : Nat, token : Nat, version : Nat]
Snap == [id : Nat, token : Nat, version : Nat, text : Text, published : Text]
Operation ==
    {Idle}
    \cup [kind : {"publishing"}, path : Path, open : Snap]
    \cup [kind : {"reconciling"}, path : Path, open : Snap, flush : BOOLEAN,
          incoming : Text, token : Nat]
    \cup [kind : {"read"}, path : Path, seen : Text, token : Nat \X Nat]
    \cup [kind : {"collecting"}, path : Path, open : Token, token : Nat, seen : Text]

Shapes ==
    /\ registry \in [Path -> Entry \cup {None}]
    /\ ops \in [Op -> Operation]
    /\ \A p \in Path : stored[p].there => stored[p].text \in Text

\* Identities and versions are taken from the clock, once each.
NamesAreOld ==
    /\ \A p \in Path : Opened(p) =>
        registry[p].id <= clock /\ 0 < registry[p].version /\ registry[p].version <= clock
    /\ \A o \in Op : ops[o].kind \in {"publishing", "reconciling", "collecting"} =>
        ops[o].open.id <= clock /\ ops[o].open.version <= clock
    /\ \A o \in Op : ops[o].kind = "read" => ops[o].token[1] <= clock

\* A document that knows its file has not heard of a version to come.
TokensLag ==
    \A p \in Path : Opened(p) /\ ~registry[p].refresh => registry[p].token <= stored[p].version

SharedIsPublished == \A p \in Path : Opened(p) => registry[p].shared = registry[p].published

\* Is the document at the path of an operation the one it met, at its version?
Meets(op) == Opened(op.path) /\ registry[op.path].id = op.open.id
Holds(op) == Opened(op.path) /\ registry[op.path].version = op.open.version

\* A publication in flight: at the version it goes by, the document still says
\* so, and at the document's version it is still its text.
PublishesKnown ==
    \A o \in Op : LET op == ops[o] IN op.kind = "publishing" =>
        /\ op.open.token <= stored[op.path].version
        /\ Holds(op) => registry[op.path].text = op.open.text
        /\ Meets(op) /\ stored[op.path].version = op.open.token
               => registry[op.path].token = op.open.token

\* A reconciliation in flight has read what the file holds at its version.  At
\* this version the document is told of it at most once, and what it had to
\* merge by then is merged.
ReconcilesKnown ==
    \A o \in Op : LET op == ops[o] IN op.kind = "reconciling" =>
        /\ op.token <= stored[op.path].version
        /\ Holds(op) => registry[op.path].text = op.open.text
        /\ stored[op.path].version = op.token =>
            /\ stored[op.path].there /\ stored[op.path].text = op.incoming
            /\ Meets(op) /\ op.open.token = op.token => registry[op.path].token = op.token
            /\ /\ Meets(op) /\ Holds(op) /\ registry[op.path].token = op.open.token
               /\ ~registry[op.path].unread
               => \/ registry[op.path].published = op.open.published
                  \/ /\ registry[op.path].published = op.incoming
                     /\ Merge(op.open.published, op.open.text, op.incoming) = op.open.text

\* A write in flight: what its caller saw is there as long as the versions are.
WritersSaw ==
    /\ \A o \in Op : LET op == ops[o] IN op.kind = "read" =>
        /\ op.token[2] <= stored[op.path].version
        /\ Opened(op.path) /\ ViewToken(op.path) = op.token
               => op.seen \in {registry[op.path].text, stored[op.path].text}
    /\ \A o \in Op : LET op == ops[o] IN op.kind = "collecting" =>
        /\ op.token <= stored[op.path].version
        /\ Holds(op) /\ stored[op.path].version = op.token
               => op.seen \in {registry[op.path].text, stored[op.path].text}

IInv ==
    /\ TypeOK /\ Shapes /\ NamesAreOld /\ TokensLag /\ KnownBase /\ CleanIsPublished
    /\ SharedIsPublished /\ PublishesKnown /\ ReconcilesKnown /\ WritersSaw
=============================================================================
