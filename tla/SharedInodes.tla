----------------------------- MODULE SharedInodes -----------------------------
(***************************************************************************)
(* Files with several names and open descriptors: fs/sql-file-handles.ts,  *)
(* the triggers of fs/hard-links.ts, and what removals, moves and copies   *)
(* of vfs/sql-move-base.ts and vfs/sql-copy-base.ts do to them.            *)
(*                                                                         *)
(* Each name has a row with a copy of its body; triggers keep the rows of  *)
(* one inode alike, and a body that lost its last name while it is open    *)
(* moves to a table of its own.  A call is one transaction: what is queued *)
(* behind an open call of a descriptor runs in a turn of its own.          *)
(* Directories are sets of names here (Namespace has their rows); links to *)
(* symlinks, opaque bodies, modes, positions in a file and the change feed *)
(* are left out, and a call that is refused is no step.                    *)
(***************************************************************************)
EXTENDS Integers, FiniteSets, FiniteSetsExt

CONSTANTS
    Dir, Leaf,      \* directories, and the names in each
    Body,           \* what a file can hold
    Empty,          \* the empty body
    Bytes,          \* the size of each body
    Handle,         \* descriptors
    Quota,          \* maxInlineLogicalBytes
    MaxIno,         \* BOUND: inode numbers handed out
    MaxLinks,       \* BOUND: names of a file
    None

ASSUME InodeAssumption ==
    /\ IsFiniteSet(Dir) /\ IsFiniteSet(Leaf) /\ IsFiniteSet(Handle)
    /\ None \notin Body /\ None \notin Int
    /\ None \notin [id : Nat, identity : Nat \cup {None}, count : Nat, size : Nat, body : Body]
    /\ None \notin [size : Nat, body : Body]
    /\ Bytes \in [Body -> Nat]
    /\ Empty \in Body /\ Bytes[Empty] = 0
    /\ Quota \in Nat /\ MaxIno \in Nat /\ MaxLinks \in Nat

Name == Dir \X Leaf
Below(d) == {d} \X Leaf
Ino == 1 .. MaxIno

VARIABLES
    files,      \* vfs_entries and vfs_inline_chunks, by name
    detached,   \* vfs_detached_inodes and vfs_detached_chunks, by inode
    usage,      \* inline bytes charged
    nextIno,    \* the next inode number
    pins,       \* descriptors of each inode, in memory
    handles     \* the inode of each descriptor

vars == <<files, detached, usage, nextIno, pins, handles>>

Present(n) == files[n] # None
Row(id, identity, count, body) ==
    [id |-> id, identity |-> identity, count |-> count, size |-> Bytes[body], body |-> body]
Inode(n) == IF files[n].identity # None THEN files[n].identity ELSE files[n].id

\* The names of a linked file.
Aliases(table, identity) ==
    {n \in Name : identity # None /\ table[n] # None /\ table[n].identity = identity}
Identities(names) == {files[n].identity : n \in {m \in names : Present(m)}} \ {None}

\* entry(): the row that stands for an inode.
NamesOf(i) == {n \in Name : Present(n) /\ i \in {files[n].id, files[n].identity}}
Representative(i) ==
    CHOOSE n \in NamesOf(i) : \A m \in NamesOf(i) : files[n].id <= files[m].id

Sum(names) == MapThenSumSet(LAMBDA n : files[n].size, names)
DetachedBytes(inodes) == MapThenSumSet(LAMBDA i : detached[i].size, inodes)

\* assertCapacity(): only growth is refused.
Room(delta) == delta > 0 => usage + delta <= Quota
-----------------------------------------------------------------------------
(* The triggers.                                                           *)

\* vfs_hard_metadata: the other names take the columns of the row.
MirrorMetadata(table, n) ==
    [m \in Name |-> IF m \in Aliases(table, table[n].identity)
                    THEN [table[m] EXCEPT !.size = table[n].size] ELSE table[m]]

\* vfs_hard_chunk_insert, _update and _delete: and its chunks.
MirrorChunks(table, n) ==
    [m \in Name |-> IF m \in Aliases(table, table[n].identity)
                    THEN [table[m] EXCEPT !.body = table[n].body] ELSE table[m]]

Rewritten(table, n, body) ==
    LET row == [table EXCEPT ![n].size = Bytes[body], ![n].body = body]
    IN  MirrorChunks(MirrorMetadata(row, n), n)

\* vfs_hard_unlink and vfs_hard_new_name count the names of a file.
Recount(table, identities) ==
    [n \in Name |-> IF table[n] # None /\ table[n].identity \in identities
                    THEN [table[n] EXCEPT !.count = Cardinality(Aliases(table, table[n].identity))]
                    ELSE table[n]]
-----------------------------------------------------------------------------
(* Removal of names, alone or on the way of something else.                *)

Without(names) ==
    Recount([n \in Name |-> IF n \in names THEN None ELSE files[n]], Identities(names))

\* Mutant: does not look for other names of the file.
RetainedHoweverNamed(names, candidates) ==
    {i \in candidates : pins[i] > 0 /\ NamesOf(i) # {} /\ Representative(i) \in names}
\* retain(): the open inodes among the candidates that lose their last name.
Retained(names, candidates) ==
    {i \in candidates :
        /\ pins[i] > 0 /\ NamesOf(i) # {} /\ Representative(i) \in names
        /\ Aliases(files, files[Representative(i)].identity) \subseteq names}

Detach(inodes) ==
    [i \in Ino |-> IF i \in inodes
                   THEN [size |-> files[Representative(i)].size, body |-> files[Representative(i)].body]
                   ELSE detached[i]]

\* What removeExact() and commitRemove() do to usage.
Released(names, inodes) == -Sum(names) + MapThenSumSet(LAMBDA i : files[Representative(i)].size, inodes)

\* removeExact() of the row at n, or of none.
Candidates(n) == IF Present(n) THEN {Inode(n)} ELSE {}
Occupied(n) == IF Present(n) THEN {n} ELSE {}

descriptors == <<pins, handles>>
-----------------------------------------------------------------------------
(* Changes by name.                                                        *)

\* writeFile(), touch() or a link's new name, on an absent path.
CreateFile(n, body) ==
    /\ ~Present(n) /\ nextIno <= MaxIno /\ Room(Bytes[body])
    /\ files' = [files EXCEPT ![n] = Row(nextIno, None, 1, body)]
    /\ usage' = usage + Bytes[body]
    /\ nextIno' = nextIno + 1
    /\ UNCHANGED <<detached, descriptors>>

\* writeFile() and appendFile() on a file.
WriteFile(n, body) ==
    LET delta == (Bytes[body] - files[n].size) * files[n].count
    IN  /\ Present(n) /\ Room(delta)
        /\ files' = Rewritten(files, n, body)
        /\ usage' = usage + delta
        /\ UNCHANGED <<detached, nextIno, descriptors>>

\* link(): the names at both ends learn the new count.
Link(n, m) ==
    LET identity == Inode(n)
        row == [files[n] EXCEPT !.identity = identity, !.count = @ + 1]
        linked == [files EXCEPT ![n] = row, ![m] = [row EXCEPT !.id = nextIno]]
    IN  /\ Present(n) /\ ~Present(m) /\ nextIno <= MaxIno /\ Room(files[n].size)
        /\ Cardinality(NamesOf(identity)) < MaxLinks
        /\ files' = linked
        /\ usage' = usage + files[n].size
        /\ nextIno' = nextIno + 1
        /\ UNCHANGED <<detached, descriptors>>

RemoveName(n) ==
    LET inodes == Retained({n}, Candidates(n))
    IN  /\ Present(n)
        /\ files' = Without({n})
        /\ detached' = Detach(inodes)
        /\ usage' = usage + Released({n}, inodes)
        /\ UNCHANGED <<nextIno, descriptors>>

\* commitRemove() of a directory: every descriptor is looked at.
RemoveTree(d) ==
    LET names == {n \in Below(d) : Present(n)}
        inodes == Retained(names, Ino)
    IN  /\ files' = Without(names)
        /\ detached' = Detach(inodes)
        /\ usage' = usage + Released(names, inodes)
        /\ UNCHANGED <<nextIno, descriptors>>

\* commitMove(): what stands at the target goes, unless it is the same file.
Move(n, m) ==
    LET inodes == Retained(Occupied(m), Candidates(m))
        left == Without(Occupied(m))
    IN  /\ n # m /\ Present(n)
        /\ Present(m) => Inode(n) # Inode(m)
        /\ files' = [left EXCEPT ![m] = left[n], ![n] = None]
        /\ detached' = Detach(inodes)
        /\ usage' = usage + Released(Occupied(m), inodes)
        /\ UNCHANGED <<nextIno, descriptors>>

MoveTree(d, e) ==
    LET moved == {n \in Below(d) : Present(n)}
    IN  /\ d # e /\ \A n \in Below(e) : ~Present(n)
        /\ files' = [n \in Name |-> IF n[1] = e THEN files[<<d, n[2]>>]
                                    ELSE IF n[1] = d THEN None ELSE files[n]]
        /\ UNCHANGED <<detached, usage, nextIno, descriptors>>

\* commitCopy() onto an absent path.
CopyFile(n, m) == n # m /\ Present(n) /\ CreateFile(m, files[n].body)

\* Mutant: the other names of the target are not charged.
CopyOverChargingOne(n, m) ==
    LET delta == files[n].size - files[m].size
    IN  /\ Present(n) /\ Present(m) /\ Inode(n) # Inode(m) /\ Room(delta)
        /\ files' = Recount(Rewritten(files, m, files[n].body), Identities({m}))
        /\ usage' = usage + delta
        /\ UNCHANGED <<detached, nextIno, descriptors>>
\* commitCopy() onto a file: its row is made again under its number, for
\* its other names too.
CopyOver(n, m) ==
    LET delta == (files[n].size - files[m].size) * files[m].count
    IN  /\ Present(n) /\ Present(m) /\ Inode(n) # Inode(m) /\ Room(delta)
        /\ files' = Recount(Rewritten(files, m, files[n].body), Identities({m}))
        /\ usage' = usage + delta
        /\ UNCHANGED <<detached, nextIno, descriptors>>

\* A copy of a directory is a file of its own for each name.
CopyTree(d, e) ==
    LET copied == {l \in Leaf : Present(<<d, l>>)}
        total == Sum({d} \X copied)
    IN  /\ d # e /\ \A n \in Below(e) : ~Present(n)
        /\ copied # {} /\ nextIno + Cardinality(copied) - 1 <= MaxIno /\ Room(total)
        /\ \E number \in [copied -> nextIno .. nextIno + Cardinality(copied) - 1] :
            /\ \A l, k \in copied : number[l] = number[k] => l = k
            /\ files' = [n \in Name |->
                    IF n \in {e} \X copied
                    THEN Row(number[n[2]], None, 1, files[<<d, n[2]>>].body) ELSE files[n]]
        /\ usage' = usage + total
        /\ nextIno' = nextIno + Cardinality(copied)
        /\ UNCHANGED <<detached, descriptors>>
-----------------------------------------------------------------------------
(* Descriptors.                                                            *)

Pin(h, i) ==
    /\ handles[h] = None
    /\ handles' = [handles EXCEPT ![h] = i]
    /\ pins' = [pins EXCEPT ![i] = @ + 1]

\* open() of a file, which "w" empties.
Open(h, n, emptied) ==
    LET row == files[n]
    IN  /\ Present(n) /\ Pin(h, Inode(n))
        /\ files' = IF emptied THEN Rewritten(files, Representative(Inode(n)), Empty) ELSE files
        /\ usage' = IF emptied THEN usage - row.size * files[Representative(Inode(n))].count ELSE usage
        /\ UNCHANGED <<detached, nextIno>>

\* open() of an absent path that it creates.
OpenNew(h, n) ==
    /\ ~Present(n) /\ nextIno <= MaxIno
    /\ Pin(h, nextIno)
    /\ files' = [files EXCEPT ![n] = Row(nextIno, None, 1, Empty)]
    /\ nextIno' = nextIno + 1
    /\ UNCHANGED <<detached, usage>>

\* write() and truncate() on an inode that has a name.
WriteNamed(h, body) ==
    LET n == Representative(handles[h])
        delta == (Bytes[body] - files[n].size) * files[n].count
    IN  /\ handles[h] # None /\ NamesOf(handles[h]) # {} /\ Room(delta)
        /\ files' = Rewritten(files, n, body)
        /\ usage' = usage + delta
        /\ UNCHANGED <<detached, nextIno, descriptors>>

\* And on one that lost its last.
WriteDetached(h, body) ==
    LET i == handles[h]
        delta == Bytes[body] - detached[i].size
    IN  /\ i # None /\ NamesOf(i) = {} /\ detached[i] # None /\ Room(delta)
        /\ detached' = [detached EXCEPT ![i] = [size |-> Bytes[body], body |-> body]]
        /\ usage' = usage + delta
        /\ UNCHANGED <<files, nextIno, descriptors>>

\* Mutant: the first close gives the body up.
CloseAny(h) ==
    LET i == handles[h]
    IN  /\ i # None
        /\ handles' = [handles EXCEPT ![h] = None]
        /\ pins' = [pins EXCEPT ![i] = @ - 1]
        /\ detached' = [detached EXCEPT ![i] = None]
        /\ usage' = IF detached[i] # None THEN usage - detached[i].size ELSE usage
        /\ UNCHANGED <<files, nextIno>>
\* release(): the last one gives the body up.
Close(h) ==
    LET i == handles[h]
        last == i # None /\ pins[i] = 1 /\ detached[i] # None
    IN  /\ i # None
        /\ handles' = [handles EXCEPT ![h] = None]
        /\ pins' = [pins EXCEPT ![i] = @ - 1]
        /\ detached' = IF last THEN [detached EXCEPT ![i] = None] ELSE detached
        /\ usage' = IF last THEN usage - detached[i].size ELSE usage
        /\ UNCHANGED <<files, nextIno>>

\* The object is evicted: no descriptor survives, and the next instance gives
\* up what only they held.
Evict ==
    LET lost == {i \in Ino : detached[i] # None}
    IN  /\ handles' = [h \in Handle |-> None]
        /\ pins' = [i \in Ino |-> 0]
        /\ detached' = [i \in Ino |-> None]
        /\ usage' = usage - DetachedBytes(lost)
        /\ UNCHANGED <<files, nextIno>>
-----------------------------------------------------------------------------
Init ==
    /\ files = [n \in Name |-> None]
    /\ detached = [i \in Ino |-> None]
    /\ usage = 0
    /\ nextIno = 1
    /\ pins = [i \in Ino |-> 0]
    /\ handles = [h \in Handle |-> None]

ByName ==
    \/ \E n \in Name :
        \/ \E body \in Body : CreateFile(n, body) \/ WriteFile(n, body)
        \/ RemoveName(n)
        \/ \E m \in Name : Link(n, m) \/ Move(n, m) \/ CopyFile(n, m) \/ CopyOver(n, m)
    \/ \E d, e \in Dir : MoveTree(d, e) \/ CopyTree(d, e)
    \/ \E d \in Dir : RemoveTree(d)

ByHandle(h) ==
    \/ \E n \in Name : OpenNew(h, n) \/ \E emptied \in BOOLEAN : Open(h, n, emptied)
    \/ \E body \in Body : WriteNamed(h, body) \/ WriteDetached(h, body)
    \/ Close(h)

Next == ByName \/ (\E h \in Handle : ByHandle(h)) \/ Evict

Spec == Init /\ [][Next]_vars
-----------------------------------------------------------------------------
(* What the code promises.                                                 *)

\* The state has its shape; a body is detached only while it is open and has
\* no name, and pins are the descriptors that are open.
TypeOK ==
    /\ files \in [Name ->
            [id : Ino, identity : Ino \cup {None}, count : Nat, size : Nat, body : Body] \cup {None}]
    /\ detached \in [Ino -> [size : Nat, body : Body] \cup {None}]
    /\ usage \in Int /\ nextIno \in 1 .. MaxIno + 1
    /\ handles \in [Handle -> Ino \cup {None}]
    /\ pins = [i \in Ino |-> Cardinality({h \in Handle : handles[h] = i})]
    /\ \A i \in Ino : detached[i] # None => pins[i] > 0 /\ NamesOf(i) = {}

\* docs/fs.md: every name and every open body without one is charged, and
\* nothing else.
UsageExact ==
    usage = Sum({n \in Name : Present(n)}) + DetachedBytes({i \in Ino : detached[i] # None})

\* What leads to an inode shows one body, or it is torn.
BodyOf(i) ==
    LET kept == {files[n].body : n \in {m \in Name : Present(m) /\ Inode(m) = i}}
                \cup IF detached[i] # None THEN {detached[i].body} ELSE {}
    IN  IF kept = {} THEN None
        ELSE IF Cardinality(kept) = 1 THEN CHOOSE body \in kept : TRUE ELSE "torn"

Contract == INSTANCE InodeContract WITH
    names <- [n \in Name |-> IF Present(n) THEN Inode(n) ELSE None],
    open <- handles,
    body <- [i \in Ino |-> BodyOf(i)]

\* Names and descriptors behave as those of inodes that are stored once.
ImplementsInodes == Contract!Spec
=============================================================================
