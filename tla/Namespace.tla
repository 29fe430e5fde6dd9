------------------------------ MODULE Namespace ------------------------------
(***************************************************************************)
(* The tree of cf-vfs: the rows of vfs_entries with what is kept beside    *)
(* them incrementally (totals, link counts of directories, tombstones, the *)
(* inode counter, the change feed), and every operation that changes the   *)
(* tree in one synchronous transaction.  Memory holds two allocators and   *)
(* the limits of the host; an eviction loses them.                         *)
(*                                                                         *)
(* A transaction is a record of the state it works on, passed from one     *)
(* step of the code to the next; Finish commits it or rolls it back.       *)
(*                                                                         *)
(* A body is its size, a change feed is on, the caller is trusted.  Left   *)
(* out: permissions, timestamps, opaque bodies (OpaqueLifecycle), hard     *)
(* links, and targets of links that are relative or have dot segments.     *)
(***************************************************************************)
EXTENDS Integers, Sequences, FiniteSets, SequencesExt, FiniteSetsExt

CONSTANTS
  Paths,              \* the pathnames that exist in the model, sequences of names
  Sizes,              \* the sizes of bodies
  Targets,            \* what a symbolic link may point at
  Limits,             \* the limits that the host may set
  MAX_SYMLINK_HOPS,
  MaxSteps,           \* bound on the transactions of a behaviour
  Absent

VARIABLES
  entries,     \* vfs_entries, by path
  tombstones,  \* vfs_path_tombstones, 0 where there is no row
  usage,       \* vfs_usage
  changes,     \* vfs_path_changes
  alloc,       \* in memory: nextIno and lastChangeSeq
  limits,      \* what maxInlineLogicalBytes() and maxEntries() answer
  refused,     \* the growth that the last call asked for, if it was refused for space
  steps

durable == <<entries, tombstones, usage, changes>>
vars == <<entries, tombstones, usage, changes, alloc, limits, refused, steps>>

Root == << >>

ASSUME PathsAssumption ==
  /\ IsFiniteSet(Paths)
  /\ Root \in Paths
  /\ \A p \in Paths : p \in Seq({p[i] : i \in 1 .. Len(p)}) /\ Front(p) \in Paths
ASSUME ValuesAssumption ==
  /\ Sizes \subseteq Nat
  /\ Targets \subseteq Paths
  /\ Limits \subseteq [inlineBytes : Nat, entries : Nat]
  /\ MAX_SYMLINK_HOPS \in Nat
  /\ MaxSteps \in Nat

(* A link that is replaced by its target leads to a path of the model. *)
ASSUME TargetsAssumption ==
  \A p \in Paths, target \in Targets : \A n \in 1 .. Len(p) :
    target \o SubSeq(p, n + 1, Len(p)) \in Paths

Entry ==
  {row \in [kind : {"directory", "file", "symlink"}, ino : Nat, size : Nat, nlink : Nat,
            version : Nat, target : Paths] : row.kind = "symlink" => row.target \in Targets}

ASSUME AbsentAssumption ==
  /\ Absent \notin Entry
  /\ Absent \notin [alloc : [ino : Nat, seq : Nat], full : BOOLEAN]
  /\ Absent \notin [inlineBytes : Int, entries : Int]

TypeOK ==
  /\ entries \in [Paths -> Entry \cup {Absent}]
  /\ tombstones \in [Paths -> Nat]
  /\ usage \in [inlineBytes : Nat, entries : Nat, nextIno : Nat]
  /\ changes \in [Paths -> [seq : Nat, present : BOOLEAN]]
  /\ alloc \in [ino : Nat, seq : Nat]
  /\ limits \in Limits
  /\ refused \in [inlineBytes : Int, entries : Int] \cup {Absent}
  /\ steps \in 0 .. MaxSteps

------------------------------------------------------------------------------
(* Paths and the questions asked of the rows *)

Parent(p) == Front(p)
Above == [p \in Paths |-> {q \in Paths \ {Root} : IsStrictPrefix(q, p)}]
Subtree == [p \in Paths |-> {q \in Paths : IsPrefix(p, q)}]
Children == [p \in Paths |-> {q \in Paths \ {Root} : Parent(q) = p}]
Rebase(p, from, to) == to \o SubSeq(p, Len(from) + 1, Len(p))

Is(es, p, kind) == es[p] # Absent /\ es[p].kind = kind
Living(es, ps) == {p \in ps : es[p] # Absent}
SizeOf(es, ps) == MapThenSumSet(LAMBDA p : es[p].size, Living(es, ps))
Version(es, tombs, p) == IF es[p] = Absent THEN tombs[p] ELSE es[p].version
ChildDirectories(es, p) == {q \in Children[p] : Is(es, q, "directory")}

(* The link that stands in the way of a path: the path itself when it is   *)
(* followed, or the outermost link above a path that has no row.           *)
LinksOnTheWay(es, p, follow) ==
  IF es[p] # Absent
  THEN {q \in {p} : follow /\ Is(es, p, "symlink")}
  ELSE {q \in Above[p] : Is(es, q, "symlink")}
NextLink(es, p, follow) ==
  CHOOSE q \in LinksOnTheWay(es, p, follow) :
    \A r \in LinksOnTheWay(es, p, follow) : Len(q) <= Len(r)

(* What the path is after n links: each link is replaced by its target. *)
Walk(es, p, follow) ==
  LET at[n \in 0 .. MAX_SYMLINK_HOPS] ==
        IF n = 0 THEN p
        ELSE LET q == at[n - 1]
             IN  IF LinksOnTheWay(es, q, follow) = {} THEN q
                 ELSE Rebase(q, NextLink(es, q, follow), es[NextLink(es, q, follow)].target)
  IN  at
Resolve(es, p, follow) ==
  IF LinksOnTheWay(es, p, follow) = {} THEN p ELSE Walk(es, p, follow)[MAX_SYMLINK_HOPS]
Loops(es, p, follow) ==
  LinksOnTheWay(es, p, follow) # {} /\ LinksOnTheWay(es, Resolve(es, p, follow), follow) # {}
Followed(es, p) ==
  LET at == Walk(es, p, TRUE)
      hops == Cardinality({n \in 0 .. MAX_SYMLINK_HOPS : LinksOnTheWay(es, at[n], TRUE) # {}})
  IN  [i \in 1 .. hops |-> NextLink(es, at[i - 1], TRUE)]

(* The token that a guard is taken from and compared with. *)
GuardToken(es, tombs, written) ==
  <<Version(es, tombs, Resolve(es, written, TRUE))>> \o
  [i \in 1 .. Len(Followed(es, written)) |-> Version(es, tombs, Followed(es, written)[i])]

(* A path as every operation gets it from resolveAccess. *)
Canonical(es, p) == LinksOnTheWay(es, p, FALSE) = {}

(* The deepest directory that a missing path can hang from, and the        *)
(* directories between the two.                                            *)
Anchor(es, p) ==
  Max({n \in 0 .. Len(p) - 1 :
        LET q == SubSeq(p, 1, n) IN Loops(es, q, TRUE) \/ es[Resolve(es, q, TRUE)] # Absent})
Missing(es, p) ==
  LET anchor == Anchor(es, p)
  IN  [i \in 1 .. Len(p) - 1 - anchor |-> SubSeq(p, 1, anchor + i)]
\* Mutant: hangs the path from a link to a directory.
CreationParentsThroughLinks(es, p, recursive) ==
  /\ Is(es, Resolve(es, SubSeq(p, 1, Anchor(es, p)), TRUE), "directory")
  /\ Missing(es, p) = << >> \/ recursive
CreationParents(es, p, recursive) ==
  LET missing == Missing(es, p)
  IN  /\ Is(es, SubSeq(p, 1, Len(p) - 1 - Len(missing)), "directory")
      /\ missing = << >> \/ recursive
      /\ \A i \in DOMAIN missing : es[missing[i]] = Absent

\* Mutant: replaces a directory without looking into it.
ReplaceableUnseen(es, p, replace) == es[p] # Absent => replace
Replaceable(es, p, replace) ==
  es[p] # Absent => replace /\ (Is(es, p, "directory") => Living(es, Subtree[p] \ {p}) = {})

------------------------------------------------------------------------------
(* The steps of a transaction *)

Begin ==
  [entries |-> entries, tombstones |-> tombstones, usage |-> usage, changes |-> changes,
   alloc |-> alloc,
   parents |-> {}, deltas |-> << >>, recount |-> FALSE,  \* for flushParentTimes
   halt |-> Absent]                                      \* why and when it was given up

(* A table with the rows of another in their places. *)
With(table, rows) ==
  [p \in DOMAIN table |-> IF p \in DOMAIN rows THEN rows[p] ELSE table[p]]

Rank(S) == CHOOSE f \in [S -> 1 .. Cardinality(S)] : \A x, y \in S : f[x] = f[y] => x = y

(* One number of the feed for all paths of a set. *)
Announce(tx, ps, present) ==
  LET seq == tx.alloc.seq + 1
  IN  [tx EXCEPT !.alloc.seq = seq,
                 !.changes = With(@, [p \in ps |-> [seq |-> seq, present |-> present]])]

NotePending(tx, ps) == [tx EXCEPT !.parents = @ \cup {Parent(p) : p \in ps}]
NoteDelta(tx, p, d) ==
  [tx EXCEPT !.deltas = [q \in DOMAIN tx.deltas \cup {p} |->
                           (IF q \in DOMAIN tx.deltas THEN tx.deltas[q] ELSE 0)
                           + (IF q = p THEN d ELSE 0)]]
\* Mutant: trusts the deltas of a subtree that moved.
NoteRecountNever(tx, recount) == tx
NoteRecount(tx, recount) == [tx EXCEPT !.recount = @ \/ recount]

\* Mutant: a change of the count alone is not written.
UpdateUsageOfBytes(tx, bytes, count) ==
  IF bytes = 0 THEN tx
  ELSE [tx EXCEPT !.usage = [inlineBytes |-> @.inlineBytes + bytes,
                             entries |-> @.entries + count,
                             nextIno |-> Max({@.nextIno, tx.alloc.ino})]]
(* updateUsage: the inode counter becomes durable with the totals. *)
UpdateUsage(tx, bytes, count) ==
  IF bytes = 0 /\ count = 0 THEN tx
  ELSE [tx EXCEPT !.usage = [inlineBytes |-> @.inlineBytes + bytes,
                             entries |-> @.entries + count,
                             nextIno |-> Max({@.nextIno, tx.alloc.ino})]]

(* The first exception ends a transaction: what its later steps would do   *)
(* is computed only to know the growth that was asked for.                 *)
Throw(tx, full) ==
  IF tx.halt # Absent THEN tx ELSE [tx EXCEPT !.halt = [alloc |-> tx.alloc, full |-> full]]

\* Mutant: looks at where usage is, not at where it goes.
AssertCapacityWhereItIs(tx, base, bytes, count) ==
  IF /\ bytes > 0 => base.inlineBytes <= limits.inlineBytes
     /\ count > 0 => base.entries <= limits.entries
  THEN tx
  ELSE Throw(tx, TRUE)
\* Mutant: refuses whatever leaves usage above a limit.
AssertCapacityAlways(tx, base, bytes, count) ==
  IF base.inlineBytes + bytes <= limits.inlineBytes /\ base.entries + count <= limits.entries
  THEN tx
  ELSE Throw(tx, TRUE)
AssertCapacityFrom(tx, base, bytes, count) ==
  IF /\ bytes > 0 => base.inlineBytes + bytes <= limits.inlineBytes
     /\ count > 0 => base.entries + count <= limits.entries
  THEN tx
  ELSE Throw(tx, TRUE)
AssertCapacity(tx, bytes, count) == AssertCapacityFrom(tx, tx.usage, bytes, count)

AllocateIno(tx, n) == [tx EXCEPT !.alloc.ino = @ + n]
\* Mutant: does not look for a tombstone.
NextEntryVersionAfter(tx, p, previous) == previous + 1
NextEntryVersion(tx, p, previous) == Max({previous, tx.tombstones[p]}) + 1

(* New rows, whose tombstones go. *)
Insert(tx, rows) ==
  [tx EXCEPT !.entries = With(@, rows),
             !.tombstones = With(@, [p \in DOMAIN rows |-> 0])]
Update(tx, p, size) ==
  [tx EXCEPT !.entries[p].size = size, !.entries[p].version = @ + 1]

(* Rows go and leave tombstones, `advance` versions ahead of them. *)
Delete(tx, ps, advance) ==
  [tx EXCEPT !.entries = With(@, [p \in ps |-> Absent]),
             !.tombstones = With(@, [p \in Living(tx.entries, ps) |->
                Max({tx.tombstones[p], tx.entries[p].version + advance})])]

RemoveExact(tx, p, advance) ==
  IF tx.entries[p] = Absent THEN tx
  ELSE LET noted == IF Is(tx.entries, p, "directory") THEN NoteDelta(tx, Parent(p), -1) ELSE tx
       IN  UpdateUsage(Delete(noted, {p}, advance), - tx.entries[p].size, -1)

CreateDirectory(tx, p) ==
  LET row == [kind |-> "directory", ino |-> tx.alloc.ino, size |-> 0, nlink |-> 2,
              version |-> NextEntryVersion(tx, p, 0), target |-> Root]
      inserted == AllocateIno(Insert(tx, [q \in {p} |-> row]), 1)
      announced == NotePending(Announce(inserted, {p}, TRUE), {p})
  IN  UpdateUsage(NoteDelta(announced, Parent(p), 1), 0, 1)

CreateMissingParents(tx, p) ==
  LET missing == Missing(tx.entries, p)
      weighed == AssertCapacity(tx, 0, Len(missing))
  IN  FoldLeft(CreateDirectory, weighed, missing)

CreateFile(tx, p, size) ==
  LET row == [kind |-> "file", ino |-> tx.alloc.ino, size |-> size, nlink |-> 1,
              version |-> NextEntryVersion(tx, p, 0), target |-> Root]
      inserted == AllocateIno(Insert(tx, [q \in {p} |-> row]), 1)
  IN  UpdateUsage(NotePending(Announce(inserted, {p}, TRUE), {p}), size, 1)

(* A directory whose children changed gets a new version, and its link     *)
(* count by counting or by the deltas that were noted.                     *)
FlushParentTimes(tx) ==
  LET touched == {p \in tx.parents : Is(tx.entries, p, "directory")}
      counts == tx.recount \/ Cardinality(DOMAIN tx.deltas) > 2
      nlink(p) == IF counts THEN 2 + Cardinality(ChildDirectories(tx.entries, p))
                  ELSE tx.entries[p].nlink
                       + (IF p \in DOMAIN tx.deltas THEN tx.deltas[p] ELSE 0)
      order == Rank(touched)
  IN  [tx EXCEPT
        !.entries = With(@, [p \in touched |->
           [tx.entries[p] EXCEPT !.version = @ + 1, !.nlink = nlink(p)]]),
        !.changes = With(@, [p \in touched |->
           [seq |-> tx.alloc.seq + order[p], present |-> TRUE]]),
        !.alloc.seq = @ + Cardinality(touched)]

Commit(tx) ==
  /\ entries' = tx.entries
  /\ tombstones' = tx.tombstones
  /\ usage' = tx.usage
  /\ changes' = tx.changes
  /\ alloc' = tx.alloc
  /\ refused' = Absent

(* A rollback does not give back what the allocators handed out. *)
Rollback(tx) ==
  /\ alloc' = tx.halt.alloc
  /\ refused' = IF tx.halt.full
                THEN [inlineBytes |-> tx.usage.inlineBytes - usage.inlineBytes,
                      entries |-> tx.usage.entries - usage.entries]
                ELSE Absent
  /\ UNCHANGED durable

Step == steps < MaxSteps /\ steps' = steps + 1

Finish(tx) ==
  /\ Step
  /\ IF tx.halt = Absent THEN Commit(FlushParentTimes(tx)) ELSE Rollback(tx)
  /\ UNCHANGED limits

------------------------------------------------------------------------------
(* The operations, on the path that a caller's path resolves to *)

(* writeFile of a materialized body, also touch of a path that is absent. *)
PutFile(tx, p, size) ==
  IF tx.entries[p] = Absent
  THEN CreateFile(AssertCapacity(CreateMissingParents(tx, p), size, 1), p, size)
  ELSE LET delta == size - tx.entries[p].size
       IN  UpdateUsage(Announce(Update(AssertCapacity(tx, delta, 0), p, size), {p}, TRUE),
                       delta, 0)

WriteFile(p, size, createParents) ==
  /\ Canonical(entries, p)
  /\ entries[p] = Absent => CreationParents(entries, p, createParents)
  /\ entries[p] # Absent => Is(entries, p, "file")
  /\ Finish(PutFile(Begin, p, size))

AppendFile(p, suffix) ==
  /\ Is(entries, p, "file")
  /\ Canonical(entries, p)
  /\ suffix > 0
  /\ entries[p].size + suffix \in Sizes      \* maxInlineFileBytes
  /\ Finish(PutFile(Begin, p, entries[p].size + suffix))

(* setMetadata and setOwnership, and touch of a path that is there. *)
SetMetadata(p) ==
  /\ entries[p] # Absent
  /\ Canonical(entries, p)
  /\ entries[p].kind # "symlink"
  /\ Finish(Announce(Update(Begin, p, entries[p].size), {p}, TRUE))

Mkdir(p, recursive) ==
  /\ entries[p] = Absent
  /\ Canonical(entries, p)
  /\ CreationParents(entries, p, recursive)
  /\ Finish(CreateDirectory(AssertCapacity(CreateMissingParents(Begin, p), 0, 1), p))

Symlink(p, target, replace, createParents) ==
  LET old == entries[p]
      cleared == RemoveExact(CreateMissingParents(Begin, p), p, 0)
      weighed == AssertCapacity(cleared, 0, 1)
      row == [kind |-> "symlink", ino |-> weighed.alloc.ino, size |-> 0, nlink |-> 1,
              version |-> NextEntryVersion(weighed, p, IF old = Absent THEN 0 ELSE old.version),
              target |-> target]
      placed == UpdateUsage(AllocateIno(Insert(weighed, [q \in {p} |-> row]), 1), 0, 1)
      announced == Announce(placed, {p}, TRUE)
  IN  /\ p # Root
      /\ Canonical(entries, p)
      /\ CreationParents(entries, p, createParents)
      /\ old # Absent => replace /\ old.kind # "directory"
      /\ Finish(IF old = Absent THEN NotePending(announced, {p}) ELSE announced)

RemovePath(p, recursive) ==
  LET tree == Living(entries, Subtree[p])
      deleted == IF recursive /\ Is(entries, p, "directory")
                 THEN NoteRecount(
                        UpdateUsage(Delete(Announce(Begin, tree, FALSE), tree, 1),
                                    - SizeOf(entries, tree), - Cardinality(tree)), TRUE)
                 ELSE Announce(RemoveExact(Begin, p, 1), {p}, FALSE)
  IN  /\ p # Root
      /\ Canonical(entries, p)
      /\ entries[p] # Absent
      /\ recursive \/ tree = {p}
      /\ Finish(NotePending(deleted, {p}))

Move(source, target, replace) ==
  LET tree == Living(entries, Subtree[source])
      moved == {Rebase(p, source, target) : p \in tree}
      cleared == RemoveExact(Begin, target, 0)
      gone == Delete(Announce(cleared, tree, FALSE), tree, 1)
      row(p) == [entries[Rebase(p, target, source)] EXCEPT
                   !.version = NextEntryVersion(gone, p, 0)]
      there == Announce(Insert(gone, [p \in moved |-> row(p)]), moved, TRUE)
  IN  /\ source # Root
      /\ entries[source] # Absent
      /\ target \notin Subtree[source]
      /\ Canonical(entries, source) /\ Canonical(entries, target)
      /\ moved \subseteq Paths
      /\ Is(entries, Parent(target), "directory")
      /\ Replaceable(entries, target, replace)
      /\ entries[target] # Absent =>
           (Is(entries, target, "directory") <=> Is(entries, source, "directory"))
      /\ Finish(NoteRecount(NotePending(there, {source, target}),
                            Is(entries, source, "directory")))

(* A file copied over a file keeps the inode that stands there. *)
Copy(source, target, replace, createParents) ==
  LET tree == Living(entries, Subtree[source])
      old == entries[target]
      preserve == Is(entries, target, "file") /\ Is(entries, source, "file")
      bytes == SizeOf(entries, tree)
      count == Cardinality(tree)
      weighed == AssertCapacity(CreateMissingParents(Begin, target),
                                bytes - (IF old = Absent THEN 0 ELSE old.size),
                                count - (IF old = Absent THEN 0 ELSE 1))
      cleared == RemoveExact(weighed, target, 0)
      copied == {Rebase(p, source, target) : p \in tree}
      base == (IF preserve THEN old.ino ELSE cleared.alloc.ino) - 1
      allocated == IF preserve THEN cleared ELSE AllocateIno(cleared, count)
      row(p) == [entries[Rebase(p, target, source)] EXCEPT
                   !.version = NextEntryVersion(allocated, p, 0),
                   !.ino = base + Rank(copied)[p]]
      there == Announce(Insert(allocated, [p \in copied |-> row(p)]), copied, TRUE)
  IN  /\ source # target
      /\ entries[source] # Absent
      /\ Canonical(entries, source) /\ Canonical(entries, target)
      /\ Is(entries, source, "directory") => target \notin Subtree[source]
      /\ copied \subseteq Paths
      /\ target # Root
      /\ CreationParents(entries, target, createParents)
      /\ Replaceable(entries, target, replace)
      /\ Finish(NoteRecount(NotePending(UpdateUsage(there, bytes, count), {target}),
                            Is(entries, source, "directory")))

(* The limits are functions of the host; they may be lowered at any time. *)
SetLimits(l) ==
  /\ l # limits
  /\ Step
  /\ limits' = l
  /\ UNCHANGED <<durable, alloc, refused>>

\* Mutant: the next inode is taken from the rows that are left.
EvictToLastRow ==
  /\ Step
  /\ alloc' = [ino |-> Max({entries[p].ino : p \in Living(entries, Paths)}) + 1,
               seq |-> Max({changes[p].seq : p \in Paths})]
  /\ UNCHANGED <<durable, limits, refused>>
\* Mutant: the feed is numbered from the start again.
EvictToFreshFeed ==
  /\ Step
  /\ alloc' = [ino |-> usage.nextIno, seq |-> 0]
  /\ UNCHANGED <<durable, limits, refused>>
(* A new instance reads both allocators from the database. *)
Evict ==
  /\ Step
  /\ alloc' = [ino |-> usage.nextIno, seq |-> Max({changes[p].seq : p \in Paths})]
  /\ UNCHANGED <<durable, limits, refused>>

------------------------------------------------------------------------------
(* A fresh workspace: the root directory, which has no parent. *)
Init ==
  /\ entries = [p \in Paths |->
       IF p = Root THEN [kind |-> "directory", ino |-> 1, size |-> 0, nlink |-> 2,
                         version |-> 1, target |-> Root]
       ELSE Absent]
  /\ tombstones = [p \in Paths |-> 0]
  /\ usage = [inlineBytes |-> 0, entries |-> 1, nextIno |-> 2]
  /\ changes = [p \in Paths |-> [seq |-> 0, present |-> FALSE]]
  /\ alloc = [ino |-> 2, seq |-> 0]
  /\ limits \in Limits
  /\ refused = Absent
  /\ steps = 0

Files ==
  \E p \in Paths :
    \/ \E size \in Sizes, createParents \in BOOLEAN : WriteFile(p, size, createParents)
    \/ \E suffix \in Sizes : AppendFile(p, suffix)
    \/ SetMetadata(p)
Trees ==
  \E p \in Paths :
    \/ \E recursive \in BOOLEAN : Mkdir(p, recursive) \/ RemovePath(p, recursive)
    \/ \E target \in Paths, replace \in BOOLEAN :
         \/ Move(p, target, replace)
         \/ \E createParents \in BOOLEAN : Copy(p, target, replace, createParents)
Links ==
  \E p \in Paths, target \in Targets, replace, createParents \in BOOLEAN :
    Symlink(p, target, replace, createParents)
Host == Evict \/ \E l \in Limits : SetLimits(l)

Next == Files \/ Trees \/ Links \/ Host
Spec == Init /\ [][Next]_vars

------------------------------------------------------------------------------
(* Every row but the root hangs from a directory, so a path that has a row *)
(* crosses no link: resolution trusts an exact hit (sql-path-base.ts).     *)
TreeShape ==
  /\ Is(entries, Root, "directory")
  /\ \A p \in Living(entries, Paths) : Is(entries, Parent(p), "directory")

(* The link count of a directory, kept by deltas in the common cases and   *)
(* by counting in the others, is two and one for every child directory.    *)
NlinkExact ==
  \A p \in Paths : Is(entries, p, "directory") =>
    entries[p].nlink = 2 + Cardinality(ChildDirectories(entries, p))

(* The totals, kept by deltas over replacements, subtrees and rollbacks,   *)
(* are what a scan of the rows would add up.                               *)
UsageExact ==
  /\ usage.inlineBytes = SizeOf(entries, Paths)
  /\ usage.entries = Cardinality(Living(entries, Paths))

(* No two rows share an identity. *)
Inos(es) == {es[p].ino : p \in Living(es, Paths)}

(* An identity that a row takes was never durable before: no path ever     *)
(* gets the number of an entry that was removed, whatever was rolled back  *)
(* or evicted in between (allocateIno, updateUsage, sql-schema.ts).        *)
InodesNeverReused ==
  [][/\ \A i \in Inos(entries') \ Inos(entries) : i >= usage.nextIno /\ i < usage'.nextIno
     /\ Cardinality(Inos(entries')) = Cardinality(Living(entries', Paths))]_vars

(* A path whose row changes, appears, moves or goes gets a version that it *)
(* never had, so a token of one path is never current twice (tombstones).  *)
TokensNeverRepeat ==
  [][\A p \in Paths : entries'[p] # entries[p] =>
       Version(entries', tombstones', p) > Version(entries, tombstones, p)]_vars

(* Every path that changes is in the feed behind every number that was     *)
(* ever in it, with what became of it; a cursor taken before the change    *)
(* is never ahead of it, also after an eviction (nextChangeSeq).           *)
EveryChangeIsAnnounced ==
  [][\A p \in Paths : entries'[p] # entries[p] =>
       /\ \A q \in Paths : changes'[p].seq > changes[q].seq
       /\ changes'[p].present = (entries'[p] # Absent)]_vars

(* Usage never grows past the limits that hold when it grows, and above a  *)
(* limit that was lowered it can still shrink (assertCapacity).            *)
GrowthWithinLimits ==
  [][/\ usage'.inlineBytes > usage.inlineBytes => usage'.inlineBytes <= limits.inlineBytes
     /\ usage'.entries > usage.entries => usage'.entries <= limits.entries]_vars

(* "Only growth is refused. A mutation that holds usage steady or gives    *)
(* space back is allowed even when the workspace is already past a quota"  *)
(* (docs/operations.md).                                                   *)
RefusesOnlyGrowth ==
  refused # Absent => refused.inlineBytes > 0 \/ refused.entries > 0

=============================================================================
