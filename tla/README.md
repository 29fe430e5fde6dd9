# cf-vfs in TLA+

cf-vfs is a filesystem for Cloudflare Durable Objects. Names, small files and all bookkeeping live
in the SQLite database of one Durable Object; large ("opaque") bodies live in R2. A shell, a
`node:fs` adapter and a collaborative layer are built on the filesystem. This directory holds a
formal model of it: TLA+ modules, the TLC configurations that check them on small instances, and
theorems that TLAPS proves for every value of the constants.

    tlc -workers 2 -config Verifiers.cfg MCOpaqueLifecycle.tla
    tlapm OpaqueLifecycleProofs.tla
    tlapm SharedPipeProofs.tla
    tlapm PipelineProofs.tla
    tlapm CollaborationProofs.tla
    tlapm NamespaceProofs.tla
    tlapm StaleViewsProofs.tla
    tlapm SharedInodesProofs.tla
    tlapm Sums.tla

`PROJECT.json` lists the runs, for every property a mutation of the model that breaks it, and for
every definition the lines of the source it stands for.

## The system

A Durable Object is single-threaded. Code between two awaits is atomic, and so is a SQL
transaction (`transactionSync`), but any number of calls may be suspended at their awaits: on a body
that streams in, on a digest, on R2, on `getAlarm()`, on a pipe. The object can be evicted at any
await; the database, its alarm and R2 survive, memory does not. This gives the same hazard
everywhere: state is read, something is awaited, and then the state is used.

| Component | State | Operations | What is hard | What makes it correct |
| --- | --- | --- | --- | --- |
| Opaque uploads (`src/vfs/sql-opaque-*-base.ts`) | sessions, object rows | begin, commit, abort | two verifiers, expiry during verification, path changes after reservation | no name without a body; publication once, final, never over a changed path |
| Maintenance (`sql-gc-base.ts`, `sql-write-plan-base.ts`) | garbage queue, alarm | drainGarbage, scheduleGarbageAlarm, alarm | deletion in R2 between two transactions, failures and backoff, two drains, late PUTs, shared alarm, eviction | leases honoured, nothing live deleted, nothing orphaned, everything ends |
| Inline writes (`sql-write-base.ts`, `sql-content-base.ts`) | entries, chunks, digest, in-flight budget | writeFile, writeFiles, appendFile | await between plan and commit; batches; skip by digest; bounded buffers | no lost update, all or nothing, digest equals body, budget returned on every exit |
| Namespace (`sql-move-base.ts`, `sql-copy-base.ts`, `sql-path-base.ts`) | entries, tombstones, usage, inode counter, change feed | mkdir, remove, move, copy, symlink | set-based changes of subtrees, tombstones, incremental counters | tree shape, exact totals, tokens never repeat, identities never reused |
| Handles and hard links (`src/fs/sql-file-handles.ts`, `hard-links.ts`) | pins, detached inodes, link identity | open, read, write, truncate, close, link | unlink while open, last close, eviction with open handles, triggers that mirror rows | body outlives its last name while open, bytes charged exactly, links agree |
| Transactions and events (`sql-base.ts`, `events.ts`) | pending events and parents | transaction, flushParentTimes | nesting, rollback | only committed changes are announced |
| Path resolution (`core/path.ts`, `sql-path-base.ts`) | none | resolve, guard tokens over link chains | cycles, the 40-hop limit, retargeted links | terminates, canonical, guard sees every link |
| Metadata index and tiers (`src/fs`) | entries and cursor of the feed | refresh, snapshot | pages that cut a change, overflow, restarts | stale only where the next refresh looks |
| Collaboration (`src/collab`) | sessions, revisions | edit, merge | concurrent edits, retries | no lost edit |
| Pipes (`src/shell/pipe.ts`) | queue, waiters | write, read, close, cancel | backpressure, broken pipes | no lost or reordered chunk, no deadlock |
| Shell execution (`src/shell/shell-*.ts`, `budget.ts`) | session, budget, abort | execute, pipelines, redirection | cancellation, budgets across stages, partial failure | limits hold, session state only from finished commands |
| Parser, expansion, core algorithms | none | pure functions | recursion, limits | agree with a reference definition |
| Commands, demo, benchmarks, scripts | none | text tools | | not modelled |

## The plan

Written and checked, the most important behaviour first:

1. `OpaqueLifecycle` with `OpaqueContract`, and their proofs in `OpaqueLifecycleProofs`:
   uploads, leases, garbage, alarm.
2. `Namespace`, with its proofs in `NamespaceProofs`: the tree and what is kept beside it by increments; `StreamedWrites`,
   on top of it: bodies that stream in, batches, append, snapshots and the in-flight budget; `MetadataIndex`, also
   on top of it: the pages of the change feed and the index a host keeps from them. The proofs of both
   are in `StaleViewsProofs`.
3. `SharedInodes` with `InodeContract`, and their proofs in `SharedInodesProofs`: hard links and their
   triggers, open files, bodies that outlive their names, eviction. `Sums` has the lemmas about sums over sets.
4. `BytePipe`, the steps of one pipe; `SharedPipe` with `PipeContract` and their proofs in
   `SharedPipeProofs`: a pipe in any hands; and `Pipeline`, with its proofs in `PipelineProofs`: concurrent
   commands, their pipes, stderr, the caller and the end of an execution.
5. `Collaboration`, with its proofs in `CollaborationProofs`: documents edited above files that others write.

What is left, in order:

6. A remote reader of the feed, which asks for one page at a time while the tree changes between them,
   and the paths `git` tracks from it (shell/commands/git-tracked.ts).
7. Interactive sessions and the state a failed or cancelled command leaves behind.
8. Path, glob, diff and patch algorithms as functions against reference definitions.

## OpaqueLifecycle

One action is one synchronous stretch of code, from one await to the next.

| Action | Code |
| --- | --- |
| `BeginOpaqueUpload`, `AbortOpaqueUpload`, `ResolveOpaqueRead` | the methods of these names |
| `ClaimVerification`, `CommitExpired`, `CommitReceiptExpired` | `beginOpaqueVerification`, by outcome |
| `HeadObject` | R2 answers `HEAD`; the answer is used later |
| `CommitFails`, `RejectMetadata`, `RejectLeaseLost`, `CommitStale`, `CommitPublishes` | what a commit does with the answer |
| `FireAlarm`, `DrainGarbage` | the alarm handler, and `drainGarbage` up to `store.delete` |
| `DeleteBodies`, `DeleteBodiesFails`, `SettleDrain`, `BackOffDrain` | the delete and the transaction after it |
| `ArmAlarm` | the answer of `getAlarm()` and the `setAlarm()` that follows |
| `WriteFile`, `Remove`, `RemoveSubtree`, `Move`, `Copy` | namespace changes, as far as they touch opaque objects |
| `StartPut`, `LandPut`, `Tick`, `HostSetAlarm`, `Crash` | the client, the clock, the host, the platform |

Data is abstracted to what the properties tell apart: one value stands for a session and its key,
a path's version stands for its token, a file is nothing, inline, or an upload. Sizes, digests and
content types only decide whether `HEAD` answers "ok" or "mismatch", so the answer is a choice.

The grace period after a reservation is the code's assumption that no PUT lands later; `LandPut`
has it as a guard. Within it a PUT may land at any time.

### Runs

| Run | Instance | Shows |
| --- | --- | --- |
| `verifiers` | 2 uploads, 2 commits, 1 path | `NoDanglingReference`, `PublishedIsFinal` |
| `collection` | 2 paths, 1 upload, 2 drains, 1 failed delete, 1 eviction | `LeasedBodyRetained`, `NoOrphanBody`, `AlarmCovers`, `NoStalePublish`, `ImplementsContract` |
| `eventually` | 1 upload, a host alarm, 1 failed delete, fairness | `ReservationsEnd`, `GarbageIsCollected` |

All durations are one or two ticks and the clock stops at 3 or 4, which is enough for every order of
"lease ends", "reservation ends", "grace ends" and "retry is due" around a commit and a drain. Two
verifiers are needed for a lost verification, two drains for overlapping deletes, two paths for a
copy that shares a body. Reservations and leases start at time 0 only, since the clock has no
other meaning than its distance from them.

Fairness (`FairSpec`): R2 and storage calls are answered, a woken call runs, a due alarm is
delivered, the clock moves. A commit need not be retried by a client, and a reservation may
never be used: expiry has to end it.

One more observation is in the hazards: a second PUT for a reservation that is already published can
land after its body was unlinked and deleted, and nothing leads to that body any more.

### Proofs

`OpaqueLifecycleProofs` proves for all finite or infinite sets of paths, uploads and calls, and all
durations: `TypeCorrect`, `Invariance`, `NoDanglingReferences`, `LeasesAreHonoured`,
`StaleIsNeverPublished`, `PublicationIsFinal` and `LifecycleImplementsContract`. Assumptions are
`SetsAssumption` (values that stand for absence are distinct) and `TimesAssumption` (durations are
positive integers, bounds are natural numbers).

The safety properties are not inductive. That a name's body is in the bucket depends on
what the drains are about to delete, what the queue holds, and what a verifier saw before it was
suspended. `IInv` adds:

* `RowsAreLive`: a body with an object row is published, stored, not queued, and retained beyond
  every lease on it;
* `QueueIsDead` and `DrainsTakeDead`: a queued key, and a key a drain carries across its await, is
  not published any more and its leases end before it may be deleted;
* `VerifiedIsStored`: a commit that still holds its verification saw a body that is there. This is
  where the verification token matters: a commit that lost it makes no claim;
* `LeasesArePublished`, `TokensLagBehind`: only published bodies are leased; once a path has changed, its
  version is ahead of every reservation made before.

Each action is shown to preserve the parts it touches. The refinement maps the database's names to
the contract's, R2 to its bodies, and the history of granted leases to its leases; commits map to
`Publish`, namespace changes to `Rename`, deletes to `Collect`, the rest to stuttering.

The second half of `OpaqueLifecycleProofs` proves `KeysInvariance` and `NothingOrphaned` from the same assumptions. That a
body always has a row that leads to its deletion depends on when its last PUT can land, so `KeyInv` adds to
`IInv`:

* `EndIsKnown`: as long as a reservation can still fail, its row says when the client's right to PUT ends;
* `GarbageSettles`: the key of a reservation that failed is not due before that end and the grace, so a
  drain that holds it, and the session that was collected, come after every PUT;
* `PutsAreCounted`: a body and a publication each account for a PUT that is not under way any more, so one
  that lands on a published session was a second one (the exception `NoOrphanBody` names);
* `DeletedIsGone`: between the delete and the transaction after it nothing brings a body back, but such a PUT.

The proof goes key by key: `KeyStep` is what nearly all steps do to a key (`RowKept`, `DrainsKept`), and the
beginning of a reservation, the two ends of a PUT, the first and last transaction of a drain and the delete
have a lemma each.

`AlarmIsSet` proves `AlarmCovers` under `OneArmingCall`: calls of `scheduleGarbageAlarm` do not overlap, and
the host leaves the slot alone. The storage API holds back other events until a call is answered, so calls
overlap only inside one event. `AlarmInv` says of each moment who will see the earliest due row: the alarm that
is set (`Covered`), the drain the alarm has just woken (`Woken`), or the arming call under way, which carries a
time no later than any due row and read the slot as it still is (`ArmIsFresh`).

The hypothesis is not there to get the proof through. Without it the property is false: with three calls
at once, one that read an empty slot overwrites the earlier time set in between, and the last, which had read
that earlier time, sets nothing. TLC finds it with two uploads and `MaxArms = 3`; `collection` has
`MaxArms = 1`, as the theorem.

Liveness and everything about fairness or ENABLED is checked by TLC only; TLAPS cannot prove it
here.

## Namespace

The state is the tables `vfs_entries`, `vfs_path_tombstones`, `vfs_usage` and `vfs_path_changes` as
functions of the path, the two allocators that live in memory (`alloc`), and the limits of the host.
An operation is one synchronous transaction. It is written as a record of the state it works on,
which goes through the same steps as in the code (`CreateMissingParents`, `AssertCapacity`,
`RemoveExact`, `Insert`, `Announce`, `UpdateUsage`, ...), until `Finish` flushes the parents and
commits, or rolls back. A rollback keeps what the allocators handed out, as the code does.

| Action | Code |
| --- | --- |
| `WriteFile`, `AppendFile` | `writeFile` and `appendFile` of a string, and `touch` of an absent path |
| `SetMetadata` | `setMetadata`, `setOwnership`, `touch` of a path that is there |
| `Mkdir`, `Symlink`, `RemovePath`, `Move`, `Copy` | the methods of these names, recursive and replacing |
| `SetLimits` | the host's functions `maxInlineLogicalBytes` and `maxEntries` answer something else |
| `Evict` | the constructor of a new instance reads the allocators from the tables |

`Resolve` follows links like `resolveEntry`, `GuardToken` is `guardToken`, and operations take paths
that are already canonical, as `resolveAccess` hands them out. Only `StreamedWrites` keeps a path that
was canonical once and need not be so any more.

A body is its size. The feed is on, the caller is trusted. Left out: permissions, timestamps,
revisions, hard links (`SharedInodes`), opaque bodies (`OpaqueLifecycle`), relative targets
and dot segments, and the headroom of the database file.

## StreamedWrites

On top of `Namespace`: calls that hold bytes across awaits.

| Action | Code |
| --- | --- |
| `TakeToken` | a client calls `getMutationToken` and keeps the answer |
| `StartWrite` | `writeFile`, `writeFiles` or `appendFile` up to its first await: resolve, check the guard, plan |
| `Receive`, `BodyFails` | one piece of the body charged to `InFlightByteBudget`, refused by it, or not coming |
| `CommitWrite` | `commitInlineWrite`, `commitInlineWriteSet` or `commitAppend`, and the release of all leases |
| `OpenRead`, `CloseRead` | the snapshot of `readFile`, until its stream ends or is cancelled |
| `EvictCalls` | the instance goes with its calls and its budget |
| every action of `Namespace` | what other calls do in between |

A body that fails stands for a broken stream, `maxInlineFileBytes` and an abort alike. A write that is
skipped because the body is unchanged is not modelled; it changes nothing but the answer.

## MetadataIndex

`ChangesSince` is one page of the feed: it ends where a full page ends, but never between two paths with the
same number, since the cursor is a number. `FsMetadataIndex` reads pages until there is no more and
looks the changed paths up.

| Action | Code |
| --- | --- |
| `Initialize` | the first `refresh`: the cursor first, then a walk of the tree |
| `Refresh` | a later one: `readChanges`, `readChanged`, the capacity, then the entries and the cursor |
| `Restart` | `Evict`, and the index is gone too |
| every action of `Namespace` | the tree changes between two refreshes |

A refresh is synchronous and reads a local filesystem, so it is one step. The index holds entries as
they are in the tree, with every field that a stat shows and the model has. A failed refresh is a step that
changes nothing. `PageSize` is the size of a page and the number of changed paths that a refresh may read
whatever the capacity (both 1000 in the code).

### Runs of the three modules

| Run | Instance | Shows |
| --- | --- | --- |
| `tree` | `IndexSpec`: 5 paths, 5 transactions and refreshes, sizes 0 and 2, 2 pairs of limits, no links (`Targets` is empty), pages of 2, an index of 3 entries | `TreeShape`, `NlinkExact`, `UsageExact`, `InodesNeverReused`, `TokensNeverRepeat`, `EveryChangeIsAnnounced`, `GrowthWithinLimits`, `RefusesOnlyGrowth`, `StaleIsAhead` |
| `streams` | the same paths with links, 4 transactions, 2 calls, 5 requests, bodies of one unit, a budget of 2 | `StreamsTypeOK`, `BudgetExact`, `NoLostUpdate`, `TreeShape` |
| `guard` | one guarded write, links and directories | a violation of `GuardSound` |

The invariant `StreamsTypeOK` has the type invariant of `Namespace` as a part.

The paths are two directories with a name below each: a rename or copy between trees, a replacement,
a link to the other tree and a parent that has to be made all fit. Five steps are enough to
make a tree, remove it, make it again and evict in between; every run counts transactions
and refreshes only (`MaxSteps`). Pages of two rows and an index of three entries let a subtree of
two paths cross the end of a page, let a refresh read several pages, and let it overflow by what it read as
well as by what it would hold. In `streams` a transaction of another call is one that makes or removes a
directory, a file or a link, which is what can invalidate a plan. Links lead to the two
directories, so that a path whose link is replaced by its target stays one of the model
(`TargetsAssumption`); `MAX_SYMLINK_HOPS` is 2, which a cycle of two links exceeds. None of the properties is about progress, so no fairness
is assumed, and the runs do not check deadlock because behaviours end at `MaxSteps`.

### Proofs of Namespace

`NamespaceProofs` proves for any finite tree of paths, with symbolic links, any sizes, limits and hop
bound: `Invariance`, `TypeCorrect`, `TreeIsOne`, `TotalsAreExact`, `LinkCountsAreExact`, `NumbersAreNew`,
`TokensAdvance`, `ChangesAreTold` and `LimitsAreKept`; `tree` checks the same properties on trees without
links. Assumptions are `PathsAssumption` (the paths are finitely many and closed under parents),
`ValuesAssumption` (the domains of the constants), `TargetsAssumption` (a link that is replaced by its
target leads to one of the paths) and `AbsentAssumption` ("no row" is not a row, "not
given up" is not a reason to give up). `MaxSteps` is arbitrary.

`IInv` says of the database: the types; every row but the root hangs from a directory; totals and link
counts are what a scan finds; rows have numbers of their own below the durable counter, which the
allocator in memory is never behind; and the feed has no number ahead of the one in memory. The last
two are why an eviction between any two transactions is harmless: the new instance is not behind anything
that was ever durable.

The work is inside the transactions, which pass through states where none of this need hold. `Solid` is what
holds after each step of the code: the shape, the totals, the numbers, and that the allocators have only
advanced, also up to the point where the transaction was given up. `Linked` says that a link count and the delta
noted for it give the number of children, but for the directories that will be counted anyway (`Open`);
`Pending` that a directory with a delta will be flushed, which is what makes it legal to note it instead of
writing it. `Told` compares with the state before: versions have not gone back, and a path whose row differs
has a version it never had and an entry in the feed behind every older one.

* `GrownMore`, `CreateMissingParentsIs`: parents are made one below the other (`FoldLeft`), each in the
  place the one before it made.
* `CutIs`, `GraftIs`: a subtree goes, or is put where there was nothing. Link counts of directories that are
  in neither place stay right, and those inside have as many children as where they came from.
* `MovedNumbered`, `BesideNumbered`: rows that moved keep their numbers, copies have new ones, but for the
  file over a file, whose number nothing else has by then.
* `GraftedTold`, `CutTold`: tombstones are what keeps `Told` true over removal, creation, move and copy.

`OnlyGrowthIsRefused` proves `RefusesOnlyGrowth` for behaviours without symbolic links (`LinklessNext`), which
is also what `tree` checks; with links it does not hold (see "Links over files" below). A transaction that was
given up is computed to its end to know what it asked for: `Growing` says that this is more bytes or more
entries than there were. It follows from what was not affordable, also for a copy, where the row that it
replaces is given back after the weighing, and for parents, which are weighed on their own.

### Proofs of StreamedWrites

`StaleViewsProofs` proves for any finite set of calls, any requests and any budget:
`StreamsInvariance`, `StreamsTypeCorrect`, `BudgetIsExact`, `StreamsKeepTheTree` and `NoUpdateIsLost`, from
the assumptions of `Namespace` and `RequestsAssumption` (calls are finitely many; requests have the types
that the API gives them, and only `writeFiles` has several items). `SInv` adds to `IInv`:

* `Exact`: what the budget has given out is the sum of what the calls hold, and within its limit. A call
  returns its leases in the step that ends it, so the sum changes at one call only (`SumChangesAtOne`);
* `PlanIs`: the token that a plan keeps is never ahead of its path, and while the two are equal the row is
  the one that was seen. `Told` of the tree carries it over the transactions of others: what changes a row
  gives its path a version it never had. This is what makes a comparison of tokens at the commit
  as good as a comparison of rows;
* `CallIs`: a call holds one lease for each of its bodies until it ends, and none after.

A batch is stored item by item in one transaction (`OneMoreStored`): an item finds the rows of the earlier
ones, which no later item takes away, and parents that an earlier one made. `append` announces the path it
planned on and writes the one it resolved to, so its commit keeps only that versions advance and that
the tree stays one. `GuardSound` is violated (see the findings), and none of the properties is about progress.

### Proofs of MetadataIndex

`StaleViewsProofs` also proves `IndexInvariance` and `StaleIsNeverBehind` for `IndexSpec`, with the index of
any size, pages of any size, and refreshes at any time. The hypothesis `Targets = {}` says that the tree has
no symbolic links; `tree` checks the same instance. With links the property is false, because the answer of a
lookup may bear another path (see "The index and links" below).

`IndexInv` adds to `IInv` the type of the index and that its cursor is never ahead of the feed. The latter is
needed because a change must get a number ahead of the cursor, and it is new only with respect to the feed.

* `ChangesSinceIs`: a page ends between two numbers, so it has every path up to its cursor (`Covers`), also
  when a set-based change gave many paths one number. `CoversOn` puts two pages together, and
  `ReadChangesIs` follows for a refresh of any number of pages;
* `FoundIs`: without links the lookup of a path finds the row at that path, or none;
* `HeldIs`: what an index holds after a refresh is what it held, less what is gone, plus what is new, so the
  overflow that is computed before the entries change is the overflow of the result;
* `TreeKeepsIndex`: a transaction gives every path that it changes a number ahead of the whole feed
  (`NewChanges` of the tree), and no path goes back in the feed (`NewFeed`), so what was ahead of the cursor
  stays ahead.

## SharedInodes

Every name has a row of its own with a copy of the body; `link_identity` ties the rows of one file
together, and triggers carry changes from one to the others. A file that is open when its last name
goes has its body moved to `vfs_detached_inodes` until its last descriptor closes. So one file may be
stored in two rows, or in none, and every operation on names has to know.

| Action | Code |
| --- | --- |
| `CreateFile`, `WriteFile`, `RemoveName`, `RemoveTree`, `Move`, `MoveTree` | `writeFile`, `remove`, `move`, with `retain` where names go |
| `CopyFile`, `CopyOver`, `CopyTree` | `copy`, which makes a file over which it copies anew under the same number |
| `Link` | `link` |
| `Open`, `OpenNew`, `WriteNamed`, `WriteDetached`, `Close` | descriptors: `open`, `write` and `truncate`, `release` |
| `Evict` | descriptors are gone, the next constructor gives up detached bodies |

`MirrorMetadata`, `MirrorChunks` and `Recount` are the triggers. A body is a value with a size, and a
write replaces it. A write of a descriptor is one step: the queue that a descriptor keeps for its own
calls orders them, and each is one transaction. Left out: opaque bodies of descriptors, links to
symlinks, permissions, offsets and the change feed.

`InodeContract` is what a reader of `link(2)` and `open(2)` expects: names and descriptors lead to
inodes, an inode has one body, and it lives as long as something leads to it. `ImplementsInodes` maps
rows and detached bodies to it; two rows of one file that disagree map to no body at all.

| Run | Instance | Shows |
| --- | --- | --- |
| `handles` | 2 directories with 2 names each, 4 inode numbers, 2 descriptors, bodies of 0 and 1 bytes, a quota of 2, at most 2 names of a file | `TypeOK`, `UsageExact`, `ImplementsInodes` |
| `links` | 3 numbers, a quota of 3, up to 3 names of a file | a violation of `UsageExact` |

Two names are what retention, mirroring and replacement need; a third is where the stored count goes
wrong, so `handles` stops at two (`MaxLinks`). Four numbers let a directory of two files be copied, and
a linked file be copied over by a third. Refused calls are no steps, therefore no deadlock check.

### Proofs

`SharedInodesProofs` proves for any directories, names, bodies, descriptors, quota and bound on links:
`Invariance`, `TypeCorrect` and `Refinement`, and `ChargedExactly` for files with two names at most. The
assumption is `InodeAssumption`: names and descriptors are finite sets, the empty body has no bytes, and
"none" is neither a body nor a number nor a row.

`TypeOK` is not inductive: that a body is detached only while no name leads to it depends on which rows carry
which numbers, and that names show one body on what the triggers could reach. `IInv` adds `Rows`, of the table:

* `NumbersAreSpent`, `IdsDiffer`: a row carries numbers that were handed out, and an id of its own, so a
  new file shares nothing with an old one;
* `NumbersBelong`: a row whose id is the number of a linked file is one of its names. The name a file was
  made under may be gone while its number lives on as a `link_identity`; what `entry()` looks up by
  "id or identity" is one file only because of this;
* `LinksAgree`, `SizesAgree`: two names of a file both know that it is linked and have one body. This is what the
  triggers keep, and what they need: a name that does not carry the identity would be left out;

and `Held`, of the descriptors: what is open was handed out, no row uses its number for another file, and it
has a name or a detached body; what is detached is open and has no name.

A change of the table is one of four: rows are rewritten (`RewrittenRows`), given other names or dropped
(`RenamedRows`), added (`AddedRows`), or one is linked (`LinkedRows`). Each lemma is about any two tables, so
a move of a directory, a removal and a replacement are the same fact with another renaming. `RetainedIs` says
which inodes `retain()` finds, in terms of the names that lead to them. The refinement reads each step from the
table of names before and after: `Mapped` gives what the contract is shown, `HoldIs` that a body shown to it stays
while something leads to it.

`ChargedExactly` adds to `IInv` that usage is the sum of rows and detached bodies, and that every row knows how many
names its file has (`CountsAgree`), since a write multiplies by it. The hypothesis `MaxLinks <= 2` is where
the code stops being right: link() tells two rows, and with a third name a row keeps an old count (run
`links`). The proof uses the bound in `LinkCharged` only.

`Sums` proves what `MapThenSumSet` computes over a finite set: that its recursion has one solution whatever the
order of elements, that elements can be taken out, added, renamed and split off, and how a sum changes with its
weights. The library's induction theorems take an operator and cannot be instantiated here, so each proof takes
a smallest set for which the claim fails (`LeastSet`).

## Pipes

`BytePipe` has no specification of its own: it is the state of `shell/pipe.ts` and its steps, for
`SharedPipe` and `Pipeline` to compose. A step is what runs without an await; a write is a record
that goes from "queued" behind the writes before it, to "waiting" for room, "woken", and "accepted"
or "failed" before the promise settles, each in a microtask of its own.

| Action | Code |
| --- | --- |
| `Write`, `StartWrite`, `ResumeWrite`, `SettleWrite` | `PipeSink.write` up to its first await, and its continuations |
| `Clone`, `Close`, `FinishClose`, `Abort` | the same methods of a descriptor; the last one ends the pipe |
| `Read`, `Release`, `Cancel` | the reader: next chunk, `releaseLock`, `cancel` |
| `DeliverCancel` | the consumer of a root pipe is gone, the execution hears of it a microtask later |
| `AbortExecution` | the execution's signal, which every pipe listens to |
| `IdleTimeout` | the timer of a root pipe whose writer waits |

A chunk is one unit of capacity, of the limit of the pipe and of the I/O budget.

`SharedPipe` puts them in any order: descriptors of one pipe, a reader, the signal. `PipeContract` is a
FIFO that ends when it is empty, or fails, or is left by its reader; `ImplementsPipe` maps onto it.

`Pipeline` is `runPipelineStages` and what is around it: each stage is an arbitrary command that reads,
writes, ends or throws; its errors become a status, a diagnostic on the shared stderr or a fatal error;
it closes what it holds and cancels what it did not read. The execution rejects with the first stage
that does, writes why, and closes the outputs; the caller reads, cancels, or does neither.

| Run | Instance | Shows |
| --- | --- | --- |
| `pipe` | 1 pipe, 3 chunks, 2 descriptors, room for 2, a budget and a limit of 2 | `TypeOK`, `NoLostWakeup`, `AcknowledgedIsKept`, `GoodEndIsComplete`, `ImplementsPipe`, `NothingHangs` |
| `pipeline` | 2 stages that write at most 2 chunks each, room for 1, a budget of 2, `pipefail` | `SuccessIsComplete`, `NobodyWaitsForTheDead`, `EverythingSettles` |

Three chunks against room for two make a writer wait behind a full queue with another behind it; a
budget and a limit of two let either refuse the third. Two stages have every relation a pipeline
has: first, last, and a neighbour on both sides of a pipe; the shared stderr is a pipe of three
writers.

Fairness. In both, continuations run and the idle timer fires. In `SharedPipe` a reader between two
commands reads on, and the caller of a root pipe need not. In `Pipeline` a command that waits for
nothing does something, and has a bounded amount to write; nothing is asked of the caller, of the
deadline, or of whoever may abort, so `EverythingSettles` holds by the idle timer alone.

### Proofs

`SharedPipeProofs` proves for any number of pipes, chunks and descriptors, any capacity, limits and
budget: `TypeCorrect`, `WakeupCorrect`, `AcknowledgedCorrect`, `EndCorrect` and
`PipeImplementsContract`. Assumptions are `PipeAssumption` (a capacity of at least one, limits that are
natural numbers) and `SharedPipeAssumption` (there are pipes and descriptors, and "no error" is not
an error). `NothingHangs` needs fairness and is checked by TLC only.

None of the properties is inductive. That an acknowledged chunk is kept depends on the write
having put it into the pipe before it waited, which a writer that resumes no longer checks; that a
good end is complete depends on nobody writing once the last descriptor let go. `Sound` is what holds
of one pipe after every step of its code, also in the middle of an action: delivered and queued chunks
together are what was accepted, in order; a write that started has its chunk among them; only the
head of the writes has started; a pipe is asked to close only when its writing end is terminal, has no
writes left and no failure behind it; it is closed only when asked or when its consumer left; and a
pipe that failed without a reason to cancel is terminal. `Awake` is `NoLostWakeup` of one pipe; it breaks
inside an action, when the queue shrinks, and `WakeGood` shows that `WakeWriters` restores it. `Good` is both,
and `IInv` says it of every pipe.

For every step there is a lemma that gives `Good` and `Step`, which is what the step means to the
contract; the refinement is then the last lemma, read with the contract's actions. `FailGood`,
`SignalGood`, `CancelGood` and the others rest on three facts: a change of the writes alone is no step
of the contract (`SameStep`), neither is a change of descriptors (`HandlesGood`), and moving the head of
the queue to the reader leaves their concatenation as it was (`MoveHead`).

### Proofs of Pipeline

`PipelineProofs` proves for a pipeline of any number of stages, that write any number of chunks, with or
without `pipefail`, and any capacity, limits and budget: `PipelineInvariance`, `NobodyWaits`,
`SuccessLosesNothing`, `PipesKeepTheirWord` and `PipelineImplementsPipe`. Assumptions are `PipeAssumption`,
`SharedPipeAssumption` and `PipelineAssumption` (there is a stage, and a pipe and a handle for each stage and for
the execution; "no outcome" is no outcome). The module extends `SharedPipeProofs`, whose lemmas say what a
step makes of one pipe; nothing is said of `offered`, the history variable of `SharedPipe`, which no action of
`Pipeline` mentions.

`PInv` holds of the pipes what `SharedPipeProofs` shows of pipes in any hands (`PipesGood`), and adds who
holds them:

* `Tidy`: whoever waits for a write holds the pipe and waits for that one only, and a pipe whose last
  descriptor is gone has ended or was asked to. So the last descriptor to close finds no write under way, and
  `closeDescriptors` ends the pipe at once (`ClosePipeEases`);
* `Awaits`: a write belongs to a stage at its own output, to a stage at its diagnostic, or to the execution
  at its report. What is done or free to act has no write under way (`StageWaitless`), and the output of a
  stage has one write at most (`OwnWrites`);
* `AboutToThrow`: without an abort and without a stage that was rejected, an output that failed is that of a
  stage that learns of it from its own write, and is rejected with the limit. This is why success
  excludes failed pipes: an error that is only a status never fails the stage's own pipe, and the one
  that does cannot be swallowed on the way to `thrown`;
* `Counted`: what a stage wrote is what its output accepted, as long as that has its reader and did not fail.

`Eases` is a step of one pipe at which no write begins or ends. Reads, cancellations, aborts and descriptors that
let go are such steps (`DequeuedEases` to `SinkAbortEases`), on any number of pipes at once, and `CalmKeeps`
shows once what they keep. Steps at which a write is called, goes on or settles concern one pipe (`WriteIs`,
`GoesOn`, `SettledIs`), and `WorkKeeps` does the same for these. `EverythingSettles` needs fairness and is
checked by TLC only.

## Collaboration

A document is edited in memory while its file goes on in the namespace. The registry keeps, for each
open path, the text, the stored text it knows (`published`) and that text's token.

| Action | Code |
| --- | --- |
| `Open`, `Close`, `HostEdits` | the host of the editor: `registry.open`, `close`, `update` |
| `Publish`, `CommitPublish` | `publish`, around the await of its digest |
| `Reconcile`, `FinishReconcile` | `reconcile`, around the read of the file, with the three-way merge |
| `ViewRead`, `StartWrite`, `FinishWrite` | a read through the view, and a write guarded by it, around the collection of its body |
| `OutsideWrite`, `Touch`, `Remove`, `Move` | changes of the namespace, seen by the registry in the transaction that makes them |

Texts have a fixed number of lines, and edits replace lines: the merge is the code's, on texts whose
lines keep their places. No two lines of a text are taken for equal, so the alignment of `diff` does
not enter. Two fields of a document are history, which the code does not keep: `shared` is the last text
it had in common with its file, whatever the code recorded, and `unread` says that it was published to a
file it had not read since it was moved there (the disagreement `refresh` below). Such a document does
not know what the merge takes for its base, so `NoEditLost` makes no claim for it: with 10 versions, one
publication and one reconciliation TLC undoes an edit that way in 11 steps.

| Run | Instance | Shows |
| --- | --- | --- |
| `collab` | 2 paths, 2 lines of 2 values, 2 operations, 7 versions in all | `TypeOK`, `KnownBase`, `CleanIsPublished`, `NoEditLost`, `GuardedWriteSaw` |
| `refresh` | 2 paths, 1 publication, 9 versions | a violation of `FlushSeesWhatItReplaces` |

Two lines are needed for a merge that is not a conflict, two operations for a result that is recorded
on a document someone else changed. Only one of the two operations writes through the view or
reconciles; both publish.

Not in the model: the microtask between the commit of a publication and its record, in which only other
microtasks run; and that, while the namespace announces the document's own publication, the registry
still has the old token. A write that the view delegates to the file after the document closed
is checked against the token it was started with.

### Proofs

`CollaborationProofs` proves for any number of files, lines, values and operations under way:
`Invariance`, `TypeCorrect`, `BaseIsKnown`, `CleanShowsPublished`, `WriterSaw` and `EditsSurvive`.
Assumptions are `CollaborationAssumption` (a text has a line, the roles are roles of operations, the
bound is a natural number) and `NoneIsNoDocument` ("no document" is not a document). `MaxChanges` is
arbitrary, so the bound of the runs is no limit of the theorems.

`IInv` (in `Collaboration`) adds to the properties what each operation still knows of the document and
the file it met before its await, at whatever version they are by now:

* `NamesAreOld`, `TokensLag`: identities and versions come from the clock, once each, and a document
  that read its file is not ahead of it; a version or a token that is met again is the same one;
* `PublishesKnown`: while the file has the version that a publication goes by, the document it met, if it
  is still there, says so too, though it may have been edited, told of the file, or moved away;
* `ReconcilesKnown`: while the file has the version that was read, it holds the text that was read. The
  document may have been told of just that text by another operation in between, at the same version;
  then the merge has nothing left to bring in, which is what keeps a second merge from undoing an edit;
* `WritersSaw`: what the caller of a guarded write saw is the document's or the file's text as long as
  both have the versions of its token;
* `SharedIsPublished`: the history field is what the code recorded.

A step is described by what it makes of one path (`PathMove`): the file stays or its version grows; the
document closes, is new, or is the same one, edited at a new version or not, and told of its file or not.
`OperationKept` shows once that any operation under way keeps what it relies on across any such
change, so every action needs only its own `PathMove`, and what its own operation goes on with.
`EditsSurvive` then rests on the merge: `InHunk` (every changed line belongs to a hunk, the interval of
changed lines around it) and `MergeKeepsEdits` (without a conflict, a line that both sides changed was
changed to the same by both).

## Bounds and symmetry

Versions, clocks, transactions and allocations grow in the code and have a bound in each run
(`MaxTime`, `MaxVersion`, `MaxPuts`, `MaxArms`, `MaxFaults`, `MaxCrashes`, `MaxSteps`, `MaxIno`, `MaxLinks`,
`MaxReads`, `MaxOut`, `MaxChanges`); a step beyond it does not happen, so liveness is only
stated where the bound cannot keep a fair step from happening. Paths, descriptors, drains, verifiers,
operations and values are interchangeable where the configurations use symmetry; runs with
liveness do not.

| Run | Distinct states |
| --- | --- |
| `verifiers`, `collection`, `eventually` | 2,335,107; 1,501,957; 261,999 |
| `tree`, `streams` | 270,110; 515,375 |
| `handles` | 25,075 |
| `pipe`, `pipeline` | 42,995; 651,078 |
| `collab` | 727,986 |

## Disagreements between documentation and code

Three runs end in a violation.

* `guard`. docs/posix-compatibility.md (17) and docs/architecture.md (234-242) say that a guard rejects
  a path that was repointed through a link, because it covers every version on the way. The token
  is a list of versions without their paths: a different chain whose versions are equal passes.
* `links`. docs/fs.md (154-155) says that inline storage is charged for each name. `link()` writes the
  new count on the two rows it holds and the triggers do not carry it, so after a third link the
  second name still counts two, and a write through it charges for two rows while three grow.
* `refresh`. docs/operations.md (514-515) says that a flush does not overwrite a change it did not see.
  Versions count per path. An open document that is moved may hold, by chance, the version of its new
  path: it is edited and published at version 1 of `p`, someone writes `p` (version 2), `p` is moved to `q`,
  which comes out at version 1. While the publication waits in `reconcile`, a `touch` of `q` finds the
  tokens equal and advances the document's; `reconcile` sees a changed token and returns, and the
  publication overwrites the text it never read.

Seen while modelling, without a run:

* Maintenance after an eviction. docs/operations.md (704-705, 738) says that the persisted expiry and
  alarm recover a failed upload. The deadline is durable after the transaction of `beginOpaqueUpload`
  and the alarm is set after another await; an eviction in between leaves a reservation without
  an alarm, and `initialize()` arms one only when it recovered detached inodes. `AlarmCovers` is
  therefore stated for states where no eviction cut an arming call off, and `eventually` has none.
* Overlapping arming calls. `scheduleGarbageAlarm` compares with the slot it read before an await and then sets
  it (vfs/sql-write-plan-base.ts:193-194). Three calls of one event that overlap, such as from the stages of a
  pipeline, could leave the alarm later than the earliest due row if the storage API interleaves their answers.
* The host's alarm. docs/operations.md (753-756) says that a host timer is never stopped or delayed. An
  earlier deadline replaces the host's alarm, which is not set again when maintenance is done.
* Links over files. docs/operations.md (662-663) says that only growth is refused. `commitSymlink`
  (vfs/sql-metadata-base.ts:319) weighs one more entry although it removed what stood at the path, so it
  fails above a lowered `maxEntries`. `copy` weighs the difference.
* Append. docs/operations.md (427) says that every path change is recorded. `commitAppend` looks its
  planned path up again through links and compares the version only. If the directory was renamed and
  a link took its name while the body streamed, the renamed file grows, and the feed records the old
  path.
* The index and links. docs/fs.md (182-184) says that a refresh returns what changed since the last one.
  `changedStat` (fs/metadata-index.ts:72) looks a changed path up through links above it. When a
  directory `/a` with a file `x` was removed and a link `/a` to another directory with an `x` took its place,
  the lookup of `/a/x` answers with the stat of that other file under its own path: `/a/x` is neither updated nor
  removed, and stays in the snapshot. `StaleIsAhead` is therefore checked on trees without links. For the same
  reason a loop of links above a changed path makes every later refresh throw. And a refresh that failed
  because too many paths changed reads at least as many the next time: rows never leave the feed.
* Copies over linked files. docs/architecture.md (163-164) says that changes of aliases are in the feed. A
  copy over a file that has other names keeps its inode: `removeExact` then skips
  `publishLinkedMetadata`, `finishCopy` records only the target, and the other names change unannounced.
* Links and descriptors. docs/posix-compatibility.md (19, 21) still lists them as unsupported.
* Limits in a pipeline. docs/operations.md (308) says that a limit fails the execution; a stage that
  fails on one also closes its output normally (shell/shell-runtime.ts:89), so the next stage reads
  a truncated input to a clean end before the execution reports.
* A deadline or a cancellation that comes when all outputs are done but the status is not yet reported
  leaves the status at 0; `SuccessIsComplete` is stated for executions that were not aborted.
* When one stage rejects, its diagnostic turns the charging of I/O off for the whole execution
  (shell/budget.ts:284) while other stages still write.
* A comment says that an edge holds at most 64 KiB; it holds less than that, and then one more chunk of
  any size.

## Not modelled

`components` in `PROJECT.json` lists every part with its status. Left out for good: SQL text, schema
migration, message wording, MIME types, argument checks of the RPC façade, test doubles, demo,
benchmarks and scripts. Left for later modules: what the plan still lists. The permission checks of
`sql-posix.ts` are guards without history; the models act for a trusted caller.

How much of the repository the models stand for is bounded by what it is: of its 123,000 lines of
code, more than 70,000 are generated reference runtimes, benchmarks, evaluations, tests of the demo and
the demo itself. The library under src/src has 50,000 lines; 33,500 of these are the shell, most of
them about ninety text commands (`sort`, `awk`, `sed`, `jq`, `curl`, ...) and a parser, which are
sequential functions of their input. The parts with state that outlives a call, shared between calls, are
what is modelled here, and the share of lines stays far below a third.
