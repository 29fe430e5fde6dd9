---------------------------- MODULE MetadataIndex ----------------------------
(***************************************************************************)
(* The change feed as it is read, in pages that never cut an atomic        *)
(* change, and the index of metadata that a host keeps from it:            *)
(* changesSince, and FsMetadataIndex of fs/metadata-index.ts.  Everything  *)
(* that changes the tree is in Namespace; the index is refreshed between   *)
(* any two transactions, refuses to outgrow its capacity, and is lost with *)
(* the instance that holds it.                                             *)
(***************************************************************************)
EXTENDS Namespace

CONSTANTS
  PageSize,   \* rows a page of the feed aims at; the paths any refresh may read
  Maximum     \* entries the index may hold

ASSUME IndexAssumption ==
  /\ PageSize \in Nat \ {0}
  /\ Maximum \in Nat \ {0}

VARIABLE index  \* entries, cursor and initialized of the index

ivars == <<vars, index>>

Unread == [entries |-> [p \in Paths |-> Absent], cursor |-> 0, initialized |-> FALSE]

------------------------------------------------------------------------------
(* changesSince *)

Ahead(since) == {p \in Paths : changes[p].seq > since}
UpTo(since, seq) == {p \in Ahead(since) : changes[p].seq <= seq}

(* The number at which a full page ends; none, if all rows fit in one page. *)
Cutoffs(since) ==
  {seq \in {changes[p].seq : p \in Ahead(since)} :
     /\ Cardinality(UpTo(since, seq - 1)) < PageSize
     /\ Cardinality(UpTo(since, seq)) >= PageSize}

\* Mutant: a page ends after PageSize rows, in the middle of a change.
ChangesSinceByRow(since) ==
  LET seqs == {changes[p].seq : p \in Ahead(since)}
      paths == CHOOSE s \in SUBSET Ahead(since) :
                 /\ Cardinality(s) = Min({PageSize, Cardinality(Ahead(since))})
                 /\ \A p \in s, q \in Ahead(since) \ s : changes[p].seq <= changes[q].seq
  IN  [paths |-> paths,
       cursor |-> Max({since} \cup {changes[p].seq : p \in paths}),
       more |-> paths # Ahead(since)]
ChangesSince(since) ==
  LET cutoffs == Cutoffs(since)
      paths == IF cutoffs = {} THEN Ahead(since) ELSE UpTo(since, Max(cutoffs))
  IN  [paths |-> paths,
       cursor |-> Max({since} \cup {changes[p].seq : p \in paths}),
       more |-> paths # Ahead(since)]

(* readChanges: page after page until there is no more. *)
ReadChanges(since) ==
  LET read[n \in 0 .. Cardinality(Paths)] ==
        IF n = 0 THEN ChangesSince(since)
        ELSE LET before == read[n - 1]
                 page == ChangesSince(before.cursor)
             IN  IF before.more THEN [page EXCEPT !.paths = @ \cup before.paths] ELSE before
  IN  read[Cardinality(Paths)]

------------------------------------------------------------------------------
(* FsMetadataIndex *)

(* A changed path is looked up again, through links above it, and comes    *)
(* back under the path where its row is.                                   *)
Found(p) == Resolve(entries, p, FALSE)
Gone(paths) == {p \in paths : entries[Found(p)] = Absent}

Held(es) == Cardinality(Living(es, Paths))
Grown(paths) ==
  Held(index.entries) - Cardinality(Living(index.entries, Gone(paths)))
  + Cardinality({p \in paths \ Gone(paths) : index.entries[Found(p)] = Absent})

Keep(es, cursor) ==
  index' = [entries |-> es, cursor |-> cursor, initialized |-> TRUE]

(* The first refresh takes the cursor, then walks the tree. *)
Initialize ==
  LET read == ReadChanges(0)
  IN  /\ ~index.initialized
      /\ IF \/ Cardinality(read.paths) > Max({Maximum, PageSize})
            \/ Held(entries) > Maximum
         THEN UNCHANGED index
         ELSE Keep(entries, read.cursor)
      /\ Step
      /\ UNCHANGED <<durable, alloc, limits, refused>>

(* A later one reads what changed; if it fails, it changes nothing. *)
Refresh ==
  LET read == ReadChanges(index.cursor)
      updated == {Found(p) : p \in read.paths \ Gone(read.paths)}
      fails == \/ Cardinality(read.paths) > Max({Maximum, PageSize})
               \/ \E p \in read.paths : Loops(entries, p, FALSE)
               \/ Grown(read.paths) > Maximum
  IN  /\ index.initialized
      /\ IF fails THEN UNCHANGED index
         ELSE Keep([p \in Paths |-> IF p \in updated THEN entries[p]
                                    ELSE IF p \in Gone(read.paths) THEN Absent
                                    ELSE index.entries[p]],
                   read.cursor)
      /\ Step
      /\ UNCHANGED <<durable, alloc, limits, refused>>

(* A restart loses the index with the rest of the memory. *)
Restart ==
  /\ Evict
  /\ index' = Unread

IndexInit == Init /\ index = Unread

(* Trees without symbolic links, under limits that change. *)
IndexNext ==
  \/ (Files \/ Trees \/ \E l \in Limits : SetLimits(l)) /\ UNCHANGED index
  \/ Restart
  \/ Initialize
  \/ Refresh
IndexSpec == IndexInit /\ [][IndexNext]_ivars

------------------------------------------------------------------------------
(* What the index holds is what the tree holds, except where the feed has  *)
(* a change that the next refresh will read: no page, no overflow and no   *)
(* operation on the tree (its parents, link counts, versions, totals of    *)
(* sizes) leaves an entry stale for good (docs/fs.md, "Incremental host    *)
(* metadata index").  Trees without symbolic links.                        *)
StaleIsAhead ==
  index.initialized =>
    /\ \A p \in Paths :
         index.entries[p] # entries[p] => changes[p].seq > index.cursor
    /\ Held(index.entries) <= Maximum

=============================================================================
