---------------------------- MODULE StaleViewsProofs ----------------------------
(***************************************************************************)
(* What is read of the tree and used after the tree went on: the plan of a *)
(* write whose body streams in, and the index of a host.                   *)
(*                                                                         *)
(* StreamedWrites: the shared budget holds what the calls hold, a write    *)
(* replaces the row that it planned on, and a commit leaves the tree, the  *)
(* totals and the numbers in order, whatever happened while bodies         *)
(* streamed.  The invariant adds to the one of Namespace what a call       *)
(* knows: the token of a plan is never ahead of its path, and while the    *)
(* two are equal the row is the one that was seen (PlanIs).                *)
(*                                                                         *)
(* MetadataIndex: an index is stale only where its next refresh will look. *)
(* Pages of the feed leave nothing behind their cursor (Covers), what      *)
(* changes in the tree gets a number ahead of every cursor (NewChanges),   *)
(* and no path goes back in the feed (NewFeed).                            *)
(***************************************************************************)
EXTENDS StreamedWrites, MetadataIndex, NamespaceProofs


------------------------------------------------------------------------------
(* Resolution *)

\* The rows are a tree of the model.
Rows(es) == es \in Table /\ Shaped(es)

\* A link on the way of a path, and what the path becomes.
LEMMA HopIs ==
    ASSUME NEW es, Rows(es), NEW p \in Paths, NEW follow, LinksOnTheWay(es, p, follow) # {}
    PROVE  Rebase(p, NextLink(es, p, follow), es[NextLink(es, p, follow)].target) \in Paths
<1> DEFINE S == LinksOnTheWay(es, p, follow)
           q == NextLink(es, p, follow)
           lengths == {Len(r) : r \in S}
<1>1. ASSUME NEW r \in S
      PROVE  r \in Paths /\ Is(es, r, "symlink") /\ IsPrefix(r, p)
  <2>1. CASE es[p] # Absent
    <3>1. r = p /\ Is(es, r, "symlink")
      BY <2>1 DEF LinksOnTheWay
    <3>2. IsPrefix(p, p)
      BY PrefixOrder
    <3>3. QED
      BY <3>1, <3>2
  <2>2. CASE es[p] = Absent
    <3>1. r \in Above[p] /\ Is(es, r, "symlink")
      BY <2>2 DEF LinksOnTheWay
    <3>2. r \in Paths /\ IsPrefix(r, p)
      BY <3>1 DEF Above, IsStrictPrefix
    <3>3. QED
      BY <3>1, <3>2
  <2>3. QED
    BY <2>1, <2>2
<1>2. \E r \in S : \A s \in S : Len(r) <= Len(s)
  <2>1. lengths \subseteq Nat /\ lengths # {}
    BY <1>1, PathIsSequence
  <2>2. PICK n \in lengths : \A m \in lengths : n <= m
    BY <2>1, LeastNumber
  <2>3. QED
    BY <2>2
<1>3. q \in S
  BY <1>2 DEF NextLink
<1>4. q \in Paths /\ Is(es, q, "symlink") /\ IsPrefix(q, p)
  BY <1>1, <1>3
<1> HIDE DEF S, q
<1>5. es[q].target \in Targets
  <2>1. es[q] \in Entry /\ es[q].kind = "symlink"
    BY <1>4 DEF Rows, Table, Is
  <2>2. QED
    BY <2>1 DEF Entry
<1>6. Len(q) \in 1 .. Len(p)
  <2>1. q # Root
    <3>1. Is(es, Root, "directory")
      BY DEF Rows, Shaped
    <3>2. QED
      BY <1>4, <3>1 DEF Is
  <2>2. Len(q) \in Nat /\ Len(q) # 0 /\ Len(q) <= Len(p) /\ Len(p) \in Nat
    BY <1>4, <2>1, ParentIs, PrefixIs, PathIsSequence
  <2>3. QED
    BY <2>2
<1>7. es[q].target \o SubSeq(p, Len(q) + 1, Len(p)) \in Paths
  BY <1>5, <1>6, TargetsAssumption
<1>8. QED
  BY <1>7 DEF Rebase, q

\* The path after a link more, or the same path where none is in the way.
Hop(es, q, follow) ==
  IF LinksOnTheWay(es, q, follow) = {} THEN q
  ELSE Rebase(q, NextLink(es, q, follow), es[NextLink(es, q, follow)].target)

\* at is the way of p, n links long.
IsWalk(es, p, follow, n, at) ==
  at = [k \in 0 .. n |-> IF k = 0 THEN p ELSE Hop(es, at[k - 1], follow)]

\* There is one of any length.
LEMMA WalkExists ==
    ASSUME NEW es, NEW p, NEW follow
    PROVE  \A n \in Nat : \E at : IsWalk(es, p, follow, n, at)
<1> DEFINE bad == {n \in Nat : ~ \E at : IsWalk(es, p, follow, n, at)}
<1> SUFFICES ASSUME bad # {} PROVE FALSE
  OBVIOUS
<1>1. PICK n \in bad : \A m \in bad : n <= m
  <2>1. bad \subseteq Nat
    OBVIOUS
  <2> HIDE DEF bad
  <2>2. QED
    BY <2>1, LeastNumber
<1>2. n # 0
  <2>1. IsWalk(es, p, follow, 0, [k \in 0 .. 0 |-> p])
    BY DEF IsWalk
  <2>2. QED
    BY <2>1
<1>3. n - 1 \in Nat /\ n - 1 \notin bad /\ n \in Nat
  BY <1>1, <1>2
<1>4. PICK f : IsWalk(es, p, follow, n - 1, f)
  BY <1>3
<1> DEFINE g == [k \in 0 .. n |-> IF k = n THEN Hop(es, f[n - 1], follow) ELSE f[k]]
<1>5. ASSUME NEW k \in 0 .. n
      PROVE  g[k] = IF k = 0 THEN p ELSE Hop(es, g[k - 1], follow)
  <2>1. \A i \in 0 .. n - 1 : f[i] = IF i = 0 THEN p ELSE Hop(es, f[i - 1], follow)
    BY <1>4 DEF IsWalk
  <2>2. CASE k = n
    <3>1. n - 1 \in 0 .. n /\ n - 1 # n /\ n \in 0 .. n
      BY <1>3
    <3>2. g[k] = Hop(es, f[n - 1], follow) /\ g[n - 1] = f[n - 1]
      BY <2>2, <3>1
    <3>3. QED
      BY <1>2, <2>2, <3>2
  <2>3. CASE k # n
    <3>1. k \in 0 .. n - 1 /\ g[k] = f[k]
      BY <1>3, <2>3
    <3>2. k # 0 => k - 1 \in 0 .. n /\ k - 1 # n
      BY <1>3, <2>3
    <3>3. k # 0 => g[k - 1] = f[k - 1]
      BY <3>2
    <3>4. QED
      BY <2>1, <3>1, <3>3
  <2>4. QED
    BY <2>2, <2>3
<1>6. IsWalk(es, p, follow, n, g)
  BY <1>5 DEF IsWalk
<1>7. QED
  BY <1>6

\* Links lead from path to path.
LEMMA WalkIs ==
    ASSUME NEW es, Rows(es), NEW p \in Paths, NEW follow
    PROVE  \A k \in 0 .. MAX_SYMLINK_HOPS : Walk(es, p, follow)[k] \in Paths
<1> DEFINE at == Walk(es, p, follow)
           bad == {k \in 0 .. MAX_SYMLINK_HOPS : at[k] \notin Paths}
<1>1. IsWalk(es, p, follow, MAX_SYMLINK_HOPS, at)
  <2>1. \E f : IsWalk(es, p, follow, MAX_SYMLINK_HOPS, f)
    BY ValuesAssumption, WalkExists
  <2>2. at = CHOOSE f : IsWalk(es, p, follow, MAX_SYMLINK_HOPS, f)
    BY DEF Walk, IsWalk, Hop
  <2>3. QED
    BY <2>1, <2>2
<1> HIDE DEF at
<1>2. \A k \in 0 .. MAX_SYMLINK_HOPS : at[k] = IF k = 0 THEN p ELSE Hop(es, at[k - 1], follow)
  BY <1>1 DEF IsWalk
<1> SUFFICES ASSUME bad # {} PROVE FALSE
  BY DEF at
<1>3. PICK k \in bad : \A m \in bad : k <= m
  <2>1. bad \subseteq Nat
    OBVIOUS
  <2> HIDE DEF bad
  <2>2. QED
    BY <2>1, LeastNumber
<1>4. k # 0
  BY <1>2
<1>5. k - 1 \in 0 .. MAX_SYMLINK_HOPS /\ k - 1 \notin bad
  BY <1>3, <1>4, ValuesAssumption
<1>6. at[k - 1] \in Paths
  BY <1>5
<1>7. Hop(es, at[k - 1], follow) \in Paths
  BY <1>6, HopIs DEF Hop
<1>8. QED
  BY <1>2, <1>4, <1>7

\* A path resolves to a path.
LEMMA ResolveIs ==
    ASSUME NEW es, Rows(es), NEW p \in Paths, NEW follow
    PROVE  Resolve(es, p, follow) \in Paths
<1>1. MAX_SYMLINK_HOPS \in 0 .. MAX_SYMLINK_HOPS
  BY ValuesAssumption
<1>2. QED
  BY <1>1, WalkIs DEF Resolve

------------------------------------------------------------------------------
(* The invariant *)

\* What a plan knows of its path.
PlanIs(es, tombs, item) ==
  /\ item.path \in Paths /\ item.size \in Nat /\ item.token \in Nat
  /\ Version(es, tombs, item.path) >= item.token
  /\ Version(es, tombs, item.path) = item.token => es[item.path] = item.entry
  /\ item.entry # Absent => item.entry.kind = "file"

Phases == {"idle", "collecting", "reading", "done", "failed"}

\* A call and its plans, which are of different paths.
CallIs(call) ==
  /\ call = [phase |-> call.phase, op |-> call.op, items |-> call.items, held |-> call.held]
  /\ call.phase \in Phases
  /\ call.held \in Seq(Nat)
  /\ call.items \in Seq({call.items[i] : i \in DOMAIN call.items})
  /\ DOMAIN call.held = DOMAIN call.items
  /\ call.phase \notin {"collecting", "reading"} => call.held = << >>
  /\ call.phase = "collecting" =>
       /\ call.op \in Ops \ {"readFile"}
       /\ call.op # "writeFiles" => Len(call.items) = 1
       /\ \A i, j \in DOMAIN call.items : call.items[i].path = call.items[j].path => i = j

\* What the calls hold.
LeasesOf(cs) == [c \in Calls |-> Leased(cs[c])]
Exact(cs, u) == u = SumOf(LeasesOf(cs), Calls) /\ u <= MaxInFlight

SInv ==
  /\ IInv
  /\ DOMAIN calls = Calls /\ calls = [c \in Calls |-> calls[c]]
  /\ \A c \in Calls : CallIs(calls[c])
  /\ \A c \in Calls : \A i \in DOMAIN calls[c].items : PlanIs(entries, tombstones, calls[c].items[i])
  /\ Exact(calls, used)

------------------------------------------------------------------------------
(* The budget *)

\* The sums of the module are the sums of the lemmas.
LEMMA SumFunctionIs == \A w, S : SumFunctionOnSet(w, S) = SumOf(w, S)
<1> SUFFICES ASSUME NEW w, NEW S PROVE SumFunctionOnSet(w, S) = SumOf(w, S)
  OBVIOUS
<1>1. SumFunctionOnSet(w, S) = Value(w, S)
  BY DEF SumFunctionOnSet, FoldFunctionOnSet, MapThenFoldSet, Value, Adds, Chosen
<1>2. QED
  BY <1>1, SumIsValue

\* A call holds a number of bytes, none when it holds no body.
LEMMA LeasedIs ==
    ASSUME NEW call, call.held \in Seq(Nat)
    PROVE  /\ Leased(call) = SumOf(call.held, DOMAIN call.held)
           /\ Leased(call) \in Nat
           /\ call.held = << >> => Leased(call) = 0
<1> DEFINE held == call.held
           D == DOMAIN held
<1>1. Leased(call) = SumOf(held, D)
  BY SumFunctionIs DEF Leased, SumFunction
<1>2. D = 1 .. Len(held) /\ Len(held) \in Nat /\ \A i \in D : held[i] \in Nat
  OBVIOUS
<1>3. IsFiniteSet(D)
  BY <1>2, FS_Interval
<1>4. held = << >> => D = {}
  OBVIOUS
<1> HIDE DEF held, D
<1>5. SumOf(held, D) \in Nat
  BY <1>2, <1>3, SumNatural
<1>6. held = << >> => SumOf(held, D) = 0
  BY <1>4, SumEmpty
<1>7. QED
  BY <1>1, <1>5, <1>6 DEF held, D

\* Two functions that differ at one element of a finite set.
LEMMA SumChangesAtOne ==
    ASSUME NEW S, IsFiniteSet(S), NEW a \in S, NEW w, NEW v,
           \A x \in S : w[x] \in Int /\ v[x] \in Int, \A x \in S \ {a} : v[x] = w[x]
    PROVE  SumOf(v, S) = SumOf(w, S) + (v[a] - w[a])
<1> DEFINE R == S \ {a}
<1>1. IsFiniteSet(R)
  BY FS_Subset
<1>2. SumOf(w, S) = w[a] + SumOf(w, R) /\ SumOf(v, S) = v[a] + SumOf(v, R)
  BY SumWithout
<1>3. SumOf(w, R) = SumOf(v, R) /\ SumOf(w, R) \in Int
  BY <1>1, SumSame, SumType
<1> HIDE DEF R
<1>4. QED
  BY <1>2, <1>3

\* What becomes of the sum when one call changes.
LEMMA BudgetChange ==
    ASSUME SInv, NEW c \in Calls, NEW cs, DOMAIN cs = Calls,
           cs[c].held \in Seq(Nat), \A d \in Calls \ {c} : cs[d] = calls[d]
    PROVE  /\ SumOf(LeasesOf(cs), Calls) = used + (Leased(cs[c]) - Leased(calls[c]))
           /\ Leased(cs[c]) \in Nat /\ Leased(calls[c]) \in Nat /\ used \in Nat
<1> DEFINE w == LeasesOf(calls)
           v == LeasesOf(cs)
<1>1. \A d \in Calls : calls[d].held \in Seq(Nat) /\ cs[d].held \in Seq(Nat)
  BY DEF SInv, CallIs
<1>2. \A d \in Calls : w[d] = Leased(calls[d]) /\ v[d] = Leased(cs[d])
  BY DEF LeasesOf
<1>3. \A d \in Calls : w[d] \in Nat /\ v[d] \in Nat
  BY <1>1, <1>2, LeasedIs
<1>4. \A d \in Calls \ {c} : v[d] = w[d]
  BY <1>2
<1> HIDE DEF w, v
<1>5. SumOf(v, Calls) = SumOf(w, Calls) + (v[c] - w[c]) /\ SumOf(w, Calls) \in Nat
  <2>1. IsFiniteSet(Calls)
    BY RequestsAssumption
  <2>2. \A d \in Calls : w[d] \in Int /\ v[d] \in Int
    BY <1>3
  <2>3. SumOf(v, Calls) = SumOf(w, Calls) + (v[c] - w[c])
    BY <1>4, <2>1, <2>2, SumChangesAtOne
  <2>4. QED
    BY <1>3, <2>1, <2>3, SumNatural
<1>6. used = SumOf(w, Calls)
  BY DEF SInv, Exact, w
<1>7. QED
  BY <1>2, <1>3, <1>5, <1>6 DEF v

------------------------------------------------------------------------------
(* Calls, and what becomes of the others *)

\* A plan stands while versions only go on.
LEMMA PlanKept ==
    ASSUME IInv, IInv', NewTokens, NewVersions, NEW item, PlanIs(entries, tombstones, item)
    PROVE  PlanIs(entries', tombstones', item)
<1> DEFINE p == item.path
<1>1. p \in Paths /\ item.token \in Nat
  BY DEF PlanIs
<1>2. /\ Version(entries, tombstones, p) \in Nat /\ Version(entries', tombstones', p) \in Nat
  BY <1>1, VersionType DEF IInv, TypeOK, Table, Tombs
<1>3. /\ Version(entries', tombstones', p) >= Version(entries, tombstones, p)
      /\ entries'[p] # entries[p] =>
           Version(entries', tombstones', p) > Version(entries, tombstones, p)
  BY <1>1 DEF NewTokens, NewVersions
<1>4. /\ Version(entries, tombstones, p) >= item.token
      /\ Version(entries, tombstones, p) = item.token => entries[p] = item.entry
      /\ item.size \in Nat /\ (item.entry # Absent => item.entry.kind = "file")
  BY DEF PlanIs
<1> HIDE DEF p
<1>5. /\ Version(entries', tombstones', p) >= item.token
      /\ Version(entries', tombstones', p) = item.token => entries'[p] = item.entry
  BY <1>1, <1>2, <1>3, <1>4
<1>6. QED
  BY <1>1, <1>4, <1>5 DEF PlanIs, p

\* One call changes, and the budget with it.
LEMMA CallChanges ==
    ASSUME SInv, IInv', NewTokens, NewVersions, NEW c \in Calls, NEW call,
           calls' = [calls EXCEPT ![c] = call], CallIs(call),
           \A i \in DOMAIN call.items : PlanIs(entries', tombstones', call.items[i]),
           used' = used + (Leased(call) - Leased(calls[c])), used' <= MaxInFlight
    PROVE  SInv'
<1>1. DOMAIN calls = Calls /\ IInv /\ \A d \in Calls : CallIs(calls[d])
  BY DEF SInv
<1>2. /\ DOMAIN calls' = Calls /\ calls'[c] = call /\ \A d \in Calls \ {c} : calls'[d] = calls[d]
      /\ calls' = [d \in Calls |-> calls'[d]]
  BY <1>1
<1>3. \A d \in Calls : CallIs(calls'[d])
  BY <1>1, <1>2
<1>4. \A d \in Calls : \A i \in DOMAIN calls'[d].items :
        PlanIs(entries', tombstones', calls'[d].items[i])
  <2> SUFFICES ASSUME NEW d \in Calls, NEW i \in DOMAIN calls'[d].items
               PROVE  PlanIs(entries', tombstones', calls'[d].items[i])
    OBVIOUS
  <2>1. CASE d = c
    BY <1>2, <2>1
  <2>2. CASE d # c
    <3>1. calls'[d] = calls[d]
      BY <1>2, <2>2
    <3>2. PlanIs(entries, tombstones, calls[d].items[i])
      BY <3>1 DEF SInv
    <3>3. PlanIs(entries', tombstones', calls[d].items[i])
      BY <1>1, <3>2, PlanKept
    <3>4. QED
      BY <3>1, <3>3
  <2>3. QED
    BY <2>1, <2>2
<1>5. Exact(calls', used')
  <2>1. call.held \in Seq(Nat)
    BY DEF CallIs
  <2>2. SumOf(LeasesOf(calls'), Calls) = used + (Leased(calls'[c]) - Leased(calls[c]))
    BY <1>2, <2>1, BudgetChange
  <2>3. QED
    BY <1>2, <2>2 DEF Exact
<1>6. QED
  BY <1>2, <1>3, <1>4, <1>5 DEF SInv, CallIs, Exact, LeasesOf, PlanIs, Leased

\* No call changes.
LEMMA CallsStay ==
    ASSUME SInv, IInv', NewTokens, NewVersions, UNCHANGED <<calls, used>>
    PROVE  SInv'
<1>1. calls' = calls /\ used' = used /\ IInv
  BY DEF SInv
<1>2. \A c \in Calls : \A i \in DOMAIN calls[c].items :
        PlanIs(entries', tombstones', calls[c].items[i])
  BY <1>1, PlanKept DEF SInv
<1>3. QED
  BY <1>1, <1>2 DEF SInv

\* The tree stays as it is.
LEMMA TreeStays ==
    ASSUME IInv, UNCHANGED vars
    PROVE  IInv' /\ NewTokens /\ NewVersions
<1>1. UNCHANGED durable
  BY DEF vars, durable
<1>2. QED
  BY <1>1, StepKeeps, DurableKept

\* A call that holds nothing.
LEMMA IdleIs ==
    ASSUME NEW phase \in {"idle", "done", "failed"}
    PROVE  /\ CallIs([Idle EXCEPT !.phase = phase])
           /\ Leased([Idle EXCEPT !.phase = phase]) = 0
           /\ [Idle EXCEPT !.phase = phase].items = << >>
<1> DEFINE call == [Idle EXCEPT !.phase = phase]
<1>1. call = [phase |-> phase, op |-> "none", items |-> << >>, held |-> << >>]
  BY DEF Idle
<1> HIDE DEF call
<1>2. /\ call.phase = phase /\ call.op = "none" /\ call.items = << >> /\ call.held = << >>
      /\ call = [phase |-> call.phase, op |-> call.op, items |-> call.items, held |-> call.held]
  BY <1>1
<1>3. << >> \in Seq(Nat) /\ << >> \in Seq({call.items[i] : i \in DOMAIN call.items})
  OBVIOUS
<1>4. CallIs(call)
  BY <1>2, <1>3 DEF CallIs, Phases
<1>5. Leased(call) = 0
  BY <1>2, <1>3, LeasedIs
<1>6. QED
  BY <1>2, <1>4, <1>5 DEF call

\* Nothing is held before a call.
LEMMA IdleHolds == Leased(Idle) = 0
<1>1. Idle.held = << >> /\ << >> \in Seq(Nat)
  BY DEF Idle
<1>2. QED
  BY <1>1, LeasedIs

\* A call that ends gives back what it held.
LEMMA EndKeeps ==
    ASSUME SInv, IInv', NewTokens, NewVersions, NEW c \in Calls,
           NEW phase \in {"done", "failed"}, End(c, phase)
    PROVE  SInv'
<1> DEFINE call == [Idle EXCEPT !.phase = phase]
<1>1. CallIs(call) /\ Leased(call) = 0 /\ call.items = << >>
  BY IdleIs
<1>2. calls' = [calls EXCEPT ![c] = call] /\ used' = used - Leased(calls[c])
  BY DEF End
<1> HIDE DEF call
<1>3. call.held \in Seq(Nat) /\ DOMAIN [calls EXCEPT ![c] = call] = Calls
  BY <1>1 DEF CallIs, SInv
<1>4. Leased(calls[c]) \in Nat /\ used \in Nat
  BY LeasedIs, BudgetChange DEF SInv, CallIs
<1>5. used <= MaxInFlight /\ MaxInFlight \in Nat
  BY RequestsAssumption DEF SInv, Exact
<1>6. used' = used + (Leased(call) - Leased(calls[c])) /\ used' <= MaxInFlight
  BY <1>1, <1>2, <1>4, <1>5
<1>7. \A i \in DOMAIN call.items : PlanIs(entries', tombstones', call.items[i])
  BY <1>1
<1>8. QED
  BY <1>1, <1>2, <1>6, <1>7, CallChanges

\* A number of a set of numbers that is not empty.
LEMMA MinIs ==
    ASSUME NEW S, S \subseteq Nat, S # {}
    PROVE  Min(S) \in S
  BY LeastNumber DEF Min

\* A piece more is held by one body.
LEMMA PieceIs ==
    ASSUME NEW call, CallIs(call), call.phase = "collecting", NEW i \in DOMAIN call.held,
           NEW more, more = [call EXCEPT !.held = [call.held EXCEPT ![i] = @ + 1]]
    PROVE  /\ CallIs(more) /\ more.items = call.items
           /\ Leased(more) = Leased(call) + 1 /\ Leased(call) \in Nat
<1> DEFINE held == call.held
           next == more.held
           D == DOMAIN held
<1>1. held \in Seq(Nat) /\ D = 1 .. Len(held) /\ Len(held) \in Nat
  BY DEF CallIs
<1>2. /\ more = [phase |-> call.phase, op |-> call.op, items |-> call.items, held |-> next]
      /\ next = [held EXCEPT ![i] = @ + 1] /\ more.phase = call.phase /\ more.op = call.op
      /\ more.items = call.items
  BY DEF CallIs
<1> HIDE DEF next
<1>3. /\ next \in Seq(Nat) /\ DOMAIN next = D
      /\ next[i] = held[i] + 1 /\ \A j \in D \ {i} : next[j] = held[j]
      /\ i \in D /\ \A j \in D : held[j] \in Int /\ next[j] \in Int
  BY <1>1, <1>2
<1>4. CallIs(more)
  <2>1. /\ call.phase = "collecting" /\ call.phase \in Phases
        /\ call.items \in Seq({call.items[j] : j \in DOMAIN call.items})
        /\ DOMAIN call.held = DOMAIN call.items
        /\ call.op \in Ops \ {"readFile"}
        /\ call.op # "writeFiles" => Len(call.items) = 1
        /\ \A j, k \in DOMAIN call.items : call.items[j].path = call.items[k].path => j = k
    BY DEF CallIs
  <2>2. more = [phase |-> more.phase, op |-> more.op, items |-> more.items, held |-> more.held]
    BY <1>2 DEF next
  <2>3. more.held \in Seq(Nat) /\ DOMAIN more.held = DOMAIN call.items
    BY <1>3, <2>1 DEF next, D, held
  <2>4. QED
    BY <1>2, <2>1, <2>2, <2>3 DEF CallIs
<1>5. IsFiniteSet(D)
  BY <1>1, FS_Interval
<1> HIDE DEF held, D
<1>6. SumOf(next, D) = SumOf(held, D) + (next[i] - held[i])
  <2>1. IsFiniteSet(D) /\ i \in D
    BY <1>3, <1>5
  <2>2. \A x \in D : held[x] \in Int /\ next[x] \in Int
    BY <1>3
  <2>3. \A x \in D \ {i} : next[x] = held[x]
    BY <1>3
  <2>4. QED
    BY <2>1, <2>2, <2>3, SumChangesAtOne
<1>7. /\ Leased(call) = SumOf(held, D) /\ Leased(call) \in Nat /\ Leased(more) = SumOf(next, D)
  BY <1>1, <1>3, LeasedIs DEF held, next, D
<1>8. held[i] \in Int
  BY <1>3 DEF held, D
<1>9. Leased(more) = Leased(call) + 1
  BY <1>3, <1>6, <1>7, <1>8
<1>10. QED
  BY <1>2, <1>4, <1>7, <1>9

\* Receive keeps the invariant.
LEMMA ReceiveKeeps ==
    ASSUME SInv, NEW c \in Calls, Receive(c)
    PROVE  SInv'
<1> DEFINE i == Min(Waiting(calls[c]))
           call == [calls[c] EXCEPT !.held = [calls[c].held EXCEPT ![i] = @ + 1]]
<1>1. /\ UNCHANGED vars /\ IInv /\ calls[c].phase = "collecting" /\ Waiting(calls[c]) # {}
      /\ CallIs(calls[c]) /\ DOMAIN calls = Calls
  BY DEF Receive, SInv
<1>2. IInv' /\ NewTokens /\ NewVersions
  BY <1>1, TreeStays
<1>3. CASE used + 1 <= MaxInFlight
  <2>1. used' = used + 1 /\ calls' = [calls EXCEPT ![c].held[i] = @ + 1]
    BY <1>3 DEF Receive
  <2>2. i \in DOMAIN calls[c].held
    <3>1. Waiting(calls[c]) \subseteq DOMAIN calls[c].held
      BY <1>1 DEF Waiting, CallIs
    <3>2. DOMAIN calls[c].held \subseteq Nat
      BY <1>1 DEF CallIs
    <3>3. i \in Waiting(calls[c])
      BY <1>1, <3>1, <3>2, MinIs
    <3>4. QED
      BY <3>1, <3>3
  <2>3. calls' = [calls EXCEPT ![c] = call]
    BY <2>1
  <2>4. /\ CallIs(call) /\ call.items = calls[c].items
        /\ Leased(call) = Leased(calls[c]) + 1 /\ Leased(calls[c]) \in Nat
    BY <1>1, <2>2, PieceIs
  <2> HIDE DEF call
  <2>5. \A j \in DOMAIN call.items : PlanIs(entries', tombstones', call.items[j])
    BY <1>1, <1>2, <2>4, PlanKept DEF SInv
  <2>6. used' = used + (Leased(call) - Leased(calls[c])) /\ used' <= MaxInFlight
    <3>1. used \in Nat
      BY BudgetChange DEF SInv, CallIs
    <3>2. QED
      BY <1>3, <2>1, <2>4, <3>1
  <2>7. QED
    BY <1>2, <2>3, <2>4, <2>5, <2>6, CallChanges
<1>4. CASE ~ (used + 1 <= MaxInFlight)
  <2>1. End(c, "failed")
    BY <1>4 DEF Receive
  <2>2. QED
    BY <1>2, <2>1, EndKeeps
<1>5. QED
  BY <1>3, <1>4

\* The ways a call ends without a commit keep the invariant.
LEMMA CloseKeeps ==
    ASSUME SInv, NEW c \in Calls, BodyFails(c) \/ CloseRead(c)
    PROVE  SInv'
<1>1. UNCHANGED vars /\ IInv /\ (End(c, "failed") \/ End(c, "done"))
  BY DEF BodyFails, CloseRead, SInv
<1>2. IInv' /\ NewTokens /\ NewVersions
  BY <1>1, TreeStays
<1>3. QED
  BY <1>1, <1>2, EndKeeps

------------------------------------------------------------------------------
(* Calls that start *)

\* The rows of the invariant are a tree of the model.
LEMMA RowsAre == IInv => Rows(entries)
  BY DEF IInv, TypeOK, Rows, Table

\* A plan that is made knows its path.
LEMMA PlanMade ==
    ASSUME IInv, NEW item, item.written \in Paths, item.size \in Nat, NEW guard,
           ~ Loops(entries, item.written, TRUE),
           ~ Is(entries, Resolve(entries, item.written, TRUE), "directory")
    PROVE  PlanIs(entries, tombstones, Plan(item, guard))
<1> DEFINE p == Resolve(entries, item.written, TRUE)
           plan == Plan(item, guard)
<1>1. p \in Paths /\ entries \in Table /\ tombstones \in Tombs
  BY RowsAre, ResolveIs DEF IInv, TypeOK, Table, Tombs
<1>2. /\ plan.path = p /\ plan.size = item.size /\ plan.entry = entries[p]
      /\ plan.token = Version(entries, tombstones, p)
  BY DEF Plan
<1>3. Version(entries, tombstones, p) \in Nat
  BY <1>1, VersionType
<1>4. LinksOnTheWay(entries, p, TRUE) = {}
  BY DEF Loops, Resolve
<1> HIDE DEF p, plan
<1>5. ASSUME entries[p] # Absent
      PROVE  entries[p].kind = "file"
  <2>1. entries[p] \in Entry
    BY <1>1, <1>5 DEF Table
  <2>2. ~ Is(entries, p, "symlink")
    BY <1>4, <1>5 DEF LinksOnTheWay
  <2>3. ~ Is(entries, p, "directory")
    BY DEF p
  <2>4. QED
    BY <1>5, <2>1, <2>2, <2>3 DEF Is, Entry
<1>6. PlanIs(entries, tombstones, plan)
  BY <1>1, <1>2, <1>3, <1>5 DEF PlanIs
<1>7. QED
  BY <1>6 DEF plan

\* StartWrite keeps the invariant.
LEMMA StartWriteKeeps ==
    ASSUME SInv, NEW c \in Calls, NEW r \in Requests, StartWrite(c, r)
    PROVE  SInv'
<1> DEFINE guard == IF r.guarded THEN ticket.token ELSE Absent
           plans == [i \in DOMAIN r.items |-> Plan(r.items[i], guard)]
           zeros == [i \in DOMAIN r.items |-> 0]
           call == [phase |-> "collecting", op |-> r.op, items |-> plans, held |-> zeros]
<1>1. /\ r.op \in Ops /\ r.items \in Seq([written : Paths, size : Nat, createParents : BOOLEAN])
      /\ r.op # "writeFiles" => Len(r.items) = 1
      /\ MaxInFlight \in Nat
  BY RequestsAssumption
<1>2. /\ calls[c] = Idle /\ r.op # "readFile" /\ UNCHANGED vars /\ used' = used
      /\ calls' = [calls EXCEPT ![c] = call]
      /\ \A i \in DOMAIN r.items : /\ ~ Loops(entries, r.items[i].written, TRUE)
                                   /\ ~ Is(entries, plans[i].path, "directory")
      /\ \A i, j \in DOMAIN plans : plans[i].path = plans[j].path => i = j
  BY DEF StartWrite
<1>3. IInv /\ IInv' /\ NewTokens /\ NewVersions
  BY <1>2, TreeStays DEF SInv
<1>4. \A i \in DOMAIN plans : PlanIs(entries, tombstones, plans[i])
  <2> SUFFICES ASSUME NEW i \in DOMAIN r.items
               PROVE  PlanIs(entries, tombstones, Plan(r.items[i], guard))
    OBVIOUS
  <2> HIDE DEF guard
  <2>1. r.items[i].written \in Paths /\ r.items[i].size \in Nat
    <3> DEFINE Item == [written : Paths, size : Nat, createParents : BOOLEAN]
    <3>1. \A x \in Item : x.written \in Paths /\ x.size \in Nat
      OBVIOUS
    <3>2. r.items \in Seq(Item)
      BY <1>1
    <3> HIDE DEF Item
    <3>3. r.items[i] \in Item
      BY <3>2
    <3>4. QED
      BY <3>1, <3>3
  <2>2. Plan(r.items[i], guard).path = Resolve(entries, r.items[i].written, TRUE)
    BY DEF Plan
  <2>3. /\ ~ Loops(entries, r.items[i].written, TRUE)
        /\ ~ Is(entries, Resolve(entries, r.items[i].written, TRUE), "directory")
    BY <1>2, <2>2
  <2>4. QED
    BY <1>3, <2>1, <2>3, PlanMade
<1>5. /\ DOMAIN r.items = 1 .. Len(r.items) /\ Len(r.items) \in Nat
      /\ DOMAIN plans = DOMAIN r.items /\ DOMAIN zeros = DOMAIN r.items
  BY <1>1
<1>6. zeros \in Seq(Nat) /\ plans \in Seq({plans[i] : i \in DOMAIN plans}) /\ Len(plans) = Len(r.items)
  <2> DEFINE n == Len(r.items)
             S == {plans[i] : i \in DOMAIN plans}
  <2>1. n \in Nat /\ DOMAIN plans = 1 .. n /\ DOMAIN zeros = 1 .. n
    BY <1>5
  <2>2. plans \in [1 .. n -> S] /\ zeros \in [1 .. n -> Nat]
    BY <2>1
  <2> HIDE DEF n, S, plans, zeros
  <2>3. plans \in Seq(S) /\ zeros \in Seq(Nat) /\ Len(plans) = n
    BY <2>1, <2>2
  <2>4. QED
    BY <2>3 DEF n, S
<1>7. \A i \in DOMAIN zeros : zeros[i] = 0
  OBVIOUS
<1> HIDE DEF plans, zeros
<1>8. CallIs(call)
  BY <1>1, <1>2, <1>5, <1>6 DEF CallIs, Phases
<1>9. Leased(call) = 0
  <2>1. Leased(call) = SumOf(zeros, DOMAIN zeros)
    BY <1>6, LeasedIs
  <2>2. IsFiniteSet(DOMAIN zeros)
    BY <1>5, FS_Interval
  <2>3. Cardinality(DOMAIN zeros) \in Nat
    BY <2>2, FS_CardinalityType
  <2>4. SumOf(zeros, DOMAIN zeros) = 0 * Cardinality(DOMAIN zeros)
    BY <1>7, <2>2, SumConstant
  <2>5. QED
    BY <2>1, <2>3, <2>4
<1>10. Leased(calls[c]) = 0
  BY <1>2, IdleHolds
<1>11. \A i \in DOMAIN call.items : PlanIs(entries', tombstones', call.items[i])
  <2>1. \A i \in DOMAIN call.items : PlanIs(entries, tombstones, call.items[i])
    BY <1>4
  <2> HIDE DEF call
  <2>2. QED
    BY <1>3, <2>1, PlanKept
<1>12. used \in Nat /\ used <= MaxInFlight
  BY BudgetChange DEF SInv, Exact, CallIs
<1>13. used' = used + (Leased(call) - Leased(calls[c])) /\ used' <= MaxInFlight
  BY <1>2, <1>9, <1>10, <1>12
<1> HIDE DEF call
<1>14. QED
  BY <1>2, <1>3, <1>8, <1>11, <1>13, CallChanges

\* OpenRead keeps the invariant.
LEMMA OpenReadKeeps ==
    ASSUME SInv, NEW c \in Calls, NEW written \in Paths, OpenRead(c, written)
    PROVE  SInv'
<1> DEFINE p == Resolve(entries, written, TRUE)
           size == entries[p].size
           item == [written |-> written, size |-> size, createParents |-> FALSE]
           plan == Plan(item, Absent)
           call == [phase |-> "reading", op |-> "readFile", items |-> <<plan>>, held |-> <<size>>]
<1>1. /\ calls[c] = Idle /\ UNCHANGED vars /\ calls' = [calls EXCEPT ![c] = call]
      /\ ~ Loops(entries, written, TRUE) /\ Is(entries, p, "file")
      /\ used + size <= MaxInFlight /\ used' = used + size
  BY DEF OpenRead
<1>2. IInv /\ IInv' /\ NewTokens /\ NewVersions
  BY <1>1, TreeStays DEF SInv
<1>3. size \in Nat
  <2>1. p \in Paths
    BY <1>2, RowsAre, ResolveIs
  <2>2. entries[p] \in Entry
    BY <1>1, <1>2, <2>1 DEF Is, IInv, TypeOK
  <2>3. QED
    BY <2>2, RowIs
<1>4. PlanIs(entries, tombstones, plan)
  <2>1. ~ Is(entries, p, "directory")
    BY <1>1 DEF Is
  <2>2. item.written = written /\ item.size = size
    OBVIOUS
  <2> HIDE DEF item, size
  <2>3. ~ Is(entries, Resolve(entries, item.written, TRUE), "directory")
    BY <2>1, <2>2
  <2>4. QED
    BY <1>1, <1>2, <1>3, <2>2, <2>3, PlanMade
<1> HIDE DEF plan, size, p
<1>5. /\ <<size>> \in Seq(Nat) /\ DOMAIN <<size>> = {1} /\ DOMAIN <<plan>> = {1}
      /\ <<plan>> \in Seq({<<plan>>[i] : i \in DOMAIN <<plan>>})
      /\ <<size>>[1] = size /\ <<plan>>[1] = plan
  BY <1>3
<1>6. CallIs(call)
  BY <1>5 DEF CallIs, Phases
<1>7. Leased(call) = size
  <2>1. call.held = <<size>>
    OBVIOUS
  <2> HIDE DEF call
  <2>2. Leased(call) = SumOf(<<size>>, {1})
    BY <1>5, <2>1, LeasedIs
  <2>3. <<size>>[1] \in Int
    BY <1>3
  <2>4. SumOf(<<size>>, {1}) = <<size>>[1]
    BY <2>3, SumSingle
  <2>5. QED
    BY <1>5, <2>2, <2>4
<1>8. Leased(calls[c]) = 0
  BY <1>1, IdleHolds
<1>9. \A i \in DOMAIN call.items : PlanIs(entries', tombstones', call.items[i])
  <2>1. \A i \in DOMAIN call.items : call.items[i] = plan
    BY <1>5
  <2>2. PlanIs(entries', tombstones', plan)
    BY <1>2, <1>4, PlanKept
  <2>3. QED
    BY <2>1, <2>2
<1>10. used' = used + (Leased(call) - Leased(calls[c])) /\ used' <= MaxInFlight
  <2>1. used \in Nat
    BY BudgetChange DEF SInv, CallIs
  <2>2. QED
    BY <1>1, <1>3, <1>7, <1>8, <2>1
<1> HIDE DEF call
<1>11. QED
  BY <1>1, <1>2, <1>6, <1>9, <1>10, CallChanges

\* TakeToken keeps the invariant.
LEMMA TakeTokenKeeps ==
    ASSUME SInv, NEW written, TakeToken(written)
    PROVE  SInv'
<1>1. UNCHANGED vars /\ UNCHANGED <<calls, used>> /\ IInv
  BY DEF TakeToken, SInv
<1>2. QED
  BY <1>1, TreeStays, CallsStay

\* An operation of another caller keeps the invariant.
LEMMA OthersKeep ==
    ASSUME SInv, Files \/ Trees \/ Links, UNCHANGED streams
    PROVE  SInv'
<1>1. Next /\ IInv /\ UNCHANGED <<calls, used>>
  BY DEF Next, SInv, streams
<1>2. IInv' /\ NewTokens /\ NewVersions
  BY <1>1, NextKeeps DEF Kept
<1>3. QED
  BY <1>1, <1>2, CallsStay

\* EvictCalls keeps the invariant: what the calls held is gone with the budget.
LEMMA EvictCallsKeeps ==
    ASSUME SInv, EvictCalls
    PROVE  SInv'
<1> DEFINE gone == [Idle EXCEPT !.phase = "failed"]
<1>1. /\ Evict /\ used' = 0
      /\ calls' = [c \in Calls |-> IF calls[c].phase \in {"collecting", "reading"} THEN gone ELSE calls[c]]
  BY DEF EvictCalls
<1>2. IInv /\ IInv' /\ NewTokens /\ NewVersions
  BY <1>1, EvictKeeps DEF Kept, SInv
<1>3. CallIs(gone) /\ Leased(gone) = 0 /\ gone.items = << >>
  BY IdleIs
<1> HIDE DEF gone
<1>4. DOMAIN calls' = Calls /\ calls' = [c \in Calls |-> calls'[c]]
  BY <1>1
<1>5. ASSUME NEW c \in Calls
      PROVE  /\ CallIs(calls'[c]) /\ Leased(calls'[c]) = 0
             /\ \A i \in DOMAIN calls'[c].items : PlanIs(entries', tombstones', calls'[c].items[i])
  <2>1. CASE calls[c].phase \in {"collecting", "reading"}
    <3>1. calls'[c] = gone
      BY <1>1, <2>1
    <3>2. QED
      BY <1>3, <3>1
  <2>2. CASE calls[c].phase \notin {"collecting", "reading"}
    <3>1. calls'[c] = calls[c] /\ CallIs(calls[c])
      BY <1>1, <2>2 DEF SInv
    <3>2. calls[c].held \in Seq(Nat) /\ calls[c].held = << >>
      BY <2>2, <3>1 DEF CallIs
    <3>3. Leased(calls[c]) = 0
      BY <3>2, LeasedIs
    <3>4. \A i \in DOMAIN calls[c].items : PlanIs(entries', tombstones', calls[c].items[i])
      BY <1>2, PlanKept DEF SInv
    <3>5. QED
      BY <3>1, <3>3, <3>4
  <2>3. QED
    BY <2>1, <2>2
<1>6. Exact(calls', used')
  <2>1. IsFiniteSet(Calls) /\ MaxInFlight \in Nat
    BY RequestsAssumption
  <2>2. \A c \in Calls : LeasesOf(calls')[c] = 0
    BY <1>5 DEF LeasesOf
  <2>3. SumOf(LeasesOf(calls'), Calls) = 0 * Cardinality(Calls)
    BY <2>1, <2>2, SumConstant
  <2>4. Cardinality(Calls) \in Nat
    BY <2>1, FS_CardinalityType
  <2>5. QED
    BY <1>1, <2>1, <2>3, <2>4 DEF Exact
<1>7. QED
  BY <1>2, <1>4, <1>5, <1>6 DEF SInv, CallIs, Exact, LeasesOf, PlanIs, Leased

------------------------------------------------------------------------------
(* Commits *)

\* A transaction that could be committed, and says so, is ready.
LEMMA GoodIsReady ==
    ASSUME NEW tx, Good(tx), Fits(tx)
    PROVE  Ready(tx) /\ Forward(tx) /\ Fresh(tx)
<1>1. Linked(tx, {}) /\ Solid(tx) /\ Pending(tx) /\ Told(tx)
  BY DEF Good
<1>2. Linked(tx, Open(tx))
  BY <1>1 DEF Linked
<1>3. QED
  BY <1>1, <1>2, ToldIs DEF Fits, Ready

\* A path whose token is the planned one still has the row that was seen.
LEMMA StillThere ==
    ASSUME IInv, NEW tx, Good(tx), NEW item, PlanIs(entries, tombstones, item),
           Version(tx.entries, tx.tombstones, item.path) = item.token
    PROVE  tx.entries[item.path] = item.entry /\ entries[item.path] = item.entry
<1> DEFINE p == item.path
           v == Version(tx.entries, tx.tombstones, p)
           old == Version(entries, tombstones, p)
<1>1. /\ p \in Paths /\ item.token \in Nat /\ old >= item.token
      /\ old = item.token => entries[p] = item.entry
  BY DEF PlanIs
<1>2. v \in Nat /\ old \in Nat
  BY <1>1, VersionType DEF IInv, TypeOK, Table, Tombs, Good, Solid, Transaction
<1>3. v >= old /\ (tx.entries[p] # entries[p] => v > old)
  BY <1>1 DEF Good, Told
<1>4. v = item.token
  OBVIOUS
<1> HIDE DEF p, v, old
<1>5. tx.entries[p] = item.entry /\ entries[p] = item.entry
  BY <1>1, <1>2, <1>3, <1>4
<1>6. QED
  BY <1>5 DEF p

\* r is tx with a body at p: nothing else that was there has changed.
IsHeldBy(tx, r, p, size) ==
  /\ Good(r)
  /\ Is(r.entries, p, "file") /\ r.entries[p].size = size
  /\ \A q \in Paths \ {p} : tx.entries[q] # Absent => r.entries[q] = tx.entries[q]

\* PutCollected in a batch.
LEMMA PutCollectedIs ==
    ASSUME IInv, NEW tx, Good(tx), NEW p \in Paths, NEW size \in Nat, NEW recursive,
           tx.entries[p] = Absent => CreationParents(tx.entries, p, recursive),
           tx.entries[p] # Absent => tx.entries[p].kind = "file"
    PROVE  IsHeldBy(tx, PutCollected(tx, p, size, TRUE), p, size)
<1>1. TypeOK /\ tx \in Transaction /\ Is(tx.entries, Root, "directory")
  BY DEF IInv, Good, Solid, Shaped
<1>2. CASE tx.entries[p] = Absent
  <2> DEFINE t == CreateMissingParents(tx, p)
             r == CreateFile(t, p, size)
             row == NewFile(t, p, size)
  <2>1. PutCollected(tx, p, size, TRUE) = r
    BY <1>2 DEF PutCollected
  <2>2. p # Root
    BY <1>1, <1>2 DEF Is
  <2>3. IsReached(tx, t, p)
    BY <1>1, <1>2, <2>2, CreateMissingParentsIs
  <2> HIDE DEF t
  <2>4. /\ Good(t) /\ t \in Transaction /\ Is(t.entries, Parent(p), "directory")
        /\ \A q \in Paths : t.entries[q] # tx.entries[q] => tx.entries[q] = Absent /\ q # p
    BY <2>3 DEF IsReached, Good, Solid
  <2>5. t.entries[p] = Absent
    BY <1>2, <2>4
  <2>6. IsPlaced(t, r, p, row, {Parent(p)})
    BY <2>4, CreateFileIs
  <2>7. Placeable(t, p, row)
    BY <2>2, <2>4, <2>5, NewRows
  <2>8. row.size = size /\ row.kind = "file" /\ row # Absent
    <3>1. row.size = size /\ row.kind = "file"
      BY DEF NewFile
    <3>2. row # Absent
      BY <2>7, RowIs DEF Placeable
    <3>3. QED
      BY <3>1, <3>2
  <2> HIDE DEF r, row
  <2>9. Good(r)
    BY <1>1, <2>4, <2>6, <2>7, PlacedGood
  <2>10. r.entries[p] = row /\ \A q \in Paths \ {p} : r.entries[q] = t.entries[q]
    BY <2>6 DEF IsPlaced
  <2>11. IsHeldBy(tx, r, p, size)
    BY <2>4, <2>8, <2>9, <2>10 DEF IsHeldBy, Is
  <2>12. QED
    BY <2>1, <2>11
<1>3. CASE tx.entries[p] # Absent
  <2> DEFINE r == Rewrite(tx, p, size)
  <2>1. PutCollected(tx, p, size, TRUE) = r
    BY <1>3 DEF PutCollected, Rewrite
  <2>2. IsRewritten(tx, r, p, size)
    BY <1>1, <1>3, RewriteIs
  <2> HIDE DEF r
  <2>3. Good(r)
    BY <1>1, <1>3, <2>2, RewrittenGood
  <2>4. r.entries[p] # Absent /\ r.entries[p].size = size /\ r.entries[p].kind = "file"
    BY <1>1, <1>3, <2>2, RewrittenRow
  <2>5. \A q \in Paths \ {p} : r.entries[q] = tx.entries[q]
    BY <2>2 DEF IsRewritten
  <2>6. IsHeldBy(tx, r, p, size)
    BY <2>3, <2>4, <2>5 DEF IsHeldBy, Is
  <2>7. QED
    BY <2>1, <2>6
<1>4. QED
  BY <1>2, <1>3

\* The first n bodies have replaced the rows that were planned on, unless the
\* transaction was given up.
Stored(tx, items, n) ==
  /\ Good(tx)
  /\ tx.halt = Absent => \A j \in 1 .. n :
       /\ entries[items[j].path] = items[j].entry
       /\ Is(tx.entries, items[j].path, "file")
       /\ tx.entries[items[j].path].size = items[j].size

\* The plans of a call.
PlansAre(items) ==
  /\ Len(items) \in Nat /\ DOMAIN items = 1 .. Len(items)
  /\ \A i \in DOMAIN items : PlanIs(entries, tombstones, items[i])
  /\ \A i, j \in DOMAIN items : items[i].path = items[j].path => i = j

\* One write of a batch.
LEMMA OneMoreStored ==
    ASSUME IInv, NEW items, PlansAre(items), NEW n \in DOMAIN items,
           NEW tx, Stored(tx, items, n - 1)
    PROVE  Stored(CommitInlineWrite(tx, items[n], TRUE), items, n)
<1> DEFINE item == items[n]
           p == item.path
           r == CommitInlineWrite(tx, item, TRUE)
<1>1. Good(tx) /\ PlanIs(entries, tombstones, item) /\ p \in Paths /\ item.size \in Nat
  BY DEF Stored, PlansAre, PlanIs
<1>2. CASE tx.halt # Absent
  <2>1. r = tx
    BY <1>2 DEF CommitInlineWrite
  <2>2. QED
    BY <1>1, <1>2, <2>1 DEF Stored
<1>3. CASE tx.halt = Absent /\ Revalidated(tx, item)
           /\ (tx.entries[p] = Absent => CreationParents(tx.entries, p, item.createParents))
  <2>1. r = PutCollected(tx, p, item.size, TRUE)
    BY <1>3 DEF CommitInlineWrite
  <2>2. tx.entries[p] = item.entry /\ entries[p] = item.entry
    BY <1>1, <1>3, StillThere DEF Revalidated
  <2>3. tx.entries[p] # Absent => tx.entries[p].kind = "file"
    BY <1>1, <2>2 DEF PlanIs
  <2>4. IsHeldBy(tx, PutCollected(tx, p, item.size, TRUE), p, item.size)
    BY <1>1, <1>3, <2>3, PutCollectedIs
  <2>5. IsHeldBy(tx, r, p, item.size)
    BY <2>1, <2>4
  <2> HIDE DEF r
  <2>6. Good(r) /\ Is(r.entries, p, "file") /\ r.entries[p].size = item.size
    BY <2>5 DEF IsHeldBy
  <2>7. ASSUME NEW j \in 1 .. n
        PROVE  /\ entries[items[j].path] = items[j].entry
               /\ Is(r.entries, items[j].path, "file")
               /\ r.entries[items[j].path].size = items[j].size
    <3>1. CASE j = n
      BY <2>2, <2>6, <3>1
    <3>2. CASE j # n
      <4>1. n \in Nat /\ j \in 1 .. n - 1 /\ j \in DOMAIN items
        BY <3>2 DEF PlansAre
      <4>2. /\ entries[items[j].path] = items[j].entry
            /\ Is(tx.entries, items[j].path, "file")
            /\ tx.entries[items[j].path].size = items[j].size
        BY <1>3, <4>1 DEF Stored
      <4>3. items[j].path \in Paths \ {p}
        BY <3>2, <4>1 DEF PlansAre, PlanIs
      <4>4. r.entries[items[j].path] = tx.entries[items[j].path]
        BY <2>5, <4>2, <4>3 DEF IsHeldBy, Is
      <4>5. QED
        BY <4>2, <4>4 DEF Is
    <3>3. QED
      BY <3>1, <3>2
  <2>8. Stored(r, items, n)
    BY <2>6, <2>7 DEF Stored
  <2>9. QED
    BY <2>8 DEF r
<1>4. CASE tx.halt = Absent
           /\ ~ (Revalidated(tx, item)
                 /\ (tx.entries[p] = Absent => CreationParents(tx.entries, p, item.createParents)))
  <2>1. r = Throw(tx, FALSE)
    BY <1>4 DEF CommitInlineWrite
  <2>2. Good(Throw(tx, FALSE)) /\ Throw(tx, FALSE).halt # Absent
    BY <1>1, ThrownGood
  <2>3. QED
    BY <2>1, <2>2 DEF Stored
<1>5. QED
  BY <1>2, <1>3, <1>4

\* What the outcome of a call is.
OutcomeIs(tx, call) ==
  /\ Ready(tx) /\ Forward(tx) /\ Fresh(tx)
  /\ call.op \in {"writeFile", "writeFiles"} /\ tx.halt = Absent =>
       \A i \in DOMAIN call.items :
         /\ entries[call.items[i].path] = call.items[i].entry
         /\ Is(tx.entries, call.items[i].path, "file")
         /\ tx.entries[call.items[i].path].size = call.items[i].size

\* The commit of one body.
LEMMA CommitInlineWriteIs ==
    ASSUME IInv, NEW item, PlanIs(entries, tombstones, item)
    PROVE  LET tx == CommitInlineWrite(Begin, item, FALSE)
           IN  /\ Good(tx) /\ Fits(tx)
               /\ tx.halt = Absent => /\ entries[item.path] = item.entry
                                      /\ Is(tx.entries, item.path, "file")
                                      /\ tx.entries[item.path].size = item.size
<1> DEFINE p == item.path
           tx == CommitInlineWrite(Begin, item, FALSE)
<1>1. Good(Begin) /\ Begin.entries = entries /\ Begin.halt = Absent
  BY BeginIs
<1>2. p \in Paths /\ item.size \in Nat
  BY DEF PlanIs
<1>3. CASE Revalidated(Begin, item)
           /\ (entries[p] = Absent => CreationParents(entries, p, item.createParents))
  <2>1. tx = PutFile(Begin, p, item.size)
    BY <1>1, <1>3 DEF CommitInlineWrite, PutCollected
  <2>2. entries[p] = item.entry
    BY <1>1, <1>3, StillThere DEF Revalidated
  <2>3. IsPut(Begin, PutFile(Begin, p, item.size), p, item.size) /\ Fits(PutFile(Begin, p, item.size))
    BY <1>2, <1>3, PutFileIs
  <2>4. IsPut(Begin, tx, p, item.size) /\ Fits(tx)
    BY <2>1, <2>3
  <2> HIDE DEF tx
  <2>5. entries[p] # Absent => entries[p].kind = "file"
    BY <2>2 DEF PlanIs
  <2>6. Good(tx) /\ tx.entries[p] # Absent /\ tx.entries[p].kind = "file" /\ tx.entries[p].size = item.size
    BY <1>1, <2>4, <2>5 DEF IsPut
  <2>7. /\ Good(tx) /\ Fits(tx) /\ entries[p] = item.entry
        /\ Is(tx.entries, p, "file") /\ tx.entries[p].size = item.size
    BY <2>2, <2>4, <2>6 DEF Is
  <2>8. QED
    BY <2>7 DEF tx
<1>4. CASE ~ (Revalidated(Begin, item)
              /\ (entries[p] = Absent => CreationParents(entries, p, item.createParents)))
  <2>1. tx = Throw(Begin, FALSE)
    BY <1>1, <1>4 DEF CommitInlineWrite
  <2>2. Good(Throw(Begin, FALSE)) /\ Throw(Begin, FALSE).halt # Absent
    BY <1>1, ThrownGood
  <2>3. QED
    BY <2>1, <2>2 DEF Fits
<1>5. QED
  BY <1>3, <1>4

\* put is the batch, write by write.
IsBatch(items, n, put) ==
  put = [k \in 0 .. n |-> IF k = 0 THEN Begin ELSE CommitInlineWrite(put[k - 1], items[k], TRUE)]

\* There is one of any length.
LEMMA BatchExists ==
    ASSUME NEW items
    PROVE  \A n \in Nat : \E put : IsBatch(items, n, put)
<1> DEFINE bad == {n \in Nat : ~ \E put : IsBatch(items, n, put)}
<1> SUFFICES ASSUME bad # {} PROVE FALSE
  OBVIOUS
<1>1. PICK n \in bad : \A m \in bad : n <= m
  <2>1. bad \subseteq Nat
    OBVIOUS
  <2> HIDE DEF bad
  <2>2. QED
    BY <2>1, LeastNumber
<1>2. n # 0
  <2>1. IsBatch(items, 0, [k \in 0 .. 0 |-> Begin])
    BY DEF IsBatch
  <2>2. QED
    BY <2>1
<1>3. n - 1 \in Nat /\ n - 1 \notin bad /\ n \in Nat
  BY <1>1, <1>2
<1>4. PICK f : IsBatch(items, n - 1, f)
  BY <1>3
<1> DEFINE g == [k \in 0 .. n |-> IF k = n THEN CommitInlineWrite(f[n - 1], items[n], TRUE) ELSE f[k]]
<1>5. ASSUME NEW k \in 0 .. n
      PROVE  g[k] = IF k = 0 THEN Begin ELSE CommitInlineWrite(g[k - 1], items[k], TRUE)
  <2>1. \A i \in 0 .. n - 1 : f[i] = IF i = 0 THEN Begin ELSE CommitInlineWrite(f[i - 1], items[i], TRUE)
    BY <1>4 DEF IsBatch
  <2>2. CASE k = n
    <3>1. n - 1 \in 0 .. n /\ n - 1 # n /\ n \in 0 .. n
      BY <1>3
    <3>2. g[k] = CommitInlineWrite(f[n - 1], items[n], TRUE) /\ g[n - 1] = f[n - 1]
      BY <2>2, <3>1
    <3>3. QED
      BY <1>2, <2>2, <3>2
  <2>3. CASE k # n
    <3>1. k \in 0 .. n - 1 /\ g[k] = f[k]
      BY <1>3, <2>3
    <3>2. k # 0 => k - 1 \in 0 .. n /\ k - 1 # n
      BY <1>3, <2>3
    <3>3. k # 0 => g[k - 1] = f[k - 1]
      BY <3>2
    <3>4. QED
      BY <2>1, <3>1, <3>3
  <2>4. QED
    BY <2>2, <2>3
<1>6. IsBatch(items, n, g)
  BY <1>5 DEF IsBatch
<1>7. QED
  BY <1>6

\* Every write of a batch leaves the bodies so far in their places.
LEMMA BatchStored ==
    ASSUME IInv, NEW items, PlansAre(items), NEW put, IsBatch(items, Len(items), put)
    PROVE  Stored(put[Len(items)], items, Len(items))
<1> DEFINE N == Len(items)
           bad == {k \in 0 .. N : ~ Stored(put[k], items, k)}
<1>1. N \in Nat /\ DOMAIN items = 1 .. N
  BY DEF PlansAre
<1>2. \A k \in 0 .. N : put[k] = IF k = 0 THEN Begin ELSE CommitInlineWrite(put[k - 1], items[k], TRUE)
  BY DEF IsBatch
<1>3. bad = {}
  <2> SUFFICES ASSUME bad # {} PROVE FALSE
    OBVIOUS
  <2>1. PICK k \in bad : \A m \in bad : k <= m
    <3>1. bad \subseteq Nat
      BY <1>1
    <3> HIDE DEF bad
    <3>2. QED
      BY <3>1, LeastNumber
  <2>2. k # 0
    <3>1. Stored(Begin, items, 0)
      BY BeginIs DEF Stored
    <3>2. 0 \in 0 .. N
      BY <1>1
    <3>3. put[0] = Begin
      BY <1>2, <3>2
    <3>4. CASE k = 0
      <4>1. Stored(put[k], items, k)
        BY <3>1, <3>3, <3>4
      <4>2. QED
        BY <2>1, <4>1
    <3>5. QED
      BY <3>4
  <2>3. k - 1 \in 0 .. N /\ k - 1 \notin bad /\ k \in 1 .. N
    BY <1>1, <2>1, <2>2
  <2>4. Stored(put[k - 1], items, k - 1)
    BY <2>3
  <2>5. k \in DOMAIN items
    BY <1>1, <2>3
  <2>6. Stored(CommitInlineWrite(put[k - 1], items[k], TRUE), items, k)
    BY <2>4, <2>5, OneMoreStored
  <2>7. put[k] = CommitInlineWrite(put[k - 1], items[k], TRUE)
    BY <1>2, <2>2
  <2>8. QED
    BY <2>6, <2>7
<1>4. QED
  BY <1>1, <1>3

\* The commit of a set of bodies.
LEMMA CommitInlineWriteSetIs ==
    ASSUME IInv, NEW items, PlansAre(items)
    PROVE  /\ Stored(CommitInlineWriteSet(items), items, Len(items))
           /\ Fits(CommitInlineWriteSet(items))
<1> DEFINE N == Len(items)
           put == CHOOSE f : IsBatch(items, N, f)
           after == put[N]
           bytes == after.usage.inlineBytes - usage.inlineBytes
           count == after.usage.entries - usage.entries
           r == AssertCapacityFrom(after, usage, bytes, count)
<1>1. IsBatch(items, N, put)
  <2>1. N \in Nat
    BY DEF PlansAre
  <2>2. \E f : IsBatch(items, N, f)
    BY <2>1, BatchExists
  <2>3. QED
    BY <2>2
<1>2. CommitInlineWriteSet(items) = IF after.halt # Absent THEN after ELSE r
  BY DEF CommitInlineWriteSet, IsBatch
<1> HIDE DEF put
<1>3. Stored(after, items, N)
  BY <1>1, BatchStored
<1> HIDE DEF after
<1>4. CASE after.halt # Absent
  <2>1. Fits(after)
    BY <1>4 DEF Fits
  <2>2. QED
    BY <1>2, <1>3, <1>4, <2>1
<1>5. CASE after.halt = Absent
  <2>1. Good(after) /\ after \in Transaction /\ TypeOK
    BY <1>3 DEF Stored, Good, Solid, IInv
  <2> DEFINE ok == /\ bytes > 0 => usage.inlineBytes + bytes <= limits.inlineBytes
                   /\ count > 0 => usage.entries + count <= limits.entries
  <2>2. IsWeighed(after, r, ok)
    BY <2>1, AssertCapacityIs
  <2> HIDE DEF r
  <2>3. Good(r) /\ r.entries = after.entries /\ r.usage = after.usage
    <3> HIDE DEF ok
    <3>1. Good(r)
      BY <2>1, <2>2, WeighedGood
    <3>2. QED
      BY <2>2, <3>1 DEF IsWeighed
  <2>4. r.halt = Absent => ok
    <3> HIDE DEF ok
    <3>1. QED
      BY <2>1, <2>2, WeighedOk
  <2>5. Fits(r)
    BY <2>1, <2>3, <2>4, TotalsAre DEF Fits
  <2>6. Stored(r, items, N)
    BY <1>3, <1>5, <2>3 DEF Stored
  <2>7. QED
    BY <1>2, <1>5, <2>5, <2>6
<1>6. QED
  BY <1>4, <1>5

\* Update of one path, Announce of another, and UpdateUsage.
RewriteAs(tx, p, q, size) ==
  UpdateUsage(Announce(Update(tx, p, size), {q}, TRUE), size - tx.entries[p].size, 0)

\* A row written under the name of another path is a row written, but for the feed.
LEMMA WrittenElsewhere ==
    ASSUME TypeOK, NEW tx, Good(tx), NEW p \in Paths, tx.entries[p] # Absent, NEW q \in Paths,
           NEW size \in Nat, size > tx.entries[p].size, NEW r, r = RewriteAs(tx, p, q, size)
    PROVE  /\ Solid(r) /\ Linked(r, {}) /\ Pending(r) /\ Forward(r) /\ Fresh(r)
           /\ r.halt = tx.halt /\ r.usage.entries = tx.usage.entries
           /\ r.usage.inlineBytes = tx.usage.inlineBytes + (size - tx.entries[p].size)
<1> DEFINE d == size - tx.entries[p].size
           there == {q}
           here == {p}
           t == Update(tx, p, size)
           a == Announce(t, there, TRUE)
           b == Announce(t, here, TRUE)
           s == UpdateUsage(b, d, 0)
<1>1. tx \in Transaction /\ d \in Nat /\ d # 0 /\ there \subseteq Paths /\ here \subseteq Paths
  <2>1. tx \in Transaction /\ tx.entries[p] \in Entry
    BY DEF Good, Solid, Transaction, Table
  <2>2. QED
    BY <2>1, RowIs
<1>2. r = UpdateUsage(a, d, 0) /\ s = Rewrite(tx, p, size)
  BY DEF Rewrite, RewriteAs
<1>3. Good(s)
  <2>1. IsRewritten(tx, Rewrite(tx, p, size), p, size)
    BY <1>1, RewriteIs
  <2> HIDE DEF s
  <2>2. QED
    BY <1>2, <2>1, RewrittenGood
<1>4. IsUpdated(tx, t, p, size)
  BY <1>1, UpdateIs
<1> HIDE DEF d, there, here, t
<1>5. t \in Transaction
  BY <1>4 DEF IsUpdated
<1>6. IsAnnounced(t, a, there, TRUE) /\ IsAnnounced(t, b, here, TRUE)
  BY <1>1, <1>5, AnnounceIs
<1> HIDE DEF a, b
<1>7. a \in Transaction /\ b \in Transaction
  BY <1>6 DEF IsAnnounced
<1>8. IsTotalled(a, r, d, 0) /\ IsTotalled(b, s, d, 0)
  <2>1. d \in Int /\ 0 \in Int
    BY <1>1
  <2>2. IsTotalled(a, UpdateUsage(a, d, 0), d, 0)
    BY <1>7, <2>1, UpdateUsageIs
  <2>3. IsTotalled(b, s, d, 0)
    BY <1>7, <2>1, UpdateUsageIs
  <2>4. QED
    BY <1>2, <2>2, <2>3
<1> HIDE DEF s
<1>9. /\ r \in Transaction /\ s \in Transaction
      /\ r.entries = s.entries /\ r.tombstones = s.tombstones /\ r.deltas = s.deltas
      /\ r.parents = s.parents /\ r.halt = s.halt /\ r.halt = tx.halt
      /\ r.changes = a.changes /\ a.usage = tx.usage /\ b.usage = tx.usage
      /\ r.alloc = a.alloc /\ s.alloc = b.alloc
  <2>1. /\ a.entries = t.entries /\ a.tombstones = t.tombstones /\ a.deltas = t.deltas
        /\ a.parents = t.parents /\ a.halt = t.halt /\ a.usage = t.usage
        /\ b.entries = t.entries /\ b.tombstones = t.tombstones /\ b.deltas = t.deltas
        /\ b.parents = t.parents /\ b.halt = t.halt /\ b.usage = t.usage
    BY <1>6 DEF IsAnnounced
  <2>2. t.usage = tx.usage /\ t.halt = tx.halt
    BY <1>4 DEF IsUpdated
  <2>3. /\ r \in Transaction /\ r.entries = a.entries /\ r.tombstones = a.tombstones
        /\ r.deltas = a.deltas /\ r.parents = a.parents /\ r.halt = a.halt
        /\ r.changes = a.changes /\ r.alloc = a.alloc
    BY <1>8 DEF IsTotalled
  <2>4. /\ s \in Transaction /\ s.entries = b.entries /\ s.tombstones = b.tombstones
        /\ s.deltas = b.deltas /\ s.parents = b.parents /\ s.halt = b.halt
        /\ s.alloc = b.alloc
    BY <1>8 DEF IsTotalled
  <2>5. QED
    BY <2>1, <2>2, <2>3, <2>4
<1>10. /\ a.alloc.ino = tx.alloc.ino /\ b.alloc.ino = tx.alloc.ino
       /\ a.alloc.seq = tx.alloc.seq + 1 /\ b.alloc.seq = tx.alloc.seq + 1
       /\ tx.alloc.seq \in Nat /\ tx.alloc.ino \in Nat
  BY <1>1, <1>4, <1>6, TotalsAre DEF IsUpdated, IsAnnounced
<1>11. /\ r.usage.inlineBytes = tx.usage.inlineBytes + d /\ r.usage.entries = tx.usage.entries
       /\ r.usage.inlineBytes = s.usage.inlineBytes /\ r.usage.entries = s.usage.entries
       /\ r.usage.nextIno = s.usage.nextIno
  <2>1. /\ tx.usage.inlineBytes \in Int /\ tx.usage.entries \in Int /\ tx.usage.nextIno \in Nat
    BY <1>1, TotalsAre
  <2>2. /\ r.usage.inlineBytes = tx.usage.inlineBytes + d /\ r.usage.entries = tx.usage.entries + 0
        /\ s.usage.inlineBytes = tx.usage.inlineBytes + d /\ s.usage.entries = tx.usage.entries + 0
        /\ r.usage.nextIno \in {tx.usage.nextIno, tx.alloc.ino}
        /\ r.usage.nextIno >= tx.usage.nextIno /\ r.usage.nextIno >= tx.alloc.ino
        /\ s.usage.nextIno \in {tx.usage.nextIno, tx.alloc.ino}
        /\ s.usage.nextIno >= tx.usage.nextIno /\ s.usage.nextIno >= tx.alloc.ino
    BY <1>1, <1>8, <1>9, <1>10 DEF IsTotalled
  <2>3. r.usage.inlineBytes = tx.usage.inlineBytes + d /\ r.usage.inlineBytes = s.usage.inlineBytes
    BY <2>2
  <2>4. r.usage.entries = tx.usage.entries /\ r.usage.entries = s.usage.entries
    <3>1. \A n \in Int : n + 0 = n
      OBVIOUS
    <3>2. tx.usage.entries + 0 = tx.usage.entries
      BY <2>1, <3>1
    <3>3. QED
      BY <2>2, <3>2
  <2>5. r.usage.nextIno = s.usage.nextIno
    <3>1. ASSUME NEW x \in Nat, NEW y \in Nat, NEW u \in {x, y}, NEW v \in {x, y},
                 u >= x, u >= y, v >= x, v >= y
          PROVE  u = v
      BY <3>1
    <3>2. tx.alloc.ino \in Nat /\ tx.usage.nextIno \in Nat
      BY <1>10, <2>1
    <3>3. QED
      BY <2>2, <3>1, <3>2
  <2>6. QED
    BY <2>3, <2>4, <2>5
<1>12. \A x \in Paths : changes[x].seq <= r.changes[x].seq /\ r.changes[x].seq <= r.alloc.seq
  <2>1. ASSUME NEW x \in Paths
        PROVE  /\ changes[x].seq \in Nat /\ tx.changes[x].seq \in Nat
               /\ changes[x].seq <= tx.changes[x].seq /\ tx.changes[x].seq <= tx.alloc.seq
               /\ changes[x].seq <= tx.alloc.seq
    BY <1>1, FeedIs DEF Good, IInv
  <2>2. \A x \in Paths : \/ a.changes[x] = [seq |-> tx.alloc.seq + 1, present |-> TRUE]
                         \/ a.changes[x] = tx.changes[x]
    BY <1>4, <1>6, ZenonT(30) DEF IsUpdated, IsAnnounced
  <2>3. \A x \in Paths : \/ r.changes[x].seq = tx.alloc.seq + 1
                         \/ r.changes[x].seq = tx.changes[x].seq
    <3> SUFFICES ASSUME NEW x \in Paths
                 PROVE  r.changes[x].seq \in {tx.alloc.seq + 1, tx.changes[x].seq}
      OBVIOUS
    <3>1. r.changes[x] = a.changes[x]
      BY <1>9
    <3>2. CASE a.changes[x] = [seq |-> tx.alloc.seq + 1, present |-> TRUE]
      BY <3>1, <3>2
    <3>3. CASE a.changes[x] = tx.changes[x]
      BY <3>1, <3>3
    <3>4. QED
      BY <2>2, <3>2, <3>3
  <2>4. r.alloc.seq = tx.alloc.seq + 1 /\ tx.alloc.seq \in Nat
    BY <1>9, <1>10
  <2>5. ASSUME NEW x \in Paths
        PROVE  changes[x].seq <= r.changes[x].seq /\ r.changes[x].seq <= r.alloc.seq
    <3>1. \A k, m, n \in Nat : k <= m /\ m <= n => /\ k <= m /\ k <= n + 1
                                                 /\ m <= n + 1 /\ n + 1 <= n + 1
      OBVIOUS
    <3>2. /\ changes[x].seq \in Nat /\ tx.changes[x].seq \in Nat
          /\ changes[x].seq <= tx.changes[x].seq /\ tx.changes[x].seq <= tx.alloc.seq
      BY <2>1
    <3>3. QED
      BY <2>3, <2>4, <3>1, <3>2
  <2>6. QED
    BY <2>5
<1>13. Solid(r)
  <2>1. r.alloc.ino = s.alloc.ino /\ r.alloc.seq = s.alloc.seq
    BY <1>9, <1>10
  <2>2. Solid(s)
    BY <1>3 DEF Good
  <2>3. QED
    BY <1>9, <1>11, <1>12, <2>1, <2>2 DEF Solid
<1>14. Linked(r, {}) /\ Pending(r) /\ Forward(r) /\ Fresh(r)
  <2>1. Linked(s, {}) /\ Pending(s) /\ Forward(s) /\ Fresh(s)
    BY <1>3, ToldIs DEF Good
  <2>2. QED
    BY <1>9, <2>1 DEF Linked, Pending, Forward, Fresh
<1>15. QED
  BY <1>9, <1>11, <1>13, <1>14 DEF d

\* The commit of an append.
LEMMA CommitAppendIs ==
    ASSUME IInv, NEW item, PlanIs(entries, tombstones, item)
    PROVE  LET tx == CommitAppend(item) IN Ready(tx) /\ Forward(tx) /\ Fresh(tx)
<1> DEFINE p == Resolve(entries, item.path, TRUE)
           grown == AssertCapacity(Begin, item.size, 0)
           size == entries[p].size + item.size
           found == /\ ~ Loops(entries, item.path, TRUE)
                    /\ Is(entries, p, "file")
                    /\ entries[p].version = item.token
                    /\ Unguarded(Begin, item)
           tx == CommitAppend(item)
           r == UpdateUsage(Announce(Update(grown, p, size), {item.path}, TRUE), item.size, 0)
<1>1. Good(Begin) /\ Begin.usage = usage /\ Begin.entries = entries /\ TypeOK /\ Begin \in Transaction
  BY BeginIs DEF IInv, Good, Solid
<1>2. item.path \in Paths /\ item.size \in Nat
  BY DEF PlanIs
<1>3. p \in Paths
  BY <1>2, RowsAre, ResolveIs
<1>4. tx = IF found THEN (IF item.size = 0 THEN Begin ELSE r) ELSE Throw(Begin, FALSE)
  BY DEF CommitAppend
<1> HIDE DEF tx
<1>5. CASE ~ found
  <2>1. tx = Throw(Begin, FALSE)
    BY <1>4, <1>5
  <2>2. Good(tx) /\ tx.halt # Absent
    BY <1>1, <2>1, ThrownGood
  <2>3. Fits(tx)
    BY <2>2 DEF Fits
  <2>4. QED
    BY <2>2, <2>3, GoodIsReady DEF tx
<1>6. CASE found /\ item.size = 0
  <2>1. tx = Begin
    BY <1>4, <1>6
  <2>2. Good(tx) /\ tx.usage = usage /\ usage.inlineBytes \in Nat /\ usage.entries \in Nat
    BY <1>1, <2>1, TotalsAre
  <2>3. Fits(tx)
    BY <2>2 DEF Fits
  <2>4. QED
    BY <2>2, <2>3, GoodIsReady DEF tx
<1>7. CASE found /\ item.size # 0
  <2>1. tx = r
    BY <1>4, <1>7
  <2>2. IsWeighed(Begin, grown, Affords(Begin, item.size, 0))
    BY <1>1, WeighIs
  <2>3. entries[p] \in Entry /\ entries[p] # Absent
    BY <1>1, <1>3, <1>7 DEF Is, TypeOK
  <2>4. entries[p].size \in Nat
    BY <2>3, RowIs
  <2>5. size \in Nat /\ size > entries[p].size /\ size - entries[p].size = item.size
    <3>1. \A m, n \in Nat : n # 0 => m + n \in Nat /\ m + n > m /\ (m + n) - m = n
      OBVIOUS
    <3>2. entries[p].size \in Nat /\ item.size \in Nat /\ item.size # 0
      BY <1>2, <1>7, <2>4
    <3>3. QED
      BY <3>1, <3>2
  <2> HIDE DEF grown, p, size
  <2>6. Good(grown) /\ grown.entries = entries /\ grown.usage = usage
    BY <1>1, <2>2, WeighedGood DEF IsWeighed
  <2>7. r = RewriteAs(grown, p, item.path, size)
    BY <2>5, <2>6 DEF RewriteAs
  <2> HIDE DEF r
  <2>8. /\ Solid(r) /\ Linked(r, {}) /\ Pending(r) /\ Forward(r) /\ Fresh(r)
        /\ r.halt = grown.halt /\ r.usage.entries = grown.usage.entries
        /\ r.usage.inlineBytes = grown.usage.inlineBytes + (size - grown.entries[p].size)
    <3>1. grown.entries[p] # Absent /\ size > grown.entries[p].size
      BY <2>3, <2>5, <2>6
    <3>2. item.path \in Paths /\ p \in Paths /\ size \in Nat /\ TypeOK /\ Good(grown)
      BY <1>1, <1>2, <1>3, <2>5, <2>6
    <3>3. QED
      BY <2>7, <3>1, <3>2, WrittenElsewhere
  <2>9. r.usage.entries = usage.entries /\ r.usage.inlineBytes = usage.inlineBytes + item.size
    BY <2>5, <2>6, <2>8
  <2>10. r.halt = Absent => Affords(Begin, item.size, 0)
    <3>1. ASSUME r.halt = Absent PROVE grown.halt = Absent
      BY <2>8, <3>1
    <3>2. QED
      BY <1>1, <2>2, <3>1, WeighedOk
  <2>11. /\ usage.inlineBytes \in Nat /\ usage.entries \in Nat
         /\ r.halt = Absent => usage.inlineBytes + item.size <= limits.inlineBytes
    <3>1. item.size > 0
      BY <1>2, <1>7
    <3>2. QED
      BY <1>1, <2>10, <3>1, TotalsAre DEF Affords
  <2>12. Fits(r)
    BY <1>2, <2>9, <2>11 DEF Fits
  <2>13. Linked(r, Open(r))
    BY <2>8 DEF Linked
  <2>14. Ready(r)
    BY <2>8, <2>12, <2>13 DEF Ready, Fits
  <2>15. QED
    BY <2>1, <2>8, <2>14 DEF tx
<1>8. QED
  BY <1>5, <1>6, <1>7

\* What a call commits.
LEMMA OutcomeOf ==
    ASSUME SInv, NEW c \in Calls, calls[c].phase = "collecting"
    PROVE  OutcomeIs(Outcome(calls[c]), calls[c])
<1> DEFINE call == calls[c]
           items == call.items
           N == Len(items)
           tx == Outcome(call)
<1>1. /\ IInv /\ CallIs(call) /\ \A i \in DOMAIN items : PlanIs(entries, tombstones, items[i])
  BY DEF SInv
<1>2. /\ call.op \in {"writeFile", "writeFiles", "appendFile"}
      /\ call.op # "writeFiles" => N = 1
      /\ \A i, j \in DOMAIN items : items[i].path = items[j].path => i = j
  BY <1>1 DEF CallIs, Ops
<1>3. N \in Nat /\ DOMAIN items = 1 .. N
  BY <1>1 DEF CallIs
<1>4. PlansAre(items)
  BY <1>1, <1>2, <1>3 DEF PlansAre
<1> HIDE DEF call, items
<1>5. CASE call.op = "writeFiles"
  <2>1. tx = CommitInlineWriteSet(items)
    BY <1>5 DEF Outcome, items
  <2>2. Stored(CommitInlineWriteSet(items), items, N) /\ Fits(CommitInlineWriteSet(items))
    BY <1>1, <1>4, CommitInlineWriteSetIs
  <2>3. Stored(tx, items, N) /\ Fits(tx)
    BY <2>1, <2>2
  <2> HIDE DEF tx
  <2>4. Ready(tx) /\ Forward(tx) /\ Fresh(tx)
    BY <2>3, GoodIsReady DEF Stored
  <2>5. QED
    BY <1>3, <2>3, <2>4 DEF OutcomeIs, Stored, tx, items, call
<1>6. CASE call.op = "writeFile"
  <2>1. N = 1 /\ 1 \in DOMAIN items /\ \A i \in DOMAIN items : i = 1
    BY <1>2, <1>3, <1>6
  <2>2. tx = CommitInlineWrite(Begin, items[1], FALSE)
    BY <1>6 DEF Outcome, items
  <2>3. PlanIs(entries, tombstones, items[1])
    BY <1>1, <2>1 DEF items
  <2>4. /\ Good(tx) /\ Fits(tx)
        /\ tx.halt = Absent => /\ entries[items[1].path] = items[1].entry
                               /\ Is(tx.entries, items[1].path, "file")
                               /\ tx.entries[items[1].path].size = items[1].size
    BY <1>1, <2>2, <2>3, CommitInlineWriteIs
  <2> HIDE DEF tx
  <2>5. Ready(tx) /\ Forward(tx) /\ Fresh(tx)
    BY <2>4, GoodIsReady
  <2>6. ASSUME tx.halt = Absent, NEW i \in DOMAIN items
        PROVE  /\ entries[items[i].path] = items[i].entry
               /\ Is(tx.entries, items[i].path, "file")
               /\ tx.entries[items[i].path].size = items[i].size
    BY <2>1, <2>4, <2>6
  <2>7. QED
    BY <2>5, <2>6 DEF OutcomeIs, tx, items, call
<1>7. CASE call.op = "appendFile"
  <2>1. N = 1 /\ 1 \in DOMAIN items
    BY <1>2, <1>3, <1>7
  <2>2. tx = CommitAppend(items[1])
    BY <1>7 DEF Outcome, items
  <2>3. PlanIs(entries, tombstones, items[1])
    BY <1>1, <2>1 DEF items
  <2>4. Ready(tx) /\ Forward(tx) /\ Fresh(tx)
    BY <1>1, <2>2, <2>3, CommitAppendIs
  <2>5. call.op \notin {"writeFile", "writeFiles"}
    BY <1>7
  <2> HIDE DEF tx
  <2>6. QED
    BY <2>4, <2>5 DEF OutcomeIs, tx, call
<1>8. QED
  BY <1>2, <1>5, <1>6, <1>7 DEF call

\* CommitWrite keeps the invariant.
LEMMA CommitWriteKeeps ==
    ASSUME SInv, NEW c \in Calls, CommitWrite(c)
    PROVE  SInv'
<1> DEFINE tx == Outcome(calls[c])
           phase == IF tx.halt = Absent THEN "done" ELSE "failed"
<1>1. calls[c].phase = "collecting" /\ Finish(tx) /\ End(c, phase) /\ IInv
  BY DEF CommitWrite, SInv
<1>2. Ready(tx) /\ Forward(tx) /\ Fresh(tx)
  BY <1>1, OutcomeOf DEF OutcomeIs
<1> HIDE DEF tx
<1>3. IInv' /\ NewTokens /\ NewVersions
  BY <1>1, <1>2, FinishKeeps, FinishAdvances
<1>4. phase \in {"done", "failed"}
  OBVIOUS
<1> HIDE DEF phase
<1>5. QED
  BY <1>1, <1>3, <1>4, EndKeeps

\* Every step keeps the invariant.
LEMMA StreamsNextKeeps ==
    ASSUME SInv, [StreamsNext]_svars
    PROVE  SInv'
<1>1. CASE \E written \in Paths : TakeToken(written)
  BY <1>1, TakeTokenKeeps
<1>2. CASE EvictCalls
  BY <1>2, EvictCallsKeeps
<1>3. CASE \E c \in Calls : \E r \in Requests : StartWrite(c, r)
  BY <1>3, StartWriteKeeps
<1>4. CASE \E c \in Calls : \E written \in Paths : OpenRead(c, written)
  BY <1>4, OpenReadKeeps
<1>5. CASE \E c \in Calls : Receive(c)
  BY <1>5, ReceiveKeeps
<1>6. CASE \E c \in Calls : BodyFails(c) \/ CloseRead(c)
  BY <1>6, CloseKeeps
<1>7. CASE \E c \in Calls : CommitWrite(c)
  BY <1>7, CommitWriteKeeps
<1>8. CASE (Files \/ Trees \/ Links) /\ UNCHANGED streams
  BY <1>8, OthersKeep
<1>9. CASE UNCHANGED svars
  <2>1. UNCHANGED vars /\ UNCHANGED <<calls, used>> /\ IInv
    BY <1>9 DEF svars, streams, SInv
  <2>2. QED
    BY <2>1, TreeStays, CallsStay
<1>10. QED
  BY <1>1, <1>2, <1>3, <1>4, <1>5, <1>6, <1>7, <1>8, <1>9 DEF StreamsNext, CallNext

\* A fresh workspace without calls is in order.
LEMMA StreamsInitIsGood ==
    ASSUME StreamsInit
    PROVE  SInv
<1>1. Init /\ calls = [c \in Calls |-> Idle] /\ used = 0
  BY DEF StreamsInit
<1>2. IInv
  BY <1>1, InitIsGood
<1>3. Idle = [Idle EXCEPT !.phase = "idle"] /\ Idle.items = << >>
  BY DEF Idle
<1>4. CallIs([Idle EXCEPT !.phase = "idle"])
  BY IdleIs
<1>5. \A c \in Calls : CallIs(calls[c]) /\ calls[c].items = << >> /\ Leased(calls[c]) = 0
  BY <1>1, <1>3, <1>4, IdleHolds
<1>6. Exact(calls, used)
  <2>1. IsFiniteSet(Calls) /\ MaxInFlight \in Nat
    BY RequestsAssumption
  <2>2. \A c \in Calls : LeasesOf(calls)[c] = 0
    BY <1>5 DEF LeasesOf
  <2>3. SumOf(LeasesOf(calls), Calls) = 0 * Cardinality(Calls)
    BY <2>1, <2>2, SumConstant
  <2>4. Cardinality(Calls) \in Nat
    BY <2>1, FS_CardinalityType
  <2>5. QED
    BY <1>1, <2>1, <2>3, <2>4 DEF Exact
<1>7. QED
  BY <1>1, <1>2, <1>5, <1>6 DEF SInv

\* The invariant is one of types, of the budget and of the tree.
LEMMA StreamsAre ==
    ASSUME SInv
    PROVE  StreamsTypeOK /\ BudgetExact /\ TreeShape
<1>1. /\ IInv /\ \A c \in Calls : CallIs(calls[c])
      /\ used = SumOf(LeasesOf(calls), Calls) /\ used <= MaxInFlight
  BY DEF SInv, Exact
<1>2. used \in Nat
  <2>1. IsFiniteSet(Calls)
    BY RequestsAssumption
  <2>2. \A c \in Calls : LeasesOf(calls)[c] \in Nat
    BY <1>1, LeasedIs DEF LeasesOf, CallIs
  <2>3. QED
    BY <1>1, <2>1, <2>2, SumNatural
<1>3. StreamsTypeOK
  BY <1>1, <1>2 DEF StreamsTypeOK, CallIs, Phases, IInv
<1>4. BudgetExact
  BY <1>1, SumFunctionIs DEF BudgetExact, LeasesOf
<1>5. TreeShape
  BY <1>1 DEF IInv, Shaped, TreeShape
<1>6. QED
  BY <1>3, <1>4, <1>5

\* The action of NoLostUpdate.
Replaces(c) ==
  \A i \in DOMAIN calls[c].items :
    LET item == calls[c].items[i]
    IN  /\ entries[item.path] = item.entry
        /\ Is(entries', item.path, "file")
        /\ entries'[item.path].size = item.size

\* A step that commits a write commits its outcome.
LEMMA CommitsByCommitWrite ==
    ASSUME SInv, StreamsNext, NEW c \in Calls, Commits(c)
    PROVE  CommitWrite(c) /\ Outcome(calls[c]).halt = Absent
<1>1. calls[c].phase = "collecting" /\ calls'[c].phase = "done" /\ DOMAIN calls = Calls
  BY DEF Commits, SInv
<1>2. calls'[c] # calls[c]
  BY <1>1
<1>3. Idle.phase = "idle" /\ [Idle EXCEPT !.phase = "failed"].phase = "failed"
  BY DEF Idle
<1>4. ~ \E written \in Paths : TakeToken(written)
  BY <1>2 DEF TakeToken
<1>5. ~ EvictCalls
  <2> SUFFICES ASSUME EvictCalls PROVE FALSE
    OBVIOUS
  <2>1. calls'[c] = [Idle EXCEPT !.phase = "failed"]
    BY <1>1 DEF EvictCalls
  <2>2. QED
    BY <1>1, <1>3, <2>1
<1>6. ~ \E d \in Calls : \E r \in Requests : StartWrite(d, r)
  <2> SUFFICES ASSUME NEW d \in Calls, NEW r \in Requests, StartWrite(d, r) PROVE FALSE
    OBVIOUS
  <2>1. d # c
    BY <1>1, <1>3 DEF StartWrite
  <2>2. calls'[c] = calls[c]
    BY <1>1, <2>1 DEF StartWrite
  <2>3. QED
    BY <1>2, <2>2
<1>7. ~ \E d \in Calls : \E written \in Paths : OpenRead(d, written)
  <2> SUFFICES ASSUME NEW d \in Calls, NEW written \in Paths, OpenRead(d, written) PROVE FALSE
    OBVIOUS
  <2>1. d # c
    BY <1>1, <1>3 DEF OpenRead
  <2>2. calls'[c] = calls[c]
    BY <1>1, <2>1 DEF OpenRead
  <2>3. QED
    BY <1>2, <2>2
<1>8. ASSUME NEW d \in Calls, NEW phase, End(d, phase)
      PROVE  d = c /\ phase = "done"
  <2>1. calls' = [calls EXCEPT ![d] = [Idle EXCEPT !.phase = phase]]
    BY <1>8 DEF End
  <2>2. d = c
    BY <1>1, <1>2, <2>1
  <2>3. calls'[c].phase = phase
    BY <1>1, <2>1, <2>2 DEF Idle
  <2>4. QED
    BY <1>1, <2>2, <2>3
<1>9. ~ \E d \in Calls : Receive(d)
  <2> SUFFICES ASSUME NEW d \in Calls, Receive(d) PROVE FALSE
    OBVIOUS
  <2>1. ~ End(d, "failed")
    BY <1>8
  <2>2. calls' = [calls EXCEPT ![d].held[Min(Waiting(calls[d]))] = @ + 1]
    BY <2>1 DEF Receive
  <2>3. calls'[c].phase = calls[c].phase
    <3>1. CASE d # c
      BY <1>1, <2>2, <3>1
    <3>2. CASE d = c
      <4> DEFINE held == [calls[c].held EXCEPT ![Min(Waiting(calls[d]))] = @ + 1]
      <4>1. calls'[c] = [calls[c] EXCEPT !.held = held]
        BY <1>1, <2>2, <3>2
      <4> HIDE DEF held
      <4>2. CallIs(calls[c])
        BY DEF SInv
      <4>3. QED
        BY <4>1, <4>2 DEF CallIs
    <3>3. QED
      BY <3>1, <3>2
  <2>4. QED
    BY <1>1, <2>3
<1>10. ~ \E d \in Calls : BodyFails(d)
  BY <1>8 DEF BodyFails
<1>11. ~ \E d \in Calls : CloseRead(d)
  <2> SUFFICES ASSUME NEW d \in Calls, CloseRead(d) PROVE FALSE
    OBVIOUS
  <2>1. d = c /\ calls[d].phase = "reading"
    BY <1>8 DEF CloseRead
  <2>2. QED
    BY <1>1, <2>1
<1>12. ~ UNCHANGED streams
  BY <1>2 DEF streams
<1>13. PICK d \in Calls : CommitWrite(d)
  BY <1>4, <1>5, <1>6, <1>7, <1>9, <1>10, <1>11, <1>12 DEF StreamsNext, CallNext
<1>14. d = c /\ (IF Outcome(calls[d]).halt = Absent THEN "done" ELSE "failed") = "done"
  <2> DEFINE phase == IF Outcome(calls[d]).halt = Absent THEN "done" ELSE "failed"
  <2>1. End(d, phase)
    BY <1>13 DEF CommitWrite
  <2> HIDE DEF phase
  <2>2. d = c /\ phase = "done"
    BY <1>8, <2>1
  <2>3. QED
    BY <2>2 DEF phase
<1>15. QED
  BY <1>13, <1>14

\* A commit replaces the rows that were planned on.
LEMMA CommitReplaces ==
    ASSUME SInv, NEW c \in Calls, CommitWrite(c), Outcome(calls[c]).halt = Absent,
           calls[c].op \in {"writeFile", "writeFiles"}
    PROVE  Replaces(c)
<1> DEFINE tx == Outcome(calls[c])
<1>1. calls[c].phase = "collecting" /\ Finish(tx)
  BY DEF CommitWrite
<1>2. OutcomeIs(tx, calls[c])
  BY <1>1, OutcomeOf
<1>3. tx.halt = Absent
  OBVIOUS
<1> HIDE DEF tx
<1>4. Ready(tx)
  BY <1>2 DEF OutcomeIs
<1> SUFFICES ASSUME NEW i \in DOMAIN calls[c].items
             PROVE  LET item == calls[c].items[i]
                    IN  /\ entries[item.path] = item.entry
                        /\ Is(entries', item.path, "file")
                        /\ entries'[item.path].size = item.size
  BY DEF Replaces
<1> DEFINE item == calls[c].items[i]
           p == item.path
<1>5. /\ entries[p] = item.entry /\ Is(tx.entries, p, "file") /\ tx.entries[p].size = item.size
  BY <1>2, <1>3 DEF OutcomeIs
<1>6. p \in Paths
  BY DEF SInv, PlanIs
<1> HIDE DEF item, p
<1>7. /\ Is(entries', p, "file") <=> Is(tx.entries, p, "file")
      /\ entries'[p] # Absent => entries'[p].size = tx.entries[p].size
  BY <1>1, <1>3, <1>4, <1>6, FinishShows
<1>8. Is(entries', p, "file") /\ entries'[p].size = item.size
  BY <1>5, <1>7 DEF Is
<1>9. QED
  BY <1>5, <1>8 DEF item, p

------------------------------------------------------------------------------
(* The invariant holds in every state: the one of the tree, what each call *)
(* knows of its paths, and the sum of what they hold.                      *)
THEOREM StreamsInvariance == StreamsSpec => []SInv
<1>1. StreamsInit => SInv
  BY StreamsInitIsGood
<1>2. SInv /\ [StreamsNext]_svars => SInv'
  BY StreamsNextKeeps
<1>3. QED
  BY <1>1, <1>2, PTL DEF StreamsSpec

\* Calls, leases and plans have their types, whatever ran in between.
THEOREM StreamsTypeCorrect == StreamsSpec => []StreamsTypeOK
<1>1. SInv => StreamsTypeOK
  BY StreamsAre
<1>2. QED
  BY <1>1, StreamsInvariance, PTL

\* The budget holds exactly what the calls hold, and never more than its limit
\* (useBufferedSet, writeFiles, the snapshot of a reader).
THEOREM BudgetIsExact == StreamsSpec => []BudgetExact
<1>1. SInv => BudgetExact
  BY StreamsAre
<1>2. QED
  BY <1>1, StreamsInvariance, PTL

\* Writes that were planned before the tree changed leave it a tree.
THEOREM StreamsKeepTheTree == StreamsSpec => []TreeShape
<1>1. SInv => TreeShape
  BY StreamsAre
<1>2. QED
  BY <1>1, StreamsInvariance, PTL

\* A write that succeeds replaces the rows that it planned on, and its bodies are
\* there afterwards (commitInlineWrite, commitInlineWriteSet).
THEOREM NoUpdateIsLost == StreamsSpec => NoLostUpdate
<1> DEFINE A == \A c \in Calls : Commits(c) /\ calls[c].op \in {"writeFile", "writeFiles"} =>
                  \A i \in DOMAIN calls[c].items :
                    LET item == calls[c].items[i]
                    IN  /\ entries[item.path] = item.entry
                        /\ Is(entries', item.path, "file")
                        /\ entries'[item.path].size = item.size
<1>1. SInv /\ [StreamsNext]_svars => [A]_svars
  <2> SUFFICES ASSUME SInv, StreamsNext, NEW c \in Calls, Commits(c),
                      calls[c].op \in {"writeFile", "writeFiles"}
               PROVE  Replaces(c)
    BY DEF Replaces
  <2>1. CommitWrite(c) /\ Outcome(calls[c]).halt = Absent
    BY CommitsByCommitWrite
  <2>2. QED
    BY <2>1, CommitReplaces
<1>2. QED
  BY <1>1, StreamsInvariance, PTL DEF StreamsSpec, NoLostUpdate

------------------------------------------------------------------------------
(* Pages *)

\* What was read from `since` on has every change up to its cursor.
Covers(page, since) ==
  /\ page \in [paths : SUBSET Paths, cursor : Nat, more : BOOLEAN]
  /\ since <= page.cursor
  /\ page.cursor = since \/ \E q \in Paths : page.cursor = changes[q].seq
  /\ \A p \in Paths : changes[p].seq > since /\ changes[p].seq <= page.cursor => p \in page.paths

\* The cursor of a page is where it began, or the last number on it.
CursorAfter(since, paths) == Max({since} \cup {changes[p].seq : p \in paths})
LEMMA CursorIs ==
    ASSUME IInv, NEW since \in Nat, NEW paths, paths \subseteq Ahead(since),
           NEW cursor, cursor = CursorAfter(since, paths)
    PROVE  /\ cursor \in Nat /\ since <= cursor
           /\ cursor = since \/ \E q \in paths : cursor = changes[q].seq
<1> DEFINE S == {since} \cup {changes[p].seq : p \in paths}
           n == since + alloc.seq
<1>1. alloc.seq \in Nat /\ \A p \in Paths : changes[p].seq \in Nat /\ changes[p].seq <= alloc.seq
  BY DEF IInv, TypeOK
<1>2. paths \subseteq Paths
  BY DEF Ahead
<1>3. S \subseteq Nat /\ since \in S
  BY <1>1, <1>2
<1>4. n \in Nat /\ \A x \in S : x <= n
  BY <1>1, <1>2
<1>5. \A x \in S : x = since \/ \E q \in paths : x = changes[q].seq
  OBVIOUS
<1>6. cursor = Max(S)
  BY DEF CursorAfter
<1> HIDE DEF S, n
<1>7. Max(S) \in S /\ \A x \in S : x <= Max(S)
  BY <1>3, <1>4, MaxIs
<1>8. QED
  BY <1>3, <1>5, <1>6, <1>7

\* A page ends between two numbers, so it leaves nothing behind its cursor.
LEMMA ChangesSinceIs ==
    ASSUME IInv, NEW since \in Nat
    PROVE  Covers(ChangesSince(since), since)
<1> DEFINE cutoffs == Cutoffs(since)
           paths == IF cutoffs = {} THEN Ahead(since) ELSE UpTo(since, Max(cutoffs))
           cursor == CursorAfter(since, paths)
           page == [paths |-> paths, cursor |-> cursor, more |-> paths # Ahead(since)]
<1>1. ChangesSince(since) = page
  BY DEF ChangesSince, CursorAfter
<1>2. alloc.seq \in Nat /\ \A p \in Paths : changes[p].seq \in Nat /\ changes[p].seq <= alloc.seq
  BY DEF IInv, TypeOK
<1>3. paths \subseteq Ahead(since) /\ Ahead(since) \subseteq Paths
  BY DEF UpTo, Ahead
<1> HIDE DEF cursor, paths
<1>4. /\ cursor \in Nat /\ since <= cursor
      /\ cursor = since \/ \E q \in paths : cursor = changes[q].seq
  <2>1. cursor = CursorAfter(since, paths)
    BY DEF cursor
  <2>2. QED
    BY <1>3, <2>1, CursorIs
<1>5. ASSUME NEW p \in Ahead(since), changes[p].seq <= cursor
      PROVE  p \in paths
  <2>1. CASE cutoffs = {}
    BY <2>1 DEF paths
  <2>2. CASE cutoffs # {}
    <3> DEFINE last == Max(cutoffs)
    <3>1. \A x \in cutoffs : \E q \in Ahead(since) : x = changes[q].seq
      BY DEF Cutoffs
    <3>2. \A x \in cutoffs : x \in Nat /\ x <= alloc.seq
      BY <1>2, <1>3, <3>1
    <3> HIDE DEF cutoffs
    <3>3. last \in cutoffs
      <4>1. cutoffs \subseteq Nat
        BY <3>2
      <4>2. QED
        BY <1>2, <2>2, <3>2, <4>1, MaxIs
    <3>4. paths = UpTo(since, last)
      BY <2>2 DEF paths
    <3>5. last \in Nat
      BY <3>2, <3>3
    <3> HIDE DEF last
    <3>6. \A q \in paths : q \in Paths /\ changes[q].seq <= last
      BY <1>3, <3>4 DEF UpTo
    <3>7. CASE cursor = since
      <4>1. changes[p].seq > since /\ changes[p].seq \in Nat
        BY <1>2, <1>3 DEF Ahead
      <4>2. QED
        BY <1>5, <3>7, <4>1
    <3>8. CASE cursor # since
      <4>1. cursor <= last
        BY <1>4, <3>6, <3>8
      <4>2. changes[p].seq \in Nat
        BY <1>2, <1>3
      <4>3. changes[p].seq <= last
        BY <1>4, <1>5, <3>5, <4>1, <4>2
      <4>4. QED
        BY <3>4, <4>3 DEF UpTo
    <3>9. QED
      BY <3>7, <3>8
  <2>3. QED
    BY <2>1, <2>2
<1>6. /\ page \in [paths : SUBSET Paths, cursor : Nat, more : BOOLEAN]
      /\ page.paths = paths /\ page.cursor = cursor
  BY <1>3, <1>4
<1>7. \A p \in Paths : changes[p].seq > since /\ changes[p].seq <= page.cursor => p \in page.paths
  BY <1>5, <1>6 DEF Ahead
<1> HIDE DEF page
<1>8. Covers(page, since)
  BY <1>3, <1>4, <1>6, <1>7 DEF Covers
<1>9. QED
  BY <1>1, <1>8

\* One page after another.
LEMMA CoversOn ==
    ASSUME IInv, NEW since \in Nat, NEW before, Covers(before, since),
           NEW page, Covers(page, before.cursor)
    PROVE  Covers([page EXCEPT !.paths = @ \cup before.paths], since)
<1> DEFINE both == [page EXCEPT !.paths = @ \cup before.paths]
<1>1. /\ page \in [paths : SUBSET Paths, cursor : Nat, more : BOOLEAN]
      /\ before \in [paths : SUBSET Paths, cursor : Nat, more : BOOLEAN]
      /\ since <= before.cursor /\ before.cursor <= page.cursor
  BY DEF Covers
<1>2. /\ both \in [paths : SUBSET Paths, cursor : Nat, more : BOOLEAN]
      /\ both.paths = page.paths \cup before.paths /\ both.cursor = page.cursor
  BY <1>1
<1> HIDE DEF both
<1>3. both.cursor = since \/ \E q \in Paths : both.cursor = changes[q].seq
  BY <1>2 DEF Covers
<1>4. ASSUME NEW p \in Paths, changes[p].seq > since, changes[p].seq <= page.cursor
      PROVE  p \in both.paths
  <2>1. changes[p].seq \in Nat
    BY DEF IInv, TypeOK
  <2>2. CASE changes[p].seq <= before.cursor
    BY <1>2, <1>4, <2>2 DEF Covers
  <2>3. CASE changes[p].seq > before.cursor
    BY <1>2, <1>4, <2>3 DEF Covers
  <2>4. QED
    BY <1>1, <2>1, <2>2, <2>3
<1>5. since <= page.cursor
  BY <1>1
<1>6. Covers(both, since)
  BY <1>1, <1>2, <1>3, <1>4, <1>5 DEF Covers
<1>7. QED
  BY <1>6 DEF both

------------------------------------------------------------------------------
(* Page after page *)

\* What is known after a page more.
AndOn(before) ==
  LET page == ChangesSince(before.cursor)
  IN  IF before.more THEN [page EXCEPT !.paths = @ \cup before.paths] ELSE before

\* read is what n pages after the first one add to it.
IsReading(since, n, read) ==
  read = [k \in 0 .. n |-> IF k = 0 THEN ChangesSince(since) ELSE AndOn(read[k - 1])]

\* There is one of any length.
LEMMA ReadingExists ==
    ASSUME NEW since
    PROVE  \A n \in Nat : \E read : IsReading(since, n, read)
<1> DEFINE bad == {n \in Nat : ~ \E read : IsReading(since, n, read)}
<1> SUFFICES ASSUME bad # {} PROVE FALSE
  OBVIOUS
<1>1. PICK n \in bad : \A m \in bad : n <= m
  <2>1. bad \subseteq Nat
    OBVIOUS
  <2> HIDE DEF bad
  <2>2. QED
    BY <2>1, LeastNumber
<1>2. n # 0
  <2>1. IsReading(since, 0, [k \in 0 .. 0 |-> ChangesSince(since)])
    BY DEF IsReading
  <2>2. QED
    BY <2>1
<1>3. n - 1 \in Nat /\ n - 1 \notin bad /\ n \in Nat
  BY <1>1, <1>2
<1>4. PICK f : IsReading(since, n - 1, f)
  BY <1>3
<1> DEFINE g == [k \in 0 .. n |-> IF k = n THEN AndOn(f[n - 1]) ELSE f[k]]
<1>5. ASSUME NEW k \in 0 .. n
      PROVE  g[k] = IF k = 0 THEN ChangesSince(since) ELSE AndOn(g[k - 1])
  <2>1. \A i \in 0 .. n - 1 : f[i] = IF i = 0 THEN ChangesSince(since) ELSE AndOn(f[i - 1])
    BY <1>4 DEF IsReading
  <2>2. CASE k = n
    <3>1. n - 1 \in 0 .. n /\ n - 1 # n /\ n \in 0 .. n
      BY <1>3
    <3>2. g[k] = AndOn(f[n - 1]) /\ g[n - 1] = f[n - 1]
      BY <2>2, <3>1
    <3>3. QED
      BY <1>2, <2>2, <3>2
  <2>3. CASE k # n
    <3>1. k \in 0 .. n - 1 /\ g[k] = f[k]
      BY <1>3, <2>3
    <3>2. k # 0 => k - 1 \in 0 .. n /\ k - 1 # n
      BY <1>3, <2>3
    <3>3. k # 0 => g[k - 1] = f[k - 1]
      BY <3>2
    <3>4. QED
      BY <2>1, <3>1, <3>3
  <2>4. QED
    BY <2>2, <2>3
<1>6. IsReading(since, n, g)
  BY <1>5 DEF IsReading
<1>7. QED
  BY <1>6

\* However many pages there are, nothing is left behind the last cursor.
LEMMA ReadChangesIs ==
    ASSUME IInv, NEW since \in Nat
    PROVE  Covers(ReadChanges(since), since)
<1> DEFINE N == Cardinality(Paths)
           at == CHOOSE read : IsReading(since, N, read)
           bad == {k \in 0 .. N : ~ Covers(at[k], since)}
<1>1. N \in Nat
  BY PathsAssumption, FS_CardinalityType
<1>2. ReadChanges(since) = at[N]
  BY DEF ReadChanges, IsReading, AndOn
<1>3. IsReading(since, N, at)
  BY <1>1, ReadingExists
<1> HIDE DEF at, N
<1>4. \A k \in 0 .. N : at[k] = IF k = 0 THEN ChangesSince(since) ELSE AndOn(at[k - 1])
  BY <1>3 DEF IsReading
<1>5. bad = {}
  <2> SUFFICES ASSUME bad # {} PROVE FALSE
    OBVIOUS
  <2>1. PICK k \in bad : \A m \in bad : k <= m
    <3>1. bad \subseteq Nat
      BY <1>1
    <3> HIDE DEF bad
    <3>2. QED
      BY <3>1, LeastNumber
  <2>2. k # 0
    <3>1. Covers(ChangesSince(since), since)
      BY ChangesSinceIs
    <3>2. QED
      BY <1>4, <2>1, <3>1
  <2>3. k - 1 \in 0 .. N /\ k - 1 \notin bad
    BY <1>1, <2>1, <2>2
  <2> DEFINE before == at[k - 1]
             page == ChangesSince(before.cursor)
  <2>4. Covers(before, since)
    BY <2>3
  <2>5. at[k] = AndOn(before)
    BY <1>4, <2>1, <2>2
  <2> HIDE DEF before
  <2>6. Covers(page, before.cursor)
    BY <2>4, ChangesSinceIs DEF Covers
  <2>7. CASE before.more
    <3>1. at[k] = [page EXCEPT !.paths = @ \cup before.paths]
      BY <2>5, <2>7 DEF AndOn
    <3> HIDE DEF page
    <3>2. Covers([page EXCEPT !.paths = @ \cup before.paths], since)
      BY <2>4, <2>6, CoversOn
    <3>3. QED
      BY <2>1, <3>1, <3>2
  <2>8. CASE ~ before.more
    <3>1. at[k] = before
      BY <2>5, <2>8 DEF AndOn
    <3>2. QED
      BY <2>1, <2>4, <3>1
  <2>9. QED
    BY <2>7, <2>8
<1>6. QED
  BY <1>1, <1>2, <1>5

------------------------------------------------------------------------------
(* Lookups, and what the index holds of them *)

\* Without links, a path is looked up where it is.
LEMMA FoundIs ==
    ASSUME Targets = {}, IInv, NEW p \in Paths
    PROVE  Found(p) = p
<1>1. \A q \in Paths : ~ Is(entries, q, "symlink")
  <2> SUFFICES ASSUME NEW q \in Paths, Is(entries, q, "symlink") PROVE FALSE
    OBVIOUS
  <2>1. entries[q] \in Entry /\ entries[q].kind = "symlink"
    BY DEF IInv, TypeOK, Is
  <2>2. QED
    BY <2>1 DEF Entry
<1>2. LinksOnTheWay(entries, p, FALSE) = {}
  BY <1>1 DEF LinksOnTheWay, Above
<1>3. QED
  BY <1>2 DEF Found, Resolve

\* What is read and was not held before.
Added(old, ps) == {p \in ps : old[p] = Absent}

\* new is old where nothing was read, and has what was read unless it is gone.
IsReplaced(old, new, ps, gone) ==
  \A p \in Paths : /\ p \in gone => new[p] = Absent
                   /\ p \in ps \ gone => new[p] # Absent
                   /\ p \notin ps => new[p] = old[p]

\* What an index of these rows grows by when some are replaced and others go.
LEMMA HeldIs ==
    ASSUME NEW old, NEW new, NEW read, read \subseteq Paths, NEW gone, gone \subseteq read,
           IsReplaced(old, new, read, gone)
    PROVE  Held(new) = Held(old) - Cardinality(Living(old, gone))
                       + Cardinality(Added(old, read \ gone))
<1> DEFINE A == Living(old, Paths)
           B == Living(old, gone)
           C == Added(old, read \ gone)
<1>1. IsFiniteSet(Paths) /\ A \subseteq Paths /\ B \subseteq A /\ C \subseteq Paths
  BY PathsAssumption DEF Living, Added
<1>2. IsFiniteSet(A) /\ IsFiniteSet(B) /\ IsFiniteSet(C) /\ IsFiniteSet(A \ B)
  BY <1>1, FS_Subset, FS_Difference
<1>3. Living(new, Paths) = (A \ B) \cup C
  <2>1. ASSUME NEW p \in Paths
        PROVE  new[p] # Absent <=> p \in (A \ B) \cup C
    BY DEF Living, Added, IsReplaced
  <2>2. Living(new, Paths) \subseteq Paths /\ \A p \in Paths : p \in Living(new, Paths) <=> new[p] # Absent
    BY DEF Living
  <2>3. QED
    BY <1>1, <2>1, <2>2
<1>4. (A \ B) \cap C = {} /\ A \cap B = B
  BY <1>1 DEF Living, Added
<1> HIDE DEF A, B, C
<1>5. Cardinality(A \ B) = Cardinality(A) - Cardinality(B)
  <2>1. Cardinality(A \ B) = Cardinality(A) - Cardinality(A \cap B)
    BY <1>2, FS_Difference
  <2>2. QED
    BY <1>4, <2>1
<1>6. Cardinality((A \ B) \cup C) = Cardinality(A \ B) + Cardinality(C) - Cardinality({})
  BY <1>2, <1>4, FS_Union
<1>7. Cardinality({}) = 0 /\ Cardinality(A \ B) \in Nat /\ Cardinality(C) \in Nat
  BY <1>2, FS_EmptySet, FS_CardinalityType
<1>8. QED
  BY <1>3, <1>5, <1>6, <1>7 DEF Held, A, B, C

------------------------------------------------------------------------------
(* The invariant *)

\* No cursor is ahead of the feed.
IndexInv ==
  /\ IInv
  /\ index \in [entries : Table, cursor : Nat, initialized : BOOLEAN]
  /\ \E q \in Paths : index.cursor <= changes[q].seq
  /\ StaleIsAhead

\* An index that knows nothing is not wrong.
LEMMA UnreadIs ==
    ASSUME IInv', index' = Unread
    PROVE  IndexInv'
<1>1. /\ Unread \in [entries : Table, cursor : Nat, initialized : BOOLEAN]
      /\ Unread.cursor = 0 /\ Unread.initialized = FALSE
  BY DEF Unread, Table
<1>2. Root \in Paths /\ changes'[Root].seq \in Nat
  BY PathsAssumption DEF IInv, TypeOK
<1>3. 0 <= changes'[Root].seq
  BY <1>2
<1> HIDE DEF IInv
<1>4. StaleIsAhead'
  BY <1>1 DEF StaleIsAhead
<1>5. QED
  BY <1>1, <1>2, <1>3, <1>4 DEF IndexInv

\* What changes in the tree is ahead of the cursor, and stays so.
LEMMA TreeKeepsIndex ==
    ASSUME IndexInv, Kept, UNCHANGED index
    PROVE  IndexInv'
<1>1. /\ \A p \in Paths : changes[p].seq \in Nat /\ changes'[p].seq \in Nat
      /\ \A p \in Paths : changes'[p].seq >= changes[p].seq
  BY DEF IndexInv, Kept, NewFeed, IInv, TypeOK
<1>2. PICK q \in Paths : index.cursor <= changes[q].seq
  BY DEF IndexInv
<1>3. index.cursor \in Nat
  BY DEF IndexInv
<1>4. index.cursor <= changes'[q].seq
  BY <1>1, <1>2, <1>3
<1>5. ASSUME index.initialized, NEW p \in Paths, index.entries[p] # entries'[p]
      PROVE  changes'[p].seq > index.cursor
  <2>1. CASE entries'[p] = entries[p]
    <3>1. changes[p].seq > index.cursor
      BY <1>5, <2>1 DEF IndexInv, StaleIsAhead
    <3>2. QED
      BY <1>1, <1>3, <3>1
  <2>2. CASE entries'[p] # entries[p]
    <3>1. changes'[p].seq > changes[q].seq
      BY <2>2 DEF Kept, NewChanges
    <3>2. QED
      BY <1>1, <1>2, <1>3, <3>1
  <2>3. QED
    BY <2>1, <2>2
<1>6. index.initialized => Held(index.entries) <= Maximum
  BY DEF IndexInv, StaleIsAhead
<1>7. StaleIsAhead'
  BY <1>5, <1>6 DEF StaleIsAhead
<1>8. IInv'
  BY DEF Kept
<1>9. QED
  BY <1>3, <1>4, <1>7, <1>8 DEF IndexInv

\* A refresh leaves the tree alone.
LEMMA RefreshLeaves ==
    ASSUME IInv, Step, UNCHANGED <<durable, alloc, limits, refused>>
    PROVE  Kept /\ entries' = entries /\ changes' = changes
<1>1. /\ UNCHANGED durable /\ alloc' = alloc /\ limits' = limits /\ refused' = refused
      /\ entries' = entries /\ changes' = changes
  BY DEF durable
<1>2. /\ alloc \in [ino : Nat, seq : Nat] /\ limits \in Limits /\ steps' \in 0 .. MaxSteps
      /\ usage.nextIno <= alloc.ino /\ \A p \in Paths : changes[p].seq <= alloc.seq
  BY ValuesAssumption DEF IInv, TypeOK, Step
<1>3. QED
  BY <1>1, <1>2, SameTables

\* What is kept after a reading that missed nothing.
LEMMA KeepIs ==
    ASSUME IndexInv, IInv', entries' = entries, changes' = changes,
           NEW since \in Nat, since = 0 \/ since = index.cursor,
           NEW read, Covers(read, since), NEW es \in Table, Keep(es, read.cursor),
           Held(es) <= Maximum,
           \A p \in Paths : es[p] # entries[p] => changes[p].seq > read.cursor
    PROVE  IndexInv'
<1>1. /\ index' = [entries |-> es, cursor |-> read.cursor, initialized |-> TRUE]
      /\ index'.entries = es /\ index'.cursor = read.cursor
  BY DEF Keep
<1>2. read.cursor \in Nat /\ index' \in [entries : Table, cursor : Nat, initialized : BOOLEAN]
  BY <1>1 DEF Covers
<1>3. \E q \in Paths : read.cursor <= changes[q].seq
  <2>1. \A q \in Paths : changes[q].seq \in Nat
    BY DEF IndexInv, IInv, TypeOK
  <2>2. CASE read.cursor = 0
    BY <2>1, <2>2, PathsAssumption
  <2>3. CASE read.cursor = index.cursor
    BY <2>3 DEF IndexInv
  <2>4. CASE \E q \in Paths : read.cursor = changes[q].seq
    BY <2>1, <2>4
  <2>5. QED
    BY <2>2, <2>3, <2>4 DEF Covers
<1>4. StaleIsAhead'
  BY <1>1 DEF StaleIsAhead
<1>5. QED
  BY <1>1, <1>2, <1>3, <1>4 DEF IndexInv

\* The first refresh takes the tree as it is.
LEMMA InitializeKeeps ==
    ASSUME IndexInv, Initialize
    PROVE  IndexInv'
<1> DEFINE read == ReadChanges(0)
<1>1. IInv /\ Kept /\ entries' = entries /\ changes' = changes
  BY RefreshLeaves DEF Initialize, IndexInv
<1>2. Covers(read, 0)
  BY <1>1, ReadChangesIs
<1>3. CASE UNCHANGED index
  BY <1>1, <1>3, TreeKeepsIndex
<1>4. CASE ~ UNCHANGED index
  <2>1. Keep(entries, read.cursor) /\ ~ (Held(entries) > Maximum)
    BY <1>4 DEF Initialize
  <2> HIDE DEF read
  <2>2. Held(entries) \in Nat
    <3>1. Living(entries, Paths) \subseteq Paths
      BY DEF Living
    <3>2. QED
      BY <3>1, PathsAssumption, FS_Subset, FS_CardinalityType DEF Held
  <2>3. Held(entries) <= Maximum
    BY <2>1, <2>2, IndexAssumption
  <2>4. \A p \in Paths : entries[p] # entries[p] => changes[p].seq > read.cursor
    OBVIOUS
  <2>5. IInv' /\ entries \in Table
    BY <1>1 DEF Kept, IInv, TypeOK, Table
  <2>6. QED
    BY <1>1, <1>2, <2>1, <2>3, <2>4, <2>5, KeepIs
<1>5. QED
  BY <1>3, <1>4

\* A later one looks up all that changed, if there is room for it.
LEMMA RefreshKeeps ==
    ASSUME Targets = {}, IndexInv, Refresh
    PROVE  IndexInv'
<1> DEFINE since == index.cursor
           read == ReadChanges(since)
           ps == read.paths
           gone == Gone(ps)
           old == index.entries
           es == [p \in Paths |-> IF p \in ps \ gone THEN entries[p]
                                  ELSE IF p \in gone THEN Absent ELSE old[p]]
<1>1. IInv /\ Kept /\ entries' = entries /\ changes' = changes /\ since \in Nat
  BY RefreshLeaves DEF Refresh, IndexInv
<1>2. Covers(read, since)
  BY <1>1, ReadChangesIs
<1>3. CASE UNCHANGED index
  BY <1>1, <1>3, TreeKeepsIndex
<1>4. CASE ~ UNCHANGED index
  <2>1. /\ index.initialized /\ ~ (Grown(ps) > Maximum)
        /\ Keep([p \in Paths |-> IF p \in {Found(q) : q \in ps \ Gone(ps)} THEN entries[p]
                                 ELSE IF p \in Gone(ps) THEN Absent
                                 ELSE index.entries[p]],
                read.cursor)
    BY <1>4 DEF Refresh
  <2> HIDE DEF read
  <2>2. ps \subseteq Paths
    BY <1>2 DEF Covers
  <2>3. \A p \in ps : Found(p) = p
    BY <1>1, <2>2, FoundIs
  <2>4. gone = {p \in ps : entries[p] = Absent}
    BY <2>3 DEF Gone
  <2>5. {Found(q) : q \in ps \ gone} = ps \ gone
    BY <2>3
  <2>6. Keep(es, read.cursor)
    BY <2>1, <2>5
  <2>7. Grown(ps) = Held(old) - Cardinality(Living(old, gone))
                    + Cardinality(Added(old, ps \ gone))
    <3>1. {p \in ps \ gone : old[Found(p)] = Absent} = Added(old, ps \ gone)
      BY <2>3 DEF Added
    <3>2. QED
      BY <3>1 DEF Grown
  <2> HIDE DEF gone, ps
  <2>8. IsReplaced(old, es, ps, gone)
    BY <2>4 DEF IsReplaced
  <2>9. gone \subseteq ps /\ es \in Table
    <3>1. entries \in Table /\ old \in Table
      BY <1>1 DEF IndexInv, IInv, TypeOK, Table
    <3>2. QED
      BY <2>4, <3>1 DEF Table
  <2> HIDE DEF es, old
  <2>10. Held(es) = Grown(ps)
    <3>1. Held(es) = Held(old) - Cardinality(Living(old, gone))
                     + Cardinality(Added(old, ps \ gone))
      BY <2>2, <2>8, <2>9, HeldIs
    <3>2. QED
      BY <2>7, <3>1
  <2>11. Held(es) \in Nat
    <3>1. Living(es, Paths) \subseteq Paths
      BY DEF Living
    <3>2. QED
      BY <3>1, PathsAssumption, FS_Subset, FS_CardinalityType DEF Held
  <2>12. Held(es) <= Maximum
    BY <2>1, <2>10, <2>11, IndexAssumption
  <2>13. ASSUME NEW p \in Paths, es[p] # entries[p]
         PROVE  changes[p].seq > read.cursor
    <3>1. p \notin ps
      BY <2>4, <2>13 DEF es
    <3>2. old[p] # entries[p]
      BY <2>8, <2>13, <3>1 DEF IsReplaced
    <3>3. changes[p].seq > since
      BY <2>1, <3>2 DEF IndexInv, StaleIsAhead, old
    <3>4. ~ (changes[p].seq <= read.cursor)
      BY <1>2, <3>1, <3>3 DEF Covers, ps
    <3>5. changes[p].seq \in Nat /\ read.cursor \in Nat
      BY <1>1, <1>2 DEF Covers, IInv, TypeOK
    <3>6. QED
      BY <3>4, <3>5
  <2>14. IInv'
    BY <1>1 DEF Kept
  <2>15. QED
    BY <1>1, <1>2, <2>6, <2>9, <2>12, <2>13, <2>14, KeepIs
<1>5. QED
  BY <1>3, <1>4

\* Every step keeps what the index is worth.
LEMMA IndexNextKeeps ==
    ASSUME Targets = {}, IndexInv, [IndexNext]_ivars
    PROVE  IndexInv'
<1>1. IInv
  BY DEF IndexInv
<1>2. CASE (Files \/ Trees \/ \E l \in Limits : SetLimits(l)) /\ UNCHANGED index
  <2>1. Next
    BY <1>2 DEF Next, Host
  <2>2. Kept
    BY <1>1, <2>1, NextKeeps
  <2>3. QED
    BY <1>2, <2>2, TreeKeepsIndex
<1>3. CASE Restart
  <2>1. IInv'
    BY <1>1, <1>3, EvictKeeps DEF Restart, Kept
  <2>2. QED
    BY <1>3, <2>1, UnreadIs DEF Restart
<1>4. CASE Initialize
  BY <1>4, InitializeKeeps
<1>5. CASE Refresh
  BY <1>5, RefreshKeeps
<1>6. CASE UNCHANGED ivars
  <2>1. UNCHANGED vars /\ UNCHANGED index
    BY <1>6 DEF ivars
  <2>2. IInv'
    BY <1>1, <2>1, StepKeeps
  <2>3. entries' = entries /\ changes' = changes /\ index' = index
    BY <2>1 DEF vars
  <2> HIDE DEF IInv
  <2>4. StaleIsAhead'
    BY <2>3 DEF IndexInv, StaleIsAhead
  <2>5. QED
    BY <2>2, <2>3, <2>4 DEF IndexInv
<1>7. QED
  BY <1>2, <1>3, <1>4, <1>5, <1>6 DEF IndexNext

\* An index begins with nothing.
LEMMA IndexInitIsGood ==
    ASSUME IndexInit
    PROVE  IndexInv
<1>1. IInv /\ index = Unread
  BY InitIsGood DEF IndexInit
<1>2. /\ index \in [entries : Table, cursor : Nat, initialized : BOOLEAN]
      /\ index.cursor = 0 /\ index.initialized = FALSE
  BY <1>1 DEF Unread, Table
<1>3. Root \in Paths /\ changes[Root].seq \in Nat
  BY <1>1, PathsAssumption DEF IInv, TypeOK
<1>4. 0 <= changes[Root].seq
  BY <1>3
<1>5. StaleIsAhead
  BY <1>2 DEF StaleIsAhead
<1>6. QED
  BY <1>1, <1>2, <1>3, <1>4, <1>5 DEF IndexInv

------------------------------------------------------------------------------
(* The invariant holds in every state of a host without symbolic links: a  *)
(* cursor is never ahead of the feed, and nothing behind it is stale.      *)
THEOREM IndexInvariance == Targets = {} => (IndexSpec => []IndexInv)
<1> SUFFICES ASSUME Targets = {} PROVE IndexSpec => []IndexInv
  OBVIOUS
<1>1. IndexInit => IndexInv
  BY IndexInitIsGood
<1>2. IndexInv /\ [IndexNext]_ivars => IndexInv'
  BY IndexNextKeeps
<1>3. QED
  BY <1>1, <1>2, PTL DEF IndexSpec

\* An entry that is not what the tree holds is where the next refresh looks, and the
\* index stays within its capacity: whatever the pages cut, whatever failed, and
\* whenever the instance was lost (refresh, initialize, changesSince).
THEOREM StaleIsNeverBehind == Targets = {} => (IndexSpec => []StaleIsAhead)
<1> SUFFICES ASSUME Targets = {} PROVE IndexSpec => []StaleIsAhead
  OBVIOUS
<1>1. IndexInv => StaleIsAhead
  BY DEF IndexInv
<1>2. QED
  BY <1>1, IndexInvariance, PTL

=============================================================================
