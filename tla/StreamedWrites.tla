---------------------------- MODULE StreamedWrites ----------------------------
(***************************************************************************)
(* Calls of cf-vfs that hold bytes across awaits: writeFile, writeFiles    *)
(* and appendFile with bodies that stream in, and readFile, whose snapshot *)
(* is held until its stream ends.  A write plans against the rows, collects*)
(* its bodies piece by piece from a budget that all calls share, and       *)
(* commits in one transaction that checks again what it planned on.  Any   *)
(* operation of Namespace may happen in between, and so may an eviction.   *)
(* A piece is one unit of size.                                            *)
(***************************************************************************)
EXTENDS Namespace

CONSTANTS
  Calls,
  Requests,     \* what a call may ask for
  MaxInFlight   \* maxInFlightBufferedBytes

VARIABLES
  calls,    \* the calls in flight, and how they ended
  used,     \* usedBytes of the budget
  ticket    \* a mutation token that a client took, and the path it resolved to

streams == <<calls, used, ticket>>
svars == <<vars, streams>>

Idle == [phase |-> "idle", op |-> "none", items |-> << >>, held |-> << >>]
Ops == {"writeFile", "writeFiles", "appendFile", "readFile"}

ASSUME RequestsAssumption ==
  /\ IsFiniteSet(Calls)
  /\ MaxInFlight \in Nat
  /\ \A r \in Requests :
       /\ r.op \in Ops /\ r.guarded \in BOOLEAN
       /\ r.items \in Seq([written : Paths, size : Nat, createParents : BOOLEAN])
       /\ r.op # "writeFiles" => Len(r.items) = 1

StreamsTypeOK ==
  /\ TypeOK
  /\ used \in Nat
  /\ \A c \in Calls :
       /\ calls[c].phase \in {"idle", "collecting", "reading", "done", "failed"}
       /\ calls[c].held \in Seq(Nat)
       /\ DOMAIN calls[c].held = DOMAIN calls[c].items

------------------------------------------------------------------------------
(* Planning: everything that is decided before a byte is held *)

TakeToken(written) ==
  /\ ticket = Absent
  /\ ~ Loops(entries, written, TRUE)
  /\ ticket' = [written |-> written, path |-> Resolve(entries, written, TRUE),
                token |-> GuardToken(entries, tombstones, written)]
  /\ UNCHANGED <<vars, calls, used>>

Plan(item, guard) ==
  LET p == Resolve(entries, item.written, TRUE)
  IN  [written |-> item.written, path |-> p, size |-> item.size,
       createParents |-> item.createParents, guard |-> guard,
       entry |-> entries[p], token |-> Version(entries, tombstones, p)]

StartWrite(c, r) ==
  LET plans == [i \in DOMAIN r.items |->
                  Plan(r.items[i], IF r.guarded THEN ticket.token ELSE Absent)]
  IN  /\ calls[c] = Idle
      /\ r.op # "readFile"
      /\ r.guarded => /\ ticket # Absent
                      /\ \A i \in DOMAIN r.items :
                           /\ r.items[i].written = ticket.written
                           /\ GuardToken(entries, tombstones, ticket.written) = ticket.token
      /\ \A i \in DOMAIN r.items :
           /\ ~ Loops(entries, r.items[i].written, TRUE)
           /\ ~ Is(entries, plans[i].path, "directory")
           /\ r.op = "appendFile" => Is(entries, plans[i].path, "file")
      /\ \A i, j \in DOMAIN plans : plans[i].path = plans[j].path => i = j
      /\ calls' = [calls EXCEPT ![c] = [phase |-> "collecting", op |-> r.op, items |-> plans,
                                        held |-> [i \in DOMAIN r.items |-> 0]]]
      /\ UNCHANGED <<vars, used, ticket>>

------------------------------------------------------------------------------
(* Collecting, and the ways a call ends *)

(* The leases of a call: those of the bodies it has, and of the current one. *)
Leased(call) == SumFunction(call.held)
\* Mutant: a lease that was released is released again.
EndTwice(c, phase) ==
  /\ calls' = [calls EXCEPT ![c] = [Idle EXCEPT !.phase = phase]]
  /\ used' = used - 2 * Leased(calls[c])
\* Mutant: only the current body of a set is released.
EndOfCurrentBody(c, phase) ==
  /\ calls' = [calls EXCEPT ![c] = [Idle EXCEPT !.phase = phase]]
  /\ used' = used - Last(calls[c].held)
End(c, phase) ==
  /\ calls' = [calls EXCEPT ![c] = [Idle EXCEPT !.phase = phase]]
  /\ used' = used - Leased(calls[c])

Waiting(call) == {i \in DOMAIN call.items : call.held[i] < call.items[i].size}

Receive(c) ==
  /\ calls[c].phase = "collecting"
  /\ Waiting(calls[c]) # {}
  /\ IF used + 1 <= MaxInFlight
     THEN /\ calls' = [calls EXCEPT ![c].held[Min(Waiting(calls[c]))] = @ + 1]
          /\ used' = used + 1
     ELSE End(c, "failed")
  /\ UNCHANGED <<vars, ticket>>

BodyFails(c) ==
  /\ calls[c].phase = "collecting"
  /\ Waiting(calls[c]) # {}
  /\ End(c, "failed")
  /\ UNCHANGED <<vars, ticket>>

(* A snapshot of the whole body is charged at once. *)
OpenRead(c, written) ==
  LET p == Resolve(entries, written, TRUE)
  IN  /\ calls[c] = Idle
      /\ ~ Loops(entries, written, TRUE)
      /\ Is(entries, p, "file")
      /\ used + entries[p].size <= MaxInFlight
      /\ calls' = [calls EXCEPT ![c] =
                     [phase |-> "reading", op |-> "readFile", held |-> <<entries[p].size>>,
                      items |-> <<Plan([written |-> written, size |-> entries[p].size,
                                        createParents |-> FALSE], Absent)>>]]
      /\ used' = used + entries[p].size
      /\ UNCHANGED <<vars, ticket>>

CloseRead(c) ==
  /\ calls[c].phase = "reading"
  /\ End(c, "done")
  /\ UNCHANGED <<vars, ticket>>

------------------------------------------------------------------------------
(* Committing *)

Unguarded(tx, item) ==
  item.guard = Absent \/
    (/\ ~ Loops(tx.entries, item.written, TRUE)
     /\ GuardToken(tx.entries, tx.tombstones, item.written) = item.guard)
\* Mutant: any row will do where there was one.
RevalidatedByPresence(tx, item) ==
  /\ (tx.entries[item.path] = Absent) = (item.entry = Absent)
  /\ Unguarded(tx, item)
Revalidated(tx, item) ==
  /\ Version(tx.entries, tx.tombstones, item.path) = item.token
  /\ Unguarded(tx, item)

(* In a batch, which weighs its growth at the end, the quota of a single   *)
(* file is not weighed; missing parents always are.                        *)
PutCollected(tx, p, size, deferCapacity) ==
  IF ~ deferCapacity THEN PutFile(tx, p, size)
  ELSE IF tx.entries[p] = Absent THEN CreateFile(CreateMissingParents(tx, p), p, size)
  ELSE UpdateUsage(Announce(Update(tx, p, size), {p}, TRUE), size - tx.entries[p].size, 0)

CommitInlineWrite(tx, item, deferCapacity) ==
  IF tx.halt # Absent THEN tx
  ELSE IF /\ Revalidated(tx, item)
          /\ tx.entries[item.path] = Absent =>
               CreationParents(tx.entries, item.path, item.createParents)
       THEN PutCollected(tx, item.path, item.size, deferCapacity)
       ELSE Throw(tx, FALSE)

CommitInlineWriteSet(items) ==
  LET put[n \in 0 .. Len(items)] ==
        IF n = 0 THEN Begin ELSE CommitInlineWrite(put[n - 1], items[n], TRUE)
      after == put[Len(items)]
  IN  IF after.halt # Absent THEN after
      ELSE AssertCapacityFrom(after, usage,
                              after.usage.inlineBytes - usage.inlineBytes,
                              after.usage.entries - usage.entries)

(* The row is looked up again through links, the path is the planned one. *)
CommitAppend(item) ==
  LET p == Resolve(entries, item.path, TRUE)
      grown == AssertCapacity(Begin, item.size, 0)
  IN  IF /\ ~ Loops(entries, item.path, TRUE)
         /\ Is(entries, p, "file")
         /\ entries[p].version = item.token
         /\ Unguarded(Begin, item)
      THEN IF item.size = 0 THEN Begin
           ELSE UpdateUsage(Announce(Update(grown, p, entries[p].size + item.size),
                                     {item.path}, TRUE),
                            item.size, 0)
      ELSE Throw(Begin, FALSE)

Outcome(call) ==
  CASE call.op = "writeFile" -> CommitInlineWrite(Begin, call.items[1], FALSE)
    [] call.op = "writeFiles" -> CommitInlineWriteSet(call.items)
    [] call.op = "appendFile" -> CommitAppend(call.items[1])

CommitWrite(c) ==
  LET tx == Outcome(calls[c])
  IN  /\ calls[c].phase = "collecting"
      /\ Waiting(calls[c]) = {}
      /\ Finish(tx)
      /\ End(c, IF tx.halt = Absent THEN "done" ELSE "failed")
      /\ UNCHANGED ticket

(* The instance goes with its calls and its budget; clients keep tokens. *)
EvictCalls ==
  /\ Evict
  /\ calls' = [c \in Calls |->
       IF calls[c].phase \in {"collecting", "reading"}
       THEN [Idle EXCEPT !.phase = "failed"]
       ELSE calls[c]]
  /\ used' = 0
  /\ UNCHANGED ticket

------------------------------------------------------------------------------
StreamsInit ==
  /\ Init
  /\ calls = [c \in Calls |-> Idle]
  /\ used = 0
  /\ ticket = Absent

CallNext ==
  \/ \E written \in Paths : TakeToken(written)
  \/ EvictCalls
  \/ \E c \in Calls :
       \/ \E r \in Requests : StartWrite(c, r)
       \/ \E written \in Paths : OpenRead(c, written)
       \/ Receive(c) \/ BodyFails(c) \/ CommitWrite(c) \/ CloseRead(c)

StreamsNext == CallNext \/ ((Files \/ Trees \/ Links) /\ UNCHANGED streams)
StreamsSpec == StreamsInit /\ [][StreamsNext]_svars

------------------------------------------------------------------------------
(* The budget holds what the calls hold: every exit of every call (refused *)
(* in the middle of a batch, failed body, failed or finished commit, closed*)
(* stream) gives all of its leases back, once (useBufferedSet, writeFiles).*)
BudgetExact ==
  /\ used = SumFunctionOnSet([c \in Calls |-> Leased(calls[c])], Calls)
  /\ used <= MaxInFlight

Commits(c) == calls[c].phase = "collecting" /\ calls'[c].phase = "done"

(* A write that succeeds replaces exactly the row that it planned on, for  *)
(* every path of a set, even if the same row came back in between, and all *)
(* of its paths have their bodies afterwards ("recheck the path token,     *)
(* then publish in one short transaction", docs/operations.md).            *)
NoLostUpdate ==
  [][\A c \in Calls : Commits(c) /\ calls[c].op \in {"writeFile", "writeFiles"} =>
       \A i \in DOMAIN calls[c].items :
         LET item == calls[c].items[i]
         IN  /\ entries[item.path] = item.entry
             /\ Is(entries', item.path, "file")
             /\ entries'[item.path].size = item.size]_svars

(* A guarded write lands where the client's token was taken: "the          *)
(* mutation-token guard rejects stale work, including [...] a path         *)
(* repointed at a different entry through a link"                          *)
(* (docs/posix-compatibility.md).                                          *)
GuardSound ==
  [][\A c \in Calls : Commits(c) /\ ticket # Absent =>
       \A i \in DOMAIN calls[c].items :
         calls[c].items[i].guard = ticket.token =>
           Resolve(entries, ticket.written, TRUE) = ticket.path]_svars

=============================================================================
