--------------------------- MODULE OpaqueContract ---------------------------
(***************************************************************************)
(* What opaque files promise a reader and a writer, without sessions,      *)
(* tokens, rows, queues or alarms: a name gets a body that is there, each  *)
(* body is published by one commit only, and a body goes only when no name *)
(* reaches it and every read lease on it has ended.                        *)
(***************************************************************************)
EXTENDS Integers

CONSTANTS Path, Upload, None

VARIABLES
    now,        \* the clock
    name,       \* the opaque body each path names, or None
    body,       \* bodies that can be read
    lease,      \* the time until which each body was promised to a reader
    published   \* uploads that have been committed

vars == <<now, name, body, lease, published>>

Named == {u \in Upload : \E p \in Path : name[p] = u}

Init ==
    /\ now = 0
    /\ name = [p \in Path |-> None]
    /\ body = {}
    /\ lease = [u \in Upload |-> 0]
    /\ published = {}

\* The client stores a body.
Store(u) ==
    /\ body' = body \cup {u}
    /\ UNCHANGED <<now, name, lease, published>>

\* A commit makes a stored body the content of a path, once.
Publish(p, u) ==
    /\ u \in body \ published
    /\ name' = [name EXCEPT ![p] = u]
    /\ published' = published \cup {u}
    /\ UNCHANGED <<now, body, lease>>

\* Writes, removals, moves and copies drop names or pass on bodies that a name
\* already reaches.
Rename ==
    /\ name' \in [Path -> Named \cup {None}]
    /\ UNCHANGED <<now, body, lease, published>>

Read(u) ==
    /\ u \in Named
    /\ lease' \in [Upload -> Nat]
    /\ lease'[u] >= lease[u]
    /\ \A v \in Upload \ {u} : lease'[v] = lease[v]
    /\ UNCHANGED <<now, name, body, published>>

\* Only what nobody can ask for is deleted.
Collect(gone) ==
    /\ gone \cap Named = {}
    /\ \A u \in gone : lease[u] <= now
    /\ body' = body \ gone
    /\ UNCHANGED <<now, name, lease, published>>

Pass ==
    /\ now' \in Nat /\ now' > now
    /\ UNCHANGED <<name, body, lease, published>>

Next ==
    \/ \E u \in Upload : Store(u) \/ Read(u)
    \/ \E p \in Path, u \in Upload : Publish(p, u)
    \/ \E gone \in SUBSET Upload : Collect(gone)
    \/ Rename \/ Pass

Spec == Init /\ [][Next]_vars
=============================================================================
