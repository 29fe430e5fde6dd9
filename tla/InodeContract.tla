---------------------------- MODULE InodeContract ----------------------------
(***************************************************************************)
(* What files with several names and open descriptors promise, however     *)
(* bodies are kept: names and descriptors lead to inodes, all that lead to *)
(* one see the same body, and a body lives as long as anything leads to it *)
(* and no longer.                                                          *)
(***************************************************************************)
CONSTANTS Dir, Leaf, Ino, Handle, Body, Empty, None

Name == Dir \X Leaf

VARIABLES
    names,      \* the inode of each name, or None
    open,       \* the inode of each descriptor, or None
    body        \* the body of each inode, None for one that nothing leads to

vars == <<names, open, body>>

Init ==
    /\ names = [n \in Name |-> None]
    /\ open = [h \in Handle |-> None]
    /\ body = [i \in Ino |-> None]

Free(i) == body[i] = None

Lead(to, by) == names' = to /\ open' = by

\* An inode goes when the last name and the last descriptor did.
Hold(content) ==
    body' = [i \in Ino |-> IF \/ \E n \in Name : names'[n] = i
                              \/ \E h \in Handle : open'[h] = i
                           THEN content[i] ELSE None]

Create(n, i) ==
    /\ names[n] = None /\ Free(i)
    /\ Lead([names EXCEPT ![n] = i], open)
    /\ \E content \in Body : Hold([body EXCEPT ![i] = content])

Write ==
    /\ Lead(names, open)
    /\ \E i \in Ino, content \in Body : ~Free(i) /\ Hold([body EXCEPT ![i] = content])

Link(n, m) ==
    /\ names[n] # None /\ names[m] = None
    /\ Lead([names EXCEPT ![m] = names[n]], open)
    /\ Hold(body)

Unlink(gone) ==
    /\ Lead([n \in Name |-> IF n \in gone THEN None ELSE names[n]], open)
    /\ Hold(body)

Rename(n, m) ==
    /\ names[n] \notin {None, names[m]}
    /\ Lead([names EXCEPT ![n] = None, ![m] = names[n]], open)
    /\ Hold(body)

MoveTree(d, e) ==
    /\ d # e
    /\ Lead([n \in Name |-> IF n[1] = e THEN names[<<d, n[2]>>]
                            ELSE IF n[1] = d THEN None ELSE names[n]], open)
    /\ Hold(body)

\* A copy of a directory has inodes of its own, one for each name.
CopyTree(d, e) ==
    LET source(n) == names[<<d, n[2]>>]
        copied == {n \in {e} \X Leaf : source(n) # None}
    IN  /\ d # e
        /\ \E new \in [copied -> {i \in Ino : Free(i)}] :
            /\ \A n, m \in copied : new[n] = new[m] => n = m
            /\ Lead([n \in Name |-> IF n \in copied THEN new[n] ELSE names[n]], open)
            /\ Hold([i \in Ino |-> IF \E n \in copied : new[n] = i
                                   THEN body[source(CHOOSE n \in copied : new[n] = i)]
                                   ELSE body[i]])

Open(h, n) ==
    /\ open[h] = None /\ names[n] # None
    /\ Lead(names, [open EXCEPT ![h] = names[n]])
    /\ Hold(body) \/ Hold([body EXCEPT ![names[n]] = Empty])

OpenNew(h, n, i) ==
    /\ open[h] = None /\ names[n] = None /\ Free(i)
    /\ Lead([names EXCEPT ![n] = i], [open EXCEPT ![h] = i])
    /\ Hold([body EXCEPT ![i] = Empty])

Close(closed) ==
    /\ Lead(names, [h \in Handle |-> IF h \in closed THEN None ELSE open[h]])
    /\ Hold(body)

Next ==
    \/ Write
    \/ \E n \in Name : Unlink({n}) \/ \E i \in Ino : Create(n, i)
    \/ \E n, m \in Name : Link(n, m) \/ Rename(n, m)
    \/ \E d \in Dir : Unlink({d} \X Leaf)
    \/ \E d, e \in Dir : MoveTree(d, e) \/ CopyTree(d, e)
    \/ \E h \in Handle :
        \/ Close({h})
        \/ \E n \in Name : Open(h, n) \/ \E i \in Ino : OpenNew(h, n, i)
    \/ Close(Handle)

Spec == Init /\ [][Next]_vars
=============================================================================
