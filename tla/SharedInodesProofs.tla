-------------------------- MODULE SharedInodesProofs --------------------------
(***************************************************************************)
(* Proofs about SharedInodes.  Lemmas about tables of names come first:    *)
(* what the triggers do to a table, and what a table keeps when its rows   *)
(* are renamed, dropped, rewritten or added to.  The actions follow.       *)
(***************************************************************************)
EXTENDS SharedInodes, Sums

FileRow == [id : Ino, identity : Ino \cup {None}, count : Nat, size : Nat, body : Body]
DetachedRow == [size : Nat, body : Body]
Table == [Name -> FileRow \cup {None}]

\* Inode and NamesOf, of any table.
InodeIn(f, n) == IF f[n].identity # None THEN f[n].identity ELSE f[n].id
NamesIn(f, i) == {n \in Name : f[n] # None /\ InodeIn(f, n) = i}

\* Every number of a row was handed out before, and no two rows have one id.
NumbersAreSpent(f, next) ==
    \A n \in Name : f[n] # None => f[n].id < next /\ InodeIn(f, n) < next
IdsDiffer(f) ==
    \A n, m \in Name : f[n] # None /\ f[m] # None /\ f[n].id = f[m].id => n = m

\* A row whose id is the number of an inode is one of the inode's names.
NumbersBelong(f) ==
    \A n, m \in Name : f[n] # None /\ f[m] # None /\ f[n].id = InodeIn(f, m)
                           => InodeIn(f, n) = InodeIn(f, m)

\* Two names of an inode both know that it is linked, and have one body.
LinksAgree(f) ==
    \A n, m \in Name : f[n] # None /\ f[m] # None /\ n # m /\ InodeIn(f, n) = InodeIn(f, m)
                           => f[n].identity # None /\ f[n].body = f[m].body

SizesAgree(f) == \A n \in Name : f[n] # None => f[n].size = Bytes[f[n].body]

Rows(f, next) ==
    /\ f \in Table
    /\ NumbersAreSpent(f, next) /\ IdsDiffer(f) /\ NumbersBelong(f)
    /\ LinksAgree(f) /\ SizesAgree(f)

\* What is open was handed out, is the number of an inode, and has a name or
\* a detached body; what is detached is open and has no name.
Held(f, d, hs, next) ==
    /\ \A h \in Handle : hs[h] # None =>
        /\ hs[h] < next
        /\ \A n \in Name : f[n] # None /\ f[n].id = hs[h] => InodeIn(f, n) = hs[h]
        /\ NamesIn(f, hs[h]) # {} \/ d[hs[h]] # None
    /\ \A i \in Ino : d[i] # None => NamesIn(f, i) = {} /\ \E h \in Handle : hs[h] = i

IInv ==
    /\ TypeOK
    /\ Rows(files, nextIno)
    /\ Held(files, detached, handles, nextIno)
-----------------------------------------------------------------------------
(* Types and constants.                                                    *)

\* A row is there, and not None.
LEMMA RowType ==
    ASSUME NEW f \in Table, NEW n \in Name, f[n] # None
    PROVE  /\ f[n] \in FileRow
           /\ f[n].id \in Ino /\ f[n].identity \in Ino \cup {None} /\ f[n].count \in Nat
           /\ f[n].size \in Nat /\ f[n].body \in Body /\ InodeIn(f, n) \in Ino
  BY DEF Table, FileRow, InodeIn

\* Numbers are numbers, and None is none of them.
LEMMA InoType ==
    /\ Ino \subseteq Nat /\ None \notin Ino /\ None \notin Nat
    /\ \A i \in Ino : 1 <= i /\ i <= MaxIno
    /\ MaxIno \in Nat
  BY InodeAssumption DEF Ino

\* None is no row.
LEMMA NoneIsNoRow == None \notin FileRow /\ None \notin DetachedRow
<1>1. FileRow \subseteq [id : Nat, identity : Nat \cup {None}, count : Nat, size : Nat, body : Body]
  BY InoType DEF FileRow
<1>2. QED
  BY <1>1, InodeAssumption DEF DetachedRow

\* There are finitely many names and descriptors.
LEMMA FiniteNames ==
    /\ IsFiniteSet(Name) /\ IsFiniteSet(Handle)
    /\ \A S : S \subseteq Name => IsFiniteSet(S) /\ Cardinality(S) \in Nat
    /\ \A S : S \subseteq Handle => IsFiniteSet(S) /\ Cardinality(S) \in Nat
<1>1. IsFiniteSet(Name) /\ IsFiniteSet(Handle)
  BY FS_Product, InodeAssumption DEF Name
<1>2. QED
  BY <1>1, FS_Subset, FS_CardinalityType

\* There are finitely many numbers.
LEMMA FiniteInos == \A S : S \subseteq Ino => IsFiniteSet(S)
<1>1. 1 \in Int /\ MaxIno \in Int
  BY InodeAssumption
<1>2. IsFiniteSet(1 .. MaxIno)
  BY <1>1, FS_Interval
<1>3. QED
  BY <1>2, FS_Subset DEF Ino

\* A new row.
LEMMA NewRowType ==
    ASSUME NEW i \in Ino, NEW b \in Body
    PROVE  /\ Row(i, None, 1, b) \in FileRow
           /\ Row(i, None, 1, b).id = i /\ Row(i, None, 1, b).identity = None
           /\ Row(i, None, 1, b).body = b /\ Row(i, None, 1, b).size = Bytes[b]
           /\ Row(i, None, 1, b).count = 1
  BY InodeAssumption DEF Row, FileRow
-----------------------------------------------------------------------------
(* Tables.                                                                 *)

\* The names of a linked file are those of its inode.
LEMMA AliasesAreNames ==
    ASSUME NEW f \in Table, NEW i \in Ino
    PROVE  /\ Aliases(f, i) \subseteq NamesIn(f, i)
           /\ Aliases(f, None) = {}
           /\ \A n \in NamesIn(f, i) : f[n].identity # None => n \in Aliases(f, i)
  BY InoType DEF Aliases, NamesIn, InodeIn

\* The triggers bring what is written to every name of the inode, and nowhere else.
LEMMA RewrittenIs ==
    ASSUME NEW f \in Table, LinksAgree(f), NEW n \in Name, f[n] # None, NEW b \in Body
    PROVE  Rewritten(f, n, b) =
             [m \in Name |-> IF m \in NamesIn(f, InodeIn(f, n))
                             THEN [f[m] EXCEPT !.size = Bytes[b], !.body = b] ELSE f[m]]
<1> DEFINE row == [f[n] EXCEPT !.size = Bytes[b], !.body = b]
           i == f[n].identity
           one == [f EXCEPT ![n].size = Bytes[b], ![n].body = b]
           two == MirrorMetadata(one, n)
           three == MirrorChunks(two, n)
<1>1. f[n] \in FileRow /\ Bytes[b] \in Nat
  BY RowType, InodeAssumption
<1>2. row \in FileRow /\ row.size = Bytes[b] /\ row.body = b /\ row.identity = i /\ row.id = f[n].id
  BY <1>1 DEF FileRow
<1>3. one = [f EXCEPT ![n] = row]
  BY <1>1, <1>2 DEF FileRow, Table
<1> HIDE DEF row, one
<1>4. one \in Table /\ one[n] = row /\ \A m \in Name : m # n => one[m] = f[m]
  BY <1>2, <1>3 DEF Table
<1>5. \A j : Aliases(one, j) = Aliases(f, j)
  BY <1>2, <1>4, NoneIsNoRow DEF Aliases
<1>6. two = [m \in Name |-> IF m \in Aliases(f, i)
                            THEN [one[m] EXCEPT !.size = Bytes[b]] ELSE one[m]]
  BY <1>2, <1>4, <1>5 DEF MirrorMetadata
<1>7. ASSUME NEW m \in Name
      PROVE  /\ two[m] = None <=> one[m] = None
             /\ one[m] # None => /\ two[m].identity = one[m].identity /\ two[m].body = one[m].body
                                 /\ two[m] \in FileRow
  <2>1. CASE m \in Aliases(f, i)
    <3>1. f[m] # None /\ one[m] \in FileRow
      BY <1>2, <1>4, <2>1, RowType DEF Aliases
    <3>2. two[m] = [one[m] EXCEPT !.size = Bytes[b]]
      BY <1>6, <2>1
    <3>3. two[m] \in FileRow /\ two[m].identity = one[m].identity /\ two[m].body = one[m].body
      BY <1>1, <3>1, <3>2 DEF FileRow
    <3>4. QED
      BY <3>1, <3>3, NoneIsNoRow
  <2>2. CASE m \notin Aliases(f, i)
    BY <1>4, <1>6, <2>2, RowType
  <2>3. QED
    BY <2>1, <2>2
<1>8. two[n].identity = i /\ two[n].body = b
  BY <1>2, <1>4, <1>7, NoneIsNoRow
<1>9. Aliases(two, i) = Aliases(f, i)
  <2>1. Aliases(two, i) = Aliases(one, i)
    BY <1>7 DEF Aliases
  <2>2. QED
    BY <1>5, <2>1
<1> HIDE DEF two
<1>10. three = [m \in Name |-> IF m \in Aliases(f, i)
                               THEN [two[m] EXCEPT !.body = b] ELSE two[m]]
  BY <1>8, <1>9 DEF MirrorChunks
<1> DEFINE same == NamesIn(f, InodeIn(f, n))
<1>11. /\ n \in same
       /\ i = None => same = {n} /\ Aliases(f, i) = {}
       /\ i # None => same = Aliases(f, i)
  <2>1. n \in same
    BY DEF NamesIn
  <2>2. ASSUME NEW m \in same, m # n
        PROVE  m \in Aliases(f, i) /\ i # None
    <3>1. f[m] # None /\ InodeIn(f, m) = InodeIn(f, n)
      BY DEF NamesIn
    <3>2. f[m].identity # None /\ f[n].identity # None
      BY <2>2, <3>1 DEF LinksAgree, NamesIn
    <3>3. QED
      BY <3>1, <3>2 DEF InodeIn, Aliases, NamesIn
  <2>3. i # None => Aliases(f, i) \subseteq same
    BY DEF InodeIn, Aliases, NamesIn
  <2>4. i # None => n \in Aliases(f, i)
    BY DEF Aliases
  <2>5. i = None => Aliases(f, i) = {}
    BY DEF Aliases
  <2>6. QED
    BY <2>1, <2>2, <2>3, <2>4, <2>5
<1>12. ASSUME NEW m \in Name
       PROVE  three[m] = IF m \in same THEN [f[m] EXCEPT !.size = Bytes[b], !.body = b] ELSE f[m]
  <2>1. CASE m \notin same
    BY <1>4, <1>6, <1>10, <1>11, <2>1
  <2>2. CASE m \in same /\ m # n
    <3>1. m \in Aliases(f, i) /\ one[m] = f[m]
      BY <1>4, <1>11, <2>2
    <3>2. f[m] \in FileRow
      BY <3>1, RowType DEF Aliases
    <3>3. three[m] = [[f[m] EXCEPT !.size = Bytes[b]] EXCEPT !.body = b]
      BY <1>6, <1>10, <3>1
    <3>4. QED
      BY <1>1, <2>2, <3>2, <3>3 DEF FileRow
  <2>3. CASE m = n
    <3>1. CASE i = None
      BY <1>4, <1>6, <1>10, <1>11, <2>3, <3>1 DEF row
    <3>2. CASE i # None
      <4>1. three[n] = [[row EXCEPT !.size = Bytes[b]] EXCEPT !.body = b]
        BY <1>4, <1>6, <1>10, <1>11, <3>2
      <4>2. three[n] = row
        BY <1>1, <1>2, <4>1 DEF FileRow
      <4>3. QED
        BY <1>11, <2>3, <4>2 DEF row
    <3>3. QED
      BY <3>1, <3>2
  <2>4. QED
    BY <2>1, <2>2, <2>3
<1>13. Rewritten(f, n, b) = three /\ three = [m \in Name |-> three[m]]
  BY <1>10 DEF Rewritten, two, one, three
<1> HIDE DEF three, same
<1>14. three = [m \in Name |-> IF m \in same THEN [f[m] EXCEPT !.size = Bytes[b], !.body = b]
                               ELSE f[m]]
  BY <1>12, <1>13
<1>15. QED
  BY <1>13, <1>14 DEF same

\* Rewritten rows: what is known of them.
LEMMA RewrittenRows ==
    ASSUME NEW next, NEW f, Rows(f, next), NEW n \in Name, f[n] # None, NEW b \in Body
    PROVE  LET g == Rewritten(f, n, b)
           IN  /\ Rows(g, next)
               /\ \A m \in Name : /\ g[m] = None <=> f[m] = None
                                  /\ f[m] # None => /\ InodeIn(g, m) = InodeIn(f, m)
                                                    /\ g[m].id = f[m].id
                                                    /\ g[m].count = f[m].count
                                                    /\ g[m].identity = f[m].identity
               /\ \A m \in NamesIn(f, InodeIn(f, n)) : g[m].body = b /\ g[m].size = Bytes[b]
               /\ \A m \in Name \ NamesIn(f, InodeIn(f, n)) : g[m] = f[m]
<1> DEFINE g == Rewritten(f, n, b)
           same == NamesIn(f, InodeIn(f, n))
<1>1. f \in Table /\ Bytes[b] \in Nat
  BY InodeAssumption DEF Rows
<1>2. g = [m \in Name |-> IF m \in same
                          THEN [f[m] EXCEPT !.size = Bytes[b], !.body = b] ELSE f[m]]
  BY <1>1, RewrittenIs DEF Rows
<1> HIDE DEF g
<1>3. ASSUME NEW m \in same
      PROVE  /\ m \in Name /\ f[m] # None /\ g[m] # None /\ g[m] \in FileRow
             /\ g[m].id = f[m].id /\ g[m].identity = f[m].identity /\ g[m].count = f[m].count
             /\ g[m].body = b /\ g[m].size = Bytes[b]
  <2>1. m \in Name /\ f[m] # None /\ f[m] \in FileRow
    BY <1>1, RowType DEF NamesIn
  <2>2. g[m] = [f[m] EXCEPT !.size = Bytes[b], !.body = b]
    BY <1>2, <2>1
  <2>3. QED
    BY <1>1, <2>1, <2>2, NoneIsNoRow DEF FileRow
<1>4. ASSUME NEW m \in Name \ same
      PROVE  g[m] = f[m]
  BY <1>2, <1>4
<1>5. g \in Table
  <2>1. \A m \in Name : g[m] \in FileRow \cup {None}
    BY <1>1, <1>3, <1>4 DEF Table
  <2>2. QED
    BY <1>2, <2>1 DEF Table
<1>6. \A m \in Name : /\ g[m] = None <=> f[m] = None
                      /\ f[m] # None => /\ InodeIn(g, m) = InodeIn(f, m) /\ g[m].id = f[m].id
                                        /\ g[m].count = f[m].count
                                        /\ g[m].identity = f[m].identity
  BY <1>3, <1>4 DEF InodeIn
<1>7. NumbersAreSpent(g, next) /\ IdsDiffer(g) /\ NumbersBelong(g)
  BY <1>6 DEF Rows, NumbersAreSpent, IdsDiffer, NumbersBelong
<1>8. \A m, k \in Name : f[m] # None /\ f[k] # None /\ InodeIn(f, m) = InodeIn(f, k)
                            => (m \in same <=> k \in same)
  BY DEF NamesIn
<1>9. LinksAgree(g)
  BY <1>3, <1>4, <1>6, <1>8 DEF Rows, LinksAgree
<1>10. SizesAgree(g)
  BY <1>3, <1>4, <1>6 DEF Rows, SizesAgree
<1>11. QED
  BY <1>3, <1>4, <1>5, <1>6, <1>7, <1>9, <1>10 DEF Rows, g

\* Rows that are given other names, or dropped, agree as they did.
LEMMA RenamedRows ==
    ASSUME NEW next, NEW f, Rows(f, next), NEW g \in Table, NEW r \in [Name -> Name],
           \A x \in Name : g[x] # None => /\ f[r[x]] # None
                                          /\ g[x].id = f[r[x]].id
                                          /\ g[x].identity = f[r[x]].identity
                                          /\ g[x].size = f[r[x]].size
                                          /\ g[x].body = f[r[x]].body,
           \A x, y \in Name : g[x] # None /\ g[y] # None /\ r[x] = r[y] => x = y
    PROVE  /\ Rows(g, next)
           /\ \A x \in Name : g[x] # None => InodeIn(g, x) = InodeIn(f, r[x])
<1>1. \A x \in Name : g[x] # None => InodeIn(g, x) = InodeIn(f, r[x])
  BY DEF InodeIn
<1>2. NumbersAreSpent(g, next) /\ IdsDiffer(g)
  BY <1>1 DEF Rows, NumbersAreSpent, IdsDiffer
<1>3. NumbersBelong(g)
  BY <1>1 DEF Rows, NumbersBelong
<1>4. LinksAgree(g)
  BY <1>1 DEF Rows, LinksAgree
<1>5. SizesAgree(g)
  BY DEF Rows, SizesAgree
<1>6. QED
  BY <1>1, <1>2, <1>3, <1>4, <1>5 DEF Rows

\* Counting changes counts.
LEMMA RecountIs ==
    ASSUME NEW f \in Table, NEW identities
    PROVE  LET g == Recount(f, identities)
           IN  /\ g \in Table
               /\ \A n \in Name :
                    /\ g[n] = None <=> f[n] = None
                    /\ f[n] # None =>
                        /\ g[n].id = f[n].id /\ g[n].identity = f[n].identity
                        /\ g[n].size = f[n].size /\ g[n].body = f[n].body
                        /\ g[n].count = IF f[n].identity \in identities
                                        THEN Cardinality(Aliases(f, f[n].identity))
                                        ELSE f[n].count
<1> DEFINE g == Recount(f, identities)
<1>1. g = [n \in Name |-> IF f[n] # None /\ f[n].identity \in identities
                          THEN [f[n] EXCEPT !.count = Cardinality(Aliases(f, f[n].identity))]
                          ELSE f[n]]
  BY DEF Recount
<1> HIDE DEF g
<1>2. ASSUME NEW n \in Name, f[n] # None
      PROVE  /\ g[n] \in FileRow /\ g[n] # None
             /\ g[n].id = f[n].id /\ g[n].identity = f[n].identity
             /\ g[n].size = f[n].size /\ g[n].body = f[n].body
             /\ g[n].count = IF f[n].identity \in identities
                             THEN Cardinality(Aliases(f, f[n].identity)) ELSE f[n].count
  <2>1. f[n] \in FileRow
    BY <1>2, RowType
  <2>2. Cardinality(Aliases(f, f[n].identity)) \in Nat
    BY FiniteNames DEF Aliases
  <2>3. CASE f[n].identity \in identities
    <3>1. g[n] = [f[n] EXCEPT !.count = Cardinality(Aliases(f, f[n].identity))]
      BY <1>1, <1>2, <2>3
    <3>2. QED
      BY <2>1, <2>2, <2>3, <3>1, NoneIsNoRow DEF FileRow
  <2>4. CASE f[n].identity \notin identities
    BY <1>1, <1>2, <2>1, <2>4
  <2>5. QED
    BY <2>3, <2>4
<1>3. ASSUME NEW n \in Name, f[n] = None
      PROVE  g[n] = None
  BY <1>1, <1>3
<1>4. g \in Table
  BY <1>1, <1>2, <1>3 DEF Table
<1>5. QED
  BY <1>2, <1>3, <1>4 DEF g

\* The numbers of a row.
LEMMA RowNumbers ==
    ASSUME NEW f, NEW next, Rows(f, next), NEW n \in Name, f[n] # None
    PROVE  /\ f[n].id \in Nat /\ InodeIn(f, n) \in Nat
           /\ f[n].id < next /\ InodeIn(f, n) < next
<1>1. f[n].id \in Ino /\ InodeIn(f, n) \in Ino
  BY RowType DEF Rows
<1>2. QED
  BY <1>1, InoType DEF Rows, NumbersAreSpent

\* The names in `new` get files of their own, the others stay.
AddsFiles(f, g, new, next, later) ==
    /\ next \in Nat /\ later \in Nat /\ next <= later
    /\ g \in Table /\ new \subseteq Name
    /\ \A n \in Name \ new : g[n] = f[n]
    /\ \A n \in new : /\ g[n] # None /\ g[n].identity = None
                      /\ next <= g[n].id /\ g[n].id < later
                      /\ g[n].size = Bytes[g[n].body]
    /\ \A n, m \in new : g[n].id = g[m].id => n = m

\* Names with new files agree with the others.
LEMMA AddedRows ==
    ASSUME NEW next, NEW later, NEW f, NEW g, NEW new,
           Rows(f, next), AddsFiles(f, g, new, next, later)
    PROVE  Rows(g, later)
<1> next \in Nat /\ later \in Nat /\ next <= later /\ g \in Table /\ new \subseteq Name
  BY DEF AddsFiles
<1> \A n \in Name \ new : g[n] = f[n]
  BY DEF AddsFiles
<1> \A n \in new : /\ g[n] # None /\ g[n].identity = None
                   /\ next <= g[n].id /\ g[n].id < later
                   /\ g[n].size = Bytes[g[n].body]
  BY DEF AddsFiles
<1> \A n, m \in new : g[n].id = g[m].id => n = m
  BY DEF AddsFiles
<1>1. f \in Table
  BY DEF Rows
<1>2. \A n \in Name : f[n] # None => /\ f[n].id \in Int /\ InodeIn(f, n) \in Int
                                     /\ f[n].id < next /\ InodeIn(f, n) < next
  BY RowNumbers
<1>3. \A n \in new : InodeIn(g, n) = g[n].id /\ g[n].id \in Int
  <2> SUFFICES ASSUME NEW n \in new
               PROVE  InodeIn(g, n) = g[n].id /\ g[n].id \in Int
    OBVIOUS
  <2>1. g[n].id \in Ino
    BY RowType
  <2>2. InodeIn(g, n) = g[n].id
    BY DEF InodeIn
  <2>3. Ino \subseteq Int
    BY InoType
  <2>4. QED
    BY <2>1, <2>2, <2>3
<1>4. \A n \in Name \ new : InodeIn(g, n) = InodeIn(f, n)
  BY DEF InodeIn
<1>5. NumbersAreSpent(g, later)
  <2> SUFFICES ASSUME NEW n \in Name, g[n] # None
               PROVE  g[n].id < later /\ InodeIn(g, n) < later
    BY DEF NumbersAreSpent
  <2>1. CASE n \in new
    BY <1>3, <2>1
  <2>2. CASE n \notin new
    BY <1>2, <1>4, <2>2
  <2>3. QED
    BY <2>1, <2>2
<1>6. \A n \in new, m \in Name \ new : g[m] # None =>
          g[n].id # g[m].id /\ g[n].id # InodeIn(g, m)
  BY <1>2, <1>3, <1>4
<1>7. IdsDiffer(g)
  BY <1>6 DEF Rows, IdsDiffer
<1>8. \A n \in new, m \in Name : g[m] # None => (InodeIn(g, n) = InodeIn(g, m) => n = m)
  BY <1>3, <1>6
<1>9. NumbersBelong(g)
  <2> SUFFICES ASSUME NEW n \in Name, NEW m \in Name, g[n] # None, g[m] # None,
                      g[n].id = InodeIn(g, m)
               PROVE  InodeIn(g, n) = InodeIn(g, m)
    BY DEF NumbersBelong
  <2>1. CASE n \in new
    BY <1>3, <2>1
  <2>2. CASE n \notin new /\ m \in new
    BY <1>3, <1>6, <2>2
  <2>3. CASE n \notin new /\ m \notin new
    BY <1>4, <2>3 DEF Rows, NumbersBelong
  <2>4. QED
    BY <2>1, <2>2, <2>3
<1>10. LinksAgree(g)
  <2> SUFFICES ASSUME NEW n \in Name, NEW m \in Name, g[n] # None, g[m] # None, n # m,
                      InodeIn(g, n) = InodeIn(g, m)
               PROVE  g[n].identity # None /\ g[n].body = g[m].body
    BY DEF LinksAgree
  <2>1. n \notin new /\ m \notin new
    BY <1>8
  <2>2. QED
    BY <1>4, <2>1 DEF Rows, LinksAgree
<1>11. SizesAgree(g)
  BY DEF Rows, SizesAgree
<1>12. QED
  BY <1>5, <1>7, <1>9, <1>10, <1>11 DEF Rows

\* A second name makes a linked file of both.
LEMMA LinkedRows ==
    ASSUME NEW next \in Ino, NEW f, Rows(f, next), NEW g \in Table,
           NEW n \in Name, NEW m \in Name, f[n] # None, f[m] = None,
           \A x \in Name \ {n, m} : g[x] = f[x],
           g[n] # None, g[n].id = f[n].id, g[m] # None, g[m].id = next,
           \A x \in {n, m} : /\ g[x].identity = InodeIn(f, n)
                             /\ g[x].size = f[n].size /\ g[x].body = f[n].body
    PROVE  /\ Rows(g, next + 1)
           /\ \A x \in Name \ {m} : f[x] # None => InodeIn(g, x) = InodeIn(f, x)
           /\ InodeIn(g, m) = InodeIn(f, n)
<1>1. f \in Table /\ n # m /\ InodeIn(f, n) \in Ino /\ next \in Nat
  BY RowType, InoType DEF Rows
<1>2. InodeIn(g, n) = InodeIn(f, n) /\ InodeIn(g, m) = InodeIn(f, n)
  BY <1>1, InoType DEF InodeIn
<1>3. \A x \in Name \ {m} : (g[x] = None <=> f[x] = None) /\ InodeIn(g, x) = InodeIn(f, x)
  BY <1>2 DEF InodeIn
<1>4. \A x \in Name : f[x] # None => /\ f[x].id \in Int /\ InodeIn(f, x) \in Int
                                     /\ f[x].id < next /\ InodeIn(f, x) < next
  BY RowNumbers
<1>5. \A x \in Name \ {m} : f[x] # None => g[x].id = f[x].id
  OBVIOUS
<1>6. NumbersAreSpent(g, next + 1)
  <2> SUFFICES ASSUME NEW x \in Name, g[x] # None
               PROVE  g[x].id < next + 1 /\ InodeIn(g, x) < next + 1
    BY DEF NumbersAreSpent
  <2>1. CASE x = m
    BY <1>1, <1>2, <1>4, <2>1
  <2>2. CASE x # m
    BY <1>1, <1>3, <1>4, <1>5, <2>2
  <2>3. QED
    BY <2>1, <2>2
<1>7. \A x \in Name \ {m} : f[x] # None => g[x].id # next /\ InodeIn(g, x) # next
  BY <1>1, <1>3, <1>4, <1>5
<1>8. IdsDiffer(g)
  BY <1>3, <1>5, <1>7 DEF Rows, IdsDiffer
<1>9. NumbersBelong(g)
  <2> SUFFICES ASSUME NEW x \in Name, NEW y \in Name, g[x] # None, g[y] # None,
                      g[x].id = InodeIn(g, y)
               PROVE  InodeIn(g, x) = InodeIn(g, y)
    BY DEF NumbersBelong
  <2>1. x # m
    BY <1>1, <1>2, <1>3, <1>4, <1>7
  <2>2. CASE y = m
    BY <1>2, <1>3, <1>5, <2>1, <2>2 DEF Rows, NumbersBelong
  <2>3. CASE y # m
    BY <1>3, <1>5, <2>1, <2>3 DEF Rows, NumbersBelong
  <2>4. QED
    BY <2>2, <2>3
<1>10. \A x \in Name \ {n, m} : f[x] # None /\ InodeIn(f, x) = InodeIn(f, n)
            => f[x].identity # None /\ f[n].body = f[x].body
  BY DEF Rows, LinksAgree
<1>11. LinksAgree(g)
  <2> SUFFICES ASSUME NEW x \in Name, NEW y \in Name, g[x] # None, g[y] # None, x # y,
                      InodeIn(g, x) = InodeIn(g, y)
               PROVE  g[x].identity # None /\ g[x].body = g[y].body
    BY DEF LinksAgree
  <2>1. CASE x \in {n, m} /\ y \in {n, m}
    BY <1>1, <2>1, InoType
  <2>2. CASE x \in {n, m} /\ y \notin {n, m}
    BY <1>1, <1>2, <1>3, <1>10, <2>2, InoType
  <2>3. CASE x \notin {n, m} /\ y \in {n, m}
    BY <1>1, <1>2, <1>3, <1>10, <2>3, InoType
  <2>4. CASE x \notin {n, m} /\ y \notin {n, m}
    BY <1>3, <2>4 DEF Rows, LinksAgree
  <2>5. QED
    BY <2>1, <2>2, <2>3, <2>4
<1>12. SizesAgree(g)
  BY <1>1 DEF Rows, SizesAgree
<1>13. QED
  BY <1>2, <1>3, <1>6, <1>8, <1>9, <1>11, <1>12 DEF Rows
-----------------------------------------------------------------------------
(* What the operators of the model find, in a state that agrees.           *)

\* What the rows of a state say, in terms of its table.
LEMMA StateRows ==
    ASSUME IInv, NEW n \in Name, Present(n)
    PROVE  /\ files[n] \in FileRow /\ Inode(n) = InodeIn(files, n) /\ Inode(n) \in Ino
           /\ Inode(n) < nextIno /\ files[n].id < nextIno
           /\ files[n].size = Bytes[files[n].body] /\ n \in NamesIn(files, Inode(n))
           /\ \A m \in Name : Present(m) /\ files[m].id = Inode(n) => InodeIn(files, m) = Inode(n)
<1>1. Rows(files, nextIno) /\ files[n] # None
  BY DEF IInv, Present
<1>2. files \in Table
  BY <1>1 DEF Rows
<1>3. Inode(n) = InodeIn(files, n)
  BY DEF Inode, InodeIn
<1>4. files[n] \in FileRow /\ InodeIn(files, n) \in Ino
  BY <1>1, <1>2, RowType
<1>5. InodeIn(files, n) < nextIno /\ files[n].id < nextIno
  BY <1>1 DEF Rows, NumbersAreSpent
<1>6. files[n].size = Bytes[files[n].body]
  BY <1>1 DEF Rows, SizesAgree
<1>7. \A m \in Name : files[m] # None /\ files[m].id = InodeIn(files, n)
                         => InodeIn(files, m) = InodeIn(files, n)
  BY <1>1 DEF Rows, NumbersBelong
<1>8. QED
  BY <1>1, <1>3, <1>4, <1>5, <1>6, <1>7 DEF NamesIn, Present

\* An inode is pinned as long as a descriptor is open.
LEMMA PinsCount ==
    ASSUME TypeOK, NEW i \in Ino
    PROVE  pins[i] \in Nat /\ (pins[i] > 0 <=> \E h \in Handle : handles[h] = i)
<1> DEFINE open == {h \in Handle : handles[h] = i}
<1>1. pins[i] = Cardinality(open)
  BY DEF TypeOK
<1>2. IsFiniteSet(open) /\ Cardinality(open) \in Nat
  BY FiniteNames
<1>3. Cardinality(open) = 0 <=> open = {}
  BY <1>2, FS_EmptySet
<1>4. QED
  BY <1>1, <1>2, <1>3

\* entry() finds a name of the inode.
LEMMA RepresentativeIsName ==
    ASSUME IInv, NEW i \in Ino, NamesOf(i) # {}
    PROVE  Representative(i) \in NamesOf(i)
<1> DEFINE ids == {files[n].id : n \in NamesOf(i)}
<1>1. \A n \in NamesOf(i) : files[n].id \in Nat
  <2> SUFFICES ASSUME NEW n \in NamesOf(i)
               PROVE  files[n].id \in Nat
    OBVIOUS
  <2>1. n \in Name /\ files[n] # None /\ files \in Table
    BY DEF NamesOf, Present, IInv, Rows
  <2>2. files[n].id \in Ino
    BY <2>1, RowType
  <2>3. Ino \subseteq Nat
    BY InoType
  <2>4. QED
    BY <2>2, <2>3
<1>2. ids \subseteq Nat /\ ids # {}
  BY <1>1
<1> HIDE DEF ids
<1>3. PICK x \in ids : \A y \in ids : <<y, x>> \notin OpToRel(<, Nat)
  BY <1>2, NatLessThanWellFounded, WFMin, Zenon
<1>4. \A y \in ids : x <= y
  <2>1. \A y \in ids : ~(y < x)
    BY <1>2, <1>3, Zenon DEF OpToRel
  <2>2. QED
    BY <1>2, <2>1
<1>5. PICK n \in NamesOf(i) : files[n].id = x
  BY DEF ids
<1>6. \A m \in NamesOf(i) : files[n].id <= files[m].id
  BY <1>4, <1>5 DEF ids
<1>7. QED
  BY <1>6 DEF Representative

\* What is open, and what a name leads to, is the number of an inode, and
\* what entry() looks up are its names.
LEMMA NamesOfInode ==
    ASSUME IInv, NEW i \in Ino,
           \/ \E h \in Handle : handles[h] = i
           \/ NamesIn(files, i) # {}
    PROVE  /\ NamesOf(i) = NamesIn(files, i)
           /\ NamesOf(i) # {} => Representative(i) \in NamesIn(files, i)
<1>1. None \notin Ino
  BY InoType
<1>2. \A n \in Name : files[n] # None /\ files[n].id = i => InodeIn(files, n) = i
  <2>1. CASE \E h \in Handle : handles[h] = i
    BY <1>1, <2>1 DEF IInv, Held
  <2>2. CASE NamesIn(files, i) # {}
    BY <2>2 DEF IInv, Rows, NumbersBelong, NamesIn
  <2>3. QED
    BY <2>1, <2>2
<1>3. \A n \in Name : files[n] # None /\ i \in {files[n].id, files[n].identity}
                         => InodeIn(files, n) = i
  BY <1>1, <1>2 DEF InodeIn
<1>4. \A n \in Name : InodeIn(files, n) = i => i \in {files[n].id, files[n].identity}
  BY DEF InodeIn
<1>5. NamesOf(i) = NamesIn(files, i)
  BY <1>3, <1>4 DEF NamesOf, NamesIn, Present
<1>6. QED
  BY <1>5, RepresentativeIsName

\* retain() keeps the open inodes that lose all the names they have.
LEMMA RetainedIs ==
    ASSUME IInv, NEW names \in SUBSET Name, NEW candidates \in SUBSET Ino
    PROVE  /\ Retained(names, candidates) \subseteq Ino
           /\ \A i \in Ino : i \in Retained(names, candidates) <=>
                /\ i \in candidates /\ \E h \in Handle : handles[h] = i
                /\ NamesIn(files, i) # {} /\ NamesIn(files, i) \subseteq names
<1> SUFFICES ASSUME NEW i \in Ino
             PROVE  i \in Retained(names, candidates) <=>
                       /\ i \in candidates /\ \E h \in Handle : handles[h] = i
                       /\ NamesIn(files, i) # {} /\ NamesIn(files, i) \subseteq names
  BY DEF Retained
<1>1. pins[i] > 0 <=> \E h \in Handle : handles[h] = i
  BY PinsCount DEF IInv
<1>2. CASE ~ \E h \in Handle : handles[h] = i
  BY <1>1, <1>2 DEF Retained
<1>3. CASE \E h \in Handle : handles[h] = i
  <2>1. NamesOf(i) = NamesIn(files, i)
    BY <1>3, NamesOfInode
  <2>2. CASE NamesOf(i) = {}
    BY <2>1, <2>2 DEF Retained
  <2>3. CASE NamesOf(i) # {}
    <3> DEFINE n == Representative(i)
               j == files[n].identity
    <3>1. n \in NamesIn(files, i)
      BY <1>3, <2>3, NamesOfInode
    <3> HIDE DEF n
    <3>2. n \in Name /\ files[n] # None /\ InodeIn(files, n) = i /\ files \in Table
      BY <3>1 DEF NamesIn, IInv, Rows
    <3>3. NamesIn(files, i) = {n} \cup Aliases(files, j)
      <4>1. CASE j = None
        <5>1. \A m \in NamesIn(files, i) : m = n
          BY <3>2, <4>1 DEF IInv, Rows, LinksAgree, NamesIn
        <5>2. Aliases(files, j) = {}
          BY <4>1 DEF Aliases
        <5>3. QED
          BY <3>1, <5>1, <5>2
      <4>2. CASE j # None
        <5>1. j = i
          BY <3>2, <4>2 DEF InodeIn
        <5>2. Aliases(files, i) \subseteq NamesIn(files, i)
          BY <3>2, AliasesAreNames
        <5>3. \A m \in NamesIn(files, i) : files[m].identity # None
          BY <3>2, <4>2 DEF IInv, Rows, LinksAgree, NamesIn
        <5>4. NamesIn(files, i) \subseteq Aliases(files, i)
          BY <3>2, <5>3, AliasesAreNames
        <5>5. QED
          BY <3>1, <5>1, <5>2, <5>4
      <4>3. QED
        BY <4>1, <4>2
    <3>4. i \in Retained(names, candidates) <=>
              i \in candidates /\ n \in names /\ Aliases(files, j) \subseteq names
      BY <1>1, <1>3, <2>3 DEF Retained, n
    <3>5. QED
      BY <1>3, <3>1, <3>3, <3>4
  <2>4. QED
    BY <2>2, <2>3
<1>4. QED
  BY <1>2, <1>3
-----------------------------------------------------------------------------
(* The sums of the model are those of Sums.                                *)

SizesIn(f) == [n \in Name |-> f[n].size]
DetachedSizes(d) == [i \in Ino |-> d[i].size]
FileSizes == [i \in Ino |-> files[Representative(i)].size]

\* Sum adds up the sizes of names.
LEMMA SumIsSum ==
    ASSUME NEW S \in SUBSET Name
    PROVE  Sum(S) = SumOf(SizesIn(files), S)
<1> DEFINE w == SizesIn(files)
           Q(g) == g = [s \in SUBSET S |-> IF s = {} THEN 0
                                           ELSE files[Chosen(s)].size + g[s \ {Chosen(s)}]]
<1>1. Sum(S) = (CHOOSE g : Q(g))[S]
  BY DEF Sum, MapThenSumSet, MapThenFoldSet, Chosen
<1>2. \A s \in SUBSET S : s # {} => w[Chosen(s)] = files[Chosen(s)].size
  BY DEF Chosen, SizesIn
<1> HIDE DEF w
<1>3. \A g : Q(g) <=> Adds(w, S, g)
  BY <1>2 DEF Adds
<1>4. IsFiniteSet(S)
  BY FiniteNames
<1>5. PICK g : Adds(w, S, g)
  BY <1>4, AddsExists
<1> HIDE DEF Q
<1>6. Q(CHOOSE h : Q(h))
  BY <1>3, <1>5
<1>7. Adds(w, S, CHOOSE h : Q(h))
  BY <1>3, <1>6
<1>8. SumOf(w, S) = (CHOOSE h : Q(h))[S]
  BY <1>4, <1>7, SumIsSolution
<1>9. QED
  BY <1>1, <1>8 DEF w

\* DetachedBytes adds up the sizes of detached bodies.
LEMMA DetachedIsSum ==
    ASSUME NEW S \in SUBSET Ino
    PROVE  DetachedBytes(S) = SumOf(DetachedSizes(detached), S)
<1> DEFINE w == DetachedSizes(detached)
           Q(g) == g = [s \in SUBSET S |-> IF s = {} THEN 0
                                           ELSE detached[Chosen(s)].size + g[s \ {Chosen(s)}]]
<1>1. DetachedBytes(S) = (CHOOSE g : Q(g))[S]
  BY DEF DetachedBytes, MapThenSumSet, MapThenFoldSet, Chosen
<1>2. \A s \in SUBSET S : s # {} => w[Chosen(s)] = detached[Chosen(s)].size
  BY DEF Chosen, DetachedSizes
<1> HIDE DEF w
<1>3. \A g : Q(g) <=> Adds(w, S, g)
  BY <1>2 DEF Adds
<1>4. IsFiniteSet(S)
  BY FiniteInos
<1>5. PICK g : Adds(w, S, g)
  BY <1>4, AddsExists
<1> HIDE DEF Q
<1>6. Q(CHOOSE h : Q(h))
  BY <1>3, <1>5
<1>7. Adds(w, S, CHOOSE h : Q(h))
  BY <1>3, <1>6
<1>8. SumOf(w, S) = (CHOOSE h : Q(h))[S]
  BY <1>4, <1>7, SumIsSolution
<1>9. QED
  BY <1>1, <1>8 DEF w

\* What removal gives back is the names' sizes but those of the retained inodes.
LEMMA ReleasedIsSum ==
    ASSUME NEW names \in SUBSET Name, NEW S \in SUBSET Ino
    PROVE  Released(names, S) = -SumOf(SizesIn(files), names) + SumOf(FileSizes, S)
<1> DEFINE w == FileSizes
           total == MapThenSumSet(LAMBDA i : files[Representative(i)].size, S)
           Q(g) == g = [s \in SUBSET S |-> IF s = {} THEN 0
                     ELSE files[Representative(Chosen(s))].size + g[s \ {Chosen(s)}]]
<1>1. total = (CHOOSE g : Q(g))[S]
  BY DEF MapThenSumSet, MapThenFoldSet, Chosen
<1>2. \A s \in SUBSET S : s # {} => w[Chosen(s)] = files[Representative(Chosen(s))].size
  BY DEF Chosen, FileSizes
<1> HIDE DEF w
<1>3. \A g : Q(g) <=> Adds(w, S, g)
  BY <1>2 DEF Adds
<1>4. IsFiniteSet(S)
  BY FiniteInos
<1>5. PICK g : Adds(w, S, g)
  BY <1>4, AddsExists
<1> HIDE DEF Q
<1>6. Q(CHOOSE h : Q(h))
  BY <1>3, <1>5
<1>7. Adds(w, S, CHOOSE h : Q(h))
  BY <1>3, <1>6
<1>8. SumOf(w, S) = (CHOOSE h : Q(h))[S]
  BY <1>4, <1>7, SumIsSolution
<1>9. Released(names, S) = -Sum(names) + total
  BY DEF Released
<1>10. Sum(names) = SumOf(SizesIn(files), names)
  BY SumIsSum
<1> HIDE DEF total
<1>11. QED
  BY <1>1, <1>8, <1>9, <1>10 DEF w

\* Sums of sizes are integers.
LEMMA SumTypes ==
    ASSUME IInv
    PROVE  /\ \A S \in SUBSET Name : (\A n \in S : Present(n)) =>
                  Sum(S) \in Int /\ SumOf(SizesIn(files), S) \in Int
           /\ \A S \in SUBSET Ino : (\A i \in S : detached[i] # None) =>
                  DetachedBytes(S) \in Int /\ SumOf(DetachedSizes(detached), S) \in Int
           /\ \A S \in SUBSET Ino : (\A i \in S : NamesOf(i) # {}) =>
                  SumOf(FileSizes, S) \in Int
<1>1. \A n \in Name : Present(n) => SizesIn(files)[n] \in Int
  BY RowType DEF IInv, Rows, SizesIn, Present
<1>2. \A i \in Ino : detached[i] # None => DetachedSizes(detached)[i] \in Int
  BY DEF IInv, TypeOK, DetachedSizes
<1>3. \A i \in Ino : NamesOf(i) # {} => FileSizes[i] \in Int
  <2> SUFFICES ASSUME NEW i \in Ino, NamesOf(i) # {}
               PROVE  files[Representative(i)].size \in Int
    BY DEF FileSizes
  <2>1. Representative(i) \in NamesOf(i)
    BY RepresentativeIsName
  <2>2. Representative(i) \in Name /\ files[Representative(i)] # None
    BY <2>1 DEF NamesOf, Present
  <2>3. files \in Table
    BY DEF IInv, Rows
  <2>4. QED
    BY <2>2, <2>3, RowType
<1>4. ASSUME NEW S \in SUBSET Name, \A n \in S : Present(n)
      PROVE  SumOf(SizesIn(files), S) \in Int
  <2>1. \A n \in S : SizesIn(files)[n] \in Int
    BY <1>1, <1>4
  <2>2. QED
    BY <2>1, FiniteNames, SumType
<1>5. ASSUME NEW S \in SUBSET Ino, \A i \in S : detached[i] # None
      PROVE  SumOf(DetachedSizes(detached), S) \in Int
  <2>1. \A i \in S : DetachedSizes(detached)[i] \in Int
    BY <1>2, <1>5
  <2>2. QED
    BY <2>1, FiniteInos, SumType
<1>6. ASSUME NEW S \in SUBSET Ino, \A i \in S : NamesOf(i) # {}
      PROVE  SumOf(FileSizes, S) \in Int
  <2>1. \A i \in S : FileSizes[i] \in Int
    BY <1>3, <1>6
  <2>2. QED
    BY <2>1, FiniteInos, SumType
<1>7. QED
  BY <1>4, <1>5, <1>6, SumIsSum, DetachedIsSum

\* What retain() gives back is an integer.
LEMMA ReleasedType ==
    ASSUME IInv, NEW names \in SUBSET Name, \A n \in names : Present(n),
           NEW candidates \in SUBSET Ino
    PROVE  Released(names, Retained(names, candidates)) \in Int
<1> DEFINE S == Retained(names, candidates)
<1>1. S \in SUBSET Ino /\ \A i \in S : NamesOf(i) # {}
  BY DEF Retained
<1> HIDE DEF S
<1>2. SumOf(SizesIn(files), names) \in Int /\ SumOf(FileSizes, S) \in Int
  BY <1>1, SumTypes
<1>3. Released(names, S) = -SumOf(SizesIn(files), names) + SumOf(FileSizes, S)
  BY <1>1, ReleasedIsSum
<1>4. QED
  BY <1>2, <1>3 DEF S
-----------------------------------------------------------------------------
(* The invariant is kept: changes by name.                                 *)

\* The numbers that are in use.
LEMMA Numbers ==
    ASSUME IInv
    PROVE  /\ nextIno \in Nat /\ nextIno >= 1 /\ nextIno <= MaxIno + 1
           /\ \A h \in Handle : handles[h] # None =>
                  handles[h] \in Ino /\ handles[h] \in Nat /\ handles[h] < nextIno
<1>1. nextIno \in 1 .. MaxIno + 1 /\ MaxIno \in Nat /\ Ino \subseteq Nat
  BY InoType DEF IInv, TypeOK
<1>2. \A h \in Handle : handles[h] # None => handles[h] \in Ino /\ handles[h] < nextIno
  BY DEF IInv, TypeOK, Held
<1>3. nextIno \in Nat /\ nextIno >= 1 /\ nextIno <= MaxIno + 1
  BY <1>1
<1>4. Ino \subseteq Nat
  BY <1>1
<1>5. QED
  BY <1>2, <1>3, <1>4

\* What is needed to know that descriptors keep what they lead to.
LEMMA HeldAfter ==
    ASSUME IInv, NEW g, NEW d, NEW later \in Nat, nextIno <= later,
           \A n \in Name : g[n] # None =>
               \/ g[n].id >= nextIno
               \/ \E m \in Name : /\ Present(m) /\ files[m].id = g[n].id
                                  /\ InodeIn(files, m) = InodeIn(g, n),
           \A h \in Handle : handles[h] # None =>
               NamesIn(g, handles[h]) # {} \/ d[handles[h]] # None,
           \A i \in Ino : d[i] # None => NamesIn(g, i) = {} /\ \E h \in Handle : handles[h] = i
    PROVE  Held(g, d, handles, later)
<1> SUFFICES ASSUME NEW h \in Handle, handles[h] # None
             PROVE  /\ handles[h] < later
                    /\ \A n \in Name : g[n] # None /\ g[n].id = handles[h]
                                          => InodeIn(g, n) = handles[h]
  BY DEF Held
<1>1. handles[h] \in Nat /\ nextIno \in Nat /\ handles[h] < nextIno
  BY Numbers
<1>2. \A m \in Name : files[m] # None /\ files[m].id = handles[h] => InodeIn(files, m) = handles[h]
  BY DEF IInv, Held
<1>3. QED
  BY <1>1, <1>2 DEF Present

\* The same when no inode gains its first or loses its last name.
LEMMA HeldSame ==
    ASSUME IInv, NEW g, NEW later \in Nat, nextIno <= later,
           \A n \in Name : g[n] # None =>
               \/ g[n].id >= nextIno
               \/ \E m \in Name : /\ Present(m) /\ files[m].id = g[n].id
                                  /\ InodeIn(files, m) = InodeIn(g, n),
           \A i \in Ino : i < nextIno => (NamesIn(g, i) = {} <=> NamesIn(files, i) = {})
    PROVE  Held(g, detached, handles, later)
<1>1. \A h \in Handle : handles[h] # None => handles[h] \in Ino /\ handles[h] < nextIno
  BY Numbers
<1>2. \A h \in Handle : handles[h] # None =>
          NamesIn(g, handles[h]) # {} \/ detached[handles[h]] # None
  BY <1>1 DEF IInv, Held
<1>3. ASSUME NEW i \in Ino, detached[i] # None
      PROVE  NamesIn(g, i) = {} /\ \E h \in Handle : handles[h] = i
  <2>1. NamesIn(files, i) = {} /\ \E h \in Handle : handles[h] = i
    BY <1>3 DEF IInv, Held
  <2>2. i < nextIno
    BY <1>1, <2>1, InoType
  <2>3. QED
    BY <2>1, <2>2
<1>4. QED
  BY <1>2, <1>3, HeldAfter

\* The parts of TypeOK, from those of the invariant.
LEMMA TypesAfter ==
    ASSUME Rows(files, nextIno)', Held(files, detached, handles, nextIno)',
           detached' \in [Ino -> DetachedRow \cup {None}], usage' \in Int,
           nextIno' \in 1 .. MaxIno + 1, handles' \in [Handle -> Ino \cup {None}],
           pins' = [i \in Ino |-> Cardinality({h \in Handle : handles'[h] = i})]
    PROVE  IInv'
<1>1. files' \in [Name ->
            [id : Ino, identity : Ino \cup {None}, count : Nat, size : Nat, body : Body] \cup {None}]
  BY DEF Rows, Table, FileRow
<1>2. detached' \in [Ino -> [size : Nat, body : Body] \cup {None}]
  BY DEF DetachedRow
<1>3. ASSUME NEW i \in Ino, detached'[i] # None
      PROVE  pins'[i] > 0 /\ NamesOf(i)' = {}
  <2> DEFINE open == {h \in Handle : handles'[h] = i}
  <2>1. PICK h \in Handle : handles'[h] = i
    BY <1>3 DEF Held
  <2>2. pins'[i] = Cardinality(open) /\ open # {}
    BY <2>1
  <2>3. IsFiniteSet(open) /\ Cardinality(open) \in Nat
    BY FiniteNames
  <2>4. pins'[i] > 0
    BY <2>2, <2>3, FS_EmptySet
  <2>5. NamesIn(files', i) = {}
    BY <1>3 DEF Held, NamesIn
  <2>6. \A n \in Name : files'[n] # None /\ files'[n].id = i => InodeIn(files', n) = i
    BY <2>1, InoType DEF Held, InodeIn
  <2>7. \A n \in Name : files'[n] # None => i \notin {files'[n].id, files'[n].identity}
    BY <2>5, <2>6, InoType DEF NamesIn, InodeIn
  <2>8. QED
    BY <2>4, <2>7 DEF NamesOf, Present
<1>4. TypeOK'
  BY <1>1, <1>2, <1>3 DEF TypeOK
<1>5. QED
  BY <1>4 DEF IInv

\* A file of its own, at a name that was free.
LEMMA NewFile ==
    ASSUME IInv, NEW n \in Name, ~Present(n), nextIno <= MaxIno, NEW b \in Body,
           files' = [files EXCEPT ![n] = Row(nextIno, None, 1, b)]
    PROVE  /\ Rows(files', nextIno + 1) /\ nextIno \in Ino
           /\ files'[n] # None /\ files'[n].id = nextIno /\ files'[n].body = b /\ InodeIn(files', n) = nextIno
           /\ \A m \in Name \ {n} : files'[m] = files[m]
           /\ \A i \in Ino : NamesIn(files', i) = IF i = nextIno THEN {n} ELSE NamesIn(files, i)
<1>1. nextIno \in Ino /\ nextIno \in Nat /\ Rows(files, nextIno) /\ files[n] = None
  BY Numbers, InodeAssumption DEF Ino, IInv, Present
<1> DEFINE row == Row(nextIno, None, 1, b)
<1>2. /\ row \in FileRow /\ row.id = nextIno /\ row.identity = None
      /\ row.body = b /\ row.size = Bytes[b]
  BY <1>1, NewRowType
<1> HIDE DEF row
<1>3. files' \in Table /\ files'[n] = row /\ row # None /\ \A m \in Name \ {n} : files'[m] = files[m]
  BY <1>1, <1>2, NoneIsNoRow DEF row, Rows, Table
<1>4. /\ nextIno + 1 \in Nat /\ nextIno <= nextIno + 1
      /\ nextIno <= row.id /\ row.id < nextIno + 1
  BY <1>1, <1>2
<1>5. Rows(files', nextIno + 1)
  <2> DEFINE new == {n}
             later == nextIno + 1
  <2>1. new \in SUBSET Name /\ \A m \in Name \ new : files'[m] = files[m]
    BY <1>3
  <2>2. \A m \in new : /\ files'[m] # None /\ files'[m].identity = None
                       /\ nextIno <= files'[m].id /\ files'[m].id < later
                       /\ files'[m].size = Bytes[files'[m].body]
    BY <1>2, <1>3, <1>4
  <2>3. \A m, k \in new : files'[m].id = files'[k].id => m = k
    OBVIOUS
  <2>4. later \in Nat /\ nextIno <= later
    BY <1>4
  <2>5. AddsFiles(files, files', new, nextIno, later)
    BY <1>1, <1>3, <2>1, <2>2, <2>3, <2>4 DEF AddsFiles
  <2>6. QED
    BY <1>1, <2>5, AddedRows
<1>6. InodeIn(files', n) = nextIno /\ \A m \in Name \ {n} : InodeIn(files', m) = InodeIn(files, m)
  BY <1>2, <1>3 DEF InodeIn
<1>7. NamesIn(files, nextIno) = {}
  BY <1>1, RowNumbers DEF NamesIn
<1>8. \A i \in Ino : NamesIn(files', i) = IF i = nextIno THEN {n} ELSE NamesIn(files, i)
  BY <1>1, <1>3, <1>6, <1>7 DEF NamesIn
<1>9. QED
  BY <1>1, <1>2, <1>3, <1>5, <1>6, <1>8

\* writeFile() on an absent path.
LEMMA CreateFileKeeps ==
    ASSUME IInv, NEW n \in Name, NEW b \in Body, CreateFile(n, b)
    PROVE  IInv'
<1>1. /\ ~Present(n) /\ nextIno <= MaxIno
      /\ files' = [files EXCEPT ![n] = Row(nextIno, None, 1, b)]
      /\ usage' = usage + Bytes[b] /\ nextIno' = nextIno + 1
      /\ UNCHANGED <<detached, pins, handles>>
  BY DEF CreateFile, descriptors
<1>2. /\ Rows(files', nextIno') /\ files'[n].id = nextIno /\ nextIno \in Ino
      /\ \A m \in Name \ {n} : files'[m] = files[m]
      /\ \A i \in Ino : NamesIn(files', i) = IF i = nextIno THEN {n} ELSE NamesIn(files, i)
  BY <1>1, NewFile
<1>3. nextIno' \in Nat /\ nextIno <= nextIno' /\ nextIno' \in 1 .. MaxIno + 1
  BY <1>1, Numbers, InodeAssumption
<1>4. \A i \in Ino : i < nextIno => (NamesIn(files', i) = {} <=> NamesIn(files, i) = {})
  BY <1>2, Numbers, InoType
<1>5. \A m \in Name : files'[m] # None =>
         \/ files'[m].id >= nextIno
         \/ \E k \in Name : /\ Present(k) /\ files[k].id = files'[m].id
                            /\ InodeIn(files, k) = InodeIn(files', m)
  BY <1>2, Numbers DEF Present, InodeIn
<1>6. Held(files', detached, handles, nextIno')
  BY <1>3, <1>4, <1>5, HeldSame
<1>7. usage' \in Int
  BY <1>1, InodeAssumption DEF IInv, TypeOK
<1>8. QED
  BY <1>1, <1>2, <1>3, <1>6, <1>7, TypesAfter DEF IInv, TypeOK, DetachedRow

\* A change that leaves every name its inode.
LEMMA SameNamesKeeps ==
    ASSUME IInv, Rows(files', nextIno),
           \A n \in Name : /\ files'[n] = None <=> files[n] = None
                           /\ files[n] # None => /\ InodeIn(files', n) = InodeIn(files, n)
                                                 /\ files'[n].id = files[n].id,
           usage' \in Int, UNCHANGED <<detached, nextIno, pins, handles>>
    PROVE  IInv'
<1>1. \A i : NamesIn(files', i) = NamesIn(files, i)
  BY DEF NamesIn
<1>2. \A m \in Name : files'[m] # None =>
         \/ files'[m].id >= nextIno
         \/ \E k \in Name : /\ Present(k) /\ files[k].id = files'[m].id
                            /\ InodeIn(files, k) = InodeIn(files', m)
  BY DEF Present
<1>3. Held(files', detached, handles, nextIno)
  BY <1>1, <1>2, Numbers, HeldSame
<1>4. QED
  BY <1>3, TypesAfter DEF IInv, TypeOK, DetachedRow

\* A body is written to every name of an inode, by name or through a descriptor.
LEMMA RewriteKeeps ==
    ASSUME IInv, NEW n \in Name, Present(n), NEW b \in Body,
           files' = Rewritten(files, n, b), usage' \in Int,
           UNCHANGED <<detached, nextIno, pins, handles>>
    PROVE  IInv'
<1>1. Rows(files, nextIno) /\ files[n] # None
  BY DEF IInv, Present
<1>2. /\ Rows(files', nextIno)
      /\ \A m \in Name : /\ files'[m] = None <=> files[m] = None
                         /\ files[m] # None => /\ InodeIn(files', m) = InodeIn(files, m)
                                               /\ files'[m].id = files[m].id
  BY <1>1, RewrittenRows
<1>3. QED
  BY <1>2, SameNamesKeeps

\* writeFile() and appendFile() on a file.
LEMMA WriteFileKeeps ==
    ASSUME IInv, NEW n \in Name, NEW b \in Body, WriteFile(n, b)
    PROVE  IInv'
<1>1. Bytes[b] \in Int /\ files[n].size \in Int /\ files[n].count \in Int /\ usage \in Int
  BY RowType, InodeAssumption DEF IInv, Rows, TypeOK, WriteFile, Present
<1>2. usage' \in Int
  <2>1. (Bytes[b] - files[n].size) * files[n].count \in Int
    BY <1>1
  <2>2. QED
    BY <1>1, <2>1 DEF WriteFile
<1>3. QED
  BY <1>2, RewriteKeeps DEF WriteFile, descriptors

\* link().
LEMMA LinkKeeps ==
    ASSUME IInv, NEW n \in Name, NEW m \in Name, Link(n, m)
    PROVE  IInv' /\ \A i \in Ino : NamesIn(files', i) = IF i = Inode(n) THEN NamesIn(files, i) \cup {m}
                                                        ELSE NamesIn(files, i)
<1> DEFINE identity == Inode(n)
           count == files[n].count + 1
           row == [files[n] EXCEPT !.identity = identity, !.count = count]
           other == [row EXCEPT !.id = nextIno]
<1>1. /\ Present(n) /\ ~Present(m) /\ nextIno <= MaxIno
      /\ files' = [files EXCEPT ![n] = row, ![m] = other]
      /\ usage' = usage + files[n].size /\ nextIno' = nextIno + 1
      /\ UNCHANGED <<detached, pins, handles>>
  BY DEF Link, descriptors
<1>2. /\ files \in Table /\ Rows(files, nextIno) /\ files[n] # None /\ files[m] = None /\ n # m
      /\ nextIno \in Ino /\ nextIno \in Nat
  BY <1>1, Numbers, InodeAssumption DEF Ino, IInv, Rows, Present
<1>3. files[n] \in FileRow /\ identity \in Ino /\ identity = InodeIn(files, n)
  BY <1>1, StateRows
<1> HIDE DEF identity
<1>a. count \in Nat
  BY <1>3 DEF FileRow
<1> HIDE DEF count
<1>4. /\ row \in FileRow /\ row.id = files[n].id /\ row.identity = identity
      /\ row.size = files[n].size /\ row.body = files[n].body
  BY <1>3, <1>a DEF FileRow
<1> HIDE DEF row
<1>5. /\ other \in FileRow /\ other.id = nextIno /\ other.identity = identity
      /\ other.size = files[n].size /\ other.body = files[n].body
  BY <1>2, <1>4 DEF FileRow
<1> HIDE DEF other
<1>6. /\ files' \in Table /\ files'[n] = row /\ files'[m] = other
      /\ row # None /\ other # None
      /\ \A x \in Name \ {n, m} : files'[x] = files[x]
  BY <1>1, <1>2, <1>4, <1>5, NoneIsNoRow DEF Table
<1>7. /\ Rows(files', nextIno + 1)
      /\ \A x \in Name \ {m} : files[x] # None => InodeIn(files', x) = InodeIn(files, x)
      /\ InodeIn(files', m) = identity
  BY <1>2, <1>3, <1>4, <1>5, <1>6, LinkedRows
<1>8. \A i : NamesIn(files', i) = IF i = identity THEN NamesIn(files, i) \cup {m}
                                  ELSE NamesIn(files, i)
  <2>1. \A x \in Name \ {m} : files'[x] = None <=> files[x] = None
    BY <1>2, <1>6
  <2>2. QED
    BY <1>2, <1>6, <1>7, <2>1 DEF NamesIn
<1>9. n \in NamesIn(files, identity)
  BY <1>2, <1>3 DEF NamesIn
<1>10. \A x \in Name : files'[x] # None =>
         \/ files'[x].id >= nextIno
         \/ \E k \in Name : /\ Present(k) /\ files[k].id = files'[x].id
                            /\ InodeIn(files, k) = InodeIn(files', x)
  <2> SUFFICES ASSUME NEW x \in Name, files'[x] # None
               PROVE  \/ files'[x].id >= nextIno
                      \/ \E k \in Name : /\ Present(k) /\ files[k].id = files'[x].id
                                         /\ InodeIn(files, k) = InodeIn(files', x)
    OBVIOUS
  <2>1. CASE x = m
    BY <1>2, <1>5, <1>6, <2>1
  <2>2. CASE x # m
    <3>1. files[x] # None /\ files'[x].id = files[x].id
      BY <1>2, <1>4, <1>6, <2>2
    <3>2. QED
      BY <1>7, <2>2, <3>1 DEF Present
  <2>3. QED
    BY <2>1, <2>2
<1>11. nextIno + 1 \in Nat /\ nextIno <= nextIno + 1 /\ nextIno' \in 1 .. MaxIno + 1
  BY <1>1, <1>2, InodeAssumption
<1>12. Held(files', detached, handles, nextIno + 1)
  BY <1>8, <1>9, <1>10, <1>11, HeldSame
<1>13. usage' \in Int
  BY <1>1, <1>3 DEF IInv, TypeOK, FileRow
<1>14. IInv'
  BY <1>1, <1>7, <1>11, <1>12, <1>13, TypesAfter DEF IInv, TypeOK, DetachedRow
<1>15. QED
  BY <1>8, <1>14 DEF identity

\* A table without some names.
LEMMA WithoutIs ==
    ASSUME IInv, NEW names \in SUBSET Name
    PROVE  /\ Rows(Without(names), nextIno)
           /\ \A n \in Name : Without(names)[n] # None <=> Present(n) /\ n \notin names
           /\ \A n \in Name \ names : Present(n) =>
                  /\ Without(names)[n].id = files[n].id
                  /\ Without(names)[n].identity = files[n].identity
                  /\ Without(names)[n].body = files[n].body
                  /\ Without(names)[n].size = files[n].size
                  /\ InodeIn(Without(names), n) = InodeIn(files, n)
           /\ \A i : NamesIn(Without(names), i) = NamesIn(files, i) \ names
<1> DEFINE left == [n \in Name |-> IF n \in names THEN None ELSE files[n]]
           g == Recount(left, Identities(names))
           r == [n \in Name |-> n]
<1>1. Without(names) = g
  BY DEF Without
<1>2. left \in Table /\ Rows(files, nextIno)
  BY DEF IInv, Rows, Table
<1>3. \A n \in Name : left[n] = IF n \in names THEN None ELSE files[n]
  OBVIOUS
<1> HIDE DEF left
<1>4. /\ g \in Table
      /\ \A n \in Name :
            /\ g[n] = None <=> left[n] = None
            /\ left[n] # None => /\ g[n].id = left[n].id /\ g[n].identity = left[n].identity
                                 /\ g[n].size = left[n].size /\ g[n].body = left[n].body
  BY <1>2, RecountIs
<1> HIDE DEF g
<1>5. \A n \in Name : g[n] # None =>
          /\ files[r[n]] # None
          /\ g[n].id = files[r[n]].id /\ g[n].identity = files[r[n]].identity
          /\ g[n].size = files[r[n]].size /\ g[n].body = files[r[n]].body
  BY <1>3, <1>4
<1>6. r \in [Name -> Name] /\ \A n, m \in Name : r[n] = r[m] => n = m
  OBVIOUS
<1> HIDE DEF r
<1>7. Rows(g, nextIno) /\ \A n \in Name : g[n] # None => InodeIn(g, n) = InodeIn(files, r[n])
  BY <1>2, <1>4, <1>5, <1>6, RenamedRows
<1>8. \A n \in Name : g[n] # None => InodeIn(g, n) = InodeIn(files, n)
  BY <1>7 DEF r
<1>9. \A n \in Name : g[n] # None <=> files[n] # None /\ n \notin names
  BY <1>3, <1>4
<1>10. \A i : NamesIn(g, i) = NamesIn(files, i) \ names
  BY <1>8, <1>9 DEF NamesIn
<1>11. QED
  BY <1>1, <1>5, <1>7, <1>8, <1>9, <1>10 DEF Present, r

\* d has what is detached and, of the inodes, what their names show.
Detaches(inodes, d) ==
    /\ d \in [Ino -> DetachedRow \cup {None}]
    /\ \A i \in Ino \ inodes : d[i] = detached[i]
    /\ \A i \in inodes : /\ d[i] # None /\ Representative(i) \in NamesIn(files, i)
                         /\ detached[i] = None
                         /\ d[i].size = files[Representative(i)].size
                         /\ \A n \in NamesIn(files, i) : d[i].body = files[n].body

\* What is detached after names went: what was, and what retain() found.
LEMMA DetachIs ==
    ASSUME IInv, NEW names \in SUBSET Name, NEW candidates \in SUBSET Ino
    PROVE  Detaches(Retained(names, candidates), Detach(Retained(names, candidates)))
<1> DEFINE inodes == Retained(names, candidates)
           d == Detach(inodes)
<1>1. /\ inodes \subseteq Ino
      /\ \A i \in inodes : NamesIn(files, i) # {} /\ \E h \in Handle : handles[h] = i
  BY RetainedIs
<1> HIDE DEF inodes
<1>2. d = [i \in Ino |-> IF i \in inodes
             THEN [size |-> files[Representative(i)].size, body |-> files[Representative(i)].body]
             ELSE detached[i]]
  BY DEF Detach
<1> HIDE DEF d
<1>3. \A i \in Ino \ inodes : d[i] = detached[i] /\ detached[i] \in DetachedRow \cup {None}
  BY <1>2 DEF IInv, TypeOK, DetachedRow
<1>4. ASSUME NEW i \in inodes
      PROVE  /\ d[i] # None /\ Representative(i) \in NamesIn(files, i)
             /\ d[i] \in DetachedRow /\ detached[i] = None
             /\ d[i].size = files[Representative(i)].size
             /\ \A n \in NamesIn(files, i) : d[i].body = files[n].body
  <2> DEFINE n == Representative(i)
  <2>1. n \in NamesIn(files, i)
    BY <1>1, NamesOfInode
  <2> HIDE DEF n
  <2>2. n \in Name /\ files[n] # None /\ InodeIn(files, n) = i /\ files \in Table
    BY <2>1 DEF NamesIn, IInv, Rows
  <2>3. files[n].size \in Nat /\ files[n].body \in Body
    BY <2>2, RowType
  <2>4. d[i] = [size |-> files[n].size, body |-> files[n].body]
    BY <1>1, <1>2 DEF n
  <2>5. d[i] \in DetachedRow /\ d[i] # None
    BY <2>3, <2>4, NoneIsNoRow DEF DetachedRow
  <2>6. \A m \in NamesIn(files, i) : files[n].body = files[m].body
    BY <2>2 DEF IInv, Rows, LinksAgree, NamesIn
  <2>7. detached[i] = None
    BY <1>1 DEF IInv, Held
  <2>8. QED
    BY <2>1, <2>4, <2>5, <2>6, <2>7 DEF n
<1>5. d \in [Ino -> DetachedRow \cup {None}]
  BY <1>1, <1>2, <1>3, <1>4
<1>6. QED
  BY <1>3, <1>4, <1>5 DEF Detaches, inodes, d

\* Names go, and what is open and loses its last is retained.
LEMMA RemovalHeld ==
    ASSUME IInv, NEW names \in SUBSET Name, NEW candidates \in SUBSET Ino, NEW g,
           \A h \in Handle :
               (handles[h] # None /\ NamesIn(files, handles[h]) # {}
                                  /\ NamesIn(files, handles[h]) \subseteq names)
               => handles[h] \in candidates,
           \A i \in Ino : NamesIn(g, i) = {} <=> NamesIn(files, i) \subseteq names,
           \A n \in Name : g[n] # None =>
               \E m \in Name : /\ Present(m) /\ files[m].id = g[n].id
                               /\ InodeIn(files, m) = InodeIn(g, n)
    PROVE  Held(g, Detach(Retained(names, candidates)), handles, nextIno)
<1> DEFINE inodes == Retained(names, candidates)
           d == Detach(inodes)
<1>1. /\ inodes \subseteq Ino
      /\ \A i \in Ino : i \in inodes <=>
                /\ i \in candidates /\ \E h \in Handle : handles[h] = i
                /\ NamesIn(files, i) # {} /\ NamesIn(files, i) \subseteq names
  BY RetainedIs
<1>2. /\ \A i \in Ino \ inodes : d[i] = detached[i]
      /\ \A i \in inodes : d[i] # None
  BY DetachIs DEF Detaches
<1> HIDE DEF inodes, d
<1>3. ASSUME NEW h \in Handle, handles[h] # None
      PROVE  NamesIn(g, handles[h]) # {} \/ d[handles[h]] # None
  <2>1. handles[h] \in Ino
    BY <1>3, Numbers
  <2>2. CASE NamesIn(files, handles[h]) = {}
    <3>1. detached[handles[h]] # None
      BY <1>3, <2>2 DEF IInv, Held
    <3>2. QED
      BY <1>2, <2>1, <3>1
  <2>3. CASE NamesIn(files, handles[h]) # {} /\ NamesIn(files, handles[h]) \subseteq names
    <3>1. handles[h] \in inodes
      BY <1>1, <1>3, <2>1, <2>3
    <3>2. QED
      BY <1>2, <3>1
  <2>4. CASE ~(NamesIn(files, handles[h]) \subseteq names)
    BY <2>1, <2>4
  <2>5. QED
    BY <2>2, <2>3, <2>4
<1>4. ASSUME NEW i \in Ino, d[i] # None
      PROVE  NamesIn(g, i) = {} /\ \E h \in Handle : handles[h] = i
  <2>1. CASE i \in inodes
    BY <1>1, <2>1
  <2>2. CASE i \notin inodes
    <3>1. detached[i] # None
      BY <1>2, <1>4, <2>2
    <3>2. NamesIn(files, i) = {} /\ \E h \in Handle : handles[h] = i
      BY <3>1 DEF IInv, Held
    <3>3. QED
      BY <3>2
  <2>3. QED
    BY <2>1, <2>2
<1>5. Held(g, d, handles, nextIno)
  BY <1>3, <1>4, Numbers, HeldAfter
<1>6. QED
  BY <1>5 DEF d, inodes

\* Removal of names.
LEMMA RemovalKeeps ==
    ASSUME IInv, NEW names \in SUBSET Name, \A n \in names : Present(n),
           NEW candidates \in SUBSET Ino,
           \A h \in Handle :
               (handles[h] # None /\ NamesIn(files, handles[h]) # {}
                                  /\ NamesIn(files, handles[h]) \subseteq names)
               => handles[h] \in candidates,
           files' = Without(names),
           detached' = Detach(Retained(names, candidates)),
           usage' = usage + Released(names, Retained(names, candidates)),
           UNCHANGED <<nextIno, pins, handles>>
    PROVE  IInv'
<1>1. /\ Rows(files', nextIno)
      /\ \A n \in Name : files'[n] # None <=> Present(n) /\ n \notin names
      /\ \A n \in Name \ names : Present(n) => /\ files'[n].id = files[n].id
                                               /\ InodeIn(files', n) = InodeIn(files, n)
      /\ \A i : NamesIn(files', i) = NamesIn(files, i) \ names
  BY WithoutIs
<1>2. detached' \in [Ino -> DetachedRow \cup {None}]
  BY DetachIs DEF Detaches
<1>3. usage' \in Int
  BY ReleasedType DEF IInv, TypeOK
<1>4. Held(files', detached', handles, nextIno)
  <2>1. \A i \in Ino : NamesIn(files', i) = {} <=> NamesIn(files, i) \subseteq names
    BY <1>1
  <2>2. \A n \in Name : files'[n] # None =>
           \E m \in Name : /\ Present(m) /\ files[m].id = files'[n].id
                           /\ InodeIn(files, m) = InodeIn(files', n)
    BY <1>1
  <2>3. QED
    BY <2>1, <2>2, RemovalHeld
<1>5. QED
  BY <1>1, <1>2, <1>3, <1>4, TypesAfter DEF IInv, TypeOK

\* removeExact() and a removal by path.
LEMMA RemoveNameKeeps ==
    ASSUME IInv, NEW n \in Name, RemoveName(n)
    PROVE  IInv'
<1>1. Present(n) /\ Candidates(n) = {InodeIn(files, n)} /\ Candidates(n) \in SUBSET Ino
  BY StateRows DEF RemoveName, Candidates
<1>2. ASSUME NEW h \in Handle, NamesIn(files, handles[h]) # {},
             NamesIn(files, handles[h]) \subseteq {n}
      PROVE  handles[h] \in Candidates(n)
  BY <1>1, <1>2 DEF NamesIn
<1>3. QED
  BY <1>1, <1>2, RemovalKeeps DEF RemoveName, descriptors

\* commitRemove() of a directory.
LEMMA RemoveTreeKeeps ==
    ASSUME IInv, NEW d \in Dir, RemoveTree(d)
    PROVE  IInv'
<1> DEFINE names == {n \in Below(d) : Present(n)}
<1>1. names \in SUBSET Name /\ \A n \in names : Present(n)
  BY DEF Below, Name
<1>2. \A h \in Handle : handles[h] # None => handles[h] \in Ino
  BY Numbers
<1> HIDE DEF names
<1>3. /\ files' = Without(names) /\ detached' = Detach(Retained(names, Ino))
      /\ usage' = usage + Released(names, Retained(names, Ino))
      /\ UNCHANGED <<nextIno, pins, handles>>
  BY DEF RemoveTree, descriptors, names
<1>4. QED
  BY <1>1, <1>2, <1>3, RemovalKeeps

\* What a move does to the table.
LEMMA MovedRows ==
    ASSUME IInv, NEW n \in Name, NEW m \in Name, Move(n, m)
    PROVE  /\ Rows(files', nextIno) /\ Occupied(m) \in SUBSET Name
           /\ Candidates(m) \in SUBSET Ino /\ \A x \in Occupied(m) : Present(x)
           /\ files'[n] = None /\ files'[m] # None /\ files'[m].id = files[n].id
           /\ InodeIn(files', m) = InodeIn(files, n) /\ files'[m].body = files[n].body
           /\ files'[m].size = files[n].size
           /\ \A x \in Name \ {n, m} : /\ files'[x] = None <=> files[x] = None
                                       /\ files[x] # None => /\ files'[x].id = files[x].id
                                                             /\ files'[x].body = files[x].body
                                                             /\ files'[x].size = files[x].size
                                                             /\ InodeIn(files', x) = InodeIn(files, x)
           /\ \A i \in Ino : NamesIn(files', i) = {} <=> NamesIn(files, i) \subseteq Occupied(m)
<1> DEFINE names == Occupied(m)
           left == Without(names)
           r == [x \in Name |-> IF x = m THEN n ELSE x]
<1>1. /\ n # m /\ Present(n) /\ files' = [left EXCEPT ![m] = left[n], ![n] = None]
      /\ Present(m) => Inode(n) # Inode(m)
  BY DEF Move
<1>2. names \in SUBSET Name /\ n \notin names /\ (\A x \in names : Present(x)) /\ names \subseteq {m}
  BY <1>1 DEF Occupied
<1>3. Candidates(m) \in SUBSET Ino
  BY StateRows DEF Candidates
<1>4. /\ Rows(left, nextIno) /\ left \in Table
      /\ \A x \in Name : left[x] # None <=> Present(x) /\ x \notin names
      /\ \A x \in Name \ names : Present(x) =>
                  /\ left[x].id = files[x].id /\ left[x].body = files[x].body
                  /\ left[x].size = files[x].size
                  /\ InodeIn(left, x) = InodeIn(files, x)
      /\ \A i : NamesIn(left, i) = NamesIn(files, i) \ names
  BY <1>2, WithoutIs DEF Rows
<1> HIDE DEF left
<1>5. /\ files' \in Table /\ files'[n] = None /\ files'[m] = left[n]
      /\ \A x \in Name \ {n, m} : files'[x] = left[x]
  BY <1>1, <1>4 DEF Table
<1>6. r \in [Name -> Name] /\ \A x \in Name : files'[x] # None => files'[x] = left[r[x]]
  BY <1>1, <1>5
<1>7. \A x, y \in Name : files'[x] # None /\ files'[y] # None /\ r[x] = r[y] => x = y
  BY <1>5
<1> HIDE DEF r
<1>8. \A x \in Name : files'[x] # None =>
          /\ left[r[x]] # None
          /\ files'[x].id = left[r[x]].id /\ files'[x].identity = left[r[x]].identity
          /\ files'[x].size = left[r[x]].size /\ files'[x].body = left[r[x]].body
  BY <1>6
<1>9. Rows(files', nextIno)
  BY <1>4, <1>5, <1>6, <1>7, <1>8, RenamedRows
<1>10. InodeIn(files', m) = InodeIn(left, n) /\ \A x \in Name \ {n, m} : InodeIn(files', x) = InodeIn(left, x)
  BY <1>5 DEF InodeIn
<1>11. left[n] # None /\ left[n].id = files[n].id /\ left[n].body = files[n].body
       /\ left[n].size = files[n].size /\ InodeIn(left, n) = InodeIn(files, n)
  BY <1>1, <1>2, <1>4
<1>12. m \notin names => ~Present(m)
  BY DEF Occupied
<1>13. ASSUME NEW x \in Name \ {n, m}
       PROVE  /\ files'[x] = None <=> files[x] = None
              /\ files[x] # None => /\ files'[x].id = files[x].id
                                    /\ files'[x].body = files[x].body
                                    /\ files'[x].size = files[x].size
                                    /\ InodeIn(files', x) = InodeIn(files, x)
  BY <1>2, <1>4, <1>5, <1>10 DEF Present
<1>14. ASSUME NEW i \in Ino
       PROVE  NamesIn(files', i) = {} <=> NamesIn(files, i) \subseteq Occupied(m)
  <2>1. n \in NamesIn(left, i) <=> m \in NamesIn(files', i)
    BY <1>5, <1>10, <1>11 DEF NamesIn
  <2>2. \A x \in Name \ {n, m} : x \in NamesIn(left, i) <=> x \in NamesIn(files', i)
    BY <1>5, <1>10 DEF NamesIn
  <2>3. n \notin NamesIn(files', i) /\ m \notin NamesIn(left, i)
    BY <1>4, <1>5, <1>12 DEF NamesIn
  <2>4. NamesIn(files', i) \subseteq Name /\ NamesIn(left, i) \subseteq Name
    BY DEF NamesIn
  <2>5. NamesIn(files', i) = {} <=> NamesIn(left, i) = {}
    BY <2>1, <2>2, <2>3, <2>4
  <2>6. QED
    BY <1>4, <2>5
<1>15. QED
  BY <1>2, <1>3, <1>5, <1>9, <1>10, <1>11, <1>13, <1>14

\* commitMove() of a file.
LEMMA MoveKeeps ==
    ASSUME IInv, NEW n \in Name, NEW m \in Name, Move(n, m)
    PROVE  IInv'
<1> DEFINE names == Occupied(m)
           candidates == Candidates(m)
<1>1. /\ detached' = Detach(Retained(names, candidates))
      /\ usage' = usage + Released(names, Retained(names, candidates))
      /\ UNCHANGED <<nextIno, pins, handles>> /\ Present(n)
  BY DEF Move, descriptors
<1>2. /\ Rows(files', nextIno) /\ names \in SUBSET Name
      /\ candidates \in SUBSET Ino /\ \A x \in names : Present(x)
      /\ \A i \in Ino : NamesIn(files', i) = {} <=> NamesIn(files, i) \subseteq names
  BY MovedRows
<1>3. ASSUME NEW h \in Handle, NamesIn(files, handles[h]) # {},
             NamesIn(files, handles[h]) \subseteq names
      PROVE  handles[h] \in candidates
  <2>1. m \in NamesIn(files, handles[h]) /\ Present(m)
    BY <1>3 DEF Occupied
  <2>2. InodeIn(files, m) = handles[h] /\ Inode(m) = InodeIn(files, m)
    BY <2>1 DEF NamesIn, Inode, InodeIn
  <2>3. QED
    BY <2>1, <2>2 DEF Candidates
<1>4. ASSUME NEW x \in Name, files'[x] # None
      PROVE  \E y \in Name : /\ Present(y) /\ files[y].id = files'[x].id
                             /\ InodeIn(files, y) = InodeIn(files', x)
  <2>1. CASE x = m
    BY <1>1, <2>1, MovedRows
  <2>2. CASE x # m
    BY <1>4, <2>2, MovedRows DEF Present
  <2>3. QED
    BY <2>1, <2>2
<1> HIDE DEF names, candidates
<1>5. detached' \in [Ino -> DetachedRow \cup {None}]
  BY <1>1, <1>2, DetachIs DEF Detaches
<1>6. usage' \in Int
  BY <1>1, <1>2, ReleasedType DEF IInv, TypeOK
<1>7. Held(files', detached', handles, nextIno)
  BY <1>1, <1>2, <1>3, <1>4, RemovalHeld
<1>8. QED
  BY <1>1, <1>2, <1>5, <1>6, <1>7, TypesAfter DEF IInv, TypeOK

\* What a move of a directory does to the table: rows get other names.
LEMMA MovedTree ==
    ASSUME IInv, NEW d \in Dir, NEW e \in Dir, MoveTree(d, e)
    PROVE  /\ files' \in Table
           /\ \E r \in [Name -> Name] :
                /\ \A x \in Name : files'[x] # None => files'[x] = files[r[x]] /\ files[r[x]] # None
                /\ \A x, y \in Name : files'[x] # None /\ files'[y] # None /\ r[x] = r[y] => x = y
                /\ \A y \in Name : files[y] # None => \E x \in Name : files'[x] # None /\ r[x] = y
<1> DEFINE r == [n \in Name |-> IF n[1] = e THEN <<d, n[2]>> ELSE n]
<1>1. /\ d # e /\ \A n \in Below(e) : ~Present(n)
      /\ files' = [n \in Name |-> IF n[1] = e THEN files[<<d, n[2]>>]
                                  ELSE IF n[1] = d THEN None ELSE files[n]]
      /\ UNCHANGED <<detached, usage, nextIno, pins, handles>>
  BY DEF MoveTree, descriptors
<1>2. Rows(files, nextIno) /\ files \in Table
  BY DEF IInv, Rows
<1>3. \A n \in Name : /\ n = <<n[1], n[2]>> /\ n[1] \in Dir /\ n[2] \in Leaf
                      /\ <<d, n[2]>> \in Name /\ <<e, n[2]>> \in Name
  BY DEF Name
<1>4. ASSUME NEW n \in Name, n[1] = e
      PROVE  files[n] = None
  <2>1. n = <<e, n[2]>> /\ n[2] \in Leaf
    BY <1>3, <1>4
  <2>2. n \in Below(e)
    BY <2>1 DEF Below
  <2>3. QED
    BY <1>1, <2>2 DEF Present
<1>5. r \in [Name -> Name] /\ \A n \in Name : r[n] = IF n[1] = e THEN <<d, n[2]>> ELSE n
  BY <1>3
<1> HIDE DEF r
<1>6. \A n \in Name : files'[n] # None => files'[n] = files[r[n]] /\ n[1] # d
  BY <1>1, <1>5
<1>7. \A x, y \in Name : files'[x] # None /\ files'[y] # None /\ r[x] = r[y] => x = y
  <2> SUFFICES ASSUME NEW x \in Name, NEW y \in Name, files'[x] # None, files'[y] # None, r[x] = r[y]
               PROVE  x = y
    OBVIOUS
  <2>1. CASE x[1] = e /\ y[1] = e
    <3>1. <<d, x[2]>> = <<d, y[2]>>
      BY <1>5, <2>1
    <3>2. x[2] = y[2]
      BY <3>1
    <3>3. x = <<x[1], x[2]>> /\ y = <<y[1], y[2]>>
      BY <1>3
    <3>4. QED
      BY <2>1, <3>2, <3>3
  <2>2. CASE x[1] # e /\ y[1] # e
    BY <1>5, <2>2
  <2>3. CASE x[1] = e /\ y[1] # e
    <3>1. y = <<d, x[2]>>
      BY <1>5, <2>3
    <3>2. QED
      BY <1>6, <3>1
  <2>4. CASE x[1] # e /\ y[1] = e
    <3>1. x = <<d, y[2]>>
      BY <1>5, <2>4
    <3>2. QED
      BY <1>6, <3>1
  <2>5. QED
    BY <2>1, <2>2, <2>3, <2>4
<1>8. files' \in Table
  BY <1>1, <1>2, <1>3 DEF Table
<1>9. ASSUME NEW n \in Name, files[n] # None
       PROVE  \E x \in Name : files'[x] # None /\ r[x] = n
  <2>1. n[1] # e
    BY <1>4, <1>9
  <2>2. CASE n[1] = d
    <3> DEFINE x == <<e, n[2]>>
    <3>1. x \in Name /\ x[1] = e /\ x[2] = n[2] /\ <<d, x[2]>> = n
      BY <1>3, <2>2
    <3> HIDE DEF x
    <3>2. files'[x] = files[n] /\ r[x] = n
      BY <1>1, <1>5, <3>1
    <3>3. QED
      BY <1>9, <3>1, <3>2
  <2>3. CASE n[1] # d
    <3>1. files'[n] = files[n] /\ r[n] = n
      BY <1>1, <1>5, <2>1, <2>3
    <3>2. QED
      BY <1>9, <3>1
  <2>4. QED
    BY <2>2, <2>3
<1>10. QED
  BY <1>5, <1>6, <1>7, <1>8, <1>9

\* commitMove() of a directory.
LEMMA MoveTreeKeeps ==
    ASSUME IInv, NEW d \in Dir, NEW e \in Dir, MoveTree(d, e)
    PROVE  IInv'
<1>1. UNCHANGED <<detached, usage, nextIno, pins, handles>> /\ Rows(files, nextIno) /\ files' \in Table
  BY MovedTree DEF MoveTree, descriptors, IInv
<1>2. PICK r \in [Name -> Name] :
        /\ \A x \in Name : files'[x] # None => files'[x] = files[r[x]] /\ files[r[x]] # None
        /\ \A x, y \in Name : files'[x] # None /\ files'[y] # None /\ r[x] = r[y] => x = y
        /\ \A y \in Name : files[y] # None => \E x \in Name : files'[x] # None /\ r[x] = y
  BY MovedTree
<1>3. \A x \in Name : files'[x] # None =>
          /\ files[r[x]] # None
          /\ files'[x].id = files[r[x]].id /\ files'[x].identity = files[r[x]].identity
          /\ files'[x].size = files[r[x]].size /\ files'[x].body = files[r[x]].body
  BY <1>2
<1>4. Rows(files', nextIno) /\ \A x \in Name : files'[x] # None => InodeIn(files', x) = InodeIn(files, r[x])
  BY <1>1, <1>2, <1>3, RenamedRows
<1>5. \A i \in Ino : NamesIn(files', i) = {} <=> NamesIn(files, i) = {}
  BY <1>2, <1>3, <1>4 DEF NamesIn
<1>6. \A x \in Name : files'[x] # None =>
           \E y \in Name : /\ Present(y) /\ files[y].id = files'[x].id
                           /\ InodeIn(files, y) = InodeIn(files', x)
  BY <1>2, <1>3, <1>4 DEF Present
<1>7. Held(files', detached, handles, nextIno)
  BY <1>5, <1>6, Numbers, HeldSame
<1>8. QED
  BY <1>1, <1>4, <1>7, TypesAfter DEF IInv, TypeOK, DetachedRow

\* commitCopy() onto an absent path.
LEMMA CopyFileKeeps ==
    ASSUME IInv, NEW n \in Name, NEW m \in Name, CopyFile(n, m)
    PROVE  IInv'
<1>1. files[n].body \in Body /\ CreateFile(m, files[n].body)
  BY RowType DEF CopyFile, Present, IInv, Rows
<1>2. QED
  BY <1>1, CreateFileKeeps

\* commitCopy() onto a file.
LEMMA CopyOverRows ==
    ASSUME IInv, NEW n \in Name, NEW m \in Name, CopyOver(n, m)
    PROVE  /\ Rows(files', nextIno) /\ files[n].body \in Body
           /\ \A x \in Name : /\ files'[x] = None <=> files[x] = None
                              /\ files[x] # None => /\ InodeIn(files', x) = InodeIn(files, x)
                                                    /\ files'[x].id = files[x].id
           /\ \A x \in NamesIn(files, InodeIn(files, m)) :
                  files'[x].body = files[n].body /\ files'[x].size = Bytes[files[n].body]
           /\ \A x \in Name \ NamesIn(files, InodeIn(files, m)) : files[x] # None =>
                  files'[x].body = files[x].body /\ files'[x].size = files[x].size
<1> DEFINE b == files[n].body
           one == Rewritten(files, m, b)
           g == Recount(one, Identities({m}))
           r == [x \in Name |-> x]
<1>1. files' = g /\ files[n] # None /\ files[m] # None /\ Rows(files, nextIno)
  BY DEF CopyOver, IInv, Present
<1>2. b \in Body
  BY <1>1, RowType DEF Rows
<1> HIDE DEF b
<1>3. /\ Rows(one, nextIno)
      /\ \A x \in Name : /\ one[x] = None <=> files[x] = None
                         /\ files[x] # None => /\ InodeIn(one, x) = InodeIn(files, x)
                                               /\ one[x].id = files[x].id
      /\ \A x \in NamesIn(files, InodeIn(files, m)) : one[x].body = b /\ one[x].size = Bytes[b]
      /\ \A x \in Name \ NamesIn(files, InodeIn(files, m)) : one[x] = files[x]
  BY <1>1, <1>2, RewrittenRows
<1> HIDE DEF one
<1>4. /\ g \in Table
      /\ \A x \in Name :
            /\ g[x] = None <=> one[x] = None
            /\ one[x] # None => /\ g[x].id = one[x].id /\ g[x].identity = one[x].identity
                                /\ g[x].size = one[x].size /\ g[x].body = one[x].body
  BY <1>3, RecountIs DEF Rows
<1> HIDE DEF g
<1>5. \A x \in Name : g[x] # None =>
          /\ one[r[x]] # None
          /\ g[x].id = one[r[x]].id /\ g[x].identity = one[r[x]].identity
          /\ g[x].size = one[r[x]].size /\ g[x].body = one[r[x]].body
  BY <1>4
<1>6. r \in [Name -> Name] /\ \A x, y \in Name : r[x] = r[y] => x = y
  OBVIOUS
<1> HIDE DEF r
<1>7. Rows(g, nextIno) /\ \A x \in Name : g[x] # None => InodeIn(g, x) = InodeIn(one, r[x])
  BY <1>3, <1>4, <1>5, <1>6, RenamedRows
<1>8. \A x \in Name : g[x] # None => InodeIn(g, x) = InodeIn(one, x)
  BY <1>7 DEF r
<1>9. \A x \in Name : /\ g[x] = None <=> files[x] = None
                      /\ files[x] # None => /\ InodeIn(g, x) = InodeIn(files, x)
                                            /\ g[x].id = files[x].id
  BY <1>3, <1>4, <1>8
<1>10. \A x \in NamesIn(files, InodeIn(files, m)) : g[x].body = b /\ g[x].size = Bytes[b]
  BY <1>3, <1>4 DEF NamesIn
<1>11. \A x \in Name \ NamesIn(files, InodeIn(files, m)) : files[x] # None =>
           g[x].body = files[x].body /\ g[x].size = files[x].size
  BY <1>3, <1>4
<1>12. QED
  BY <1>1, <1>2, <1>7, <1>9, <1>10, <1>11 DEF b

\* It leaves every name its inode.
LEMMA CopyOverKeeps ==
    ASSUME IInv, NEW n \in Name, NEW m \in Name, CopyOver(n, m)
    PROVE  IInv'
<1>1. files[n].size \in Int /\ files[m].size \in Int /\ files[m].count \in Int /\ usage \in Int
  BY RowType DEF IInv, Rows, TypeOK, CopyOver, Present
<1>2. (files[n].size - files[m].size) * files[m].count \in Int
  BY <1>1
<1>3. usage' \in Int /\ UNCHANGED <<detached, nextIno, pins, handles>>
  BY <1>1, <1>2 DEF CopyOver, descriptors
<1>4. QED
  BY <1>3, CopyOverRows, SameNamesKeeps

\* The leaves that a copy of a directory takes, and what it does with them.
CopiedLeaves(d) == {l \in Leaf : Present(<<d, l>>)}
CopiesLeaves(d, e, copied, new) ==
    /\ new = {e} \X copied
    /\ d # e /\ new \subseteq Name /\ \A x \in new : ~Present(x)
    /\ Rows(files', nextIno') /\ nextIno <= nextIno' /\ nextIno' \in 1 .. MaxIno + 1
    /\ \A x \in Name \ new : files'[x] = files[x]
    /\ \A l \in copied : /\ <<e, l>> \in new /\ <<d, l>> \in Name \ new /\ Present(<<d, l>>)
                         /\ files'[<<e, l>>] # None
                         /\ files'[<<e, l>>].id >= nextIno
                         /\ files'[<<e, l>>].identity = None
                         /\ files'[<<e, l>>].count = 1
                         /\ files'[<<e, l>>].body = files[<<d, l>>].body
    /\ \A x, y \in new : files'[x].id = files'[y].id => x = y
    /\ UNCHANGED <<detached, pins, handles>>
    /\ usage' = usage + Sum({d} \X copied)

\* commitCopy() of a directory: each name gets a file of its own.
LEMMA CopyTreeRows ==
    ASSUME IInv, NEW d \in Dir, NEW e \in Dir, CopyTree(d, e)
    PROVE  CopiesLeaves(d, e, CopiedLeaves(d), {e} \X CopiedLeaves(d))
<1> DEFINE copied == {l \in Leaf : Present(<<d, l>>)}
           new == {e} \X copied
           k == Cardinality(copied)
           row(number, x) == Row(number[x[2]], None, 1, files[<<d, x[2]>>].body)
<1>1. PICK number \in [copied -> nextIno .. nextIno + k - 1] :
         /\ \A l, j \in copied : number[l] = number[j] => l = j
         /\ files' = [n \in Name |-> IF n \in new THEN row(number, n) ELSE files[n]]
  BY DEF CopyTree
<1>2. /\ d # e /\ (\A n \in Below(e) : ~Present(n)) /\ nextIno + k - 1 <= MaxIno
      /\ usage' = usage + Sum({d} \X copied) /\ nextIno' = nextIno + k
      /\ UNCHANGED <<detached, pins, handles>>
  BY DEF CopyTree, descriptors
<1>3. k \in Nat /\ nextIno \in Nat /\ nextIno >= 1 /\ MaxIno \in Nat
  <2>1. IsFiniteSet(Leaf) /\ copied \in SUBSET Leaf
    BY InodeAssumption
  <2>2. IsFiniteSet(copied)
    BY <2>1, FS_Subset
  <2>3. QED
    BY <2>2, FS_CardinalityType, Numbers, InodeAssumption
<1>4. new \subseteq Name /\ new \subseteq Below(e) /\ \A x \in new : ~Present(x)
  BY <1>2 DEF Name, Below
<1>5. \A l \in copied : /\ <<e, l>> \in new /\ <<d, l>> \in Name \ new /\ files[<<d, l>>] # None
  BY <1>2 DEF Name, Present
<1>6. \A x \in new : x[1] = e /\ x[2] \in copied /\ x = <<e, x[2]>>
  OBVIOUS
<1> HIDE DEF k
<1>7. nextIno <= nextIno' /\ nextIno' \in 1 .. MaxIno + 1
  BY <1>2, <1>3
<1>8. Rows(files, nextIno) /\ files \in Table
  BY DEF IInv, Rows
<1>9. ASSUME NEW l \in copied
      PROVE  /\ number[l] \in Ino /\ nextIno <= number[l] /\ number[l] < nextIno'
             /\ files[<<d, l>>].body \in Body
  <2>1. number[l] \in nextIno .. nextIno + k - 1
    BY <1>1
  <2>2. number[l] \in Int /\ nextIno <= number[l] /\ number[l] <= nextIno + k - 1
    BY <1>3, <2>1
  <2>3. number[l] \in Ino /\ number[l] < nextIno'
    BY <1>2, <1>3, <2>2 DEF Ino
  <2>4. files[<<d, l>>].body \in Body
    BY <1>5, <1>8, RowType
  <2>5. QED
    BY <2>2, <2>3, <2>4
<1>10. ASSUME NEW l \in copied
       PROVE  LET x == <<e, l>>
              IN  /\ files'[x] \in FileRow /\ files'[x] # None
                  /\ files'[x].id = number[l] /\ files'[x].identity = None /\ files'[x].count = 1
                  /\ files'[x].body = files[<<d, l>>].body
                  /\ files'[x].size = Bytes[files'[x].body]
  <2> DEFINE x == <<e, l>>
             b == files[<<d, l>>].body
  <2>1. files'[x] = Row(number[l], None, 1, b)
    BY <1>1, <1>4, <1>5
  <2>2. b \in Body /\ number[l] \in Ino
    BY <1>9
  <2> HIDE DEF b
  <2>3. /\ Row(number[l], None, 1, b) \in FileRow
        /\ Row(number[l], None, 1, b).id = number[l] /\ Row(number[l], None, 1, b).identity = None
        /\ Row(number[l], None, 1, b).body = b /\ Row(number[l], None, 1, b).size = Bytes[b]
        /\ Row(number[l], None, 1, b).count = 1
    BY <2>2, NewRowType
  <2>4. QED
    BY <2>1, <2>3, NoneIsNoRow DEF b
<1>11. \A x \in Name \ new : files'[x] = files[x]
  BY <1>1
<1>12. files' \in Table
  <2>1. \A x \in Name : files'[x] \in FileRow \cup {None}
    BY <1>6, <1>8, <1>10, <1>11 DEF Table
  <2>2. QED
    BY <1>1, <2>1 DEF Table
<1>13. ASSUME NEW x \in new, NEW y \in new, files'[x].id = files'[y].id
       PROVE  x = y
  <2>1. x[2] \in copied /\ y[2] \in copied /\ x = <<e, x[2]>> /\ y = <<e, y[2]>>
    BY <1>6
  <2>2. files'[x].id = number[x[2]] /\ files'[y].id = number[y[2]]
    BY <1>10, <2>1
  <2>3. x[2] = y[2]
    BY <1>1, <1>13, <2>1, <2>2
  <2>4. QED
    BY <2>1, <2>3
<1> HIDE DEF new, copied
<1>14. AddsFiles(files, files', new, nextIno, nextIno')
  <2>1. nextIno' \in Nat
    BY <1>2, <1>3
  <2>2. ASSUME NEW x \in new
        PROVE  /\ files'[x] # None /\ files'[x].identity = None
               /\ nextIno <= files'[x].id /\ files'[x].id < nextIno'
               /\ files'[x].size = Bytes[files'[x].body]
    <3>1. PICK l \in copied : x = <<e, l>>
      BY <1>6
    <3>2. nextIno <= number[l] /\ number[l] < nextIno'
      BY <1>9
    <3>3. QED
      BY <1>10, <3>1, <3>2
  <2>3. QED
    BY <1>3, <1>4, <1>7, <1>11, <1>12, <1>13, <2>1, <2>2 DEF AddsFiles
<1>15. Rows(files', nextIno')
  BY <1>8, <1>14, AddedRows
<1>16. \A l \in copied : files'[<<e, l>>].id >= nextIno
  BY <1>3, <1>9, <1>10, InoType
<1>17. QED
  <2>1. \A l \in copied : Present(<<d, l>>)
    BY DEF copied
  <2>2. new = {e} \X copied
    BY DEF new
  <2>3. CopiesLeaves(d, e, copied, new)
    BY <1>2, <1>4, <1>5, <1>7, <1>10, <1>11, <1>13, <1>15, <1>16, <2>1, <2>2 DEF CopiesLeaves
  <2>4. QED
    BY <2>3 DEF new, copied, CopiedLeaves

\* It takes nothing from a descriptor.
LEMMA CopyTreeKeeps ==
    ASSUME IInv, NEW d \in Dir, NEW e \in Dir, CopyTree(d, e)
    PROVE  IInv'
<1> DEFINE copied == CopiedLeaves(d)
           new == {e} \X copied
<1>1. CopiesLeaves(d, e, copied, new)
  BY CopyTreeRows
<1>2. \A x \in new : \E l \in copied : x = <<e, l>>
  OBVIOUS
<1> HIDE DEF new, copied
<1>3. {d} \X copied \subseteq Name /\ \A x \in {d} \X copied : Present(x)
  <2>1. \A l \in copied : <<d, l>> \in Name /\ Present(<<d, l>>)
    BY <1>1 DEF CopiesLeaves
  <2>2. ASSUME NEW x \in {d} \X copied
        PROVE  x \in Name /\ Present(x)
    <3>1. x = <<d, x[2]>> /\ x[2] \in copied
      OBVIOUS
    <3>2. QED
      BY <2>1, <3>1
  <2>3. QED
    BY <2>2
<1>4. \A x \in new : files'[x] # None /\ files'[x].id >= nextIno /\ InodeIn(files', x) = files'[x].id
  <2>1. ASSUME NEW l \in copied
        PROVE  /\ files'[<<e, l>>] # None /\ files'[<<e, l>>].id >= nextIno
               /\ InodeIn(files', <<e, l>>) = files'[<<e, l>>].id
    BY <1>1 DEF InodeIn, CopiesLeaves
  <2>2. QED
    BY <1>2, <2>1
<1>5. \A x \in Name \ new : InodeIn(files', x) = InodeIn(files, x)
  BY <1>1 DEF InodeIn, CopiesLeaves
<1>6. \A x \in Name : files'[x] # None =>
         \/ files'[x].id >= nextIno
         \/ \E y \in Name : /\ Present(y) /\ files[y].id = files'[x].id
                            /\ InodeIn(files, y) = InodeIn(files', x)
  BY <1>1, <1>4, <1>5 DEF Present, CopiesLeaves
<1>7. \A x \in new : InodeIn(files', x) \in Nat
  BY <1>1, <1>4, RowNumbers DEF CopiesLeaves
<1>8. ASSUME NEW i \in Ino, i < nextIno
      PROVE  NamesIn(files', i) = NamesIn(files, i)
  <2>1. i \in Nat /\ nextIno \in Nat
    BY InoType, Numbers
  <2>2. \A x \in new : InodeIn(files', x) # i /\ files[x] = None
    BY <1>1, <1>4, <1>7, <1>8, <2>1 DEF Present, CopiesLeaves
  <2>3. QED
    BY <1>1, <1>5, <2>2 DEF NamesIn, CopiesLeaves
<1>9. nextIno' \in Nat /\ usage' \in Int
  <2>1. Sum({d} \X copied) \in Int
    BY <1>3, SumTypes
  <2>2. QED
    BY <1>1, <2>1 DEF IInv, TypeOK, CopiesLeaves
<1>10. Held(files', detached, handles, nextIno')
  <2>1. nextIno <= nextIno' /\ UNCHANGED detached
    BY <1>1 DEF CopiesLeaves
  <2>2. \A i \in Ino : i < nextIno => (NamesIn(files', i) = {} <=> NamesIn(files, i) = {})
    BY <1>8
  <2>3. QED
    BY <1>6, <1>9, <2>1, <2>2, HeldSame
<1>11. QED
  BY <1>1, <1>9, <1>10, TypesAfter DEF IInv, TypeOK, DetachedRow, CopiesLeaves
-----------------------------------------------------------------------------
(* The invariant is kept: descriptors.                                     *)

\* A descriptor more.
LEMMA PinCounts ==
    ASSUME TypeOK, NEW h \in Handle, NEW i \in Ino, Pin(h, i)
    PROVE  /\ handles' \in [Handle -> Ino \cup {None}]
           /\ pins' = [j \in Ino |-> Cardinality({k \in Handle : handles'[k] = j})]
<1>1. /\ handles \in [Handle -> Ino \cup {None}] /\ handles[h] = None
      /\ handles' = [handles EXCEPT ![h] = i]
      /\ pins = [j \in Ino |-> Cardinality({k \in Handle : handles[k] = j})]
      /\ pins' = [pins EXCEPT ![i] = pins[i] + 1]
  BY DEF TypeOK, Pin
<1>2. ASSUME NEW j \in Ino
      PROVE  pins'[j] = Cardinality({k \in Handle : handles'[k] = j})
  <2> DEFINE old == {k \in Handle : handles[k] = j}
             new == {k \in Handle : handles'[k] = j}
  <2>1. IsFiniteSet(old) /\ Cardinality(old) = pins[j] /\ h \notin old
    BY <1>1, FiniteNames, InoType
  <2>2. new = IF j = i THEN old \cup {h} ELSE old
    BY <1>1, InoType
  <2> HIDE DEF old, new
  <2>3. Cardinality(old \cup {h}) = Cardinality(old) + 1
    BY <2>1, FS_AddElement
  <2>4. Cardinality(new) = IF j = i THEN pins[j] + 1 ELSE pins[j]
    BY <2>1, <2>2, <2>3
  <2>5. pins'[j] = IF j = i THEN pins[j] + 1 ELSE pins[j]
    BY <1>1
  <2>6. QED
    BY <2>4, <2>5 DEF new
<1>3. pins' = [j \in Ino |-> pins'[j]]
  BY <1>1
<1>4. QED
  BY <1>1, <1>2, <1>3

\* A descriptor less.
LEMMA UnpinCounts ==
    ASSUME TypeOK, NEW h \in Handle, NEW i \in Ino, handles[h] = i,
           handles' = [handles EXCEPT ![h] = None],
           pins' = [pins EXCEPT ![i] = pins[i] - 1]
    PROVE  /\ handles' \in [Handle -> Ino \cup {None}]
           /\ pins' = [j \in Ino |-> Cardinality({k \in Handle : handles'[k] = j})]
           /\ pins[i] = 1 <=> \A k \in Handle : handles[k] = i => k = h
<1>1. /\ handles \in [Handle -> Ino \cup {None}]
      /\ pins = [j \in Ino |-> Cardinality({k \in Handle : handles[k] = j})]
  BY DEF TypeOK
<1>2. ASSUME NEW j \in Ino
      PROVE  pins'[j] = Cardinality({k \in Handle : handles'[k] = j})
  <2> DEFINE old == {k \in Handle : handles[k] = j}
             new == {k \in Handle : handles'[k] = j}
  <2>1. IsFiniteSet(old) /\ Cardinality(old) = pins[j] /\ (h \in old <=> j = i)
    BY <1>1, FiniteNames
  <2>2. new = IF j = i THEN old \ {h} ELSE old
    BY <1>1, InoType
  <2> HIDE DEF old, new
  <2>3. Cardinality(old \ {h}) = IF h \in old THEN Cardinality(old) - 1 ELSE Cardinality(old)
    BY <2>1, FS_RemoveElement
  <2>4. Cardinality(new) = IF j = i THEN pins[j] - 1 ELSE pins[j]
    BY <2>1, <2>2, <2>3
  <2>5. pins'[j] = IF j = i THEN pins[j] - 1 ELSE pins[j]
    BY <1>1
  <2>6. QED
    BY <2>4, <2>5 DEF new
<1>3. pins' = [j \in Ino |-> pins'[j]]
  BY <1>1
<1>4. pins[i] = 1 <=> \A k \in Handle : handles[k] = i => k = h
  <2> DEFINE old == {k \in Handle : handles[k] = i}
  <2>1. IsFiniteSet(old) /\ Cardinality(old) = pins[i] /\ h \in old
    BY <1>1, FiniteNames
  <2>2. Cardinality(old) = 1 <=> \E k : old = {k}
    BY <2>1, FS_Singleton
  <2>3. QED
    BY <2>1, <2>2
<1>5. QED
  BY <1>1, <1>2, <1>3, <1>4

\* A descriptor more of an inode that has a name.
LEMMA PinnedHeld ==
    ASSUME NEW g, NEW d, NEW next, Held(g, d, handles, next),
           NEW h \in Handle, NEW i \in Ino, i < next, NamesIn(g, i) # {}, NumbersBelong(g),
           handles \in [Handle -> Ino \cup {None}],
           handles[h] = None, handles' = [handles EXCEPT ![h] = i]
    PROVE  Held(g, d, handles', next)
<1>1. handles'[h] = i /\ \A k \in Handle \ {h} : handles'[k] = handles[k]
  OBVIOUS
<1>2. \A n \in Name : g[n] # None /\ g[n].id = i => InodeIn(g, n) = i
  BY DEF NumbersBelong, NamesIn
<1>3. \A j \in Ino : (\E k \in Handle : handles[k] = j) => \E k \in Handle : handles'[k] = j
  BY <1>1, InoType
<1>4. \A k \in Handle : handles'[k] # None =>
        /\ handles'[k] < next
        /\ \A n \in Name : g[n] # None /\ g[n].id = handles'[k] => InodeIn(g, n) = handles'[k]
        /\ NamesIn(g, handles'[k]) # {} \/ d[handles'[k]] # None
  <2> SUFFICES ASSUME NEW k \in Handle, handles'[k] # None
               PROVE  /\ handles'[k] < next
                      /\ \A n \in Name : g[n] # None /\ g[n].id = handles'[k]
                                            => InodeIn(g, n) = handles'[k]
                      /\ NamesIn(g, handles'[k]) # {} \/ d[handles'[k]] # None
    OBVIOUS
  <2>1. CASE k = h
    BY <1>1, <1>2, <2>1
  <2>2. CASE k # h
    BY <1>1, <2>2 DEF Held
  <2>3. QED
    BY <2>1, <2>2
<1>5. \A j \in Ino : d[j] # None => NamesIn(g, j) = {} /\ \E k \in Handle : handles'[k] = j
  BY <1>3 DEF Held
<1>6. QED
  BY <1>4, <1>5 DEF Held

\* What entry() finds of an inode that a name leads to: another name of it,
\* or the same.
LEMMA NameOfFile ==
    ASSUME IInv, NEW n \in Name, Present(n)
    PROVE  LET m == Representative(Inode(n))
           IN  /\ m \in Name /\ Present(m) /\ Inode(m) = Inode(n)
               /\ Inode(n) \in Ino /\ Inode(n) < nextIno /\ n \in NamesIn(files, Inode(n))
               /\ NamesOf(Inode(n)) = NamesIn(files, Inode(n))
<1> DEFINE i == Inode(n)
<1>1. i \in Ino /\ i < nextIno /\ n \in NamesIn(files, i)
  BY StateRows
<1> HIDE DEF i
<1>2. NamesOf(i) = NamesIn(files, i) /\ Representative(i) \in NamesIn(files, i)
  BY <1>1, NamesOfInode
<1> DEFINE m == Representative(i)
<1>3. m \in Name /\ files[m] # None /\ InodeIn(files, m) = i
  BY <1>2 DEF NamesIn
<1>4. m \in Name /\ Present(m) /\ Inode(m) = i
  BY <1>3 DEF Present, Inode, InodeIn
<1>5. QED
  BY <1>1, <1>2, <1>4 DEF i

\* What entry() finds of an inode that is open.
LEMMA NameOfOpen ==
    ASSUME IInv, NEW h \in Handle, handles[h] # None, NamesOf(handles[h]) # {}
    PROVE  LET m == Representative(handles[h])
           IN  m \in Name /\ Present(m) /\ Inode(m) = handles[h]
<1> DEFINE i == handles[h]
           m == Representative(i)
<1>1. i \in Ino
  BY Numbers
<1>2. m \in NamesIn(files, i)
  BY <1>1, NamesOfInode
<1>3. m \in Name /\ files[m] # None /\ InodeIn(files, m) = i
  BY <1>2 DEF NamesIn
<1>4. QED
  BY <1>3 DEF Present, Inode, InodeIn

\* open() of a file that stays as it is, or is emptied for all its names.
LEMMA OpenKeeps ==
    ASSUME IInv, NEW h \in Handle, NEW n \in Name, NEW emptied \in BOOLEAN, Open(h, n, emptied)
    PROVE  IInv'
<1> DEFINE i == Inode(n)
           m == Representative(i)
           g == Rewritten(files, m, Empty)
<1>1. /\ Present(n) /\ Pin(h, i) /\ UNCHANGED <<detached, nextIno>>
      /\ files' = IF emptied THEN g ELSE files
      /\ usage' = IF emptied THEN usage - files[n].size * files[m].count ELSE usage
  BY DEF Open
<1>2. /\ i \in Ino /\ i < nextIno /\ n \in NamesIn(files, i)
      /\ m \in Name /\ Present(m) /\ Inode(m) = i
  BY <1>1, NameOfFile
<1> HIDE DEF i, m
<1>3. /\ handles' \in [Handle -> Ino \cup {None}]
      /\ pins' = [j \in Ino |-> Cardinality({k \in Handle : handles'[k] = j})]
  BY <1>1, <1>2, PinCounts DEF IInv
<1>4. /\ Rows(files', nextIno)
      /\ \A x \in Name : /\ files'[x] = None <=> files[x] = None
                         /\ files[x] # None => /\ InodeIn(files', x) = InodeIn(files, x)
                                               /\ files'[x].id = files[x].id
  <2>1. Rows(files, nextIno) /\ files[m] # None /\ Empty \in Body
    BY <1>2, InodeAssumption DEF IInv, Present
  <2>2. CASE emptied
    BY <1>1, <1>2, <2>1, <2>2, RewrittenRows
  <2>3. CASE ~emptied
    BY <1>1, <2>1, <2>3
  <2>4. QED
    BY <2>2, <2>3
<1>5. \A j : NamesIn(files', j) = NamesIn(files, j)
  BY <1>4 DEF NamesIn
<1>6. \A x \in Name : files'[x] # None =>
         \/ files'[x].id >= nextIno
         \/ \E k \in Name : /\ Present(k) /\ files[k].id = files'[x].id
                            /\ InodeIn(files, k) = InodeIn(files', x)
  BY <1>4 DEF Present
<1>7. Held(files', detached, handles, nextIno)
  BY <1>5, <1>6, Numbers, HeldSame
<1>8. Held(files', detached, handles', nextIno)
  <2>1. /\ handles \in [Handle -> Ino \cup {None}]
        /\ handles[h] = None /\ handles' = [handles EXCEPT ![h] = i]
    BY <1>1 DEF IInv, TypeOK, Pin
  <2>2. NamesIn(files', i) # {} /\ NumbersBelong(files')
    BY <1>2, <1>4, <1>5 DEF Rows
  <2>3. QED
    BY <1>2, <1>7, <2>1, <2>2, PinnedHeld
<1>9. usage' \in Int
  <2>1. files[n].size \in Int /\ files[m].count \in Int /\ usage \in Int
    <3>1. files[n] \in FileRow /\ files[m] \in FileRow
      BY <1>1, <1>2, StateRows
    <3>2. usage \in Int
      BY DEF IInv, TypeOK
    <3>3. QED
      BY <3>1, <3>2 DEF FileRow
  <2>2. files[n].size * files[m].count \in Int
    BY <2>1
  <2>3. QED
    BY <1>1, <2>1, <2>2
<1>10. QED
  BY <1>1, <1>3, <1>4, <1>8, <1>9, TypesAfter DEF IInv, TypeOK, DetachedRow

\* open() of a file that it creates.
LEMMA OpenNewKeeps ==
    ASSUME IInv, NEW h \in Handle, NEW n \in Name, OpenNew(h, n)
    PROVE  IInv'
<1>1. /\ ~Present(n) /\ nextIno <= MaxIno /\ Pin(h, nextIno)
      /\ files' = [files EXCEPT ![n] = Row(nextIno, None, 1, Empty)]
      /\ nextIno' = nextIno + 1 /\ UNCHANGED <<detached, usage>>
  BY DEF OpenNew
<1>2. /\ Rows(files', nextIno') /\ files'[n].id = nextIno /\ nextIno \in Ino
      /\ \A m \in Name \ {n} : files'[m] = files[m]
      /\ \A i \in Ino : NamesIn(files', i) = IF i = nextIno THEN {n} ELSE NamesIn(files, i)
  BY <1>1, NewFile, InodeAssumption
<1>3. nextIno' \in Nat /\ nextIno <= nextIno' /\ nextIno' \in 1 .. MaxIno + 1 /\ nextIno < nextIno'
  BY <1>1, Numbers, InodeAssumption
<1>4. \A i \in Ino : i < nextIno => (NamesIn(files', i) = {} <=> NamesIn(files, i) = {})
  BY <1>2, Numbers, InoType
<1>5. \A m \in Name : files'[m] # None =>
         \/ files'[m].id >= nextIno
         \/ \E k \in Name : /\ Present(k) /\ files[k].id = files'[m].id
                            /\ InodeIn(files, k) = InodeIn(files', m)
  BY <1>2, Numbers DEF Present, InodeIn
<1>6. Held(files', detached, handles, nextIno')
  BY <1>3, <1>4, <1>5, HeldSame
<1>7. /\ handles' \in [Handle -> Ino \cup {None}]
      /\ pins' = [j \in Ino |-> Cardinality({k \in Handle : handles'[k] = j})]
  BY <1>1, <1>2, PinCounts DEF IInv
<1>8. Held(files', detached, handles', nextIno')
  <2>1. /\ handles \in [Handle -> Ino \cup {None}]
        /\ handles[h] = None /\ handles' = [handles EXCEPT ![h] = nextIno]
    BY <1>1 DEF IInv, TypeOK, Pin
  <2>2. NamesIn(files', nextIno) # {} /\ NumbersBelong(files')
    BY <1>2 DEF Rows
  <2>3. QED
    BY <1>2, <1>3, <1>6, <2>1, <2>2, PinnedHeld
<1>9. QED
  BY <1>1, <1>2, <1>3, <1>7, <1>8, TypesAfter DEF IInv, TypeOK, DetachedRow

\* write() and truncate() on an inode that has a name.
LEMMA WriteNamedKeeps ==
    ASSUME IInv, NEW h \in Handle, NEW b \in Body, WriteNamed(h, b)
    PROVE  IInv'
<1> DEFINE n == Representative(handles[h])
<1>1. n \in Name /\ Present(n)
  BY NameOfOpen DEF WriteNamed
<1>2. /\ files' = Rewritten(files, n, b)
      /\ usage' = usage + (Bytes[b] - files[n].size) * files[n].count
      /\ UNCHANGED <<detached, nextIno, pins, handles>>
  BY DEF WriteNamed, descriptors
<1> HIDE DEF n
<1>3. usage' \in Int
  <2>1. Bytes[b] \in Int /\ files[n].size \in Int /\ files[n].count \in Int /\ usage \in Int
    <3>1. files[n] \in FileRow
      BY <1>1, StateRows
    <3>2. QED
      BY <3>1, InodeAssumption DEF FileRow, IInv, TypeOK
  <2>2. (Bytes[b] - files[n].size) * files[n].count \in Int
    BY <2>1
  <2>3. QED
    BY <1>2, <2>1, <2>2
<1>4. QED
  BY <1>1, <1>2, <1>3, RewriteKeeps

\* And on one that lost its last.
LEMMA WriteDetachedKeeps ==
    ASSUME IInv, NEW h \in Handle, NEW b \in Body, WriteDetached(h, b)
    PROVE  IInv'
<1> DEFINE i == handles[h]
           row == [size |-> Bytes[b], body |-> b]
<1>1. /\ i # None /\ detached[i] # None /\ detached' = [detached EXCEPT ![i] = row]
      /\ usage' = usage + (Bytes[b] - detached[i].size)
      /\ UNCHANGED <<files, nextIno, pins, handles>>
  BY DEF WriteDetached, descriptors
<1>2. i \in Ino /\ detached \in [Ino -> DetachedRow \cup {None}] /\ usage \in Int
  BY Numbers, <1>1 DEF IInv, TypeOK, DetachedRow
<1>3. row \in DetachedRow
  BY InodeAssumption DEF DetachedRow
<1>4. detached[i].size \in Nat /\ Bytes[b] \in Nat
  BY <1>1, <1>2, InodeAssumption DEF DetachedRow
<1> HIDE DEF i, row
<1>5. detached' \in [Ino -> DetachedRow \cup {None}] /\ usage' \in Int
  BY <1>1, <1>2, <1>3, <1>4
<1>6. \A j \in Ino : detached'[j] # None <=> detached[j] # None
  BY <1>1, <1>2, <1>3, NoneIsNoRow
<1>7. Held(files, detached', handles, nextIno)
  BY <1>6, Numbers DEF IInv, Held
<1>8. QED
  BY <1>1, <1>5, <1>7, TypesAfter DEF IInv, TypeOK

\* close(): the last one gives a detached body up, any other leaves it.
LEMMA CloseKeeps ==
    ASSUME IInv, NEW h \in Handle, Close(h)
    PROVE  IInv'
<1> DEFINE i == handles[h]
<1>1. /\ i # None /\ handles' = [handles EXCEPT ![h] = None]
      /\ pins' = [pins EXCEPT ![i] = pins[i] - 1] /\ UNCHANGED <<files, nextIno>>
      /\ pins[i] = 1 /\ detached[i] # None => /\ detached' = [detached EXCEPT ![i] = None]
                                              /\ usage' = usage - detached[i].size
      /\ ~(pins[i] = 1 /\ detached[i] # None) => UNCHANGED <<detached, usage>>
  BY DEF Close
<1>2. /\ i \in Ino /\ usage \in Int /\ detached \in [Ino -> DetachedRow \cup {None}]
      /\ handles \in [Handle -> Ino \cup {None}]
  BY <1>1, Numbers DEF IInv, TypeOK, DetachedRow
<1>3. /\ handles' \in [Handle -> Ino \cup {None}]
      /\ pins' = [j \in Ino |-> Cardinality({k \in Handle : handles'[k] = j})]
      /\ pins[i] = 1 <=> \A k \in Handle : handles[k] = i => k = h
  BY <1>1, <1>2, UnpinCounts DEF IInv
<1> HIDE DEF i
<1>4. detached' \in [Ino -> DetachedRow \cup {None}] /\ usage' \in Int
  <2>1. CASE pins[i] = 1 /\ detached[i] # None
    <3>1. detached[i].size \in Nat
      BY <1>2, <2>1 DEF DetachedRow
    <3>2. QED
      BY <1>1, <1>2, <2>1, <3>1
  <2>2. CASE ~(pins[i] = 1 /\ detached[i] # None)
    BY <1>1, <1>2, <2>2
  <2>3. QED
    BY <2>1, <2>2
<1>5. /\ handles'[h] = None /\ handles[h] = i
      /\ \A k \in Handle \ {h} : handles'[k] = handles[k]
  BY <1>1, <1>2 DEF i
<1>6. \A j \in Ino : detached'[j] = IF j = i /\ pins[i] = 1 THEN None ELSE detached[j]
  BY <1>1, <1>2
<1>7. Held(files, detached, handles, nextIno)
  BY DEF IInv
<1>8. ASSUME NEW k \in Handle, handles'[k] # None
      PROVE  /\ handles'[k] < nextIno
             /\ \A n \in Name : files[n] # None /\ files[n].id = handles'[k]
                                   => InodeIn(files, n) = handles'[k]
             /\ NamesIn(files, handles'[k]) # {} \/ detached'[handles'[k]] # None
  <2>1. k # h /\ handles'[k] = handles[k]
    BY <1>5, <1>8
  <2>2. handles[k] \in Ino
    BY <1>2, <1>8, <2>1
  <2>3. detached'[handles[k]] = detached[handles[k]]
    BY <1>3, <1>6, <2>1, <2>2
  <2>4. QED
    BY <1>7, <1>8, <2>1, <2>3 DEF Held
<1>9. ASSUME NEW j \in Ino, detached'[j] # None
      PROVE  NamesIn(files, j) = {} /\ \E k \in Handle : handles'[k] = j
  <2>1. detached[j] # None /\ (j = i => pins[i] # 1)
    BY <1>6, <1>9
  <2>2. NamesIn(files, j) = {} /\ \E k \in Handle : handles[k] = j
    BY <1>7, <2>1 DEF Held
  <2>3. \E k \in Handle : handles[k] = j /\ k # h
    BY <1>3, <1>5, <2>1, <2>2
  <2>4. QED
    BY <1>5, <2>2, <2>3
<1>10. Held(files, detached', handles', nextIno)
  BY <1>8, <1>9 DEF Held
<1>11. QED
  BY <1>1, <1>3, <1>4, <1>10, TypesAfter DEF IInv, TypeOK

\* Nothing is open.
LEMMA NothingOpen ==
    /\ \A i \in Ino : Cardinality({h \in Handle : [k \in Handle |-> None][h] = i}) = 0
    /\ \A f, next : Held(f, [i \in Ino |-> None], [h \in Handle |-> None], next)
<1>1. \A i \in Ino : {h \in Handle : [k \in Handle |-> None][h] = i} = {}
  BY InoType
<1>2. Cardinality({}) = 0
  BY FS_EmptySet
<1>3. \A f, next : Held(f, [i \in Ino |-> None], [h \in Handle |-> None], next)
  BY DEF Held
<1>4. QED
  BY <1>1, <1>2, <1>3

\* An eviction leaves no descriptor, and nothing that only one held.
LEMMA EvictKeeps ==
    ASSUME IInv, Evict
    PROVE  IInv'
<1> DEFINE lost == {i \in Ino : detached[i] # None}
<1>1. /\ handles' = [h \in Handle |-> None] /\ pins' = [i \in Ino |-> 0]
      /\ detached' = [i \in Ino |-> None] /\ usage' = usage - DetachedBytes(lost)
      /\ UNCHANGED <<files, nextIno>>
  BY DEF Evict
<1>2. usage' \in Int
  <2>1. DetachedBytes(lost) \in Int
    BY SumTypes
  <2>2. QED
    BY <1>1, <2>1 DEF IInv, TypeOK
<1>3. Held(files, detached', handles', nextIno)
  BY <1>1, NothingOpen
<1>4. pins' = [i \in Ino |-> Cardinality({h \in Handle : handles'[h] = i})]
  BY <1>1, NothingOpen
<1>5. QED
  BY <1>1, <1>2, <1>3, <1>4, TypesAfter DEF IInv, TypeOK

\* It holds at the start.
LEMMA InitHolds == Init => IInv
<1> SUFFICES ASSUME Init
             PROVE  IInv
  OBVIOUS
<1>1. Rows(files, nextIno)
  BY DEF Init, Rows, Table, NumbersAreSpent, IdsDiffer, NumbersBelong, LinksAgree, SizesAgree
<1>2. Held(files, detached, handles, nextIno)
  BY NothingOpen DEF Init
<1>3. pins = [i \in Ino |-> Cardinality({h \in Handle : handles[h] = i})]
  BY NothingOpen DEF Init
<1>4. /\ \A i \in Ino : detached[i] = None
      /\ detached \in [Ino -> [size : Nat, body : Body] \cup {None}]
      /\ handles \in [Handle -> Ino \cup {None}]
      /\ usage \in Int /\ nextIno \in 1 .. MaxIno + 1
  BY InodeAssumption DEF Init
<1>5. files \in [Name ->
            [id : Ino, identity : Ino \cup {None}, count : Nat, size : Nat, body : Body] \cup {None}]
  BY DEF Init
<1>6. QED
  BY <1>1, <1>2, <1>3, <1>4, <1>5 DEF IInv, TypeOK
-----------------------------------------------------------------------------
(* The theorems.                                                           *)

\* Every step keeps the invariant.
LEMMA StepKeeps == IInv /\ [Next]_vars => IInv'
<1> SUFFICES ASSUME IInv, [Next]_vars
             PROVE  IInv'
  OBVIOUS
<1>1. CASE ByName
  BY <1>1, CreateFileKeeps, WriteFileKeeps, RemoveNameKeeps, LinkKeeps, MoveKeeps, CopyFileKeeps,
     CopyOverKeeps, MoveTreeKeeps, CopyTreeKeeps, RemoveTreeKeeps DEF ByName
<1>2. CASE \E h \in Handle : ByHandle(h)
  BY <1>2, OpenKeeps, OpenNewKeeps, WriteNamedKeeps, WriteDetachedKeeps, CloseKeeps DEF ByHandle
<1>3. CASE Evict
  BY <1>3, EvictKeeps
<1>4. CASE UNCHANGED vars
  BY <1>4 DEF vars, IInv, TypeOK, NamesOf, Present
<1>5. QED
  BY <1>1, <1>2, <1>3, <1>4 DEF Next

\* The rows of the names of an inode agree, no number is handed out twice,
\* and every open descriptor leads to an inode with a name or a detached body.
THEOREM Invariance == Spec => []IInv
<1>1. Init => IInv
  BY InitHolds
<1>2. IInv /\ [Next]_vars => IInv'
  BY StepKeeps
<1>3. QED
  BY <1>1, <1>2, PTL DEF Spec

\* The state has its shape: pins are the descriptors that are open, and a body
\* is detached only while it is open and has no name (fs/sql-file-handles.ts).
THEOREM TypeCorrect == Spec => []TypeOK
<1>1. IInv => TypeOK
  BY DEF IInv
<1>2. QED
  BY <1>1, Invariance, PTL
-----------------------------------------------------------------------------
(* Names and descriptors behave as those of inodes that are stored once.   *)

\* What the contract sees: the inode of each name, and the body of each inode.
Names == [n \in Name |-> IF Present(n) THEN Inode(n) ELSE None]
Bodies == [i \in Ino |-> BodyOf(i)]

\* The same, of any tables.
LeadIn(f) == [n \in Name |-> IF f[n] # None THEN InodeIn(f, n) ELSE None]
ShownIn(f, d) ==
    [i \in Ino |->
        LET kept == {f[n].body : n \in {m \in Name : f[m] # None /\ InodeIn(f, m) = i}}
                    \cup IF d[i] # None THEN {d[i].body} ELSE {}
        IN  IF kept = {} THEN None
            ELSE IF Cardinality(kept) = 1 THEN CHOOSE body \in kept : TRUE ELSE "torn"]

\* They are the same.
LEMMA Mapped ==
    /\ Names = LeadIn(files) /\ Names' = LeadIn(files')
    /\ Bodies = ShownIn(files, detached) /\ Bodies' = ShownIn(files', detached')
<1>1. Names = LeadIn(files) /\ Names' = LeadIn(files')
  BY DEF Names, LeadIn, Present, Inode, InodeIn
<1>2. Bodies = ShownIn(files, detached)
  BY DEF Bodies, ShownIn, BodyOf, Present, Inode, InodeIn
<1>3. Bodies' = ShownIn(files', detached')
  BY DEF Bodies, ShownIn, BodyOf, Present, Inode, InodeIn
<1>4. QED
  BY <1>1, <1>2, <1>3

\* One body is kept for each inode.
LEMMA ShownIs ==
    ASSUME NEW f, NEW d, LinksAgree(f), \A i \in Ino : d[i] # None => NamesIn(f, i) = {}
    PROVE  /\ \A n \in Name : f[n] # None /\ InodeIn(f, n) \in Ino
                                 => ShownIn(f, d)[InodeIn(f, n)] = f[n].body
           /\ \A i \in Ino : d[i] # None => ShownIn(f, d)[i] = d[i].body
           /\ \A i \in Ino : NamesIn(f, i) = {} /\ d[i] = None => ShownIn(f, d)[i] = None
<1> DEFINE named(i) == {m \in Name : f[m] # None /\ InodeIn(f, m) = i}
           kept(i) == {f[n].body : n \in named(i)} \cup IF d[i] # None THEN {d[i].body} ELSE {}
<1>1. \A i \in Ino : ShownIn(f, d)[i] =
          IF kept(i) = {} THEN None
          ELSE IF Cardinality(kept(i)) = 1 THEN CHOOSE body \in kept(i) : TRUE ELSE "torn"
  BY DEF ShownIn
<1>2. \A i : named(i) = NamesIn(f, i)
  BY DEF NamesIn
<1> HIDE DEF named
<1>3. ASSUME NEW n \in Name, f[n] # None, InodeIn(f, n) \in Ino
      PROVE  kept(InodeIn(f, n)) = {f[n].body}
  <2>1. n \in NamesIn(f, InodeIn(f, n))
    BY <1>3 DEF NamesIn
  <2>2. \A m \in NamesIn(f, InodeIn(f, n)) : f[m].body = f[n].body
    BY <1>3 DEF NamesIn, LinksAgree
  <2>3. d[InodeIn(f, n)] = None
    BY <1>3, <2>1
  <2>4. QED
    BY <1>2, <2>1, <2>2, <2>3
<1>4. \A i \in Ino : d[i] # None => kept(i) = {d[i].body}
  BY <1>2
<1>5. \A i \in Ino : NamesIn(f, i) = {} /\ d[i] = None => kept(i) = {}
  BY <1>2
<1> HIDE DEF kept
<1>6. ASSUME NEW i \in Ino, NEW b, kept(i) = {b}
      PROVE  ShownIn(f, d)[i] = b
  <2>1. Cardinality({b}) = 1
    BY FS_Singleton
  <2>2. {b} # {} /\ (CHOOSE body \in {b} : TRUE) = b
    OBVIOUS
  <2>3. QED
    BY <1>1, <1>6, <2>1, <2>2
<1>7. \A i \in Ino : kept(i) = {} => ShownIn(f, d)[i] = None
  BY <1>1
<1>8. QED
  BY <1>3, <1>4, <1>5, <1>6, <1>7

\* What the contract sees of a state.
LEMMA StateShows ==
    ASSUME IInv
    PROVE  /\ \A n \in Name : Present(n) =>
                  /\ Names[n] = Inode(n) /\ Inode(n) = InodeIn(files, n) /\ Inode(n) \in Ino
                  /\ Bodies[Inode(n)] = files[n].body /\ files[n].body \in Body
           /\ \A n \in Name : ~Present(n) => Names[n] = None
           /\ \A i \in Ino : detached[i] # None =>
                  Bodies[i] = detached[i].body /\ detached[i].body \in Body
           /\ \A i \in Ino : NamesIn(files, i) = {} /\ detached[i] = None => Bodies[i] = None
<1>1. LinksAgree(files) /\ files \in Table /\ \A i \in Ino : detached[i] # None => NamesIn(files, i) = {}
  BY DEF IInv, Rows, Held
<1>2. \A n \in Name : Present(n) => /\ Inode(n) = InodeIn(files, n) /\ Inode(n) \in Ino
                                    /\ files[n].body \in Body
  BY StateRows DEF FileRow
<1>3. \A i \in Ino : detached[i] # None => detached[i].body \in Body
  BY DEF IInv, TypeOK
<1>4. \A n \in Name : Names[n] = IF Present(n) THEN Inode(n) ELSE None
  BY DEF Names
<1>5. QED
  BY <1>1, <1>2, <1>3, <1>4, ShownIs, Mapped DEF Present

\* What every name and every detached body shows, the contract holds.
LEMMA HoldIs ==
    ASSUME IInv', NEW content,
           \A n \in Name : files'[n] # None => files'[n].body = content[InodeIn(files', n)],
           \A i \in Ino : detached'[i] # None => detached'[i].body = content[i]
    PROVE  Contract!Hold(content)
<1> DEFINE led(i) == (\E n \in Name : Names'[n] = i) \/ (\E h \in Handle : handles'[h] = i)
<1>1. LinksAgree(files') /\ files' \in Table
  BY DEF IInv, Rows
<1>2. Held(files', detached', handles', nextIno')
  BY DEF IInv
<1>3. \A n \in Name : Names'[n] = IF files'[n] # None THEN InodeIn(files', n) ELSE None
  BY Mapped DEF LeadIn
<1>4. \A n \in Name : files'[n] # None => InodeIn(files', n) \in Ino
  BY <1>1, RowType
<1>5. ASSUME NEW i \in Ino
      PROVE  Bodies'[i] = IF led(i) THEN content[i] ELSE None
  <2>1. \A j \in Ino : detached'[j] # None => NamesIn(files', j) = {}
    BY <1>2 DEF Held
  <2>2. /\ \A n \in Name : files'[n] # None => Bodies'[InodeIn(files', n)] = files'[n].body
        /\ \A j \in Ino : detached'[j] # None => Bodies'[j] = detached'[j].body
        /\ \A j \in Ino : NamesIn(files', j) = {} /\ detached'[j] = None => Bodies'[j] = None
    BY <1>1, <1>4, <2>1, ShownIs, Mapped
  <2>3. CASE NamesIn(files', i) # {}
    <3>1. PICK n \in Name : files'[n] # None /\ InodeIn(files', n) = i
      BY <2>3 DEF NamesIn
    <3>2. Names'[n] = i /\ Bodies'[i] = content[i]
      BY <1>3, <2>2, <3>1
    <3>3. QED
      BY <3>2
  <2>4. CASE detached'[i] # None
    <3>1. \E h \in Handle : handles'[h] = i
      BY <1>2, <2>4 DEF Held
    <3>2. Bodies'[i] = content[i]
      BY <2>2, <2>4
    <3>3. QED
      BY <3>1, <3>2
  <2>5. CASE NamesIn(files', i) = {} /\ detached'[i] = None
    <3>1. \A n \in Name : Names'[n] # i
      BY <1>3, <2>5, InoType DEF NamesIn
    <3>2. \A h \in Handle : handles'[h] # i
      BY <1>2, <2>5, InoType DEF Held
    <3>3. QED
      BY <2>2, <2>5, <3>1, <3>2
  <2>6. QED
    BY <2>3, <2>4, <2>5
<1>6. Bodies' = [i \in Ino |-> Bodies'[i]]
  BY DEF Bodies
<1>7. Bodies' = [i \in Ino |-> IF led(i) THEN content[i] ELSE None]
  BY <1>5, <1>6
<1>8. QED
  BY <1>7 DEF Contract!Hold, Contract!Name, Name, Names, Bodies

\* Numbers that were not handed out lead nowhere.
LEMMA FreeAbove ==
    ASSUME IInv, NEW i \in Ino, i >= nextIno
    PROVE  Contract!Free(i) /\ NamesIn(files, i) = {} /\ detached[i] = None
<1>1. i \in Nat /\ nextIno \in Nat
  BY InoType, Numbers
<1>2. NamesIn(files, i) = {}
  BY <1>1, RowNumbers DEF NamesIn, IInv
<1>3. detached[i] = None
  <2>1. \A h \in Handle : handles[h] # i
    BY <1>1, Numbers, InoType
  <2>2. QED
    BY <2>1 DEF IInv, Held
<1>4. Bodies[i] = None
  BY <1>2, <1>3, StateShows
<1>5. QED
  BY <1>2, <1>3, <1>4 DEF Contract!Free, Bodies

\* A file of its own is an inode of its own.
LEMMA NewFileShows ==
    ASSUME IInv, IInv', NEW n \in Name, ~Present(n), nextIno <= MaxIno, NEW b \in Body,
           files' = [files EXCEPT ![n] = Row(nextIno, None, 1, b)], UNCHANGED detached
    PROVE  /\ nextIno \in Ino /\ Contract!Free(nextIno)
           /\ Names[n] = None /\ Names' = [Names EXCEPT ![n] = nextIno]
           /\ Contract!Hold([Bodies EXCEPT ![nextIno] = b])
<1>1. /\ nextIno \in Ino /\ files'[n] # None /\ files'[n].body = b
      /\ InodeIn(files', n) = nextIno /\ \A m \in Name \ {n} : files'[m] = files[m]
  BY NewFile
<1>2. Contract!Free(nextIno) /\ NamesIn(files, nextIno) = {} /\ detached[nextIno] = None
  BY <1>1, FreeAbove, Numbers
<1>3. \A m \in Name \ {n} : InodeIn(files', m) = InodeIn(files, m)
  BY <1>1 DEF InodeIn
<1>4. Names' = [Names EXCEPT ![n] = nextIno]
  <2>1. Names = LeadIn(files) /\ Names' = LeadIn(files')
    BY Mapped
  <2>2. \A m \in Name : LeadIn(files')[m] = IF m = n THEN nextIno ELSE LeadIn(files)[m]
    BY <1>1, <1>3 DEF LeadIn
  <2>3. LeadIn(files') = [LeadIn(files) EXCEPT ![n] = nextIno]
    BY <2>2 DEF LeadIn
  <2>4. QED
    BY <2>1, <2>3
<1> DEFINE content == [Bodies EXCEPT ![nextIno] = b]
<1>5. content[nextIno] = b /\ \A i \in Ino \ {nextIno} : content[i] = Bodies[i]
  BY <1>1 DEF Bodies
<1> HIDE DEF content
<1>6. ASSUME NEW m \in Name, files'[m] # None
      PROVE  files'[m].body = content[InodeIn(files', m)]
  <2>1. CASE m = n
    BY <1>1, <1>5, <2>1
  <2>2. CASE m # n
    <3>1. files'[m] = files[m] /\ Present(m)
      BY <1>1, <1>6, <2>2 DEF Present
    <3>2. InodeIn(files, m) \in Ino /\ Bodies[InodeIn(files, m)] = files[m].body
      BY <3>1, StateShows
    <3>3. InodeIn(files, m) # nextIno
      BY <1>2, <3>1 DEF NamesIn, Present
    <3>4. QED
      BY <1>3, <1>5, <2>2, <3>1, <3>2, <3>3
  <2>3. QED
    BY <2>1, <2>2
<1>7. \A i \in Ino : detached'[i] # None => detached'[i].body = content[i]
  BY <1>2, <1>5, StateShows
<1>8. Contract!Hold(content)
  BY <1>6, <1>7, HoldIs
<1>9. Names[n] = None
  BY StateShows
<1>10. QED
  BY <1>1, <1>2, <1>4, <1>8, <1>9 DEF content

\* A body written to every name of an inode is written to the inode.
LEMMA RewriteShows ==
    ASSUME IInv, IInv', NEW i \in Ino, NEW b \in Body, NamesIn(files, i) # {},
           \A x \in Name : /\ files'[x] = None <=> files[x] = None
                           /\ files[x] # None => InodeIn(files', x) = InodeIn(files, x),
           \A x \in NamesIn(files, i) : files'[x].body = b,
           \A x \in Name \ NamesIn(files, i) : files[x] # None => files'[x].body = files[x].body,
           UNCHANGED detached
    PROVE  Names' = Names /\ ~Contract!Free(i) /\ Contract!Hold([Bodies EXCEPT ![i] = b])
<1>1. Names' = Names
  <2>1. Names = LeadIn(files) /\ Names' = LeadIn(files')
    BY Mapped
  <2>2. \A n \in Name : (IF files'[n] # None THEN InodeIn(files', n) ELSE None)
                        = (IF files[n] # None THEN InodeIn(files, n) ELSE None)
    OBVIOUS
  <2>3. LeadIn(files') = LeadIn(files)
    BY <2>2 DEF LeadIn
  <2>4. QED
    BY <2>1, <2>3
<1>2. PICK n \in Name : Present(n) /\ InodeIn(files, n) = i
  BY DEF NamesIn, Present
<1>3. Bodies[i] # None
  BY <1>2, StateShows, InodeAssumption
<1>4. ~Contract!Free(i)
  BY <1>3 DEF Contract!Free, Bodies
<1> DEFINE content == [Bodies EXCEPT ![i] = b]
<1>5. content[i] = b /\ \A j \in Ino \ {i} : content[j] = Bodies[j]
  BY DEF Bodies
<1> HIDE DEF content
<1>6. ASSUME NEW x \in Name, files'[x] # None
      PROVE  files'[x].body = content[InodeIn(files', x)]
  <2>1. Present(x) /\ InodeIn(files', x) = InodeIn(files, x)
    BY <1>6 DEF Present
  <2>2. InodeIn(files, x) \in Ino /\ Bodies[InodeIn(files, x)] = files[x].body
    BY <2>1, StateShows
  <2>3. x \in NamesIn(files, i) <=> InodeIn(files, x) = i
    BY <2>1 DEF NamesIn, Present
  <2>4. QED
    BY <1>5, <2>1, <2>2, <2>3 DEF Present
<1>7. \A j \in Ino : detached'[j] # None => j # i /\ detached'[j].body = Bodies[j]
  BY StateShows DEF IInv, Held
<1>8. Contract!Hold(content)
  BY <1>5, <1>6, <1>7, HoldIs
<1>9. QED
  BY <1>1, <1>4, <1>8 DEF content

\* What leads to an inode afterwards shows what the inode held.
LEMMA KeepsBodies ==
    ASSUME IInv, IInv',
           \A x \in Name : files'[x] # None =>
               \E y \in Name : /\ files[y] # None /\ InodeIn(files, y) = InodeIn(files', x)
                               /\ files[y].body = files'[x].body,
           \A i \in Ino : detached'[i] # None =>
               \/ detached[i] # None /\ detached'[i].body = detached[i].body
               \/ \E y \in NamesIn(files, i) : files[y].body = detached'[i].body
    PROVE  Contract!Hold(Bodies)
<1>1. ASSUME NEW x \in Name, files'[x] # None
      PROVE  files'[x].body = Bodies[InodeIn(files', x)]
  BY <1>1, StateShows DEF Present
<1>2. ASSUME NEW i \in Ino, detached'[i] # None
      PROVE  detached'[i].body = Bodies[i]
  <2>1. CASE detached[i] # None /\ detached'[i].body = detached[i].body
    BY <2>1, StateShows
  <2>2. CASE \E y \in NamesIn(files, i) : files[y].body = detached'[i].body
    BY <2>2, StateShows DEF Present, NamesIn
  <2>3. QED
    BY <1>2, <2>1, <2>2
<1>3. QED
  BY <1>1, <1>2, HoldIs

\* What the names lead to afterwards.
LEMMA NamesAfter ==
    ASSUME NEW g, g = [n \in Name |-> g[n]],
           \A n \in Name : g[n] = IF files'[n] # None THEN InodeIn(files', n) ELSE None
    PROVE  Names' = g
<1>1. Names' = LeadIn(files')
  BY Mapped
<1>2. \A n \in Name : LeadIn(files')[n] = g[n]
  BY DEF LeadIn
<1>3. LeadIn(files') = [n \in Name |-> LeadIn(files')[n]]
  BY DEF LeadIn
<1>4. LeadIn(files') = [n \in Name |-> g[n]]
  BY <1>2, <1>3
<1>5. QED
  BY <1>1, <1>4

\* writeFile() on an absent path, and a copy to one.
LEMMA CreateFileRefines ==
    ASSUME IInv, IInv', NEW n \in Name, NEW b \in Body, CreateFile(n, b)
    PROVE  Contract!Next
<1>1. /\ ~Present(n) /\ nextIno <= MaxIno /\ UNCHANGED <<detached, handles>>
      /\ files' = [files EXCEPT ![n] = Row(nextIno, None, 1, b)]
  BY DEF CreateFile, descriptors
<1>2. /\ nextIno \in Ino /\ Contract!Free(nextIno)
      /\ Names[n] = None /\ Names' = [Names EXCEPT ![n] = nextIno]
      /\ Contract!Hold([Bodies EXCEPT ![nextIno] = b])
  BY <1>1, NewFileShows
<1>3. Contract!Create(n, nextIno)
  BY <1>1, <1>2 DEF Contract!Create, Contract!Lead, Names, Bodies
<1>4. QED
  BY <1>2, <1>3 DEF Contract!Next, Contract!Name, Name

\* A rewritten inode.
LEMMA RewriteRefines ==
    ASSUME IInv, IInv', NEW n \in Name, Present(n), NEW b \in Body,
           files' = Rewritten(files, n, b), UNCHANGED detached
    PROVE  /\ InodeIn(files, n) \in Ino
           /\ Names' = Names /\ ~Contract!Free(InodeIn(files, n))
           /\ Contract!Hold([Bodies EXCEPT ![InodeIn(files, n)] = b])
<1> DEFINE i == InodeIn(files, n)
<1>1. Rows(files, nextIno) /\ files[n] # None /\ i \in Ino /\ n \in NamesIn(files, i)
  BY StateRows DEF IInv, Present
<1>2. /\ \A x \in Name : /\ files'[x] = None <=> files[x] = None
                         /\ files[x] # None => InodeIn(files', x) = InodeIn(files, x)
      /\ \A x \in NamesIn(files, i) : files'[x].body = b
      /\ \A x \in Name \ NamesIn(files, i) : files'[x] = files[x]
  BY <1>1, RewrittenRows
<1> HIDE DEF i
<1>3. Names' = Names /\ ~Contract!Free(i) /\ Contract!Hold([Bodies EXCEPT ![i] = b])
  BY <1>1, <1>2, RewriteShows
<1>4. QED
  BY <1>1, <1>3 DEF i

\* A write is one of the inode.
LEMMA WriteRefines ==
    ASSUME NEW i \in Ino, NEW b \in Body, Names' = Names, UNCHANGED handles,
           ~Contract!Free(i), Contract!Hold([Bodies EXCEPT ![i] = b])
    PROVE  Contract!Next
<1>1. Contract!Write
  BY DEF Contract!Write, Contract!Lead, Names, Bodies
<1>2. QED
  BY <1>1 DEF Contract!Next

\* writeFile() and appendFile() on a file.
LEMMA WriteFileRefines ==
    ASSUME IInv, IInv', NEW n \in Name, NEW b \in Body, WriteFile(n, b)
    PROVE  Contract!Next
<1>1. Present(n) /\ files' = Rewritten(files, n, b) /\ UNCHANGED <<detached, handles>>
  BY DEF WriteFile, descriptors
<1>2. QED
  BY <1>1, RewriteRefines, WriteRefines

\* write() and truncate() on an inode that has a name.
LEMMA WriteNamedRefines ==
    ASSUME IInv, IInv', NEW h \in Handle, NEW b \in Body, WriteNamed(h, b)
    PROVE  Contract!Next
<1> DEFINE n == Representative(handles[h])
<1>1. n \in Name /\ Present(n)
  BY NameOfOpen DEF WriteNamed
<1>2. files' = Rewritten(files, n, b) /\ UNCHANGED <<detached, handles>>
  BY DEF WriteNamed, descriptors
<1> HIDE DEF n
<1>3. QED
  BY <1>1, <1>2, RewriteRefines, WriteRefines

\* And on one that lost its last.
LEMMA WriteDetachedRefines ==
    ASSUME IInv, IInv', NEW h \in Handle, NEW b \in Body, WriteDetached(h, b)
    PROVE  Contract!Next
<1> DEFINE i == handles[h]
           row == [size |-> Bytes[b], body |-> b]
           content == [Bodies EXCEPT ![i] = b]
<1>1. /\ i # None /\ detached[i] # None /\ detached' = [detached EXCEPT ![i] = row]
      /\ UNCHANGED <<files, handles>>
  BY DEF WriteDetached, descriptors
<1>2. i \in Ino /\ detached \in [Ino -> DetachedRow \cup {None}]
  BY Numbers, <1>1 DEF IInv, TypeOK, DetachedRow
<1>3. row.body = b
  OBVIOUS
<1> HIDE DEF i, row
<1>4. detached'[i] = row /\ \A j \in Ino \ {i} : detached'[j] = detached[j]
  BY <1>1, <1>2
<1>5. content[i] = b /\ \A j \in Ino \ {i} : content[j] = Bodies[j]
  BY <1>2 DEF Bodies
<1> HIDE DEF content
<1>6. NamesIn(files, i) = {}
  BY <1>1, <1>2 DEF IInv, Held
<1>7. ASSUME NEW x \in Name, files'[x] # None
      PROVE  files'[x].body = content[InodeIn(files', x)]
  <2>1. Present(x) /\ files' = files
    BY <1>1, <1>7 DEF Present
  <2>2. InodeIn(files, x) \in Ino /\ Bodies[InodeIn(files, x)] = files[x].body
    BY <2>1, StateShows
  <2>3. InodeIn(files, x) # i
    BY <1>6, <2>1 DEF NamesIn, Present
  <2>4. QED
    BY <1>5, <2>1, <2>2, <2>3
<1>8. \A j \in Ino : detached'[j] # None => detached'[j].body = content[j]
  BY <1>3, <1>4, <1>5, StateShows
<1>9. Contract!Hold(content)
  BY <1>7, <1>8, HoldIs
<1>10. Names' = Names
  BY <1>1, Mapped
<1>11. ~Contract!Free(i)
  <2>1. Bodies[i] # None
    BY <1>1, <1>2, StateShows, InodeAssumption
  <2>2. QED
    BY <2>1 DEF Contract!Free, Bodies
<1>12. QED
  BY <1>1, <1>2, <1>9, <1>10, <1>11, WriteRefines DEF content

\* commitCopy() onto a file is a write of it.
LEMMA CopyOverRefines ==
    ASSUME IInv, IInv', NEW n \in Name, NEW m \in Name, CopyOver(n, m)
    PROVE  Contract!Next
<1> DEFINE i == InodeIn(files, m)
           b == files[n].body
<1>1. Present(m) /\ UNCHANGED <<detached, handles>>
  BY DEF CopyOver, descriptors
<1>2. i \in Ino /\ m \in NamesIn(files, i)
  BY <1>1, StateRows
<1>3. /\ b \in Body
      /\ \A x \in Name : /\ files'[x] = None <=> files[x] = None
                         /\ files[x] # None => InodeIn(files', x) = InodeIn(files, x)
      /\ \A x \in NamesIn(files, i) : files'[x].body = b
      /\ \A x \in Name \ NamesIn(files, i) : files[x] # None => files'[x].body = files[x].body
  BY CopyOverRows
<1> HIDE DEF i, b
<1>4. Names' = Names /\ ~Contract!Free(i) /\ Contract!Hold([Bodies EXCEPT ![i] = b])
  BY <1>1, <1>2, <1>3, RewriteShows
<1>5. QED
  BY <1>1, <1>2, <1>3, <1>4, WriteRefines

\* link().
LEMMA LinkRefines ==
    ASSUME IInv, IInv', NEW n \in Name, NEW m \in Name, Link(n, m)
    PROVE  Contract!Next
<1> DEFINE i == Inode(n)
           row == [files[n] EXCEPT !.identity = i, !.count = files[n].count + 1]
           other == [row EXCEPT !.id = nextIno]
<1>1. /\ Present(n) /\ ~Present(m) /\ files' = [files EXCEPT ![n] = row, ![m] = other]
      /\ UNCHANGED <<detached, handles>>
  BY DEF Link, descriptors
<1>2. /\ files \in Table /\ n # m /\ i = InodeIn(files, n) /\ i \in Ino /\ files[n] \in FileRow
  BY <1>1, StateRows DEF IInv, Rows, Present
<1>3. \A j \in Ino : NamesIn(files', j) = IF j = i THEN NamesIn(files, j) \cup {m} ELSE NamesIn(files, j)
  BY LinkKeeps
<1> HIDE DEF i
<1>4. row.body = files[n].body /\ other.body = files[n].body
  BY <1>2 DEF FileRow
<1>5. /\ files'[n] = row /\ files'[m] = other
      /\ \A x \in Name \ {n, m} : files'[x] = files[x]
  BY <1>1, <1>2 DEF Table
<1> HIDE DEF row, other
<1>6. \A x \in Name : files'[x] # None => InodeIn(files', x) \in Ino /\ x \in NamesIn(files', InodeIn(files', x))
  <2>1. files' \in Table
    BY DEF IInv, Rows
  <2>2. QED
    BY <2>1, RowType DEF NamesIn
<1>7. \A x \in Name : files[x] # None => InodeIn(files, x) \in Ino /\ x \in NamesIn(files, InodeIn(files, x))
  BY <1>2, RowType DEF NamesIn
<1>8. \A x \in Name : files'[x] # None =>
          InodeIn(files', x) = IF x = m THEN i ELSE InodeIn(files, x)
  <2> SUFFICES ASSUME NEW x \in Name, files'[x] # None
               PROVE  InodeIn(files', x) = IF x = m THEN i ELSE InodeIn(files, x)
    OBVIOUS
  <2>1. CASE x = m
    <3>1. m \in NamesIn(files', InodeIn(files', m)) /\ InodeIn(files', m) \in Ino
      BY <1>6, <2>1
    <3>2. m \notin NamesIn(files, InodeIn(files', m))
      BY <1>1 DEF NamesIn, Present
    <3>3. QED
      BY <1>3, <2>1, <3>1, <3>2
  <2>2. CASE x # m
    <3>1. x \in NamesIn(files', InodeIn(files', x)) /\ InodeIn(files', x) \in Ino
      BY <1>6
    <3>2. x \in NamesIn(files, InodeIn(files', x))
      BY <1>3, <2>2, <3>1
    <3>3. QED
      BY <2>2, <3>2 DEF NamesIn
  <2>3. QED
    BY <2>1, <2>2
<1>9. \A x \in Name : files'[x] = None <=> x # m /\ files[x] = None
  <2>1. m \in NamesIn(files', i) /\ n \in NamesIn(files', i)
    BY <1>1, <1>2, <1>3 DEF NamesIn, Present
  <2>2. files'[m] # None /\ files'[n] # None
    BY <2>1 DEF NamesIn
  <2>3. QED
    BY <1>1, <1>5, <2>2 DEF Present
<1>10. Names' = [Names EXCEPT ![m] = Names[n]]
  <2> DEFINE g == [Names EXCEPT ![m] = Names[n]]
  <2>1. Names[n] = i /\ (\A x \in Name : Names[x] = IF files[x] # None THEN InodeIn(files, x) ELSE None)
    BY <1>1, <1>2, StateShows DEF Present
  <2>2. \A x \in Name : g[x] = IF x = m THEN Names[n] ELSE Names[x]
    BY DEF Names
  <2>3. g = [x \in Name |-> g[x]]
    BY DEF Names
  <2> HIDE DEF g
  <2>4. \A x \in Name : g[x] = IF files'[x] # None THEN InodeIn(files', x) ELSE None
    BY <1>8, <1>9, <2>1, <2>2
  <2>5. Names' = g
    BY <2>3, <2>4, NamesAfter
  <2>6. QED
    BY <2>5 DEF g
<1>11. Contract!Hold(Bodies)
  <2>1. \A x \in Name : files'[x] # None =>
            \E y \in Name : /\ files[y] # None /\ InodeIn(files, y) = InodeIn(files', x)
                            /\ files[y].body = files'[x].body
    <3> SUFFICES ASSUME NEW x \in Name, files'[x] # None
                 PROVE  \E y \in Name : /\ files[y] # None /\ InodeIn(files, y) = InodeIn(files', x)
                                        /\ files[y].body = files'[x].body
      OBVIOUS
    <3>1. files[n] # None /\ InodeIn(files, n) = i
      BY <1>1, <1>2 DEF Present
    <3>2. CASE x = m \/ x = n
      <4>1. InodeIn(files', x) = i /\ files'[x].body = files[n].body
        BY <1>4, <1>5, <1>8, <3>1, <3>2
      <4>2. QED
        BY <3>1, <4>1
    <3>3. CASE x # m /\ x # n
      BY <1>5, <1>8, <3>3
    <3>4. QED
      BY <3>2, <3>3
  <2>2. QED
    BY <1>1, <2>1, KeepsBodies
<1>12. Names[n] # None /\ Names[m] = None
  BY <1>1, <1>2, StateShows, InoType
<1>13. Contract!Link(n, m)
  BY <1>1, <1>10, <1>11, <1>12 DEF Contract!Link, Contract!Lead, Names, Bodies
<1>14. QED
  BY <1>13 DEF Contract!Next, Contract!Name, Name

\* What retain() keeps is what the names showed.
LEMMA DetachShows ==
    ASSUME IInv, NEW names \in SUBSET Name, NEW candidates \in SUBSET Ino,
           detached' = Detach(Retained(names, candidates))
    PROVE  \A i \in Ino : detached'[i] # None =>
               \/ detached[i] # None /\ detached'[i].body = detached[i].body
               \/ \E y \in NamesIn(files, i) : files[y].body = detached'[i].body
<1> SUFFICES ASSUME NEW i \in Ino, detached'[i] # None
             PROVE  \/ detached[i] # None /\ detached'[i].body = detached[i].body
                    \/ \E y \in NamesIn(files, i) : files[y].body = detached'[i].body
  OBVIOUS
<1> DEFINE inodes == Retained(names, candidates)
           d == Detach(inodes)
<1>1. /\ \A j \in Ino \ inodes : d[j] = detached[j]
      /\ \A j \in inodes : /\ Representative(j) \in NamesIn(files, j)
                           /\ \A n \in NamesIn(files, j) : d[j].body = files[n].body
  <2>1. Detaches(inodes, d)
    BY DetachIs
  <2> HIDE DEF inodes, d
  <2>2. QED
    BY <2>1 DEF Detaches
<1> HIDE DEF inodes
<1>2. detached' = d
  BY DEF inodes
<1> HIDE DEF d
<1>3. QED
  BY <1>1, <1>2

\* Removal of names.
LEMMA RemovalRefines ==
    ASSUME IInv, IInv', NEW names \in SUBSET Name, NEW candidates \in SUBSET Ino, NEW gone,
           \A n \in Name : n \in names <=> Present(n) /\ n \in gone,
           files' = Without(names), detached' = Detach(Retained(names, candidates)),
           UNCHANGED handles
    PROVE  Contract!Unlink(gone)
<1>1. /\ \A n \in Name : files'[n] # None <=> Present(n) /\ n \notin names
      /\ \A n \in Name \ names : Present(n) => /\ files'[n].body = files[n].body
                                               /\ InodeIn(files', n) = InodeIn(files, n)
  BY WithoutIs
<1>2. Names' = [n \in Name |-> IF n \in gone THEN None ELSE Names[n]]
  <2> DEFINE g == [n \in Name |-> IF n \in gone THEN None ELSE Names[n]]
  <2>1. g = [n \in Name |-> g[n]] /\ \A n \in Name : g[n] = IF n \in gone THEN None ELSE Names[n]
    OBVIOUS
  <2> HIDE DEF g
  <2>2. \A n \in Name : Names[n] = IF Present(n) THEN InodeIn(files, n) ELSE None
    BY StateShows
  <2>3. \A n \in Name : g[n] = IF files'[n] # None THEN InodeIn(files', n) ELSE None
    BY <1>1, <2>1, <2>2
  <2>4. Names' = g
    BY <2>1, <2>3, NamesAfter
  <2>5. QED
    BY <2>4 DEF g
<1>3. Contract!Hold(Bodies)
  <2>1. \A x \in Name : files'[x] # None =>
            \E y \in Name : /\ files[y] # None /\ InodeIn(files, y) = InodeIn(files', x)
                            /\ files[y].body = files'[x].body
    BY <1>1 DEF Present
  <2>2. \A i \in Ino : detached'[i] # None =>
            \/ detached[i] # None /\ detached'[i].body = detached[i].body
            \/ \E y \in NamesIn(files, i) : files[y].body = detached'[i].body
    BY DetachShows
  <2>3. QED
    BY <2>1, <2>2, KeepsBodies
<1>4. QED
  BY <1>2, <1>3 DEF Contract!Unlink, Contract!Lead, Contract!Name, Name, Names, Bodies

\* removeExact().
LEMMA RemoveNameRefines ==
    ASSUME IInv, IInv', NEW n \in Name, RemoveName(n)
    PROVE  Contract!Next
<1>1. Present(n) /\ Candidates(n) \in SUBSET Ino
  BY StateRows DEF RemoveName, Candidates
<1>2. /\ files' = Without({n}) /\ detached' = Detach(Retained({n}, Candidates(n)))
      /\ UNCHANGED handles
  BY DEF RemoveName, descriptors
<1>3. Contract!Unlink({n})
  BY <1>1, <1>2, RemovalRefines
<1>4. QED
  BY <1>3 DEF Contract!Next, Contract!Name, Name

\* commitRemove() of a directory.
LEMMA RemoveTreeRefines ==
    ASSUME IInv, IInv', NEW d \in Dir, RemoveTree(d)
    PROVE  Contract!Next
<1> DEFINE names == {n \in Below(d) : Present(n)}
<1>1. names \in SUBSET Name /\ \A n \in Name : n \in names <=> Present(n) /\ n \in {d} \X Leaf
  BY DEF Below, Name
<1>2. /\ files' = Without(names) /\ detached' = Detach(Retained(names, Ino))
      /\ UNCHANGED handles
  BY DEF RemoveTree, descriptors
<1> HIDE DEF names
<1>3. Contract!Unlink({d} \X Leaf)
  <2> DEFINE gone == {d} \X Leaf
  <2>1. \A n \in Name : n \in names <=> Present(n) /\ n \in gone
    BY <1>1
  <2> HIDE DEF gone
  <2>2. Contract!Unlink(gone)
    BY <1>1, <1>2, <2>1, RemovalRefines
  <2>3. QED
    BY <2>2 DEF gone
<1>4. QED
  BY <1>3 DEF Contract!Next

\* commitMove().
LEMMA MoveRefines ==
    ASSUME IInv, IInv', NEW n \in Name, NEW m \in Name, Move(n, m)
    PROVE  Contract!Next
<1>1. /\ n # m /\ Present(n) /\ (Present(m) => Inode(n) # Inode(m)) /\ UNCHANGED handles
      /\ detached' = Detach(Retained(Occupied(m), Candidates(m)))
  BY DEF Move, descriptors
<1>2. /\ Occupied(m) \in SUBSET Name /\ Candidates(m) \in SUBSET Ino
      /\ files'[n] = None /\ files'[m] # None
      /\ InodeIn(files', m) = InodeIn(files, n) /\ files'[m].body = files[n].body
      /\ \A x \in Name \ {n, m} : /\ files'[x] = None <=> files[x] = None
                                  /\ files[x] # None => /\ files'[x].body = files[x].body
                                                        /\ InodeIn(files', x) = InodeIn(files, x)
  BY MovedRows
<1>3. \A x \in Name : Names[x] = IF Present(x) THEN InodeIn(files, x) ELSE None
  BY StateShows
<1>4. Names[n] = InodeIn(files, n) /\ Names[n] \notin {None, Names[m]}
  BY <1>1, StateShows, InoType
<1>5. Names' = [Names EXCEPT ![n] = None, ![m] = Names[n]]
  <2> DEFINE g == [Names EXCEPT ![n] = None, ![m] = Names[n]]
  <2>1. /\ g = [x \in Name |-> g[x]]
        /\ g[n] = None /\ g[m] = Names[n] /\ \A x \in Name \ {n, m} : g[x] = Names[x]
    BY <1>1 DEF Names
  <2> HIDE DEF g
  <2>2. \A x \in Name : g[x] = IF files'[x] # None THEN InodeIn(files', x) ELSE None
    BY <1>2, <1>3, <1>4, <2>1 DEF Present
  <2>3. Names' = g
    BY <2>1, <2>2, NamesAfter
  <2>4. QED
    BY <2>3 DEF g
<1>6. Contract!Hold(Bodies)
  <2>1. \A x \in Name : files'[x] # None =>
            \E y \in Name : /\ files[y] # None /\ InodeIn(files, y) = InodeIn(files', x)
                            /\ files[y].body = files'[x].body
    BY <1>1, <1>2 DEF Present
  <2>2. \A i \in Ino : detached'[i] # None =>
            \/ detached[i] # None /\ detached'[i].body = detached[i].body
            \/ \E y \in NamesIn(files, i) : files[y].body = detached'[i].body
    BY <1>1, <1>2, DetachShows
  <2>3. QED
    BY <2>1, <2>2, KeepsBodies
<1>7. Contract!Rename(n, m)
  BY <1>1, <1>4, <1>5, <1>6 DEF Contract!Rename, Contract!Lead, Names, Bodies
<1>8. QED
  BY <1>7 DEF Contract!Next, Contract!Name, Name

\* commitMove() of a directory.
LEMMA MoveTreeRefines ==
    ASSUME IInv, IInv', NEW d \in Dir, NEW e \in Dir, MoveTree(d, e)
    PROVE  Contract!Next
<1>1. /\ d # e /\ UNCHANGED <<detached, handles>>
      /\ files' = [n \in Name |-> IF n[1] = e THEN files[<<d, n[2]>>]
                                  ELSE IF n[1] = d THEN None ELSE files[n]]
  BY DEF MoveTree, descriptors
<1>2. \A n \in Name : <<d, n[2]>> \in Name
  BY DEF Name
<1>3. \A x \in Name : Names[x] = IF files[x] # None THEN InodeIn(files, x) ELSE None
  BY StateShows DEF Present
<1>4. \A n \in Name : files'[n] # None =>
          LET y == IF n[1] = e THEN <<d, n[2]>> ELSE n
          IN  /\ y \in Name /\ files[y] # None /\ InodeIn(files', n) = InodeIn(files, y)
              /\ files'[n].body = files[y].body
  BY <1>1, <1>2 DEF InodeIn
<1> DEFINE g == [n \in Name |-> IF n[1] = e THEN Names[<<d, n[2]>>]
                                ELSE IF n[1] = d THEN None ELSE Names[n]]
<1>5. Names' = g
  <2>1. /\ g = [x \in Name |-> g[x]]
        /\ \A n \in Name : g[n] = IF n[1] = e THEN Names[<<d, n[2]>>]
                                  ELSE IF n[1] = d THEN None ELSE Names[n]
    OBVIOUS
  <2> HIDE DEF g
  <2>2. ASSUME NEW x \in Name
        PROVE  g[x] = IF files'[x] # None THEN InodeIn(files', x) ELSE None
    <3>1. CASE x[1] = e
      <4>1. files'[x] = files[<<d, x[2]>>] /\ g[x] = Names[<<d, x[2]>>]
        BY <1>1, <2>1, <3>1
      <4>2. QED
        BY <1>2, <1>3, <4>1 DEF InodeIn
    <3>2. CASE x[1] # e /\ x[1] = d
      BY <1>1, <2>1, <3>2
    <3>3. CASE x[1] # e /\ x[1] # d
      <4>1. files'[x] = files[x] /\ g[x] = Names[x]
        BY <1>1, <2>1, <3>3
      <4>2. QED
        BY <1>3, <4>1 DEF InodeIn
    <3>4. QED
      BY <3>1, <3>2, <3>3
  <2>3. QED
    BY <2>1, <2>2, NamesAfter
<1>6. Contract!Hold(Bodies)
  <2>1. \A x \in Name : files'[x] # None =>
            \E y \in Name : /\ files[y] # None /\ InodeIn(files, y) = InodeIn(files', x)
                            /\ files[y].body = files'[x].body
    BY <1>4
  <2>2. QED
    BY <1>1, <2>1, KeepsBodies
<1>7. Contract!MoveTree(d, e)
  BY <1>1, <1>5, <1>6 DEF Contract!MoveTree, Contract!Lead, Contract!Name, Name, Names, Bodies
<1>8. QED
  BY <1>7 DEF Contract!Next

\* commitCopy() of a directory.
LEMMA CopyTreeRefines ==
    ASSUME IInv, IInv', NEW d \in Dir, NEW e \in Dir, CopyTree(d, e)
    PROVE  Contract!Next
<1> DEFINE leaves == CopiedLeaves(d)
           copied == {n \in {e} \X Leaf : Names[<<d, n[2]>>] # None}
           new == [n \in copied |-> files'[n].id]
           content == [i \in Ino |-> IF \E n \in copied : new[n] = i
                                     THEN Bodies[Names[<<d, (CHOOSE n \in copied : new[n] = i)[2]>>]]
                                     ELSE Bodies[i]]
<1>1. CopiesLeaves(d, e, leaves, {e} \X leaves)
  BY CopyTreeRows
<1>2. /\ copied = {e} \X leaves /\ copied \subseteq Name
      /\ \A n \in copied : n[2] \in leaves /\ n = <<e, n[2]>> /\ <<d, n[2]>> \in Name
  <2>1. ASSUME NEW l \in Leaf
        PROVE  Names[<<d, l>>] # None <=> Present(<<d, l>>)
    <3>1. <<d, l>> \in Name
      BY DEF Name
    <3>2. QED
      BY <3>1, StateShows, InoType
  <2>2. ASSUME NEW n
        PROVE  n \in copied <=> n \in {e} \X leaves
    BY <2>1 DEF CopiedLeaves
  <2>3. copied = {e} \X leaves
    BY <2>2
  <2>4. copied \subseteq Name
    BY <1>1, <2>3 DEF CopiesLeaves
  <2>5. \A n \in {e} \X leaves : n[2] \in leaves /\ n = <<e, n[2]>>
    OBVIOUS
  <2>6. \A l \in leaves : <<d, l>> \in Name
    BY DEF CopiedLeaves, Name
  <2> HIDE DEF copied, leaves
  <2>7. QED
    BY <2>3, <2>4, <2>5, <2>6
<1> HIDE DEF leaves
<1>3. \A n \in copied : /\ files'[n] # None /\ files'[n].id >= nextIno /\ files'[n].identity = None
                        /\ files'[n].body = files[<<d, n[2]>>].body /\ Present(<<d, n[2]>>)
                        /\ files[n] = None
  <2> SUFFICES ASSUME NEW n \in copied
               PROVE  /\ files'[n] # None /\ files'[n].id >= nextIno /\ files'[n].identity = None
                      /\ files'[n].body = files[<<d, n[2]>>].body /\ Present(<<d, n[2]>>)
                      /\ files[n] = None
    OBVIOUS
  <2>1. n[2] \in leaves /\ n = <<e, n[2]>> /\ n \in {e} \X leaves
    BY <1>2
  <2> DEFINE l == n[2]
  <2>2. /\ files'[<<e, l>>] # None /\ files'[<<e, l>>].id >= nextIno /\ files'[<<e, l>>].identity = None
        /\ files'[<<e, l>>].body = files[<<d, l>>].body /\ Present(<<d, l>>)
    BY <1>1, <2>1 DEF CopiesLeaves
  <2>3. ~Present(n)
    BY <1>1, <2>1 DEF CopiesLeaves
  <2>4. QED
    BY <2>1, <2>2, <2>3 DEF Present
<1>4. /\ \A x \in Name \ copied : files'[x] = files[x]
      /\ \A x, y \in copied : files'[x].id = files'[y].id => x = y
      /\ d # e /\ UNCHANGED <<detached, handles>>
  BY <1>1, <1>2 DEF CopiesLeaves
<1> HIDE DEF copied
<1>5. \A n \in copied : InodeIn(files', n) = files'[n].id /\ files'[n].id \in Ino /\ new[n] = files'[n].id
  <2>1. files' \in Table
    BY DEF IInv, Rows
  <2>2. QED
    BY <1>2, <1>3, <2>1, RowType DEF InodeIn
<1>6. \A x \in Name \ copied : InodeIn(files', x) = InodeIn(files, x)
  BY <1>4 DEF InodeIn
<1>7. new \in [copied -> {i \in Ino : Contract!Free(i)}]
  <2>1. \A n \in copied : new[n] \in Ino /\ Contract!Free(new[n])
    BY <1>3, <1>5, FreeAbove
  <2>2. new = [n \in copied |-> new[n]]
    OBVIOUS
  <2> HIDE DEF new
  <2>3. QED
    BY <2>1, <2>2
<1>8. \A x, y \in copied : new[x] = new[y] => x = y
  BY <1>4, <1>5
<1>9. new = [n \in copied |-> new[n]]
  OBVIOUS
<1> HIDE DEF new
<1>10. Names' = [n \in Name |-> IF n \in copied THEN new[n] ELSE Names[n]]
  <2> DEFINE g == [n \in Name |-> IF n \in copied THEN new[n] ELSE Names[n]]
  <2>1. /\ g = [x \in Name |-> g[x]]
        /\ \A x \in Name : g[x] = IF x \in copied THEN new[x] ELSE Names[x]
    OBVIOUS
  <2> HIDE DEF g
  <2>2. \A x \in Name : Names[x] = IF files[x] # None THEN InodeIn(files, x) ELSE None
    BY StateShows DEF Present
  <2>3. ASSUME NEW x \in Name
        PROVE  g[x] = IF files'[x] # None THEN InodeIn(files', x) ELSE None
    <3>1. CASE x \in copied
      BY <1>3, <1>5, <2>1, <3>1
    <3>2. CASE x \notin copied
      BY <1>4, <1>6, <2>1, <2>2, <3>2
    <3>3. QED
      BY <3>1, <3>2
  <2>4. Names' = g
    BY <2>1, <2>3, NamesAfter
  <2>5. QED
    BY <2>4 DEF g
<1>11. ASSUME NEW x \in copied
       PROVE  content[new[x]] = files'[x].body
  <2>1. new[x] \in Ino
    BY <1>5
  <2>2. (CHOOSE n \in copied : new[n] = new[x]) = x
    BY <1>8
  <2>3. content[new[x]] = Bodies[Names[<<d, x[2]>>]]
    BY <2>1, <2>2
  <2>4. <<d, x[2]>> \in Name /\ Present(<<d, x[2]>>)
    BY <1>2, <1>3
  <2> HIDE DEF content
  <2>5. Bodies[Names[<<d, x[2]>>]] = files[<<d, x[2]>>].body
    BY <2>4, StateShows
  <2>6. QED
    BY <1>3, <2>3, <2>5
<1>12. ASSUME NEW i \in Ino, i < nextIno
       PROVE  content[i] = Bodies[i]
  <2>1. ASSUME NEW n \in copied
        PROVE  new[n] # i
    <3>1. new[n] >= nextIno
      BY <1>3, <1>5
    <3>2. i \in Nat /\ nextIno \in Nat
      BY InoType, Numbers
    <3>3. QED
      BY <1>12, <3>1, <3>2
  <2>2. QED
    BY <2>1
<1> HIDE DEF content
<1>13. Contract!Hold(content)
  <2>1. ASSUME NEW x \in Name, files'[x] # None
        PROVE  files'[x].body = content[InodeIn(files', x)]
    <3>1. CASE x \in copied
      BY <1>5, <1>11, <3>1
    <3>2. CASE x \notin copied
      <4>1. Present(x) /\ files'[x] = files[x] /\ InodeIn(files', x) = InodeIn(files, x)
        BY <1>4, <1>6, <2>1, <3>2 DEF Present
      <4>2. InodeIn(files, x) \in Ino /\ InodeIn(files, x) < nextIno
        BY <4>1, StateRows
      <4>3. Bodies[InodeIn(files, x)] = files[x].body
        BY <4>1, StateShows
      <4>4. QED
        BY <1>12, <4>1, <4>2, <4>3
    <3>3. QED
      BY <3>1, <3>2
  <2>2. ASSUME NEW i \in Ino, detached'[i] # None
        PROVE  detached'[i].body = content[i]
    <3>1. detached[i] # None /\ detached'[i] = detached[i]
      BY <1>4, <2>2
    <3>2. i < nextIno
      <4>1. PICK h \in Handle : handles[h] = i
        BY <3>1 DEF IInv, Held
      <4>2. handles[h] # None
        BY <4>1, InoType
      <4>3. QED
        BY <4>1, <4>2, Numbers
    <3>3. QED
      BY <1>12, <3>1, <3>2, StateShows
  <2>3. QED
    BY <2>1, <2>2, HoldIs
<1>14. Contract!CopyTree(d, e)
  BY <1>4, <1>7, <1>8, <1>10, <1>13
  DEF Contract!CopyTree, Contract!Lead, Contract!Name, Name, Names, Bodies, copied, content
<1>15. QED
  BY <1>14 DEF Contract!Next

\* open() of a file.
LEMMA OpenRefines ==
    ASSUME IInv, IInv', NEW h \in Handle, NEW n \in Name, NEW emptied \in BOOLEAN, Open(h, n, emptied)
    PROVE  Contract!Next
<1> DEFINE i == Inode(n)
           m == Representative(i)
<1>1. /\ Present(n) /\ handles[h] = None /\ handles' = [handles EXCEPT ![h] = i]
      /\ UNCHANGED detached
      /\ files' = IF emptied THEN Rewritten(files, m, Empty) ELSE files
  BY DEF Open, Pin
<1>2. m \in Name /\ Present(m) /\ Inode(m) = i /\ InodeIn(files, m) = i
  BY <1>1, NameOfFile, StateShows
<1>3. Names[n] = i /\ Names[n] # None
  BY <1>1, StateShows, InoType
<1> HIDE DEF i, m
<1>4. CASE emptied
  <2>1. files' = Rewritten(files, m, Empty) /\ Empty \in Body
    BY <1>1, <1>4, InodeAssumption
  <2>2. Names' = Names /\ Contract!Hold([Bodies EXCEPT ![InodeIn(files, m)] = Empty])
    BY <1>1, <1>2, <2>1, RewriteRefines
  <2>3. Contract!Hold([Bodies EXCEPT ![Names[n]] = Empty])
    BY <1>2, <1>3, <2>2
  <2>4. Contract!Open(h, n)
    BY <1>1, <1>3, <2>2, <2>3 DEF Contract!Open, Contract!Lead, Names, Bodies
  <2>5. QED
    BY <2>4 DEF Contract!Next, Contract!Name, Name
<1>5. CASE ~emptied
  <2>1. files' = files
    BY <1>1, <1>5
  <2>2. Names' = Names
    BY <2>1, Mapped
  <2>3. Contract!Hold(Bodies)
    BY <1>1, <2>1, KeepsBodies
  <2>4. Contract!Open(h, n)
    BY <1>1, <1>3, <2>2, <2>3 DEF Contract!Open, Contract!Lead, Names, Bodies
  <2>5. QED
    BY <2>4 DEF Contract!Next, Contract!Name, Name
<1>6. QED
  BY <1>4, <1>5

\* open() of a file that it creates.
LEMMA OpenNewRefines ==
    ASSUME IInv, IInv', NEW h \in Handle, NEW n \in Name, OpenNew(h, n)
    PROVE  Contract!Next
<1>1. /\ ~Present(n) /\ nextIno <= MaxIno /\ UNCHANGED detached
      /\ handles[h] = None /\ handles' = [handles EXCEPT ![h] = nextIno]
      /\ files' = [files EXCEPT ![n] = Row(nextIno, None, 1, Empty)]
  BY DEF OpenNew, Pin
<1>2. /\ nextIno \in Ino /\ Contract!Free(nextIno)
      /\ Names[n] = None /\ Names' = [Names EXCEPT ![n] = nextIno]
      /\ Contract!Hold([Bodies EXCEPT ![nextIno] = Empty])
  BY <1>1, NewFileShows, InodeAssumption
<1>3. Contract!OpenNew(h, n, nextIno)
  BY <1>1, <1>2 DEF Contract!OpenNew, Contract!Lead, Names, Bodies
<1>4. QED
  BY <1>2, <1>3 DEF Contract!Next, Contract!Name, Name

\* Descriptors that are closed.
LEMMA ClosedRefines ==
    ASSUME IInv, IInv', NEW closed, UNCHANGED files,
           handles' = [k \in Handle |-> IF k \in closed THEN None ELSE handles[k]],
           \A i \in Ino : detached'[i] # None => detached'[i] = detached[i]
    PROVE  Contract!Close(closed)
<1>1. Names' = Names
  BY Mapped
<1>2. Contract!Hold(Bodies)
  <2>1. \A i \in Ino : detached'[i] # None =>
            detached[i] # None /\ detached'[i].body = detached[i].body
    OBVIOUS
  <2>2. QED
    BY <2>1, KeepsBodies
<1>3. QED
  BY <1>1, <1>2 DEF Contract!Close, Contract!Lead, Names, Bodies

\* close().
LEMMA CloseRefines ==
    ASSUME IInv, IInv', NEW h \in Handle, Close(h)
    PROVE  Contract!Next
<1>1. /\ handles' = [handles EXCEPT ![h] = None] /\ UNCHANGED files
      /\ \/ detached' = [detached EXCEPT ![handles[h]] = None]
         \/ detached' = detached
  BY DEF Close
<1>2. handles \in [Handle -> Ino \cup {None}] /\ detached \in [Ino -> DetachedRow \cup {None}]
  BY DEF IInv, TypeOK, DetachedRow
<1>3. handles' = [k \in Handle |-> IF k \in {h} THEN None ELSE handles[k]]
  BY <1>1, <1>2
<1>4. \A i \in Ino : detached'[i] # None => detached'[i] = detached[i]
  BY <1>1, <1>2
<1>5. Contract!Close({h})
  BY <1>1, <1>3, <1>4, ClosedRefines
<1>6. QED
  BY <1>5 DEF Contract!Next

\* An eviction closes every descriptor.
LEMMA EvictRefines ==
    ASSUME IInv, IInv', Evict
    PROVE  Contract!Next
<1>1. /\ handles' = [h \in Handle |-> None] /\ UNCHANGED files
      /\ detached' = [i \in Ino |-> None]
  BY DEF Evict
<1>2. handles' = [k \in Handle |-> IF k \in Handle THEN None ELSE handles[k]]
  BY <1>1
<1>3. Contract!Close(Handle)
  BY <1>1, <1>2, ClosedRefines
<1>4. QED
  BY <1>3 DEF Contract!Next

\* At the start no name and no descriptor leads anywhere.
LEMMA InitRefines == Init => Contract!Init
<1> SUFFICES ASSUME Init
             PROVE  Contract!Init
  OBVIOUS
<1>1. IInv /\ files = [n \in Name |-> None] /\ detached = [i \in Ino |-> None]
      /\ handles = [h \in Handle |-> None]
  BY InitHolds DEF Init
<1>2. \A n \in Name : Names[n] = None
  BY <1>1, StateShows DEF Present
<1>3. \A i \in Ino : Bodies[i] = None
  BY <1>1, StateShows DEF NamesIn
<1>4. Names = [n \in Name |-> None] /\ Bodies = [i \in Ino |-> None]
  <2>1. Names = [n \in Name |-> Names[n]] /\ Bodies = [i \in Ino |-> Bodies[i]]
    BY DEF Names, Bodies
  <2>2. QED
    BY <1>2, <1>3, <2>1
<1>5. QED
  BY <1>1, <1>4 DEF Contract!Init, Contract!Name, Name, Names, Bodies

\* Every step is one of the contract.
LEMMA StepRefines ==
    ASSUME IInv, IInv', [Next]_vars
    PROVE  [Contract!Next]_(Contract!vars)
<1>1. CASE ByName
  <2>1. ASSUME NEW n \in Name, NEW m \in Name, CopyFile(n, m)
        PROVE  Contract!Next
    <3>1. files[n].body \in Body /\ CreateFile(m, files[n].body)
      BY <2>1, StateShows DEF CopyFile
    <3>2. QED
      BY <3>1, CreateFileRefines
  <2>2. QED
    BY <1>1, <2>1, CreateFileRefines, WriteFileRefines, RemoveNameRefines, LinkRefines, MoveRefines,
       CopyOverRefines, MoveTreeRefines, CopyTreeRefines, RemoveTreeRefines DEF ByName
<1>2. CASE \E h \in Handle : ByHandle(h)
  BY <1>2, OpenRefines, OpenNewRefines, WriteNamedRefines, WriteDetachedRefines, CloseRefines
  DEF ByHandle
<1>3. CASE Evict
  BY <1>3, EvictRefines
<1>4. CASE UNCHANGED vars
  <2>1. UNCHANGED <<files, detached, handles>>
    BY <1>4 DEF vars
  <2>2. Names' = Names /\ Bodies' = Bodies
    BY <2>1, Mapped
  <2>3. QED
    BY <2>1, <2>2 DEF Contract!vars, Names, Bodies
<1>5. QED
  BY <1>1, <1>2, <1>3, <1>4 DEF Next

\* Names and descriptors behave as those of inodes that are stored once: rows,
\* triggers and detached bodies keep the promise of InodeContract, whatever the
\* order of calls and wherever the object is evicted.
THEOREM Refinement == Spec => ImplementsInodes
<1>1. Init => Contract!Init
  BY InitRefines
<1>2. IInv /\ IInv' /\ [Next]_vars => [Contract!Next]_(Contract!vars)
  BY StepRefines
<1>3. QED
  BY <1>1, <1>2, Invariance, PTL DEF Spec, ImplementsInodes, Contract!Spec
-----------------------------------------------------------------------------
(* What is charged, as long as a file has two names at most.               *)

FilesIn(f) == {n \in Name : f[n] # None}
InodesIn(d) == {i \in Ino : d[i] # None}

\* What names and detached bodies take.
Stored(f) == SumOf(SizesIn(f), FilesIn(f))
Kept(d) == SumOf(DetachedSizes(d), InodesIn(d))

\* Each row knows how many names its inode has.
CountsAgree(f) ==
    \A n \in Name : f[n] # None => f[n].count = Cardinality(NamesIn(f, InodeIn(f, n)))

UInv ==
    /\ IInv
    /\ CountsAgree(files)
    /\ usage = Stored(files) + Kept(detached)

DetachedTable == [Ino -> DetachedRow \cup {None}]

\* Names that come, go or change their size.
LEMMA StoredChange ==
    ASSUME NEW f \in Table, NEW g \in Table, NEW K,
           \A n \in Name \ K : /\ g[n] = None <=> f[n] = None
                               /\ f[n] # None => g[n].size = f[n].size
    PROVE  ChangesInside(K, SizesIn(f), FilesIn(f), SizesIn(g), FilesIn(g))
<1> DEFINE S == FilesIn(f)
           T == FilesIn(g)
           w == SizesIn(f)
           v == SizesIn(g)
<1>1. IsFiniteSet(S) /\ IsFiniteSet(T)
  BY FiniteNames DEF FilesIn
<1>2. S \ K = T \ K
  BY DEF FilesIn
<1>3. (\A x \in S : w[x] \in Int) /\ (\A x \in T : v[x] \in Int)
  BY RowType DEF FilesIn, SizesIn
<1>4. \A x \in S \ K : v[x] = w[x]
  BY DEF FilesIn, SizesIn
<1> HIDE DEF S, T, v, w
<1>5. ChangesInside(K, w, S, v, T)
  BY <1>1, <1>2, <1>3, <1>4, SumChange
<1>6. QED
  BY <1>5 DEF S, T, v, w

\* Detached bodies that come, go or change.
LEMMA KeptChange ==
    ASSUME NEW c \in DetachedTable, NEW d \in DetachedTable, NEW K,
           \A i \in Ino \ K : d[i] = c[i]
    PROVE  ChangesInside(K, DetachedSizes(c), InodesIn(c), DetachedSizes(d), InodesIn(d))
<1> DEFINE S == InodesIn(c)
           T == InodesIn(d)
           w == DetachedSizes(c)
           v == DetachedSizes(d)
<1>1. IsFiniteSet(S) /\ IsFiniteSet(T)
  BY FiniteInos DEF InodesIn
<1>2. S \ K = T \ K
  BY DEF InodesIn
<1>3. (\A x \in S : w[x] \in Int) /\ (\A x \in T : v[x] \in Int)
  BY DEF InodesIn, DetachedSizes, DetachedTable, DetachedRow
<1>4. \A x \in S \ K : v[x] = w[x]
  BY DEF InodesIn, DetachedSizes
<1> HIDE DEF S, T, v, w
<1>5. ChangesInside(K, w, S, v, T)
  BY <1>1, <1>2, <1>3, <1>4, SumChange
<1>6. QED
  BY <1>5 DEF S, T, v, w

\* A file of its own has one name.
LEMMA AddedCounts ==
    ASSUME NEW next \in Nat, NEW f, NEW g, NEW new \in SUBSET Name,
           Rows(f, next), CountsAgree(f),
           \A x \in Name \ new : g[x] = f[x],
           \A x \in new : /\ f[x] = None /\ g[x] # None /\ g[x].identity = None
                          /\ g[x].id \in Nat /\ g[x].id >= next /\ g[x].count = 1,
           \A x, y \in new : g[x].id = g[y].id => x = y
    PROVE  CountsAgree(g)
<1>1. \A x \in new : InodeIn(g, x) = g[x].id
  BY DEF InodeIn
<1>2. \A x \in Name \ new : InodeIn(g, x) = InodeIn(f, x)
  BY DEF InodeIn
<1>3. \A x \in Name : f[x] # None => InodeIn(f, x) \in Nat /\ InodeIn(f, x) < next
  BY RowNumbers
<1>4. ASSUME NEW x \in new
      PROVE  g[x].count = Cardinality(NamesIn(g, InodeIn(g, x)))
  <2>1. \A y \in Name : g[y] # None /\ InodeIn(g, y) = InodeIn(g, x) => y = x
    <3> SUFFICES ASSUME NEW y \in Name, g[y] # None, InodeIn(g, y) = InodeIn(g, x)
                 PROVE  y = x
      OBVIOUS
    <3>1. CASE y \in new
      BY <1>1, <3>1
    <3>2. CASE y \notin new
      <4>1. InodeIn(g, y) \in Nat /\ InodeIn(g, y) < next
        BY <1>2, <1>3, <3>2
      <4>2. InodeIn(g, x) \in Nat /\ InodeIn(g, x) >= next
        BY <1>1
      <4>3. QED
        BY <4>1, <4>2
    <3>3. QED
      BY <3>1, <3>2
  <2>2. NamesIn(g, InodeIn(g, x)) = {x}
    BY <2>1 DEF NamesIn
  <2>3. QED
    BY <2>2, FS_Singleton
<1>5. ASSUME NEW x \in Name \ new, g[x] # None
      PROVE  g[x].count = Cardinality(NamesIn(g, InodeIn(g, x)))
  <2>1. f[x] # None /\ g[x].count = f[x].count /\ InodeIn(g, x) = InodeIn(f, x)
    BY <1>2, <1>5
  <2>2. \A y \in new : InodeIn(g, y) # InodeIn(f, x)
    <3> SUFFICES ASSUME NEW y \in new
                 PROVE  InodeIn(g, y) # InodeIn(f, x)
      OBVIOUS
    <3>1. InodeIn(f, x) \in Nat /\ InodeIn(f, x) < next /\ InodeIn(g, y) \in Nat /\ InodeIn(g, y) >= next
      BY <1>1, <1>3, <2>1
    <3>2. QED
      BY <3>1
  <2>3. NamesIn(g, InodeIn(g, x)) = NamesIn(f, InodeIn(f, x))
    BY <1>2, <2>1, <2>2 DEF NamesIn
  <2>4. QED
    BY <2>1, <2>3 DEF CountsAgree
<1>6. QED
  BY <1>4, <1>5 DEF CountsAgree

\* Files that are given other names have as many.
LEMMA RenamedCounts ==
    ASSUME NEW f, NEW g, NEW r \in [Name -> Name], CountsAgree(f),
           \A x \in Name : g[x] # None => /\ f[r[x]] # None /\ g[x].count = f[r[x]].count
                                          /\ InodeIn(g, x) = InodeIn(f, r[x]),
           \A x, y \in Name : g[x] # None /\ g[y] # None /\ r[x] = r[y] => x = y,
           \A y \in Name : f[y] # None => \E x \in Name : g[x] # None /\ r[x] = y
    PROVE  CountsAgree(g)
<1> SUFFICES ASSUME NEW x \in Name, g[x] # None
             PROVE  g[x].count = Cardinality(NamesIn(g, InodeIn(g, x)))
  BY DEF CountsAgree
<1> DEFINE i == InodeIn(g, x)
           S == NamesIn(g, i)
<1>1. IsFiniteSet(S) /\ \A y, z \in S : r[y] = r[z] => y = z
  BY FiniteNames DEF NamesIn
<1>2. {r[y] : y \in S} = NamesIn(f, i)
  BY DEF NamesIn
<1> HIDE DEF S
<1>3. Cardinality(NamesIn(f, i)) = Cardinality(S)
  <2>1. Cardinality({r[y] : y \in S}) = Cardinality(S)
    BY ONLY <1>1, FiniteImage
  <2>2. QED
    BY <1>2, <2>1
<1>4. f[r[x]].count = Cardinality(NamesIn(f, i))
  BY DEF CountsAgree
<1>5. QED
  BY <1>3, <1>4 DEF S

\* Counting the names of linked files, where counts may be wrong.
LEMMA RecountedCounts ==
    ASSUME NEW f \in Table, LinksAgree(f), NEW identities, None \notin identities,
           \A x \in Name : (f[x] # None /\ f[x].identity \notin identities)
                              => f[x].count = Cardinality(NamesIn(f, InodeIn(f, x)))
    PROVE  CountsAgree(Recount(f, identities))
<1> DEFINE g == Recount(f, identities)
<1>1. \A n \in Name :
        /\ g[n] = None <=> f[n] = None
        /\ f[n] # None => /\ g[n].id = f[n].id /\ g[n].identity = f[n].identity
                          /\ g[n].count = IF f[n].identity \in identities
                                          THEN Cardinality(Aliases(f, f[n].identity)) ELSE f[n].count
  BY RecountIs
<1> HIDE DEF g
<1>2. \A n \in Name : f[n] # None => InodeIn(g, n) = InodeIn(f, n)
  BY <1>1 DEF InodeIn
<1>3. \A i : NamesIn(g, i) = NamesIn(f, i)
  BY <1>1, <1>2 DEF NamesIn
<1>4. ASSUME NEW x \in Name, f[x] # None, f[x].identity # None
      PROVE  Aliases(f, f[x].identity) = NamesIn(f, InodeIn(f, x))
  <2>1. InodeIn(f, x) = f[x].identity
    BY <1>4 DEF InodeIn
  <2>2. \A y \in NamesIn(f, InodeIn(f, x)) : f[y].identity = InodeIn(f, x)
    BY <1>4, <2>1 DEF LinksAgree, NamesIn, InodeIn
  <2>3. \A y \in Aliases(f, f[x].identity) : y \in NamesIn(f, InodeIn(f, x))
    BY <1>4, <2>1 DEF Aliases, NamesIn, InodeIn
  <2>4. \A y \in NamesIn(f, InodeIn(f, x)) : y \in Aliases(f, f[x].identity)
    BY <1>4, <2>1, <2>2 DEF Aliases, NamesIn
  <2>5. QED
    BY <2>3, <2>4
<1>5. ASSUME NEW x \in Name, g[x] # None
      PROVE  g[x].count = Cardinality(NamesIn(g, InodeIn(g, x)))
  <2>1. f[x] # None /\ InodeIn(g, x) = InodeIn(f, x)
    BY <1>1, <1>2, <1>5
  <2>2. CASE f[x].identity \in identities
    BY <1>1, <1>3, <1>4, <2>1, <2>2
  <2>3. CASE f[x].identity \notin identities
    BY <1>1, <1>3, <2>1, <2>3
  <2>4. QED
    BY <2>2, <2>3
<1>6. QED
  BY <1>5 DEF CountsAgree, g

\* Rows that are renamed take what they took.
LEMMA RenamedStored ==
    ASSUME NEW f \in Table, NEW g \in Table, NEW r \in [Name -> Name],
           \A x \in Name : g[x] # None => f[r[x]] # None /\ g[x].size = f[r[x]].size,
           \A x, y \in Name : g[x] # None /\ g[y] # None /\ r[x] = r[y] => x = y,
           \A y \in Name : f[y] # None => \E x \in Name : g[x] # None /\ r[x] = y
    PROVE  Stored(g) = Stored(f)
<1> DEFINE S == FilesIn(g)
           v == SizesIn(g)
           w == SizesIn(f)
<1>1. IsFiniteSet(S) /\ \A x, y \in S : r[x] = r[y] => x = y
  BY FiniteNames DEF FilesIn
<1>2. {r[x] : x \in S} = FilesIn(f)
  BY DEF FilesIn
<1>3. \A x \in S : v[x] = w[r[x]] /\ v[x] \in Int
  BY RowType DEF FilesIn, SizesIn
<1> HIDE DEF S, v, w
<1>4. SumOf(v, S) = SumOf(w, {r[x] : x \in S})
  BY ONLY <1>1, <1>3, SumImage
<1>5. QED
  BY <1>2, <1>4 DEF Stored, S, v, w

\* So renamed rows take what they took, and know what they knew.
LEMMA RenamedTable ==
    ASSUME NEW f \in Table, CountsAgree(f), NEW g \in Table, NEW r \in [Name -> Name],
           \A x \in Name : g[x] # None => g[x] = f[r[x]] /\ f[r[x]] # None,
           \A x, y \in Name : g[x] # None /\ g[y] # None /\ r[x] = r[y] => x = y,
           \A y \in Name : f[y] # None => \E x \in Name : g[x] # None /\ r[x] = y
    PROVE  Stored(g) = Stored(f) /\ CountsAgree(g)
<1>1. \A x \in Name : g[x] # None => /\ f[r[x]] # None /\ g[x].count = f[r[x]].count
                                     /\ g[x].size = f[r[x]].size
                                     /\ InodeIn(g, x) = InodeIn(f, r[x])
  BY DEF InodeIn
<1>2. QED
  BY <1>1, RenamedStored, RenamedCounts

\* A new file is charged its body, and knows that it has one name.
LEMMA NewFileCharged ==
    ASSUME UInv, NEW n \in Name, ~Present(n), nextIno <= MaxIno, NEW b \in Body,
           files' = [files EXCEPT ![n] = Row(nextIno, None, 1, b)]
    PROVE  /\ Stored(files') = Stored(files) + Bytes[b] /\ Stored(files) \in Int
           /\ CountsAgree(files')
<1>1. IInv /\ Rows(files, nextIno) /\ files \in Table /\ CountsAgree(files)
  BY DEF UInv, IInv, Rows
<1>2. /\ files' \in Table /\ nextIno \in Ino /\ nextIno \in Nat
      /\ files'[n] = Row(nextIno, None, 1, b)
      /\ \A m \in Name \ {n} : files'[m] = files[m]
  <2>1. Rows(files', nextIno + 1) /\ nextIno \in Ino /\ \A m \in Name \ {n} : files'[m] = files[m]
    BY <1>1, NewFile
  <2>2. nextIno \in Nat
    BY <2>1, InoType
  <2>3. files'[n] = Row(nextIno, None, 1, b)
    BY <1>1 DEF Table
  <2>4. QED
    BY <2>1, <2>2, <2>3 DEF Rows
<1>3. /\ files'[n] # None /\ files'[n].size = Bytes[b] /\ Bytes[b] \in Int
      /\ files'[n].id = nextIno /\ files'[n].identity = None /\ files'[n].count = 1
  BY <1>2, NewRowType, NoneIsNoRow, InodeAssumption
<1>4. files[n] = None
  BY DEF Present
<1>5. Stored(files') = Stored(files) + Bytes[b] /\ Stored(files) \in Int
  <2> DEFINE one == {n}
             none == {}
             v == SizesIn(files')
  <2>1. FilesIn(files) \cap one = none /\ FilesIn(files') \cap one = one
    BY <1>3, <1>4 DEF FilesIn
  <2>2. v[n] = Bytes[b]
    BY <1>3 DEF SizesIn
  <2>3. \A m \in Name \ one : /\ files'[m] = None <=> files[m] = None
                              /\ files[m] # None => files'[m].size = files[m].size
    BY <1>2
  <2> HIDE DEF v
  <2>4. SumOf(v, one) = Bytes[b]
    BY <1>3, <2>2, SumSingle
  <2> HIDE DEF one
  <2>5. SumOf(SizesIn(files), none) = 0
    BY SumEmpty
  <2> HIDE DEF none
  <2>6. ChangesInside(one, SizesIn(files), FilesIn(files), SizesIn(files'), FilesIn(files'))
    BY <1>1, <1>2, <2>3, StoredChange
  <2>7. /\ SumOf(SizesIn(files'), FilesIn(files'))
             = SumOf(SizesIn(files), FilesIn(files)) - SumOf(SizesIn(files), none) + SumOf(v, one)
        /\ SumOf(SizesIn(files), FilesIn(files)) \in Int
    BY <2>1, <2>6 DEF ChangesInside, v
  <2>8. QED
    BY <1>3, <2>4, <2>5, <2>7 DEF Stored
<1>6. CountsAgree(files')
  <2> DEFINE new == {n}
  <2>1. /\ \A x \in Name \ new : files'[x] = files[x]
        /\ \A x \in new : /\ files[x] = None /\ files'[x] # None /\ files'[x].identity = None
                          /\ files'[x].id \in Nat /\ files'[x].id >= nextIno /\ files'[x].count = 1
        /\ \A x, y \in new : files'[x].id = files'[y].id => x = y
        /\ new \in SUBSET Name
    BY <1>2, <1>3, <1>4
  <2> HIDE DEF new
  <2>2. QED
    BY ONLY <1>1, <1>2, <2>1, AddedCounts
<1>7. QED
  BY <1>5, <1>6

\* What a rewritten file takes changes by its growth, once for each name.
LEMMA RewriteCharged ==
    ASSUME UInv, NEW n \in Name, Present(n), NEW b \in Body
    PROVE  LET g == Rewritten(files, n, b)
           IN  /\ Stored(g) = Stored(files) + (Bytes[b] - files[n].size) * files[n].count
               /\ Stored(files) \in Int /\ g \in Table
               /\ CountsAgree(g)
<1> DEFINE g == Rewritten(files, n, b)
           i == InodeIn(files, n)
           K == NamesIn(files, i)
           old == files[n].size
           new == Bytes[b]
           k == Cardinality(K)
<1>1. Rows(files, nextIno) /\ files \in Table /\ CountsAgree(files) /\ files[n] # None
  BY DEF UInv, IInv, Rows, Present
<1>2. /\ Rows(g, nextIno)
      /\ \A m \in Name : /\ g[m] = None <=> files[m] = None
                         /\ files[m] # None => /\ InodeIn(g, m) = InodeIn(files, m)
                                               /\ g[m].count = files[m].count
      /\ \A m \in K : g[m].size = new
      /\ \A m \in Name \ K : g[m] = files[m]
  BY <1>1, RewrittenRows
<1>3. \A m \in K : m \in Name /\ files[m] # None /\ g[m] # None /\ files[m].size = old
  BY <1>1, <1>2 DEF NamesIn, Rows, LinksAgree, SizesAgree
<1>4. IsFiniteSet(K) /\ k \in Nat /\ k = files[n].count
  BY <1>1, FiniteNames DEF CountsAgree, NamesIn
<1>5. old \in Int /\ new \in Int
  BY <1>1, RowType, InodeAssumption
<1>6. g \in Table
  BY <1>2 DEF Rows
<1> HIDE DEF g, K, old, new, k
<1>7. FilesIn(files) \cap K = K /\ FilesIn(g) \cap K = K
  BY <1>3 DEF FilesIn
<1>8. SumOf(SizesIn(files), K) = old * k /\ SumOf(SizesIn(g), K) = new * k
  <2> DEFINE w == SizesIn(files)
             v == SizesIn(g)
  <2>1. (\A m \in K : w[m] = old) /\ \A m \in K : v[m] = new
    BY <1>2, <1>3 DEF SizesIn
  <2> HIDE DEF w, v
  <2>2. SumOf(w, K) = old * Cardinality(K)
    BY ONLY <1>4, <1>5, <2>1, SumConstant
  <2>3. SumOf(v, K) = new * Cardinality(K)
    BY ONLY <1>4, <1>5, <2>1, SumConstant
  <2>4. QED
    BY <2>2, <2>3 DEF w, v, k
<1>9. /\ Stored(g) = Stored(files) - SumOf(SizesIn(files), FilesIn(files) \cap K)
                                   + SumOf(SizesIn(g), FilesIn(g) \cap K)
      /\ Stored(files) \in Int
  <2>1. ChangesInside(K, SizesIn(files), FilesIn(files), SizesIn(g), FilesIn(g))
    BY <1>1, <1>2, <1>6, StoredChange
  <2>2. QED
    BY <2>1 DEF ChangesInside, Stored
<1>10. Stored(g) = Stored(files) + (new - old) * k
  <2>1. Stored(g) = Stored(files) - old * k + new * k
    BY <1>7, <1>8, <1>9
  <2>2. (new - old) * k = new * k - old * k /\ old * k \in Int /\ new * k \in Int
    BY <1>4, <1>5
  <2>3. QED
    BY <1>9, <2>1, <2>2
<1>11. CountsAgree(g)
  <2>1. \A j : NamesIn(g, j) = NamesIn(files, j)
    BY <1>2 DEF NamesIn
  <2>2. QED
    BY <1>1, <1>2, <2>1 DEF CountsAgree
<1>12. QED
  BY <1>4, <1>6, <1>9, <1>10, <1>11 DEF g, old, new

\* Counting names changes no size.
LEMMA RecountStored ==
    ASSUME NEW f \in Table, NEW identities
    PROVE  Stored(Recount(f, identities)) = Stored(f) /\ Stored(f) \in Int
<1> DEFINE g == Recount(f, identities)
           none == {}
<1>1. /\ g \in Table
      /\ \A n \in Name : /\ g[n] = None <=> f[n] = None
                         /\ f[n] # None => g[n].size = f[n].size
  BY RecountIs
<1> HIDE DEF g, none
<1>2. ChangesInside(none, SizesIn(f), FilesIn(f), SizesIn(g), FilesIn(g))
  BY <1>1, StoredChange
<1>3. FilesIn(f) \cap none = none /\ FilesIn(g) \cap none = none
  BY DEF none
<1>4. SumOf(SizesIn(f), none) = 0 /\ SumOf(SizesIn(g), none) = 0
  BY SumEmpty DEF none
<1>5. Stored(g) = Stored(f) - 0 + 0 /\ Stored(f) \in Int
  BY <1>2, <1>3, <1>4 DEF ChangesInside, Stored
<1>6. QED
  BY <1>5 DEF g

\* What goes is given back, and who stays knows it.
LEMMA WithoutCharged ==
    ASSUME UInv, NEW names \in SUBSET Name, \A n \in names : Present(n)
    PROVE  /\ Stored(Without(names)) = Stored(files) - SumOf(SizesIn(files), names)
           /\ Stored(files) \in Int /\ SumOf(SizesIn(files), names) \in Int
           /\ CountsAgree(Without(names))
<1> DEFINE left == [n \in Name |-> IF n \in names THEN None ELSE files[n]]
           identities == Identities(names)
           g == Recount(left, identities)
           none == {}
<1>1. Rows(files, nextIno) /\ files \in Table /\ CountsAgree(files) /\ Without(names) = g
  BY DEF UInv, IInv, Rows, Without
<1>2. left \in Table /\ \A n \in Name : left[n] = IF n \in names THEN None ELSE files[n]
  BY <1>1 DEF Table
<1>3. None \notin identities /\ \A n \in names : files[n].identity # None => files[n].identity \in identities
  BY DEF Identities
<1> HIDE DEF left, identities
<1>4. Stored(g) = Stored(left)
  BY <1>2, RecountStored
<1>5. Stored(left) = Stored(files) - SumOf(SizesIn(files), names) + 0
      /\ Stored(files) \in Int /\ SumOf(SizesIn(files), names) \in Int
  <2>1. ChangesInside(names, SizesIn(files), FilesIn(files), SizesIn(left), FilesIn(left))
    BY <1>1, <1>2, StoredChange
  <2>2. FilesIn(files) \cap names = names /\ FilesIn(left) \cap names = none
    BY <1>2 DEF FilesIn, Present
  <2> HIDE DEF none
  <2>3. SumOf(SizesIn(left), none) = 0
    BY SumEmpty DEF none
  <2>4. QED
    BY <2>1, <2>2, <2>3 DEF ChangesInside, Stored
<1>6. LinksAgree(left)
  <2>1. \A n \in Name : left[n] # None => files[n] # None /\ left[n] = files[n] /\ InodeIn(left, n) = InodeIn(files, n)
    BY <1>2 DEF InodeIn
  <2>2. QED
    BY <1>1, <2>1 DEF LinksAgree, Rows
<1>7. ASSUME NEW x \in Name, left[x] # None, left[x].identity \notin identities
      PROVE  left[x].count = Cardinality(NamesIn(left, InodeIn(left, x)))
  <2>1. files[x] # None /\ x \notin names /\ left[x] = files[x] /\ InodeIn(left, x) = InodeIn(files, x)
    BY <1>2, <1>7 DEF InodeIn
  <2>2. ASSUME NEW y \in NamesIn(files, InodeIn(files, x)), y \in names
        PROVE  FALSE
    <3>1. y \in Name /\ files[y] # None /\ y # x /\ InodeIn(files, y) = InodeIn(files, x)
      BY <2>1, <2>2 DEF NamesIn
    <3>2. files[x].identity # None /\ files[y].identity # None
      BY <1>1, <2>1, <3>1 DEF Rows, LinksAgree
    <3>3. files[y].identity = files[x].identity
      BY <3>1, <3>2 DEF InodeIn
    <3>4. QED
      BY <1>3, <1>7, <2>1, <2>2, <3>2, <3>3
  <2>3. NamesIn(left, InodeIn(left, x)) = NamesIn(files, InodeIn(files, x))
    BY <1>2, <2>1, <2>2 DEF NamesIn, InodeIn
  <2>4. QED
    BY <1>1, <2>1, <2>3 DEF CountsAgree
<1>8. CountsAgree(g)
  BY <1>2, <1>3, <1>6, <1>7, RecountedCounts
<1>9. QED
  BY <1>1, <1>4, <1>5, <1>8

\* What is retained is charged as a detached body.
LEMMA DetachCharged ==
    ASSUME UInv, NEW names \in SUBSET Name, NEW candidates \in SUBSET Ino
    PROVE  LET inodes == Retained(names, candidates)
           IN  /\ Kept(Detach(inodes)) = Kept(detached) + SumOf(FileSizes, inodes)
               /\ Kept(detached) \in Int /\ SumOf(FileSizes, inodes) \in Int
<1> DEFINE inodes == Retained(names, candidates)
           d == Detach(inodes)
           none == {}
<1>1. IInv /\ detached \in DetachedTable /\ inodes \in SUBSET Ino
  BY RetainedIs DEF UInv, IInv, TypeOK, DetachedTable, DetachedRow
<1>2. /\ d \in DetachedTable
      /\ \A i \in Ino \ inodes : d[i] = detached[i]
      /\ \A i \in inodes : /\ d[i] # None /\ detached[i] = None
                           /\ d[i].size = files[Representative(i)].size
  <2>1. Detaches(inodes, d)
    BY <1>1, DetachIs
  <2> HIDE DEF inodes, d
  <2>2. QED
    BY <2>1 DEF Detaches, DetachedTable
<1> HIDE DEF inodes, d
<1>3. ChangesInside(inodes, DetachedSizes(detached), InodesIn(detached), DetachedSizes(d), InodesIn(d))
  BY <1>1, <1>2, KeptChange
<1>4. InodesIn(detached) \cap inodes = none /\ InodesIn(d) \cap inodes = inodes
  BY <1>1, <1>2 DEF InodesIn
<1>5. SumOf(DetachedSizes(d), inodes) = SumOf(FileSizes, inodes)
  <2> DEFINE v == DetachedSizes(d)
             w == FileSizes
  <2>1. \A i \in inodes : v[i] = w[i]
    BY <1>1, <1>2 DEF DetachedSizes, FileSizes
  <2>2. IsFiniteSet(inodes)
    BY <1>1, FiniteInos
  <2> HIDE DEF v, w
  <2>3. SumOf(v, inodes) = SumOf(w, inodes)
    BY <2>1, <2>2, SumSame
  <2>4. QED
    BY <2>3 DEF v, w
<1> HIDE DEF none
<1>6. SumOf(DetachedSizes(detached), none) = 0
  BY SumEmpty DEF none
<1>7. /\ Kept(d) = Kept(detached) - 0 + SumOf(DetachedSizes(d), inodes)
      /\ Kept(detached) \in Int /\ SumOf(DetachedSizes(d), inodes) \in Int
  BY <1>3, <1>4, <1>6 DEF ChangesInside, Kept
<1>8. QED
  BY <1>5, <1>7 DEF d, inodes

\* A step that charges what it stores and gives back what it drops.
LEMMA ChargedKeeps ==
    ASSUME UInv, IInv', CountsAgree(files'), NEW stored \in Int, NEW kept \in Int,
           Stored(files') = Stored(files) + stored, Kept(detached') = Kept(detached) + kept,
           Stored(files) \in Int, Kept(detached) \in Int,
           usage' = usage + stored + kept
    PROVE  UInv'
<1>1. usage' = Stored(files') + Kept(detached')
  BY DEF UInv
<1>2. QED
  BY <1>1 DEF UInv

\* What is kept is an integer, and stays when nothing happens to it.
LEMMA KeptType ==
    ASSUME IInv
    PROVE  Kept(detached) \in Int /\ Stored(files) \in Int
<1>1. InodesIn(detached) \in SUBSET Ino /\ (\A i \in InodesIn(detached) : detached[i] # None)
  BY DEF InodesIn
<1>2. FilesIn(files) \in SUBSET Name /\ (\A n \in FilesIn(files) : Present(n))
  BY DEF FilesIn, Present
<1>3. QED
  BY <1>1, <1>2, SumTypes DEF Kept, Stored

\* Changes of files alone.
LEMMA FilesCharged ==
    ASSUME UInv, IInv', CountsAgree(files'), NEW stored \in Int,
           Stored(files') = Stored(files) + stored, UNCHANGED detached,
           usage' = usage + stored
    PROVE  UInv'
<1>1. Stored(files) \in Int /\ Kept(detached) \in Int
  BY KeptType DEF UInv
<1>2. Kept(detached') = Kept(detached)
  OBVIOUS
<1>3. usage' = Stored(files') + Kept(detached')
  BY <1>1, <1>2 DEF UInv
<1>4. QED
  BY <1>3 DEF UInv

\* Changes of detached bodies alone.
LEMMA DetachedCharged ==
    ASSUME UInv, IInv', NEW kept \in Int,
           Kept(detached') = Kept(detached) + kept, UNCHANGED files,
           usage' = usage + kept
    PROVE  UInv'
<1>1. Stored(files) \in Int /\ Kept(detached) \in Int
  BY KeptType DEF UInv
<1>2. Stored(files') = Stored(files) /\ CountsAgree(files')
  BY DEF UInv
<1>3. usage' = Stored(files') + Kept(detached')
  BY <1>1, <1>2 DEF UInv
<1>4. QED
  BY <1>2, <1>3 DEF UInv

\* writeFile() on an absent path.
LEMMA CreateFileCharged ==
    ASSUME UInv, NEW n \in Name, NEW b \in Body, CreateFile(n, b)
    PROVE  UInv'
<1>1. IInv' /\ Bytes[b] \in Int
  BY CreateFileKeeps, InodeAssumption DEF UInv
<1>2. Stored(files') = Stored(files) + Bytes[b] /\ CountsAgree(files')
  BY NewFileCharged DEF CreateFile
<1>3. usage' = usage + Bytes[b] /\ UNCHANGED detached
  BY DEF CreateFile
<1>4. QED
  BY <1>1, <1>2, <1>3, FilesCharged

\* A body is written to every name of a file, and charged for each.
LEMMA WriteCharged ==
    ASSUME UInv, IInv', NEW n \in Name, Present(n), NEW b \in Body,
           files' = Rewritten(files, n, b), UNCHANGED detached,
           usage' = usage + (Bytes[b] - files[n].size) * files[n].count
    PROVE  UInv'
<1> DEFINE delta == (Bytes[b] - files[n].size) * files[n].count
<1>1. delta \in Int
  <2>1. files[n].size \in Int /\ files[n].count \in Int /\ Bytes[b] \in Int
    BY RowType, InodeAssumption DEF UInv, IInv, Rows, Present
  <2>2. QED
    BY <2>1
<1>2. Stored(files') = Stored(files) + delta /\ CountsAgree(files')
  BY RewriteCharged
<1>3. usage' = usage + delta
  OBVIOUS
<1> HIDE DEF delta
<1>4. QED
  BY <1>1, <1>2, <1>3, FilesCharged

\* writeFile() and appendFile() on a file.
LEMMA WriteFileCharged ==
    ASSUME UInv, NEW n \in Name, NEW b \in Body, WriteFile(n, b)
    PROVE  UInv'
<1>1. IInv'
  BY WriteFileKeeps DEF UInv
<1>2. QED
  BY <1>1, WriteCharged DEF WriteFile

\* write() and truncate() of an inode that has a name.
LEMMA WriteNamedCharged ==
    ASSUME UInv, NEW h \in Handle, NEW b \in Body, WriteNamed(h, b)
    PROVE  UInv'
<1> DEFINE n == Representative(handles[h])
<1>1. IInv' /\ n \in Name /\ Present(n)
  BY WriteNamedKeeps, NameOfOpen DEF UInv, WriteNamed
<1>2. /\ files' = Rewritten(files, n, b) /\ UNCHANGED detached
      /\ usage' = usage + (Bytes[b] - files[n].size) * files[n].count
  BY DEF WriteNamed
<1> HIDE DEF n
<1>3. QED
  BY <1>1, <1>2, WriteCharged

\* commitCopy() onto a file.
LEMMA CopyOverCharged ==
    ASSUME UInv, NEW n \in Name, NEW m \in Name, CopyOver(n, m)
    PROVE  UInv'
<1> DEFINE b == files[n].body
           g == Rewritten(files, m, b)
           identities == Identities({m})
           delta == (Bytes[b] - files[m].size) * files[m].count
<1>1. /\ IInv /\ IInv' /\ Present(n) /\ Present(m) /\ files' = Recount(g, identities)
      /\ UNCHANGED detached /\ usage' = usage + (files[n].size - files[m].size) * files[m].count
  BY CopyOverKeeps DEF UInv, CopyOver
<1>2. b \in Body /\ files[n].size = Bytes[b]
  BY <1>1, StateRows DEF FileRow
<1>3. delta \in Int /\ usage' = usage + delta
  <2>1. files[m].size \in Int /\ files[m].count \in Int /\ Bytes[b] \in Int
    BY <1>1, <1>2, RowType, InodeAssumption DEF IInv, Rows, Present
  <2>2. QED
    BY <1>1, <1>2, <2>1
<1> HIDE DEF b
<1>4. Stored(g) = Stored(files) + delta /\ g \in Table /\ CountsAgree(g)
  BY <1>1, <1>2, RewriteCharged
<1> HIDE DEF delta
<1>5. LinksAgree(g)
  BY <1>1, <1>2, RewrittenRows DEF IInv, Rows, Present
<1> HIDE DEF g
<1>6. None \notin identities
  BY DEF Identities
<1> HIDE DEF identities
<1>7. Stored(files') = Stored(files) + delta
  BY <1>1, <1>4, RecountStored
<1>8. CountsAgree(files')
  <2>1. \A x \in Name : (g[x] # None /\ g[x].identity \notin identities)
                            => g[x].count = Cardinality(NamesIn(g, InodeIn(g, x)))
    BY <1>4 DEF CountsAgree
  <2>2. QED
    BY <1>1, <1>4, <1>5, <1>6, <2>1, RecountedCounts
<1>9. QED
  BY <1>1, <1>3, <1>7, <1>8, FilesCharged

\* link(), of a file that has one name: the names at both ends know that there
\* are two.  With a third name only two of them would.
LEMMA LinkCharged ==
    ASSUME UInv, MaxLinks <= 2, NEW n \in Name, NEW m \in Name, Link(n, m)
    PROVE  UInv'
<1> DEFINE identity == Inode(n)
           count == files[n].count + 1
           row == [files[n] EXCEPT !.identity = identity, !.count = count]
           other == [row EXCEPT !.id = nextIno]
           S == NamesIn(files, identity)
           one == {n}
           both == one \cup {m}
<1>1. /\ Present(n) /\ ~Present(m)
      /\ files' = [files EXCEPT ![n] = row, ![m] = other]
      /\ usage' = usage + files[n].size /\ UNCHANGED detached
      /\ Cardinality(NamesOf(identity)) < MaxLinks
  BY DEF Link
<1>2. /\ IInv /\ IInv' /\ CountsAgree(files) /\ files \in Table /\ files' \in Table
      /\ \A i \in Ino : NamesIn(files', i) = IF i = identity THEN S \cup {m} ELSE NamesIn(files, i)
  BY LinkKeeps DEF UInv, IInv, Rows
<1>3. files[n] # None /\ files[m] = None /\ n # m
  BY <1>1 DEF Present
<1>4. /\ files[n] \in FileRow /\ identity = InodeIn(files, n) /\ identity \in Ino
      /\ n \in S /\ NamesOf(identity) = S
  BY <1>1, <1>2, StateRows, NameOfFile
<1>5. S = one /\ files[n].count = 1
  <2>1. IsFiniteSet(S) /\ Cardinality(S) \in Nat
    BY FiniteNames DEF NamesIn
  <2>2. Cardinality(one) = 1 /\ one \in SUBSET S
    BY <1>4, FS_Singleton
  <2>3. files[n].count = Cardinality(S)
    BY <1>2, <1>3, <1>4 DEF CountsAgree
  <2>4. Cardinality(S) < 2
    BY <1>1, <1>4, <2>1, InodeAssumption
  <2> HIDE DEF S, one
  <2>5. Cardinality(one) <= Cardinality(S) /\ (Cardinality(S) = Cardinality(one) => S = one)
    BY <2>1, <2>2, FS_Subset
  <2>6. QED
    BY <2>1, <2>2, <2>3, <2>4, <2>5
<1> HIDE DEF S, identity
<1>6. count = 2
  BY <1>5
<1> HIDE DEF count
<1>7. /\ row \in FileRow /\ row.identity = identity /\ row.count = 2 /\ row.size = files[n].size
      /\ other \in FileRow /\ other.identity = identity /\ other.count = 2 /\ other.size = files[n].size
  <2>1. row \in FileRow /\ row.identity = identity /\ row.count = 2 /\ row.size = files[n].size
    BY <1>4, <1>6 DEF FileRow
  <2> HIDE DEF row
  <2>2. nextIno \in Ino
    BY Numbers, <1>2, InodeAssumption DEF Ino, Link
  <2>3. QED
    BY <2>1, <2>2 DEF FileRow
<1> HIDE DEF row, other
<1>8. /\ files'[n] = row /\ files'[m] = other /\ row # None /\ other # None
      /\ \A x \in Name \ {n, m} : files'[x] = files[x]
  BY <1>1, <1>2, <1>3, <1>7, NoneIsNoRow DEF Table
<1>9. Stored(files') = Stored(files) + files[n].size /\ files[n].size \in Int
  <2> DEFINE added == {m}
             none == {}
             v == SizesIn(files')
             size == files[n].size
  <2>1. FilesIn(files) \cap added = none /\ FilesIn(files') \cap added = added
    BY <1>3, <1>8 DEF FilesIn
  <2>2. v[m] = size /\ size \in Int
    BY <1>4, <1>7, <1>8 DEF SizesIn, FileRow
  <2>3. \A x \in Name \ added : /\ files'[x] = None <=> files[x] = None
                                /\ files[x] # None => files'[x].size = files[x].size
    BY <1>3, <1>7, <1>8
  <2> HIDE DEF v, size
  <2>4. SumOf(v, added) = size
    BY <2>2, SumSingle
  <2> HIDE DEF added
  <2>5. SumOf(SizesIn(files), none) = 0
    BY SumEmpty
  <2> HIDE DEF none
  <2>6. ChangesInside(added, SizesIn(files), FilesIn(files), SizesIn(files'), FilesIn(files'))
    BY <1>2, <2>3, StoredChange
  <2>7. /\ Stored(files') = Stored(files) - SumOf(SizesIn(files), none) + SumOf(v, added)
        /\ Stored(files) \in Int
    BY <2>1, <2>6 DEF ChangesInside, Stored, v
  <2>8. Stored(files') = Stored(files) + size
    BY <2>2, <2>4, <2>5, <2>7
  <2>9. QED
    BY <2>2, <2>8 DEF size
<1>10. Cardinality(both) = 2
  <2>1. IsFiniteSet(one) /\ Cardinality(one) = 1 /\ m \notin one
    BY <1>3, FS_Singleton
  <2> HIDE DEF one
  <2>2. QED
    BY <2>1, FS_AddElement
<1>11. CountsAgree(files')
  <2> SUFFICES ASSUME NEW x \in Name, files'[x] # None
               PROVE  files'[x].count = Cardinality(NamesIn(files', InodeIn(files', x)))
    BY DEF CountsAgree
  <2>1. CASE x = n \/ x = m
    <3>1. files'[x].identity = identity /\ files'[x].count = 2
      BY <1>7, <1>8, <2>1
    <3>2. InodeIn(files', x) = identity
      BY <1>4, <3>1, InoType DEF InodeIn
    <3>3. NamesIn(files', identity) = both
      BY <1>2, <1>4, <1>5
    <3>4. QED
      BY <1>10, <3>1, <3>2, <3>3
  <2>2. CASE x # n /\ x # m
    <3>1. files'[x] = files[x] /\ files[x] # None /\ InodeIn(files', x) = InodeIn(files, x)
      BY <1>8, <2>2 DEF InodeIn
    <3>2. x \notin S
      BY <1>5, <2>2
    <3>3. InodeIn(files, x) # identity /\ InodeIn(files, x) \in Ino
      BY <1>2, <3>1, <3>2, RowType DEF S, NamesIn
    <3>4. NamesIn(files', InodeIn(files, x)) = NamesIn(files, InodeIn(files, x))
      BY <1>2, <3>3
    <3>5. QED
      BY <1>2, <3>1, <3>4 DEF CountsAgree
  <2>3. QED
    BY <2>1, <2>2
<1>12. QED
  BY <1>1, <1>2, <1>9, <1>11, FilesCharged

\* Names go: what they took is given back, but for what is retained.
LEMMA RemovalCharged ==
    ASSUME UInv, IInv', NEW names \in SUBSET Name, \A n \in names : Present(n),
           NEW candidates \in SUBSET Ino,
           CountsAgree(files'), Stored(files') = Stored(Without(names)),
           detached' = Detach(Retained(names, candidates)),
           usage' = usage + Released(names, Retained(names, candidates))
    PROVE  UInv'
<1> DEFINE inodes == Retained(names, candidates)
           lost == SumOf(SizesIn(files), names)
           kept == SumOf(FileSizes, inodes)
           stored == -lost
<1>1. Stored(files') = Stored(files) - lost /\ Stored(files) \in Int /\ lost \in Int
  BY WithoutCharged
<1>2. Kept(detached') = Kept(detached) + kept /\ Kept(detached) \in Int /\ kept \in Int
  BY DetachCharged
<1>3. Released(names, inodes) = -lost + kept
  <2>1. inodes \in SUBSET Ino
    BY RetainedIs DEF UInv
  <2> HIDE DEF inodes
  <2>2. QED
    BY <2>1, ReleasedIsSum
<1>4. usage' = usage + Released(names, inodes) /\ usage \in Int
  BY DEF UInv, IInv, TypeOK
<1> HIDE DEF inodes, lost, kept
<1>5. /\ stored \in Int /\ usage' = usage + stored + kept
      /\ Stored(files') = Stored(files) + stored
  <2>1. stored \in Int /\ Stored(files') = Stored(files) + stored
    BY <1>1
  <2>2. usage' = usage + (-lost + kept)
    BY <1>3, <1>4
  <2>3. usage' = usage + stored + kept
    BY <1>1, <1>2, <1>4, <2>2
  <2>4. QED
    BY <2>1, <2>3
<1> HIDE DEF stored
<1>6. QED
  BY <1>1, <1>2, <1>5, ChargedKeeps

\* removeExact() and a removal by path.
LEMMA RemoveNameCharged ==
    ASSUME UInv, NEW n \in Name, RemoveName(n)
    PROVE  UInv'
<1> DEFINE names == {n}
           candidates == Candidates(n)
<1>1. names \in SUBSET Name /\ (\A x \in names : Present(x)) /\ candidates \in SUBSET Ino /\ IInv'
  BY StateRows, RemoveNameKeeps DEF Candidates, RemoveName, UInv
<1>2. /\ files' = Without(names) /\ detached' = Detach(Retained(names, candidates))
      /\ usage' = usage + Released(names, Retained(names, candidates))
  BY DEF RemoveName
<1> HIDE DEF names, candidates
<1>3. CountsAgree(files')
  BY <1>1, <1>2, WithoutCharged
<1>4. QED
  BY <1>1, <1>2, <1>3, RemovalCharged

\* commitRemove() of a directory.
LEMMA RemoveTreeCharged ==
    ASSUME UInv, NEW d \in Dir, RemoveTree(d)
    PROVE  UInv'
<1> DEFINE names == {n \in Below(d) : Present(n)}
<1>1. names \in SUBSET Name /\ (\A x \in names : Present(x)) /\ IInv'
  BY RemoveTreeKeeps DEF UInv, Below, Name
<1>2. /\ files' = Without(names) /\ detached' = Detach(Retained(names, Ino))
      /\ usage' = usage + Released(names, Retained(names, Ino))
  BY DEF RemoveTree
<1> HIDE DEF names
<1>3. CountsAgree(files')
  BY <1>1, <1>2, WithoutCharged
<1>4. QED
  BY <1>1, <1>2, <1>3, RemovalCharged

\* commitMove() of a file.
LEMMA MoveCharged ==
    ASSUME UInv, NEW n \in Name, NEW m \in Name, Move(n, m)
    PROVE  UInv'
<1> DEFINE names == Occupied(m)
           candidates == Candidates(m)
           left == Without(names)
           r == [x \in Name |-> IF x = m THEN n ELSE x]
<1>1. /\ n # m /\ Present(n) /\ files' = [left EXCEPT ![m] = left[n], ![n] = None]
      /\ detached' = Detach(Retained(names, candidates))
      /\ usage' = usage + Released(names, Retained(names, candidates))
      /\ IInv /\ IInv'
  BY MoveKeeps DEF Move, UInv
<1>2. /\ names \in SUBSET Name /\ candidates \in SUBSET Ino /\ (\A x \in names : Present(x))
      /\ files' \in Table
  BY <1>1, MovedRows DEF Rows
<1>3. /\ left \in Table /\ \A x \in Name : left[x] # None <=> Present(x) /\ x \notin names
      /\ CountsAgree(left)
  BY <1>1, <1>2, WithoutIs, WithoutCharged DEF Rows
<1>4. n \notin names /\ (m \in names \/ ~Present(m))
  BY <1>1 DEF Occupied
<1> HIDE DEF names, candidates, left
<1>5. /\ files'[n] = None /\ files'[m] = left[n] /\ left[n] # None /\ left[m] = None
      /\ \A x \in Name \ {n, m} : files'[x] = left[x]
  BY <1>1, <1>3, <1>4 DEF Table
<1>6. r \in [Name -> Name] /\ \A x \in Name : r[x] = IF x = m THEN n ELSE x
  OBVIOUS
<1> HIDE DEF r
<1>7. /\ \A x \in Name : files'[x] # None => left[r[x]] # None /\ files'[x] = left[r[x]]
      /\ \A x, y \in Name : files'[x] # None /\ files'[y] # None /\ r[x] = r[y] => x = y
  BY <1>1, <1>5, <1>6
<1>8. \A y \in Name : left[y] # None => \E x \in Name : files'[x] # None /\ r[x] = y
  <2> SUFFICES ASSUME NEW y \in Name, left[y] # None
               PROVE  \E x \in Name : files'[x] # None /\ r[x] = y
    OBVIOUS
  <2>1. CASE y = n
    BY <1>1, <1>5, <1>6, <2>1
  <2>2. CASE y # n
    BY <1>5, <1>6, <2>2
  <2>3. QED
    BY <2>1, <2>2
<1>9. Stored(files') = Stored(left) /\ CountsAgree(files')
  BY <1>2, <1>3, <1>6, <1>7, <1>8, RenamedTable
<1>10. QED
  BY <1>1, <1>2, <1>9, RemovalCharged DEF left

\* commitMove() of a directory.
LEMMA MoveTreeCharged ==
    ASSUME UInv, NEW d \in Dir, NEW e \in Dir, MoveTree(d, e)
    PROVE  UInv'
<1>1. /\ IInv /\ IInv' /\ files \in Table /\ files' \in Table /\ CountsAgree(files)
      /\ UNCHANGED <<detached, usage>>
  BY MoveTreeKeeps, MovedTree DEF UInv, IInv, Rows, MoveTree
<1>2. PICK r \in [Name -> Name] :
        /\ \A x \in Name : files'[x] # None => files'[x] = files[r[x]] /\ files[r[x]] # None
        /\ \A x, y \in Name : files'[x] # None /\ files'[y] # None /\ r[x] = r[y] => x = y
        /\ \A y \in Name : files[y] # None => \E x \in Name : files'[x] # None /\ r[x] = y
  BY <1>1, MovedTree
<1>3. Stored(files') = Stored(files) /\ CountsAgree(files')
  BY <1>1, <1>2, RenamedTable
<1>4. Kept(detached') = Kept(detached)
  BY <1>1
<1>5. QED
  BY <1>1, <1>3, <1>4 DEF UInv

\* open() of an absent path that it creates.
LEMMA OpenNewCharged ==
    ASSUME UInv, NEW h \in Handle, NEW n \in Name, OpenNew(h, n)
    PROVE  UInv'
<1>1. IInv /\ IInv' /\ usage \in Int /\ UNCHANGED <<detached, usage>>
  BY OpenNewKeeps DEF UInv, OpenNew, IInv, TypeOK
<1>2. Stored(files') = Stored(files) + Bytes[Empty] /\ CountsAgree(files')
  BY NewFileCharged, InodeAssumption DEF OpenNew
<1>3. usage' = usage + Bytes[Empty] /\ Bytes[Empty] \in Int
  BY <1>1, InodeAssumption
<1>4. QED
  BY <1>1, <1>2, <1>3, FilesCharged

\* open() of a file, which "w" empties.
LEMMA OpenCharged ==
    ASSUME UInv, NEW h \in Handle, NEW n \in Name, NEW emptied \in BOOLEAN, Open(h, n, emptied)
    PROVE  UInv'
<1> DEFINE i == Inode(n)
           m == Representative(i)
<1>1. /\ IInv /\ IInv' /\ Present(n) /\ UNCHANGED detached
      /\ files' = IF emptied THEN Rewritten(files, m, Empty) ELSE files
      /\ usage' = IF emptied THEN usage - files[n].size * files[m].count ELSE usage
  BY OpenKeeps DEF UInv, Open
<1>2. m \in Name /\ Present(m) /\ Inode(m) = Inode(n)
  BY <1>1, NameOfFile
<1> HIDE DEF i, m
<1>3. CASE emptied
  <2>1. files[m].size = files[n].size
    <3>1. Inode(m) = InodeIn(files, m) /\ Inode(n) = InodeIn(files, n)
      BY <1>1, <1>2, StateRows
    <3>2. LinksAgree(files) /\ SizesAgree(files) /\ files[m] # None /\ files[n] # None
      BY <1>1, <1>2 DEF IInv, Rows, Present
    <3>3. m # n => files[m].body = files[n].body
      BY <1>2, <3>1, <3>2 DEF LinksAgree
    <3>4. QED
      BY <1>2, <3>2, <3>3 DEF SizesAgree
  <2>2. files[m].size \in Int /\ files[m].count \in Int /\ Bytes[Empty] = 0 /\ usage \in Int
    BY <1>1, <1>2, RowType, InodeAssumption DEF IInv, Rows, Present, TypeOK
  <2>3. usage' = usage + (Bytes[Empty] - files[m].size) * files[m].count
    <3>1. usage' = usage - files[m].size * files[m].count
      BY <1>1, <1>3, <2>1
    <3>2. (0 - files[m].size) * files[m].count = -(files[m].size * files[m].count)
      BY <2>2
    <3>3. files[m].size * files[m].count \in Int
      BY <2>2
    <3>4. QED
      BY <2>2, <3>1, <3>2, <3>3
  <2>4. QED
    BY <1>1, <1>2, <1>3, <2>3, WriteCharged, InodeAssumption
<1>4. CASE ~emptied
  BY <1>1, <1>4 DEF UInv
<1>5. QED
  BY <1>3, <1>4

\* write() and truncate() of an inode that lost its last name.
LEMMA WriteDetachedCharged ==
    ASSUME UInv, NEW h \in Handle, NEW b \in Body, WriteDetached(h, b)
    PROVE  UInv'
<1> DEFINE i == handles[h]
           row == [size |-> Bytes[b], body |-> b]
           delta == Bytes[b] - detached[i].size
           old == detached[i].size
           one == {i}
           w == DetachedSizes(detached)
           v == DetachedSizes(detached')
<1>1. /\ IInv /\ IInv' /\ i # None /\ detached[i] # None /\ detached' = [detached EXCEPT ![i] = row]
      /\ usage' = usage + delta /\ UNCHANGED files
  BY WriteDetachedKeeps DEF UInv, WriteDetached
<1>2. /\ i \in Ino /\ detached \in DetachedTable /\ detached' \in DetachedTable
      /\ Bytes[b] \in Int /\ old \in Int
  <2>1. i \in Ino /\ detached \in DetachedTable /\ detached' \in DetachedTable
    BY <1>1, Numbers DEF IInv, TypeOK, DetachedTable, DetachedRow
  <2>2. QED
    BY <1>1, <2>1, InodeAssumption DEF DetachedTable, DetachedRow
<1>3. row # None /\ row.size = Bytes[b]
  <2>1. row \in DetachedRow
    BY InodeAssumption DEF DetachedRow
  <2>2. QED
    BY <2>1, NoneIsNoRow
<1> HIDE DEF row, i
<1>4. detached'[i] = row /\ \A j \in Ino \ one : detached'[j] = detached[j]
  BY <1>1, <1>2 DEF DetachedTable
<1>5. InodesIn(detached) \cap one = one /\ InodesIn(detached') \cap one = one
  BY <1>1, <1>2, <1>3, <1>4 DEF InodesIn
<1>6. w[i] = old /\ v[i] = Bytes[b]
  BY <1>2, <1>3, <1>4 DEF DetachedSizes
<1> HIDE DEF w, v, old
<1>7. SumOf(w, one) = old /\ SumOf(v, one) = Bytes[b]
  BY <1>2, <1>6, SumSingle
<1> HIDE DEF one
<1>8. ChangesInside(one, DetachedSizes(detached), InodesIn(detached), DetachedSizes(detached'), InodesIn(detached'))
  BY <1>2, <1>4, KeptChange
<1>9. Kept(detached') = Kept(detached) - old + Bytes[b] /\ Kept(detached) \in Int
  <2>1. /\ Kept(detached') = Kept(detached) - SumOf(w, one) + SumOf(v, one)
        /\ Kept(detached) \in Int
    BY <1>5, <1>8 DEF ChangesInside, Kept, w, v
  <2>2. QED
    BY <1>7, <2>1
<1>10. delta \in Int /\ Kept(detached') = Kept(detached) + delta
  BY <1>2, <1>9 DEF old
<1> HIDE DEF delta
<1>11. QED
  BY <1>1, <1>10, DetachedCharged

\* release(): the last descriptor gives the body up, and its charge.
LEMMA CloseCharged ==
    ASSUME UInv, NEW h \in Handle, Close(h)
    PROVE  UInv'
<1> DEFINE i == handles[h]
           kept == -detached[i].size
           size == detached[i].size
           one == {i}
           none == {}
           w == DetachedSizes(detached)
<1>1. /\ IInv /\ IInv' /\ i # None /\ UNCHANGED files
      /\ pins[i] = 1 /\ detached[i] # None => /\ detached' = [detached EXCEPT ![i] = None]
                                              /\ usage' = usage - size
      /\ ~(pins[i] = 1 /\ detached[i] # None) => UNCHANGED <<detached, usage>>
  BY CloseKeeps DEF UInv, Close
<1>2. CASE pins[i] = 1 /\ detached[i] # None
  <2>1. i \in Ino /\ detached \in DetachedTable /\ detached' \in DetachedTable
    BY <1>1, Numbers DEF IInv, TypeOK, DetachedTable, DetachedRow
  <2>2. size \in Int /\ usage \in Int
    BY <1>1, <1>2, <2>1 DEF DetachedTable, DetachedRow, IInv, TypeOK
  <2> HIDE DEF i
  <2>3. detached'[i] = None /\ \A j \in Ino \ one : detached'[j] = detached[j]
    BY <1>1, <1>2, <2>1 DEF DetachedTable
  <2>4. InodesIn(detached) \cap one = one /\ InodesIn(detached') \cap one = none
    BY <1>2, <2>1, <2>3 DEF InodesIn
  <2>5. w[i] = size
    BY <2>1 DEF DetachedSizes
  <2> HIDE DEF w, size
  <2>6. SumOf(w, one) = size
    BY <2>2, <2>5, SumSingle
  <2> HIDE DEF one, none
  <2>7. SumOf(DetachedSizes(detached'), none) = 0
    BY SumEmpty DEF none
  <2>8. ChangesInside(one, DetachedSizes(detached), InodesIn(detached), DetachedSizes(detached'), InodesIn(detached'))
    BY <2>1, <2>3, KeptChange
  <2>9. /\ Kept(detached') = Kept(detached) - SumOf(w, one) + SumOf(DetachedSizes(detached'), none)
        /\ Kept(detached) \in Int
    BY <2>4, <2>8 DEF ChangesInside, Kept, w
  <2>10. kept \in Int /\ Kept(detached') = Kept(detached) + kept /\ usage' = usage + kept
    BY <1>1, <1>2, <2>2, <2>6, <2>7, <2>9 DEF size
  <2> HIDE DEF kept
  <2>11. QED
    BY <1>1, <2>10, DetachedCharged
<1>3. CASE ~(pins[i] = 1 /\ detached[i] # None)
  <2>1. UNCHANGED <<files, detached, usage>>
    BY <1>1, <1>3
  <2>2. QED
    BY <1>1, <2>1 DEF UInv
<1>4. QED
  BY <1>2, <1>3

\* An eviction gives up every detached body, and its charge.
LEMMA EvictCharged ==
    ASSUME UInv, Evict
    PROVE  UInv'
<1> DEFINE lost == Kept(detached)
           kept == -lost
           none == {}
<1>1. /\ IInv /\ IInv' /\ detached' = [i \in Ino |-> None] /\ UNCHANGED files
      /\ usage' = usage - DetachedBytes(InodesIn(detached)) /\ usage \in Int
  BY EvictKeeps DEF UInv, Evict, InodesIn, IInv, TypeOK
<1>2. DetachedBytes(InodesIn(detached)) = lost /\ lost \in Int
  <2>1. InodesIn(detached) \in SUBSET Ino
    BY DEF InodesIn
  <2>2. QED
    BY <1>1, <2>1, DetachedIsSum, KeptType DEF Kept
<1>3. InodesIn(detached') = none
  BY <1>1 DEF InodesIn
<1> HIDE DEF none
<1>4. Kept(detached') = 0
  <2>1. SumOf(DetachedSizes(detached'), none) = 0
    BY SumEmpty DEF none
  <2>2. QED
    BY <1>3, <2>1 DEF Kept
<1>5. kept \in Int /\ Kept(detached') = lost + kept /\ usage' = usage + kept
  BY <1>1, <1>2, <1>4
<1> HIDE DEF kept
<1>6. QED
  BY <1>1, <1>5, DetachedCharged

\* commitCopy() of a directory: every file of the copy is charged.
LEMMA CopyTreeCharged ==
    ASSUME UInv, NEW d \in Dir, NEW e \in Dir, CopyTree(d, e)
    PROVE  UInv'
<1> DEFINE copied == CopiedLeaves(d)
           new == {e} \X copied
           source == {d} \X copied
           r == [x \in new |-> <<d, x[2]>>]
           none == {}
           w == SizesIn(files)
           v == SizesIn(files')
           total == Sum(source)
<1>1. /\ IInv /\ IInv' /\ CopiesLeaves(d, e, copied, new)
      /\ files \in Table /\ files' \in Table /\ Rows(files, nextIno) /\ CountsAgree(files)
  BY CopyTreeRows, CopyTreeKeeps DEF UInv, IInv, Rows
<1>2. /\ \A x \in new : x = <<e, x[2]>> /\ x[2] \in copied
      /\ \A x \in new : r[x] = <<d, x[2]>> /\ r[x] \in source
      /\ \A y \in source : \E x \in new : r[x] = y
      /\ \A x \in source : x = <<d, x[2]>> /\ x[2] \in copied
  <2>1. \A x \in new : x = <<e, x[2]>> /\ x[2] \in copied /\ <<d, x[2]>> \in source
    OBVIOUS
  <2>2. \A y \in source : y = <<d, y[2]>> /\ y[2] \in copied /\ <<e, y[2]>> \in new
    OBVIOUS
  <2>3. ASSUME NEW y \in source
        PROVE  \E x \in new : r[x] = y
    <3>1. <<e, y[2]>> \in new /\ <<e, y[2]>>[2] = y[2]
      BY <2>2
    <3>2. r[<<e, y[2]>>] = y
      BY <2>2, <3>1
    <3>3. QED
      BY <3>1, <3>2
  <2>4. QED
    BY <2>1, <2>2, <2>3
<1> HIDE DEF copied, new, source, r
<1>3. /\ new \in SUBSET Name /\ nextIno \in Nat
      /\ \A x \in Name \ new : files'[x] = files[x]
      /\ \A x, y \in new : files'[x].id = files'[y].id => x = y
      /\ UNCHANGED detached
  BY <1>1, Numbers DEF CopiesLeaves
<1>4. ASSUME NEW x \in new
      PROVE  /\ files[x] = None /\ files'[x] # None /\ files'[x].identity = None
             /\ files'[x].id >= nextIno /\ files'[x].count = 1
             /\ r[x] \in Name /\ files[r[x]] # None /\ files'[x].body = files[r[x]].body
  BY <1>1, <1>2 DEF CopiesLeaves, Present
<1>5. \A x \in new : v[x] = w[r[x]] /\ v[x] \in Int
  <2> SUFFICES ASSUME NEW x \in new
               PROVE  v[x] = w[r[x]] /\ v[x] \in Int
    OBVIOUS
  <2>1. x \in Name /\ files'[x] \in FileRow /\ files'[x].size = Bytes[files'[x].body]
    BY <1>1, <1>3, <1>4, RowType DEF IInv, Rows, SizesAgree
  <2>2. files[r[x]].size = Bytes[files[r[x]].body]
    BY <1>1, <1>4 DEF Rows, SizesAgree
  <2>3. QED
    BY <1>4, <2>1, <2>2 DEF SizesIn, FileRow
<1>6. \A x, y \in new : r[x] = r[y] => x = y
  BY <1>2
<1>7. {r[x] : x \in new} = source /\ IsFiniteSet(new)
  BY <1>2, <1>3, FiniteNames
<1>8. source \in SUBSET Name
  BY <1>2, <1>4
<1> HIDE DEF v, w
<1>9. SumOf(v, new) = SumOf(w, source)
  <2>1. SumOf(v, new) = SumOf(w, {r[x] : x \in new})
    BY ONLY <1>5, <1>6, <1>7, SumImage
  <2>2. QED
    BY <1>7, <2>1
<1>10. FilesIn(files) \cap new = none /\ FilesIn(files') \cap new = new
  BY <1>3, <1>4 DEF FilesIn
<1> HIDE DEF none
<1>11. SumOf(w, none) = 0
  BY SumEmpty DEF none
<1>12. ChangesInside(new, SizesIn(files), FilesIn(files), SizesIn(files'), FilesIn(files'))
  BY <1>1, <1>3, StoredChange
<1>13. /\ Stored(files') = Stored(files) - SumOf(w, none) + SumOf(v, new)
       /\ Stored(files) \in Int /\ SumOf(v, new) \in Int
  BY <1>10, <1>12 DEF ChangesInside, Stored, v, w
<1>14. total = SumOf(w, source) /\ usage' = usage + total
  BY <1>1, <1>8, SumIsSum DEF w, CopiesLeaves, source
<1> HIDE DEF total
<1>15. total \in Int /\ Stored(files') = Stored(files) + total
  BY <1>9, <1>11, <1>13, <1>14
<1>16. CountsAgree(files')
  <2>1. \A x \in new : files'[x].id \in Nat
    BY <1>1, <1>3, <1>4, RowType, InoType
  <2>2. QED
    BY ONLY <1>1, <1>3, <1>4, <2>1, AddedCounts
<1>17. QED
  BY <1>1, <1>3, <1>14, <1>15, <1>16, FilesCharged

\* At the start nothing is charged.
LEMMA InitCharged == Init => UInv
<1> SUFFICES ASSUME Init
             PROVE  UInv
  OBVIOUS
<1> DEFINE none == {}
<1>1. IInv /\ files = [n \in Name |-> None] /\ detached = [i \in Ino |-> None] /\ usage = 0
  BY InitHolds DEF Init
<1>2. FilesIn(files) = none /\ InodesIn(detached) = none /\ CountsAgree(files)
  BY <1>1 DEF FilesIn, InodesIn, CountsAgree
<1>3. SumOf(SizesIn(files), none) = 0 /\ SumOf(DetachedSizes(detached), none) = 0
  BY SumEmpty
<1> HIDE DEF none
<1>4. Stored(files) = 0 /\ Kept(detached) = 0
  BY <1>2, <1>3 DEF Stored, Kept
<1>5. QED
  BY <1>1, <1>2, <1>4 DEF UInv

\* Every step charges what it stores.
LEMMA StepCharged ==
    ASSUME MaxLinks <= 2, UInv, [Next]_vars
    PROVE  UInv'
<1>1. CASE ByName
  <2>1. ASSUME NEW n \in Name, NEW m \in Name, CopyFile(n, m)
        PROVE  UInv'
    <3>1. files[n].body \in Body /\ CreateFile(m, files[n].body)
      BY <2>1, StateShows DEF CopyFile, UInv
    <3>2. QED
      BY <3>1, CreateFileCharged
  <2>2. QED
    BY <1>1, <2>1, CreateFileCharged, WriteFileCharged, RemoveNameCharged, LinkCharged, MoveCharged,
       CopyOverCharged, MoveTreeCharged, CopyTreeCharged, RemoveTreeCharged DEF ByName
<1>2. CASE \E h \in Handle : ByHandle(h)
  BY <1>2, OpenCharged, OpenNewCharged, WriteNamedCharged, WriteDetachedCharged, CloseCharged
  DEF ByHandle
<1>3. CASE Evict
  BY <1>3, EvictCharged
<1>4. CASE UNCHANGED vars
  <2>1. UNCHANGED <<files, detached, usage>> /\ IInv'
    BY <1>4, StepKeeps DEF vars, UInv
  <2>2. QED
    BY <2>1 DEF UInv
<1>5. QED
  BY <1>1, <1>2, <1>3, <1>4 DEF Next

\* What is charged is what names and detached bodies take, each by each.
LEMMA ChargedIsExact ==
    ASSUME UInv
    PROVE  UsageExact
<1>1. FilesIn(files) \in SUBSET Name /\ InodesIn(detached) \in SUBSET Ino
  BY DEF FilesIn, InodesIn
<1>2. Sum(FilesIn(files)) = Stored(files) /\ DetachedBytes(InodesIn(detached)) = Kept(detached)
  BY <1>1, SumIsSum, DetachedIsSum DEF Stored, Kept
<1>3. {n \in Name : Present(n)} = FilesIn(files) /\ {i \in Ino : detached[i] # None} = InodesIn(detached)
  BY DEF Present, FilesIn, InodesIn
<1>4. QED
  BY <1>2, <1>3 DEF UInv, UsageExact

\* As long as a file has two names at most, what is charged is what the rows of
\* names and the detached bodies take, whatever was written, linked, moved,
\* copied, removed while open, closed or lost with the object.  (With a third
\* name the counts of rows part, and charges with them: link() tells two names.)
THEOREM ChargedExactly == MaxLinks <= 2 => (Spec => []UsageExact)
<1> SUFFICES ASSUME MaxLinks <= 2
             PROVE  Spec => []UsageExact
  OBVIOUS
<1>1. Init => UInv
  BY InitCharged
<1>2. UInv /\ [Next]_vars => UInv'
  BY StepCharged
<1>3. UInv => UsageExact
  BY ChargedIsExact
<1>4. QED
  BY <1>1, <1>2, <1>3, PTL DEF Spec
=============================================================================
