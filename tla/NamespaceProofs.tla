--------------------------- MODULE NamespaceProofs ---------------------------
(***************************************************************************)
(* Proofs about Namespace: the tables are in order after every             *)
(* transaction, and versions, numbers and the feed only move forward.      *)
(*                                                                         *)
(* A transaction passes its record from step to step.  For each step X of  *)
(* the code there is a predicate IsX(tx, r, ...) that says what X makes of *)
(* each field, and a lemma XIs; proofs about operations use only these.    *)
(* Solid, Linked, Pending and Told are what holds of the record, Good all  *)
(* of them; Ready is what FlushParentTimes and Commit need.  FinishKeeps   *)
(* and FinishTells take a record that is ready and told to the next state, *)
(* and there is a lemma XKeeps for every action X.                         *)
(*                                                                         *)
(* In this order: paths, the steps, sums over tables, new rows, parents    *)
(* that are made, the invariant and the end of a transaction, removals;    *)
(* then the operations, subtrees, and the theorems.                        *)
(***************************************************************************)
EXTENDS Namespace, Sums, FunctionTheorems, SequenceTheorems, TLAPS

------------------------------------------------------------------------------
(* Paths are sequences of names *)

Name == UNION {{p[i] : i \in 1 .. Len(p)} : p \in Paths}

\* A path is a sequence of names.
LEMMA PathIsSequence == \A p \in Paths : p \in Seq(Name) /\ Len(p) \in Nat
<1> SUFFICES ASSUME NEW p \in Paths
             PROVE  p \in Seq(Name) /\ Len(p) \in Nat
  OBVIOUS
<1>1. p \in Seq({p[i] : i \in 1 .. Len(p)})
  BY PathsAssumption
<1>2. {p[i] : i \in 1 .. Len(p)} \subseteq Name
  BY DEF Name
<1>3. p \in Seq(Name)
  BY <1>1, <1>2, SeqMonotonic
<1>4. QED
  BY <1>3, LenProperties

\* A prefix agrees on the positions that it has.
LEMMA PrefixIs ==
    ASSUME NEW s \in Seq(Name), NEW t \in Seq(Name)
    PROVE  IsPrefix(s, t) <=> Len(s) <= Len(t) /\ \A i \in 1 .. Len(s) : s[i] = t[i]
<1>1. Len(s) \in Nat /\ Len(t) \in Nat
  BY LenProperties
<1>2. SubSeq(s, 1, Len(s)) = s
  BY SubSeqFull
<1>3. ASSUME Len(s) <= Len(t)
      PROVE  /\ SubSeq(t, 1, Len(s)) \in Seq(Name)
             /\ Len(SubSeq(t, 1, Len(s))) = Len(s)
             /\ \A i \in 1 .. Len(s) : SubSeq(t, 1, Len(s))[i] = t[i]
  <2>1. \A i \in 1 .. Len(s) : t[i] \in Name
    BY <1>1, <1>3, ElementOfSeq
  <2>2. /\ SubSeq(t, 1, Len(s)) \in Seq(Name)
        /\ Len(SubSeq(t, 1, Len(s))) = IF 1 <= Len(s) THEN Len(s) - 1 + 1 ELSE 0
        /\ \A i \in 1 .. Len(s) - 1 + 1 : SubSeq(t, 1, Len(s))[i] = t[1 + i - 1]
    BY <1>1, <2>1, SubSeqProperties
  <2>3. QED
    BY <1>1, <2>2
<1>4. CASE Len(s) <= Len(t)
  <2>1. s = SubSeq(t, 1, Len(s)) <=> \A i \in 1 .. Len(s) : s[i] = SubSeq(t, 1, Len(s))[i]
    BY <1>3, <1>4, SeqEqual
  <2>2. QED
    BY <1>2, <1>3, <1>4, <2>1 DEF IsPrefix
<1>5. CASE ~ (Len(s) <= Len(t))
  BY <1>5 DEF IsPrefix
<1>6. QED
  BY <1>4, <1>5

\* The parent of a path is the path without its last name.
LEMMA ParentIs ==
    ASSUME NEW p \in Paths, p # Root
    PROVE  /\ Parent(p) \in Paths /\ Len(p) \in Nat \ {0}
           /\ Len(Parent(p)) = Len(p) - 1
           /\ \A i \in 1 .. Len(p) - 1 : Parent(p)[i] = p[i]
<1>1. p \in Seq(Name) /\ Len(p) \in Nat /\ Len(p) # 0
  BY PathIsSequence, EmptySeq DEF Root
<1> DEFINE n == Len(p) - 1
<1>2. n \in Nat /\ \A i \in 1 .. n : p[i] \in Name
  BY <1>1, ElementOfSeq
<1> HIDE DEF n
<1>3. /\ Len(SubSeq(p, 1, n)) = IF 1 <= n THEN n - 1 + 1 ELSE 0
      /\ \A i \in 1 .. n - 1 + 1 : SubSeq(p, 1, n)[i] = p[1 + i - 1]
  BY <1>2, SubSeqProperties
<1>4. Len(SubSeq(p, 1, n)) = n
  BY <1>2, <1>3
<1>5. \A i \in 1 .. n : SubSeq(p, 1, n)[i] = p[i]
  BY <1>2, <1>3
<1> USE DEF n
<1>6. Parent(p) = SubSeq(p, 1, Len(p) - 1)
  BY DEF Parent, Front
<1>7. Parent(p) \in Paths
  BY PathsAssumption DEF Parent
<1>8. QED
  BY <1>1, <1>4, <1>5, <1>6, <1>7

\* The root is its own parent.
LEMMA RootIs == Root \in Paths /\ Parent(Root) = Root /\ Len(Root) = 0
<1>1. Len(Root) = 0
  BY EmptySeq DEF Root
<1>2. SubSeq(Root, 1, 0 - 1) = << >>
  BY SubSeqEmpty
<1>3. QED
  BY <1>1, <1>2, PathsAssumption DEF Parent, Front, Root

\* Paths have a parent among the paths.
LEMMA ParentIsPath == \A p \in Paths : Parent(p) \in Paths
  BY PathsAssumption DEF Parent

\* Prefixes are ordered.
LEMMA PrefixOrder ==
    ASSUME NEW s \in Paths, NEW t \in Paths, NEW u \in Paths
    PROVE  /\ IsPrefix(s, s)
           /\ IsPrefix(s, t) /\ IsPrefix(t, u) => IsPrefix(s, u)
           /\ IsPrefix(s, t) /\ IsPrefix(t, s) => s = t
           /\ IsPrefix(s, u) /\ IsPrefix(t, u) => IsPrefix(s, t) \/ IsPrefix(t, s)
<1>1. \A q \in {s, t, u} : q \in Seq(Name) /\ Len(q) \in Nat
  BY PathIsSequence
<1>2. \A q, r \in {s, t, u} :
        IsPrefix(q, r) <=> Len(q) <= Len(r) /\ \A i \in 1 .. Len(q) : q[i] = r[i]
  BY <1>1, PrefixIs
<1>3. IsPrefix(s, s)
  BY <1>1, <1>2
<1>4. IsPrefix(s, t) /\ IsPrefix(t, u) => IsPrefix(s, u)
  BY <1>1, <1>2
<1>5. ASSUME IsPrefix(s, t), IsPrefix(t, s)
      PROVE  s = t
  <2>1. Len(s) = Len(t) /\ \A i \in 1 .. Len(s) : s[i] = t[i]
    BY <1>1, <1>2, <1>5
  <2>2. QED
    BY <1>1, <2>1, SeqEqual
<1>6. ASSUME IsPrefix(s, u), IsPrefix(t, u)
      PROVE  IsPrefix(s, t) \/ IsPrefix(t, s)
  BY <1>1, <1>2, <1>6
<1>7. QED
  BY <1>3, <1>4, <1>5, <1>6

\* The parent is the longest of the paths above.
LEMMA ParentAbove ==
    ASSUME NEW p \in Paths, p # Root, NEW q \in Paths
    PROVE  /\ IsPrefix(Parent(p), p) /\ Parent(p) # p
           /\ IsPrefix(q, p) /\ q # p => IsPrefix(q, Parent(p))
<1>1. /\ Parent(p) \in Paths /\ Len(p) \in Nat \ {0}
      /\ Len(Parent(p)) = Len(p) - 1
      /\ \A i \in 1 .. Len(p) - 1 : Parent(p)[i] = p[i]
  BY ParentIs
<1>2. p \in Seq(Name) /\ q \in Seq(Name) /\ Parent(p) \in Seq(Name) /\ Len(q) \in Nat
  BY <1>1, PathIsSequence
<1>3. IsPrefix(Parent(p), p) /\ Parent(p) # p
  BY <1>1, <1>2, PrefixIs
<1>4. ASSUME IsPrefix(q, p), q # p
      PROVE  IsPrefix(q, Parent(p))
  <2>1. Len(q) <= Len(p) /\ \A i \in 1 .. Len(q) : q[i] = p[i]
    BY <1>2, <1>4, PrefixIs
  <2>2. Len(q) # Len(p)
    BY <1>2, <1>4, <2>1, SeqEqual
  <2>3. Len(q) <= Len(Parent(p)) /\ \A i \in 1 .. Len(q) : q[i] = Parent(p)[i]
    BY <1>1, <1>2, <2>1, <2>2
  <2>4. QED
    BY <1>2, <2>3, PrefixIs
<1>5. QED
  BY <1>3, <1>4

\* The root is above everything.
LEMMA RootAbove == \A p \in Paths : IsPrefix(Root, p)
<1> SUFFICES ASSUME NEW p \in Paths PROVE IsPrefix(Root, p)
  OBVIOUS
<1>1. Root \in Seq(Name) /\ p \in Seq(Name) /\ Len(Root) = 0 /\ Len(p) \in Nat
  BY RootIs, PathIsSequence
<1>2. Len(Root) <= Len(p) /\ \A i \in 1 .. Len(Root) : Root[i] = p[i]
  BY <1>1
<1>3. QED
  BY <1>1, <1>2, PrefixIs

\* Each path can be taken over to another tree, and back.
LEMMA RebaseIs ==
    ASSUME NEW from \in Paths, NEW to \in Paths, NEW p \in Paths, IsPrefix(from, p)
    PROVE  LET q == Rebase(p, from, to)
           IN  /\ q \in Seq(Name) /\ Len(q) = Len(to) + Len(p) - Len(from)
               /\ \A i \in 1 .. Len(q) :
                    q[i] = IF i <= Len(to) THEN to[i] ELSE p[i - Len(to) + Len(from)]
               /\ IsPrefix(to, q)
<1> DEFINE q == Rebase(p, from, to)
           tail == SubSeq(p, Len(from) + 1, Len(p))
<1>1. /\ from \in Seq(Name) /\ Len(from) \in Nat /\ to \in Seq(Name) /\ Len(to) \in Nat
      /\ p \in Seq(Name) /\ Len(p) \in Nat
  BY PathIsSequence
<1>2. Len(from) <= Len(p)
  BY <1>1, PrefixIs
<1>3. \A i \in Len(from) + 1 .. Len(p) : p[i] \in Name
  BY <1>1, ElementOfSeq
<1>4. /\ tail \in Seq(Name)
      /\ Len(tail) = IF Len(from) + 1 <= Len(p) THEN Len(p) - (Len(from) + 1) + 1 ELSE 0
      /\ \A i \in 1 .. Len(p) - (Len(from) + 1) + 1 : tail[i] = p[(Len(from) + 1) + i - 1]
  BY <1>1, <1>3, SubSeqProperties
<1> HIDE DEF tail
<1>5. Len(tail) = Len(p) - Len(from)
  BY <1>1, <1>2, <1>4
<1>6. \A i \in 1 .. Len(p) - Len(from) : tail[i] = p[Len(from) + i]
  BY <1>1, <1>2, <1>4
<1>7. q = to \o tail
  BY DEF Rebase, tail
<1> HIDE DEF q
<1>8. /\ q \in Seq(Name) /\ Len(q) = Len(to) + Len(tail)
      /\ \A i \in 1 .. Len(to) + Len(tail) :
           q[i] = IF i <= Len(to) THEN to[i] ELSE tail[i - Len(to)]
  BY <1>1, <1>4, <1>7, ConcatProperties
<1>9. Len(q) = Len(to) + Len(p) - Len(from)
  BY <1>1, <1>5, <1>8
<1>10. ASSUME NEW i \in 1 .. Len(q)
       PROVE  q[i] = IF i <= Len(to) THEN to[i] ELSE p[i - Len(to) + Len(from)]
  <2>1. q[i] = IF i <= Len(to) THEN to[i] ELSE tail[i - Len(to)]
    BY <1>8, <1>10
  <2>2. CASE i <= Len(to)
    BY <2>1, <2>2
  <2>3. CASE ~ (i <= Len(to))
    <3>1. i - Len(to) \in 1 .. Len(p) - Len(from)
      BY <1>1, <1>2, <1>9, <1>10, <2>3
    <3>2. tail[i - Len(to)] = p[Len(from) + (i - Len(to))]
      BY <1>6, <3>1
    <3>3. Len(from) + (i - Len(to)) = i - Len(to) + Len(from)
      BY <1>1, <1>9
    <3>4. QED
      BY <2>1, <2>3, <3>2, <3>3
  <2>4. QED
    BY <2>2, <2>3
<1>11. IsPrefix(to, q)
  <2>1. Len(to) <= Len(q) /\ \A i \in 1 .. Len(to) : to[i] = q[i]
    BY <1>1, <1>2, <1>9, <1>10
  <2>2. QED
    BY <1>1, <1>8, <2>1, PrefixIs
<1>12. QED
  BY <1>8, <1>9, <1>10, <1>11 DEF q

\* What was taken over can be taken back.
LEMMA RebaseBack ==
    ASSUME NEW from \in Paths, NEW to \in Paths, NEW p \in Paths, IsPrefix(from, p),
           Rebase(p, from, to) \in Paths
    PROVE  Rebase(Rebase(p, from, to), to, from) = p
<1> DEFINE q == Rebase(p, from, to)
           r == Rebase(q, to, from)
<1>1. /\ from \in Seq(Name) /\ Len(from) \in Nat /\ to \in Seq(Name) /\ Len(to) \in Nat
      /\ p \in Seq(Name) /\ Len(p) \in Nat
  BY PathIsSequence
<1>2. /\ Len(q) = Len(to) + Len(p) - Len(from) /\ IsPrefix(to, q)
      /\ \A i \in 1 .. Len(q) :
           q[i] = IF i <= Len(to) THEN to[i] ELSE p[i - Len(to) + Len(from)]
  BY RebaseIs
<1> q \in Paths
  OBVIOUS
<1> HIDE DEF q
<1>3. /\ r \in Seq(Name) /\ Len(r) = Len(from) + Len(q) - Len(to)
      /\ \A i \in 1 .. Len(r) :
           r[i] = IF i <= Len(from) THEN from[i] ELSE q[i - Len(from) + Len(to)]
  BY <1>2, RebaseIs
<1> HIDE DEF r
<1>4. Len(from) <= Len(p) /\ \A i \in 1 .. Len(from) : from[i] = p[i]
  BY <1>1, PrefixIs
<1>5. Len(r) = Len(p)
  BY <1>1, <1>2, <1>3
<1>6. ASSUME NEW i \in 1 .. Len(p)
      PROVE  r[i] = p[i]
  <2>1. CASE i <= Len(from)
    BY <1>1, <1>3, <1>4, <1>5, <2>1
  <2>2. CASE ~ (i <= Len(from))
    <3> DEFINE j == i - Len(from) + Len(to)
    <3>1. r[i] = q[j]
      BY <1>3, <1>5, <2>2
    <3>2. j \in 1 .. Len(q) /\ ~ (j <= Len(to)) /\ j - Len(to) + Len(from) = i
      BY <1>1, <1>2, <2>2
    <3> HIDE DEF j
    <3>3. q[j] = p[j - Len(to) + Len(from)]
      BY <1>2, <3>2
    <3>4. QED
      BY <3>1, <3>2, <3>3
  <2>3. QED
    BY <2>1, <2>2
<1>7. r = p
  BY <1>1, <1>3, <1>5, <1>6, SeqEqual
<1>8. QED
  BY <1>7 DEF r, q

\* The root of a tree becomes the root of the other.
LEMMA RebaseRoot == \A from, to \in Paths : Rebase(from, from, to) = to
<1> SUFFICES ASSUME NEW from \in Paths, NEW to \in Paths PROVE Rebase(from, from, to) = to
  OBVIOUS
<1>1. to \in Seq(Name) /\ from \in Seq(Name) /\ Len(from) \in Nat
  BY PathIsSequence
<1>2. SubSeq(from, Len(from) + 1, Len(from)) = << >>
  BY <1>1, SubSeqEmpty
<1>3. to \o << >> = to
  BY <1>1, ConcatEmptySeq
<1>4. QED
  BY <1>2, <1>3 DEF Rebase

\* Below its root, a tree keeps its shape.
LEMMA RebaseParent ==
    ASSUME NEW from \in Paths, NEW to \in Paths, NEW p \in Paths, IsPrefix(from, p), p # from,
           Rebase(p, from, to) \in Paths
    PROVE  /\ p # Root /\ IsPrefix(from, Parent(p))
           /\ Rebase(p, from, to) # Root
           /\ Parent(Rebase(p, from, to)) = Rebase(Parent(p), from, to)
<1> DEFINE q == Rebase(p, from, to)
           u == Parent(p)
           r == Rebase(u, from, to)
<1>1. /\ from \in Seq(Name) /\ Len(from) \in Nat /\ to \in Seq(Name) /\ Len(to) \in Nat
      /\ p \in Seq(Name) /\ Len(p) \in Nat
  BY PathIsSequence
<1>2. Len(from) < Len(p)
  <2>1. Len(from) <= Len(p) /\ \A i \in 1 .. Len(from) : from[i] = p[i]
    BY <1>1, PrefixIs
  <2>2. Len(from) # Len(p)
    BY <1>1, <2>1, SeqEqual
  <2>3. QED
    BY <1>1, <2>1, <2>2
<1>3. p # Root
  BY <1>1, <1>2, RootIs
<1>4. /\ u \in Paths /\ Len(u) = Len(p) - 1 /\ \A i \in 1 .. Len(p) - 1 : u[i] = p[i]
  BY <1>3, ParentIs
<1>5. IsPrefix(from, u)
  BY <1>3, ParentAbove
<1>6. /\ Len(q) = Len(to) + Len(p) - Len(from) /\ q \in Paths
      /\ \A i \in 1 .. Len(q) :
           q[i] = IF i <= Len(to) THEN to[i] ELSE p[i - Len(to) + Len(from)]
  BY RebaseIs
<1> HIDE DEF q, u
<1>7. /\ r \in Seq(Name) /\ Len(r) = Len(to) + Len(u) - Len(from)
      /\ \A i \in 1 .. Len(r) :
           r[i] = IF i <= Len(to) THEN to[i] ELSE u[i - Len(to) + Len(from)]
  BY <1>4, <1>5, RebaseIs
<1> HIDE DEF r
<1>8. q # Root
  BY <1>1, <1>2, <1>6, RootIs
<1>9. /\ Parent(q) \in Paths /\ Len(Parent(q)) = Len(q) - 1
      /\ \A i \in 1 .. Len(q) - 1 : Parent(q)[i] = q[i]
  BY <1>6, <1>8, ParentIs
<1>10. Parent(q) \in Seq(Name) /\ Len(Parent(q)) = Len(r)
  BY <1>1, <1>4, <1>6, <1>7, <1>9, PathIsSequence
<1>11. ASSUME NEW i \in 1 .. Len(r)
       PROVE  Parent(q)[i] = r[i]
  <2>1. i \in 1 .. Len(q) - 1 /\ i \in 1 .. Len(q) /\ Parent(q)[i] = q[i]
    BY <1>1, <1>4, <1>6, <1>7, <1>9
  <2>2. CASE i <= Len(to)
    BY <1>6, <1>7, <2>1, <2>2
  <2>3. CASE ~ (i <= Len(to))
    <3> DEFINE j == i - Len(to) + Len(from)
    <3>1. q[i] = p[j] /\ r[i] = u[j]
      BY <1>6, <1>7, <2>1, <2>3
    <3>2. j \in 1 .. Len(p) - 1
      BY <1>1, <1>4, <1>7, <2>3
    <3>3. QED
      BY <1>4, <2>1, <3>1, <3>2
  <2>4. QED
    BY <2>2, <2>3
<1>12. Parent(q) = r
  BY <1>7, <1>10, <1>11, SeqEqual
<1>13. QED
  BY <1>3, <1>5, <1>8, <1>12 DEF q, r, u

------------------------------------------------------------------------------
(* Greatest numbers *)

\* A nonempty bounded set of numbers has a greatest one, which is one of them.
LEMMA MaxIs ==
    ASSUME NEW S, S \subseteq Nat, S # {}, NEW n \in Nat, \A x \in S : x <= n
    PROVE  Max(S) \in S /\ \A x \in S : x <= Max(S)
<1> DEFINE gaps == {g \in Nat : n - g \in S}
<1>1. gaps # {}
  <2>1. PICK x \in S : TRUE
    OBVIOUS
  <2>2. n - x \in Nat /\ n - (n - x) = x
    BY <2>1
  <2>3. QED
    BY <2>1, <2>2
<1>2. PICK g \in gaps : \A h \in gaps : <<h, g>> \notin OpToRel(<, Nat)
  <2>1. gaps \subseteq Nat
    OBVIOUS
  <2> HIDE DEF gaps
  <2>2. QED
    BY <1>1, <2>1, NatLessThanWellFounded, WFMin, Zenon
<1>3. \A h \in gaps : ~ (h < g)
  BY <1>2, Zenon DEF OpToRel
<1>4. n - g \in S
  OBVIOUS
<1>5. ASSUME NEW x \in S
      PROVE  x <= n - g
  <2>1. x \in Nat /\ n - x \in Nat /\ n - (n - x) = x
    OBVIOUS
  <2>2. n - x \in gaps
    BY <2>1
  <2>3. ~ (n - x < g)
    BY <1>3, <2>2
  <2>4. QED
    BY <2>1, <2>3
<1>6. \A x \in S : n - g >= x
  BY <1>5
<1>7. QED
  BY <1>4, <1>6 DEF Max

\* The greater of two numbers.
LEMMA MaxOfTwo ==
    ASSUME NEW a \in Nat, NEW b \in Nat
    PROVE  /\ Max({a, b}) \in Nat /\ a <= Max({a, b}) /\ b <= Max({a, b})
           /\ Max({a, b}) \in {a, b}
<1>1. {a, b} \subseteq Nat /\ {a, b} # {} /\ a + b \in Nat /\ \A x \in {a, b} : x <= a + b
  OBVIOUS
<1> DEFINE S == {a, b}
<1>2. a \in S /\ b \in S
  OBVIOUS
<1> HIDE DEF S
<1>3. Max(S) \in S /\ \A x \in S : x <= Max(S)
  BY <1>1, MaxIs DEF S
<1>4. QED
  BY <1>2, <1>3 DEF S

------------------------------------------------------------------------------
(* The way from the root to a path *)

\* The path that ends after n names of p.
At(p, n) == SubSeq(p, 1, n)

\* How far along a path that is.
LEMMA AtIsSequence ==
    ASSUME NEW p \in Paths, NEW n \in 0 .. Len(p)
    PROVE  /\ At(p, n) \in Seq(Name) /\ Len(At(p, n)) = n
           /\ \A i \in 1 .. n : At(p, n)[i] = p[i]
<1>1. p \in Seq(Name) /\ Len(p) \in Nat
  BY PathIsSequence
<1>2. n \in Nat /\ \A i \in 1 .. n : p[i] \in Name
  BY <1>1, ElementOfSeq
<1>3. /\ SubSeq(p, 1, n) \in Seq(Name) /\ Len(SubSeq(p, 1, n)) = IF 1 <= n THEN n - 1 + 1 ELSE 0
      /\ \A i \in 1 .. n - 1 + 1 : SubSeq(p, 1, n)[i] = p[1 + i - 1]
  BY <1>2, SubSeqProperties
<1> HIDE DEF At
<1>4. Len(SubSeq(p, 1, n)) = n
  BY <1>2, <1>3
<1>5. \A i \in 1 .. n : SubSeq(p, 1, n)[i] = p[i]
  BY <1>2, <1>3
<1>6. QED
  BY <1>3, <1>4, <1>5 DEF At

\* The way ends at the path.
LEMMA AtEnds == \A p \in Paths : At(p, Len(p)) = p
  BY PathIsSequence, SubSeqFull DEF At

\* One name less is the parent.
LEMMA AtParent ==
    ASSUME NEW p \in Paths, NEW n \in 1 .. Len(p), At(p, n) \in Paths
    PROVE  At(p, n) # Root /\ Parent(At(p, n)) = At(p, n - 1)
<1>1. Len(p) \in Nat /\ n \in 0 .. Len(p) /\ n - 1 \in 0 .. Len(p) /\ n \in Nat
  BY PathIsSequence
<1>2. /\ At(p, n) \in Seq(Name) /\ Len(At(p, n)) = n
      /\ \A i \in 1 .. n : At(p, n)[i] = p[i]
  BY <1>1, AtIsSequence
<1> DEFINE m == n - 1
<1>3. m \in 0 .. Len(p)
  BY <1>1
<1> HIDE DEF m
<1>4. /\ At(p, m) \in Seq(Name) /\ Len(At(p, m)) = m
      /\ \A i \in 1 .. m : At(p, m)[i] = p[i]
  BY <1>3, AtIsSequence
<1>5. At(p, n) # Root
  BY <1>1, <1>2, RootIs
<1>6. /\ Parent(At(p, n)) \in Paths /\ Len(Parent(At(p, n))) = n - 1
      /\ \A i \in 1 .. n - 1 : Parent(At(p, n))[i] = At(p, n)[i]
  BY <1>2, <1>5, ParentIs
<1>7. Parent(At(p, n)) \in Seq(Name) /\ Len(Parent(At(p, n))) = Len(At(p, m))
  BY <1>4, <1>6, PathIsSequence DEF m
<1>8. \A i \in 1 .. Len(Parent(At(p, n))) : Parent(At(p, n))[i] = At(p, m)[i]
  BY <1>1, <1>2, <1>4, <1>6 DEF m
<1>9. Parent(At(p, n)) = At(p, m)
  BY <1>4, <1>7, <1>8, SeqEqual
<1>10. QED
  BY <1>5, <1>9 DEF m

\* All of the way consists of paths.
LEMMA AtIsPath == \A p \in Paths : \A n \in 0 .. Len(p) : At(p, n) \in Paths
<1> SUFFICES ASSUME NEW p \in Paths PROVE \A n \in 0 .. Len(p) : At(p, n) \in Paths
  OBVIOUS
<1>1. Len(p) \in Nat
  BY PathIsSequence
<1> DEFINE bad == {n \in 0 .. Len(p) : At(p, n) \notin Paths}
<1> SUFFICES ASSUME bad # {} PROVE FALSE
  OBVIOUS
<1> DEFINE m == Max(bad)
<1>2. bad \subseteq Nat /\ \A x \in bad : x <= Len(p)
  BY <1>1
<1>3. m \in bad /\ \A x \in bad : x <= m
  <2> HIDE DEF bad
  <2>1. QED
    BY <1>1, <1>2, MaxIs
<1> HIDE DEF m
<1>4. m \in 0 .. Len(p) /\ m # Len(p)
  BY <1>3, AtEnds
<1>5. m + 1 \in 1 .. Len(p) /\ m + 1 \notin bad
  BY <1>1, <1>3, <1>4
<1>6. At(p, m + 1) \in Paths
  BY <1>1, <1>5
<1>7. Parent(At(p, m + 1)) = At(p, (m + 1) - 1)
  BY <1>5, <1>6, AtParent
<1>8. (m + 1) - 1 = m
  BY <1>4
<1>9. At(p, m) \in Paths
  BY <1>6, <1>7, <1>8, ParentIsPath
<1>10. QED
  BY <1>3, <1>9

\* The way goes down.
LEMMA AtAbove ==
    ASSUME NEW p \in Paths, NEW n \in 0 .. Len(p), NEW m \in 0 .. Len(p)
    PROVE  /\ IsPrefix(At(p, n), p)
           /\ n <= m <=> IsPrefix(At(p, n), At(p, m))
           /\ At(p, n) = At(p, m) => n = m
           /\ At(p, n) = p => n = Len(p)
<1>1. p \in Seq(Name) /\ Len(p) \in Nat /\ n \in Nat /\ m \in Nat /\ n <= Len(p) /\ m <= Len(p)
  BY PathIsSequence
<1>2. \A k \in {n, m} : /\ At(p, k) \in Seq(Name) /\ Len(At(p, k)) = k
                        /\ \A i \in 1 .. k : At(p, k)[i] = p[i]
  BY AtIsSequence
<1>3. IsPrefix(At(p, n), p)
  BY <1>1, <1>2, PrefixIs
<1>4. n <= m <=> IsPrefix(At(p, n), At(p, m))
  <2>1. n <= m => \A i \in 1 .. n : At(p, n)[i] = At(p, m)[i]
    BY <1>1, <1>2
  <2>2. QED
    BY <1>1, <1>2, <2>1, PrefixIs
<1>5. QED
  BY <1>1, <1>2, <1>3, <1>4

------------------------------------------------------------------------------
(* The steps of a transaction, field by field *)

Table == [Paths -> Entry \cup {Absent}]
Tombs == [Paths -> Nat]
Totals == [inlineBytes : Int, entries : Int, nextIno : Nat]
Feed == [Paths -> [seq : Nat, present : BOOLEAN]]
Counters == [ino : Nat, seq : Nat]
Deltas == UNION {[D -> Int] : D \in SUBSET Paths}
Halts == [alloc : Counters, full : BOOLEAN]

Transaction ==
  [entries : Table, tombstones : Tombs, usage : Totals, changes : Feed, alloc : Counters,
   parents : SUBSET Paths, deltas : Deltas, recount : BOOLEAN, halt : Halts \cup {Absent}]

\* What the deltas of a transaction say of a path.
DeltaOf(ds, q) == IF q \in DOMAIN ds THEN ds[q] ELSE 0

\* Deltas are numbers.
LEMMA DeltaType == \A ds \in Deltas : /\ ds \in [DOMAIN ds -> Int] /\ DOMAIN ds \subseteq Paths
                                      /\ \A q : DeltaOf(ds, q) \in Int
  BY DEF Deltas, DeltaOf

\* There are no deltas at first.
LEMMA NoDeltas == << >> \in Deltas /\ \A q : DeltaOf(<< >>, q) = 0
<1>1. << >> \in [{} -> Int] /\ DOMAIN << >> = {}
  OBVIOUS
<1>2. QED
  BY <1>1 DEF Deltas, DeltaOf

\* A table with rows in their places.
LEMMA WithIs ==
    ASSUME NEW table, NEW V, table \in [Paths -> V], NEW rows, DOMAIN rows \subseteq Paths,
           \A p \in DOMAIN rows : rows[p] \in V
    PROVE  /\ With(table, rows) \in [Paths -> V]
           /\ \A p \in Paths : With(table, rows)[p] = IF p \in DOMAIN rows THEN rows[p] ELSE table[p]
  BY DEF With

\* r is tx after it announced the paths ps.
IsAnnounced(tx, r, ps, present) ==
  /\ r \in Transaction
  /\ r.entries = tx.entries /\ r.tombstones = tx.tombstones /\ r.usage = tx.usage
  /\ r.parents = tx.parents /\ r.deltas = tx.deltas
  /\ r.recount = tx.recount /\ r.halt = tx.halt
  /\ r.alloc.ino = tx.alloc.ino /\ r.alloc.seq = tx.alloc.seq + 1
  /\ \A p \in Paths : r.changes[p] = IF p \in ps THEN [seq |-> tx.alloc.seq + 1, present |-> present]
                                     ELSE tx.changes[p]

\* Announce.
LEMMA AnnounceIs ==
    ASSUME NEW tx \in Transaction, NEW ps, ps \subseteq Paths, NEW present \in BOOLEAN
    PROVE  IsAnnounced(tx, Announce(tx, ps, present), ps, present)
<1> DEFINE seq == tx.alloc.seq + 1
           rows == [p \in ps |-> [seq |-> seq, present |-> present]]
           changed == With(tx.changes, rows)
           r == Announce(tx, ps, present)
<1>1. tx.alloc \in Counters /\ tx.changes \in Feed /\ seq \in Nat
  BY DEF Transaction, Counters
<1>2. /\ changed \in Feed
      /\ \A p \in Paths : changed[p] = IF p \in ps THEN [seq |-> seq, present |-> present]
                                       ELSE tx.changes[p]
  <2> DEFINE V == [seq : Nat, present : BOOLEAN]
  <2>1. /\ tx.changes \in [Paths -> V] /\ DOMAIN rows = ps
        /\ \A p \in ps : rows[p] \in V /\ rows[p] = [seq |-> seq, present |-> present]
    BY <1>1 DEF Feed
  <2> HIDE DEF rows, V
  <2>2. /\ With(tx.changes, rows) \in [Paths -> V]
        /\ \A p \in Paths : With(tx.changes, rows)[p] = IF p \in DOMAIN rows THEN rows[p]
                                                        ELSE tx.changes[p]
    BY <2>1, WithIs
  <2>3. QED
    BY <2>1, <2>2 DEF V, Feed
<1>3. r = [[tx EXCEPT !.alloc.seq = seq] EXCEPT !.changes = changed]
  BY DEF Announce
<1> HIDE DEF changed, seq
<1>4. /\ r \in Transaction
      /\ r.entries = tx.entries /\ r.tombstones = tx.tombstones /\ r.usage = tx.usage
      /\ r.parents = tx.parents /\ r.deltas = tx.deltas
      /\ r.recount = tx.recount /\ r.halt = tx.halt
      /\ r.alloc.ino = tx.alloc.ino /\ r.alloc.seq = seq /\ r.changes = changed
  <2> DEFINE c == [tx.alloc EXCEPT !.seq = seq]
  <2>1. c \in Counters /\ c.ino = tx.alloc.ino /\ c.seq = seq
    BY <1>1 DEF Counters
  <2>2. r = [[tx EXCEPT !.alloc = c] EXCEPT !.changes = changed]
    BY <1>3
  <2> HIDE DEF c
  <2>3. QED
    BY <1>2, <2>1, <2>2 DEF Transaction
<1>5. QED
  BY <1>2, <1>4 DEF IsAnnounced, seq

\* r is tx after it noted the parents of the paths ps.
IsNoted(tx, r, ps) ==
  /\ r \in Transaction
  /\ r.entries = tx.entries /\ r.tombstones = tx.tombstones /\ r.usage = tx.usage
  /\ r.changes = tx.changes /\ r.alloc = tx.alloc /\ r.deltas = tx.deltas
  /\ r.recount = tx.recount /\ r.halt = tx.halt
  /\ r.parents = tx.parents \cup {Parent(p) : p \in ps}

\* NotePending.
LEMMA NotePendingIs ==
    ASSUME NEW tx \in Transaction, NEW ps, ps \subseteq Paths
    PROVE  IsNoted(tx, NotePending(tx, ps), ps)
<1> DEFINE parents == tx.parents \cup {Parent(p) : p \in ps}
<1>1. parents \in SUBSET Paths
  BY ParentIsPath DEF Transaction
<1>2. NotePending(tx, ps) = [tx EXCEPT !.parents = parents]
  BY DEF NotePending
<1> HIDE DEF parents
<1>3. NotePending(tx, ps).parents = parents
  BY <1>2 DEF Transaction
<1>4. QED
  BY <1>1, <1>2, <1>3 DEF IsNoted, Transaction, parents

\* r is tx after it noted that p has d directories more.
IsCounted(tx, r, p, d) ==
  /\ r \in Transaction
  /\ r.entries = tx.entries /\ r.tombstones = tx.tombstones /\ r.usage = tx.usage
  /\ r.changes = tx.changes /\ r.alloc = tx.alloc /\ r.parents = tx.parents
  /\ r.recount = tx.recount /\ r.halt = tx.halt
  /\ \A q \in Paths : DeltaOf(r.deltas, q) = DeltaOf(tx.deltas, q) + (IF q = p THEN d ELSE 0)

\* NoteDelta.
LEMMA NoteDeltaIs ==
    ASSUME NEW tx \in Transaction, NEW p \in Paths, NEW d \in Int
    PROVE  IsCounted(tx, NoteDelta(tx, p, d), p, d)
<1> DEFINE D == DOMAIN tx.deltas \cup {p}
           ds == [q \in D |-> DeltaOf(tx.deltas, q) + (IF q = p THEN d ELSE 0)]
<1>1. /\ DOMAIN tx.deltas \subseteq Paths
      /\ \A q : DeltaOf(tx.deltas, q) \in Int
      /\ \A q : q \notin DOMAIN tx.deltas => DeltaOf(tx.deltas, q) = 0
  BY DeltaType DEF Transaction, DeltaOf
<1>2. ds \in Deltas
  <2>1. D \in SUBSET Paths /\ ds \in [D -> Int]
    BY <1>1
  <2>2. QED
    BY <2>1 DEF Deltas
<1>3. \A q \in Paths : DeltaOf(ds, q) = DeltaOf(tx.deltas, q) + (IF q = p THEN d ELSE 0)
  <2> TAKE q \in Paths
  <2>1. CASE q \in D
    BY <2>1 DEF DeltaOf
  <2>2. CASE q \notin D
    <3>1. DeltaOf(ds, q) = 0 /\ DeltaOf(tx.deltas, q) = 0 /\ q # p
      BY <2>2 DEF DeltaOf
    <3>2. QED
      BY <3>1
  <2>3. QED
    BY <2>1, <2>2
<1>4. NoteDelta(tx, p, d) = [tx EXCEPT !.deltas = ds]
  BY DEF NoteDelta, DeltaOf
<1> HIDE DEF ds
<1>5. NoteDelta(tx, p, d).deltas = ds
  BY <1>4 DEF Transaction
<1>6. /\ NoteDelta(tx, p, d) \in Transaction
      /\ NoteDelta(tx, p, d).entries = tx.entries
      /\ NoteDelta(tx, p, d).tombstones = tx.tombstones
      /\ NoteDelta(tx, p, d).usage = tx.usage /\ NoteDelta(tx, p, d).changes = tx.changes
      /\ NoteDelta(tx, p, d).alloc = tx.alloc /\ NoteDelta(tx, p, d).parents = tx.parents
      /\ NoteDelta(tx, p, d).recount = tx.recount /\ NoteDelta(tx, p, d).halt = tx.halt
  BY <1>2, <1>4 DEF Transaction
<1>7. QED
  BY <1>3, <1>5, <1>6 DEF IsCounted

\* r is tx after it noted whether to count anew.
IsRecounted(tx, r, recount) ==
  /\ r \in Transaction
  /\ r.entries = tx.entries /\ r.tombstones = tx.tombstones /\ r.usage = tx.usage
  /\ r.changes = tx.changes /\ r.alloc = tx.alloc /\ r.deltas = tx.deltas
  /\ r.parents = tx.parents /\ r.halt = tx.halt
  /\ r.recount = (tx.recount \/ recount)

\* NoteRecount.
LEMMA NoteRecountIs ==
    ASSUME NEW tx \in Transaction, NEW recount \in BOOLEAN
    PROVE  IsRecounted(tx, NoteRecount(tx, recount), recount)
<1> DEFINE b == tx.recount \/ recount
<1>1. NoteRecount(tx, recount) = [tx EXCEPT !.recount = b] /\ b \in BOOLEAN
  BY DEF NoteRecount
<1> HIDE DEF b
<1>2. NoteRecount(tx, recount).recount = b
  BY <1>1 DEF Transaction
<1>3. QED
  BY <1>1, <1>2 DEF IsRecounted, Transaction, b

\* r is tx after its totals changed.
IsTotalled(tx, r, bytes, count) ==
  /\ r \in Transaction
  /\ r.entries = tx.entries /\ r.tombstones = tx.tombstones
  /\ r.changes = tx.changes /\ r.alloc = tx.alloc /\ r.deltas = tx.deltas
  /\ r.parents = tx.parents /\ r.recount = tx.recount /\ r.halt = tx.halt
  /\ r.usage.inlineBytes = tx.usage.inlineBytes + bytes
  /\ r.usage.entries = tx.usage.entries + count
  /\ r.usage.nextIno \in {tx.usage.nextIno, tx.alloc.ino} /\ r.usage.nextIno >= tx.usage.nextIno
  /\ bytes # 0 \/ count # 0 => r.usage.nextIno >= tx.alloc.ino

\* UpdateUsage.
LEMMA UpdateUsageIs ==
    ASSUME NEW tx \in Transaction, NEW bytes \in Int, NEW count \in Int
    PROVE  IsTotalled(tx, UpdateUsage(tx, bytes, count), bytes, count)
<1>1. tx.usage \in Totals /\ tx.alloc \in Counters
  BY DEF Transaction
<1>2. CASE bytes = 0 /\ count = 0
  <2>1. UpdateUsage(tx, bytes, count) = tx
    BY <1>2 DEF UpdateUsage
  <2>2. QED
    BY <1>1, <1>2, <2>1 DEF IsTotalled, Totals, Counters
<1>3. CASE ~ (bytes = 0 /\ count = 0)
  <2> DEFINE next == Max({tx.usage.nextIno, tx.alloc.ino})
             u == [inlineBytes |-> tx.usage.inlineBytes + bytes,
                   entries |-> tx.usage.entries + count, nextIno |-> next]
             r == [tx EXCEPT !.usage = u]
  <2>1. tx.usage.nextIno \in Nat /\ tx.alloc.ino \in Nat
    BY <1>1 DEF Totals, Counters
  <2>2. /\ next \in Nat /\ next \in {tx.usage.nextIno, tx.alloc.ino}
        /\ next >= tx.usage.nextIno /\ next >= tx.alloc.ino
    BY <2>1, MaxOfTwo
  <2>3. UpdateUsage(tx, bytes, count) = r
    BY <1>3 DEF UpdateUsage
  <2> HIDE DEF next
  <2>4. u \in Totals
    BY <1>1, <2>2 DEF Totals
  <2>5. /\ u.inlineBytes = tx.usage.inlineBytes + bytes
        /\ u.entries = tx.usage.entries + count /\ u.nextIno = next
    OBVIOUS
  <2> HIDE DEF u
  <2>6. /\ r \in Transaction /\ r.usage = u
        /\ r.entries = tx.entries /\ r.tombstones = tx.tombstones
        /\ r.changes = tx.changes /\ r.alloc = tx.alloc /\ r.deltas = tx.deltas
        /\ r.parents = tx.parents /\ r.recount = tx.recount /\ r.halt = tx.halt
    BY <2>4 DEF Transaction
  <2> HIDE DEF r
  <2>7. QED
    BY <2>2, <2>3, <2>5, <2>6 DEF IsTotalled
<1>4. QED
  BY <1>2, <1>3

\* r is tx, given up if it was not before and ok is FALSE.
IsWeighed(tx, r, ok) ==
  /\ r \in Transaction
  /\ r.entries = tx.entries /\ r.tombstones = tx.tombstones /\ r.usage = tx.usage
  /\ r.changes = tx.changes /\ r.alloc = tx.alloc /\ r.deltas = tx.deltas
  /\ r.parents = tx.parents /\ r.recount = tx.recount
  /\ r.halt = IF tx.halt # Absent \/ ok THEN tx.halt ELSE [alloc |-> tx.alloc, full |-> TRUE]

\* What a transaction was given up for is not "nothing".
LEMMA HaltIs == Absent \notin Halts
  BY AbsentAssumption DEF Halts, Counters

\* AssertCapacityFrom.
LEMMA AssertCapacityIs ==
    ASSUME NEW tx \in Transaction, NEW base, NEW bytes, NEW count
    PROVE  IsWeighed(tx, AssertCapacityFrom(tx, base, bytes, count),
                     /\ bytes > 0 => base.inlineBytes + bytes <= limits.inlineBytes
                     /\ count > 0 => base.entries + count <= limits.entries)
<1> DEFINE ok == /\ bytes > 0 => base.inlineBytes + bytes <= limits.inlineBytes
                 /\ count > 0 => base.entries + count <= limits.entries
           halt == [alloc |-> tx.alloc, full |-> TRUE]
           r == AssertCapacityFrom(tx, base, bytes, count)
<1>1. r = IF ok \/ tx.halt # Absent THEN tx ELSE [tx EXCEPT !.halt = halt]
  BY DEF AssertCapacityFrom, Throw
<1> SUFFICES IsWeighed(tx, r, ok)
  OBVIOUS
<1> HIDE DEF ok, r
<1>2. CASE ok \/ tx.halt # Absent
  BY <1>1, <1>2 DEF IsWeighed
<1>3. CASE ~ (ok \/ tx.halt # Absent)
  <2>1. halt \in Halts
    BY DEF Halts, Transaction
  <2>2. r = [tx EXCEPT !.halt = halt]
    BY <1>1, <1>3
  <2> HIDE DEF halt
  <2>3. /\ r \in Transaction /\ r.halt = halt
        /\ r.entries = tx.entries /\ r.tombstones = tx.tombstones /\ r.usage = tx.usage
        /\ r.changes = tx.changes /\ r.alloc = tx.alloc /\ r.deltas = tx.deltas
        /\ r.parents = tx.parents /\ r.recount = tx.recount
    BY <2>1, <2>2 DEF Transaction
  <2>4. QED
    BY <1>3, <2>3 DEF IsWeighed, halt
<1>4. QED
  BY <1>2, <1>3

\* r is tx with n inode numbers less to give.
IsAllocated(tx, r, n) ==
  /\ r \in Transaction
  /\ r.entries = tx.entries /\ r.tombstones = tx.tombstones /\ r.usage = tx.usage
  /\ r.changes = tx.changes /\ r.deltas = tx.deltas
  /\ r.parents = tx.parents /\ r.recount = tx.recount /\ r.halt = tx.halt
  /\ r.alloc.ino = tx.alloc.ino + n /\ r.alloc.seq = tx.alloc.seq

\* AllocateIno.
LEMMA AllocateInoIs ==
    ASSUME NEW tx \in Transaction, NEW n \in Nat
    PROVE  IsAllocated(tx, AllocateIno(tx, n), n)
<1> DEFINE ino == tx.alloc.ino + n
<1>1. AllocateIno(tx, n) = [tx EXCEPT !.alloc.ino = ino]
  BY DEF AllocateIno
<1>2. ino \in Nat
  BY DEF Transaction, Counters
<1> HIDE DEF ino
<1>3. /\ AllocateIno(tx, n).alloc.ino = ino
      /\ AllocateIno(tx, n).alloc.seq = tx.alloc.seq
  BY <1>1 DEF Transaction, Counters
<1>4. QED
  BY <1>1, <1>2, <1>3 DEF IsAllocated, Transaction, Counters, ino

\* r is tx with new rows.
IsInserted(tx, r, rows) ==
  /\ r \in Transaction
  /\ r.usage = tx.usage /\ r.changes = tx.changes /\ r.alloc = tx.alloc
  /\ r.deltas = tx.deltas /\ r.parents = tx.parents
  /\ r.recount = tx.recount /\ r.halt = tx.halt
  /\ \A p \in Paths :
       /\ r.entries[p] = IF p \in DOMAIN rows THEN rows[p] ELSE tx.entries[p]
       /\ r.tombstones[p] = IF p \in DOMAIN rows THEN 0 ELSE tx.tombstones[p]

\* Insert.
LEMMA InsertIs ==
    ASSUME NEW tx \in Transaction, NEW rows, DOMAIN rows \subseteq Paths,
           \A p \in DOMAIN rows : rows[p] \in Entry
    PROVE  IsInserted(tx, Insert(tx, rows), rows)
<1> DEFINE none == [p \in DOMAIN rows |-> 0]
           es == With(tx.entries, rows)
           tombs == With(tx.tombstones, none)
           V == Entry \cup {Absent}
<1>1. tx.entries \in [Paths -> V] /\ \A p \in DOMAIN rows : rows[p] \in V
  BY DEF Transaction, Table
<1>2. es \in [Paths -> V] /\ \A p \in Paths : es[p] = IF p \in DOMAIN rows THEN rows[p]
                                                      ELSE tx.entries[p]
  <2> HIDE DEF V
  <2>1. QED
    BY <1>1, WithIs
<1>3. tx.tombstones \in [Paths -> Nat] /\ \A p \in DOMAIN none : none[p] \in Nat /\ none[p] = 0
  BY DEF Transaction, Tombs
<1>4. DOMAIN none = DOMAIN rows
  OBVIOUS
<1>5. Insert(tx, rows) = [tx EXCEPT !.entries = es, !.tombstones = tombs]
  BY DEF Insert
<1> HIDE DEF none
<1>6. tombs \in [Paths -> Nat] /\ \A p \in Paths : tombs[p] = IF p \in DOMAIN rows THEN 0
                                                              ELSE tx.tombstones[p]
  <2>1. tombs \in [Paths -> Nat] /\ \A p \in Paths : tombs[p] = IF p \in DOMAIN none THEN none[p]
                                                                ELSE tx.tombstones[p]
    BY <1>3, <1>4, WithIs
  <2>2. QED
    BY <1>3, <1>4, <2>1
<1> HIDE DEF es, tombs
<1>7. Insert(tx, rows).entries = es /\ Insert(tx, rows).tombstones = tombs
  BY <1>5 DEF Transaction
<1>8. /\ Insert(tx, rows) \in Transaction
      /\ Insert(tx, rows).usage = tx.usage /\ Insert(tx, rows).changes = tx.changes
      /\ Insert(tx, rows).alloc = tx.alloc /\ Insert(tx, rows).deltas = tx.deltas
      /\ Insert(tx, rows).parents = tx.parents /\ Insert(tx, rows).recount = tx.recount
      /\ Insert(tx, rows).halt = tx.halt
  BY <1>2, <1>5, <1>6 DEF Transaction, Table, Tombs
<1>9. QED
  BY <1>2, <1>6, <1>7, <1>8 DEF IsInserted

\* r is tx with another size at p.
IsUpdated(tx, r, p, size) ==
  /\ r \in Transaction
  /\ r.tombstones = tx.tombstones
  /\ r.usage = tx.usage /\ r.changes = tx.changes /\ r.alloc = tx.alloc
  /\ r.deltas = tx.deltas /\ r.parents = tx.parents
  /\ r.recount = tx.recount /\ r.halt = tx.halt
  /\ r.entries[p] = [tx.entries[p] EXCEPT !.size = size, !.version = @ + 1]
  /\ \A q \in Paths \ {p} : r.entries[q] = tx.entries[q]

\* Update.
LEMMA UpdateIs ==
    ASSUME NEW tx \in Transaction, NEW p \in Paths, tx.entries[p] # Absent, NEW size \in Nat
    PROVE  IsUpdated(tx, Update(tx, p, size), p, size)
<1> DEFINE row == [tx.entries[p] EXCEPT !.size = size, !.version = @ + 1]
           es == [tx.entries EXCEPT ![p] = row]
           r == Update(tx, p, size)
<1>1. tx.entries \in [Paths -> Entry \cup {Absent}] /\ tx.entries[p] \in Entry
  BY DEF Transaction, Table
<1>2. row \in Entry
  <2> DEFINE e == tx.entries[p]
             v == e.version + 1
  <2>1. e \in Entry /\ v \in Nat
    BY <1>1 DEF Entry
  <2>2. row = [[e EXCEPT !.size = size] EXCEPT !.version = v]
    BY <2>1 DEF Entry
  <2> HIDE DEF e, v, row
  <2>3. QED
    BY <2>1, <2>2 DEF Entry
<1>3. r = [tx EXCEPT !.entries = es]
  <2>1. [[tx.entries EXCEPT ![p].size = size] EXCEPT ![p].version = @ + 1] = es
    <3> DEFINE middle == [tx.entries EXCEPT ![p].size = size]
    <3>1. middle[p] = [tx.entries[p] EXCEPT !.size = size]
      BY <1>1
    <3>2. [middle EXCEPT ![p].version = @ + 1] = [middle EXCEPT ![p] = row]
      BY <3>1
    <3>3. [middle EXCEPT ![p] = row] = es
      BY <1>1
    <3>4. QED
      BY <3>2, <3>3
  <2> DEFINE half == [tx EXCEPT !.entries[p].size = size]
  <2>2. half.entries = [tx.entries EXCEPT ![p].size = size]
    BY DEF Transaction
  <2>3. half = [tx EXCEPT !.entries = half.entries]
    BY DEF Transaction
  <2>4. [half EXCEPT !.entries[p].version = @ + 1]
        = [half EXCEPT !.entries = [half.entries EXCEPT ![p].version = @ + 1]]
    OBVIOUS
  <2>5. r = [half EXCEPT !.entries[p].version = @ + 1]
    BY DEF Update
  <2> HIDE DEF half, r
  <2>6. r = [half EXCEPT !.entries = es]
    BY <2>1, <2>2, <2>4, <2>5
  <2>7. QED
    BY <2>3, <2>6 DEF Transaction
<1> HIDE DEF row, r
<1>4. es \in Table
  BY <1>1, <1>2 DEF Table
<1>5. es[p] = row /\ \A q \in Paths \ {p} : es[q] = tx.entries[q]
  BY <1>1
<1> HIDE DEF es
<1>6. /\ r \in Transaction /\ r.entries = es
      /\ r.tombstones = tx.tombstones
      /\ r.usage = tx.usage /\ r.changes = tx.changes /\ r.alloc = tx.alloc
      /\ r.deltas = tx.deltas /\ r.parents = tx.parents
      /\ r.recount = tx.recount /\ r.halt = tx.halt
  BY <1>3, <1>4 DEF Transaction
<1>7. QED
  BY <1>5, <1>6 DEF IsUpdated, row, r

\* r is tx without the rows of ps.
IsDeleted(tx, r, ps, advance) ==
  /\ r \in Transaction
  /\ r.usage = tx.usage /\ r.changes = tx.changes /\ r.alloc = tx.alloc
  /\ r.deltas = tx.deltas /\ r.parents = tx.parents
  /\ r.recount = tx.recount /\ r.halt = tx.halt
  /\ \A p \in Paths :
       /\ r.entries[p] = IF p \in ps THEN Absent ELSE tx.entries[p]
       /\ r.tombstones[p] >= tx.tombstones[p]
       /\ p \in ps /\ tx.entries[p] # Absent => r.tombstones[p] >= tx.entries[p].version + advance

\* Delete.
LEMMA DeleteIs ==
    ASSUME NEW tx \in Transaction, NEW ps, ps \subseteq Paths, NEW advance \in Nat
    PROVE  IsDeleted(tx, Delete(tx, ps, advance), ps, advance)
<1> DEFINE none == [p \in ps |-> Absent]
           left == [p \in Living(tx.entries, ps) |->
                      Max({tx.tombstones[p], tx.entries[p].version + advance})]
           es == With(tx.entries, none)
           tombs == With(tx.tombstones, left)
           V == Entry \cup {Absent}
           r == Delete(tx, ps, advance)
<1>1. tx.entries \in [Paths -> V] /\ tx.tombstones \in [Paths -> Nat]
  BY DEF Transaction, Table, Tombs
<1>2. DOMAIN none = ps /\ \A p \in DOMAIN none : none[p] = Absent /\ none[p] \in V
  OBVIOUS
<1>3. DOMAIN left = Living(tx.entries, ps)
  OBVIOUS
<1>4. ASSUME NEW p \in Living(tx.entries, ps)
      PROVE  /\ left[p] \in Nat /\ left[p] >= tx.tombstones[p]
             /\ left[p] >= tx.entries[p].version + advance
  <2> DEFINE v == tx.entries[p].version + advance
  <2>1. tx.entries[p] \in Entry
    BY <1>1 DEF Living
  <2>2. v \in Nat /\ tx.tombstones[p] \in Nat
    BY <1>1, <2>1 DEF Entry, Living
  <2>3. left[p] = Max({tx.tombstones[p], v})
    OBVIOUS
  <2> HIDE DEF v, left
  <2>4. QED
    BY <2>2, <2>3, MaxOfTwo DEF v
<1>5. r = [tx EXCEPT !.entries = es, !.tombstones = tombs]
  BY DEF Delete
<1> HIDE DEF none, left
<1>6. es \in [Paths -> V] /\ \A p \in Paths : es[p] = IF p \in ps THEN Absent ELSE tx.entries[p]
  <2> HIDE DEF V
  <2>3. /\ tx.entries \in [Paths -> V] /\ DOMAIN none \subseteq Paths
        /\ \A p \in DOMAIN none : none[p] \in V
    BY <1>1, <1>2
  <2>1. es \in [Paths -> V] /\ \A p \in Paths : es[p] = IF p \in DOMAIN none THEN none[p]
                                                        ELSE tx.entries[p]
    BY <2>3, WithIs
  <2>2. QED
    BY <1>2, <2>1
<1>7. tombs \in [Paths -> Nat] /\ \A p \in Paths : tombs[p] = IF p \in Living(tx.entries, ps)
                                                              THEN left[p] ELSE tx.tombstones[p]
  <2>1. Living(tx.entries, ps) \subseteq Paths
    BY DEF Living
  <2>2. tombs \in [Paths -> Nat] /\ \A p \in Paths : tombs[p] = IF p \in DOMAIN left
                                                                THEN left[p] ELSE tx.tombstones[p]
    BY <1>1, <1>3, <1>4, <2>1, WithIs
  <2>3. QED
    BY <1>3, <2>2
<1> HIDE DEF es, tombs, r
<1>8. /\ r \in Transaction /\ r.entries = es /\ r.tombstones = tombs
      /\ r.usage = tx.usage /\ r.changes = tx.changes /\ r.alloc = tx.alloc
      /\ r.deltas = tx.deltas /\ r.parents = tx.parents
      /\ r.recount = tx.recount /\ r.halt = tx.halt
  BY <1>5, <1>6, <1>7 DEF Transaction, Table, Tombs
<1>9. ASSUME NEW p \in Paths
      PROVE  /\ tombs[p] >= tx.tombstones[p]
             /\ p \in ps /\ tx.entries[p] # Absent => tombs[p] >= tx.entries[p].version + advance
  <2>1. CASE p \in Living(tx.entries, ps)
    BY <1>4, <1>7, <2>1
  <2>2. CASE p \notin Living(tx.entries, ps)
    <3>1. tombs[p] = tx.tombstones[p] /\ tx.tombstones[p] \in Nat
      BY <1>1, <1>7, <2>2
    <3>2. QED
      BY <2>2, <3>1 DEF Living
  <2>3. QED
    BY <2>1, <2>2
<1>10. QED
  BY <1>6, <1>8, <1>9 DEF IsDeleted, r

------------------------------------------------------------------------------
(* Tables *)

\* Every row but the root hangs from a directory.
Shaped(es) ==
  /\ Is(es, Root, "directory")
  /\ \A p \in Living(es, Paths) : Is(es, Parent(p), "directory")

\* A nonempty set of numbers has a least one.
LEMMA LeastNumber ==
    ASSUME NEW S, S \subseteq Nat, S # {}
    PROVE  \E n \in S : \A m \in S : n <= m
<1>1. PICK n \in S : \A m \in S : <<m, n>> \notin OpToRel(<, Nat)
  BY NatLessThanWellFounded, WFMin, Zenon
<1>2. \A m \in S : ~ (m < n)
  BY <1>1, Zenon DEF OpToRel
<1>3. QED
  BY <1>2

\* What is above a row is a directory.
LEMMA AboveIsDirectory ==
    ASSUME NEW es, Shaped(es), NEW q \in Paths, NEW p \in Paths, es[p] # Absent,
           IsPrefix(q, p), q # p
    PROVE  Is(es, q, "directory")
<1> DEFINE Bad(r) == es[r] # Absent /\ IsPrefix(q, r) /\ q # r
           bad == {n \in Nat : \E r \in Paths : Len(r) = n /\ Bad(r)}
<1> SUFFICES ASSUME ~ Is(es, q, "directory") PROVE FALSE
  OBVIOUS
<1>1. bad # {}
  BY PathIsSequence
<1>2. PICK n \in bad : \A m \in bad : n <= m
  <2>1. bad \subseteq Nat
    OBVIOUS
  <2> HIDE DEF bad
  <2>2. QED
    BY <1>1, <2>1, LeastNumber
<1>3. PICK r \in Paths : Len(r) = n /\ Bad(r)
  OBVIOUS
<1>4. r # Root
  BY <1>3, RootAbove, PrefixOrder, RootIs
<1>5. /\ Parent(r) \in Paths /\ Len(Parent(r)) = n - 1 /\ n \in Nat \ {0}
  BY <1>3, <1>4, ParentIs
<1>6. Is(es, Parent(r), "directory")
  BY <1>3 DEF Shaped, Living
<1>7. IsPrefix(q, Parent(r)) /\ q # Parent(r)
  BY <1>3, <1>4, <1>6, ParentAbove
<1>8. Bad(Parent(r))
  BY <1>6, <1>7 DEF Is
<1>9. n - 1 \in bad
  BY <1>5, <1>8
<1>10. QED
  BY <1>2, <1>5, <1>9

\* Sizes, by path.
SizeAt(es) == [p \in Paths |-> es[p].size]

\* SizeOf adds up the sizes of the rows.
LEMMA SizeOfIs ==
    ASSUME NEW es, NEW ps, ps \subseteq Paths
    PROVE  SizeOf(es, ps) = SumOf(SizeAt(es), Living(es, ps))
<1> DEFINE w == SizeAt(es)
           S == Living(es, ps)
           Q(g) == g = [s \in SUBSET S |-> IF s = {} THEN 0
                                           ELSE es[Chosen(s)].size + g[s \ {Chosen(s)}]]
<1>1. SizeOf(es, ps) = (CHOOSE g : Q(g))[S]
  BY DEF SizeOf, MapThenSumSet, MapThenFoldSet, Chosen
<1>2. S \subseteq Paths
  BY DEF Living
<1>3. \A s \in SUBSET S : s # {} => w[Chosen(s)] = es[Chosen(s)].size
  BY <1>2 DEF Chosen, SizeAt
<1> HIDE DEF w, S
<1>4. \A g : Q(g) <=> Adds(w, S, g)
  BY <1>3 DEF Adds
<1>5. IsFiniteSet(S)
  BY <1>2, PathsAssumption, FS_Subset
<1>6. PICK g : Adds(w, S, g)
  BY <1>5, AddsExists
<1> HIDE DEF Q
<1>7. Q(CHOOSE h : Q(h))
  BY <1>4, <1>6
<1>8. Adds(w, S, CHOOSE h : Q(h))
  BY <1>4, <1>7
<1>9. SumOf(w, S) = (CHOOSE h : Q(h))[S]
  BY <1>5, <1>8, SumIsSolution
<1>10. QED
  BY <1>1, <1>9 DEF w, S

\* Rows have sizes, and there are finitely many.
LEMMA LivingIs ==
    ASSUME NEW es \in Table, NEW ps, ps \subseteq Paths
    PROVE  /\ Living(es, ps) \subseteq Paths /\ IsFiniteSet(Living(es, ps))
           /\ Cardinality(Living(es, ps)) \in Nat
           /\ \A p \in Living(es, ps) : es[p] \in Entry /\ SizeAt(es)[p] = es[p].size /\ es[p].size \in Nat
           /\ SizeOf(es, ps) \in Nat
<1> DEFINE S == Living(es, ps)
           w == SizeAt(es)
<1>1. S \subseteq Paths
  BY DEF Living
<1>2. IsFiniteSet(S) /\ Cardinality(S) \in Nat
  BY <1>1, PathsAssumption, FS_Subset, FS_CardinalityType
<1>3. \A p \in S : es[p] \in Entry /\ w[p] = es[p].size /\ es[p].size \in Nat
  BY <1>1 DEF Living, Table, Entry, SizeAt
<1> HIDE DEF S, w
<1>4. SumOf(w, S) \in Nat
  <2>1. \A p \in S : w[p] \in Nat
    BY <1>3
  <2>2. QED
    BY <1>2, <2>1, SumNatural
<1>5. SizeOf(es, ps) \in Nat
  BY <1>4, SizeOfIs DEF S, w
<1>6. QED
  BY <1>1, <1>2, <1>3, <1>5 DEF S, w

\* From es to fs the totals change by what is inside K.
TotalsChange(es, fs, K) ==
  /\ SizeOf(fs, Paths) = SizeOf(es, Paths) - SizeOf(es, K) + SizeOf(fs, K)
  /\ Cardinality(Living(fs, Paths)) =
       Cardinality(Living(es, Paths)) - Cardinality(Living(es, K)) + Cardinality(Living(fs, K))

\* When rows change inside K only, the totals change by what they were and are.
LEMMA TableChange ==
    ASSUME NEW es \in Table, NEW fs \in Table, NEW K, K \subseteq Paths,
           \A p \in Paths \ K : fs[p] = es[p]
    PROVE  TotalsChange(es, fs, K)
<1> DEFINE S == Living(es, Paths)
           T == Living(fs, Paths)
           w == SizeAt(es)
           v == SizeAt(fs)
<1>1. /\ IsFiniteSet(S) /\ IsFiniteSet(T)
      /\ \A p \in S : w[p] \in Nat
      /\ \A p \in T : v[p] \in Nat
  BY LivingIs
<1>2. S \ K = T \ K /\ S \cap K = Living(es, K) /\ T \cap K = Living(fs, K)
  BY DEF Living
<1>3. \A p \in S \ K : v[p] = w[p]
  BY DEF Living, SizeAt
<1>4. /\ SizeOf(es, Paths) = SumOf(w, S) /\ SizeOf(fs, Paths) = SumOf(v, T)
      /\ SizeOf(es, K) = SumOf(w, S \cap K) /\ SizeOf(fs, K) = SumOf(v, T \cap K)
  BY <1>2, SizeOfIs
<1> HIDE DEF S, T, w, v
<1>5. ChangesInside(K, w, S, v, T)
  <2>1. (\A p \in S : w[p] \in Int) /\ \A p \in T : v[p] \in Int
    BY <1>1
  <2>2. QED
    BY <1>1, <1>2, <1>3, <2>1, SumChange
<1>6. SizeOf(fs, Paths) = SizeOf(es, Paths) - SizeOf(es, K) + SizeOf(fs, K)
  BY <1>4, <1>5 DEF ChangesInside
<1>7. /\ Cardinality(S \ K) = Cardinality(S) - Cardinality(S \cap K)
      /\ Cardinality(T \ K) = Cardinality(T) - Cardinality(T \cap K)
  BY <1>1, FS_Difference
<1>8. /\ Cardinality(S) \in Nat /\ Cardinality(S \cap K) \in Nat
      /\ Cardinality(T) \in Nat /\ Cardinality(T \cap K) \in Nat
  BY <1>1, FS_Intersection, FS_CardinalityType
<1>9. Cardinality(T) = Cardinality(S) - Cardinality(S \cap K) + Cardinality(T \cap K)
  <2>1. Cardinality(S \ K) = Cardinality(T \ K)
    BY <1>2
  <2>2. QED
    BY <1>7, <1>8, <2>1
<1>10. /\ Cardinality(S \cap K) = Cardinality(Living(es, K))
       /\ Cardinality(T \cap K) = Cardinality(Living(fs, K))
  BY <1>2
<1>11. QED
  BY <1>6, <1>9, <1>10 DEF TotalsChange, S, T

\* The totals of one path.
LEMMA OnePath ==
    ASSUME NEW es \in Table, NEW p \in Paths
    PROVE  /\ es[p] = Absent => SizeOf(es, {p}) = 0 /\ Cardinality(Living(es, {p})) = 0
           /\ es[p] # Absent => SizeOf(es, {p}) = es[p].size /\ Cardinality(Living(es, {p})) = 1
<1> DEFINE one == {p}
           w == SizeAt(es)
<1>0. one \subseteq Paths
  OBVIOUS
<1>1. SizeOf(es, one) = SumOf(w, Living(es, one))
  BY <1>0, SizeOfIs
<1>2. CASE es[p] = Absent
  <2>1. Living(es, one) = {}
    BY <1>2 DEF Living
  <2>2. SumOf(w, {}) = 0 /\ Cardinality({}) = 0
    BY SumEmpty, FS_EmptySet
  <2>3. QED
    BY <1>1, <1>2, <2>1, <2>2
<1>3. CASE es[p] # Absent
  <2>1. Living(es, one) = one
    BY <1>3 DEF Living
  <2>2. w[p] = es[p].size /\ w[p] \in Int
    BY <1>0, <2>1, LivingIs
  <2> HIDE DEF w
  <2>3. SumOf(w, one) = w[p] /\ Cardinality(one) = 1
    BY <2>2, SumSingle, FS_Singleton
  <2> HIDE DEF one
  <2>4. QED
    BY <1>1, <1>3, <2>1, <2>2, <2>3 DEF one
<1>4. QED
  BY <1>2, <1>3

\* Children are below, and counted.
LEMMA ChildrenIs ==
    ASSUME NEW es, NEW p \in Paths
    PROVE  /\ \A q : q \in ChildDirectories(es, p) <=>
                       q \in Paths /\ q # Root /\ Parent(q) = p /\ Is(es, q, "directory")
           /\ IsFiniteSet(ChildDirectories(es, p)) /\ Cardinality(ChildDirectories(es, p)) \in Nat
<1>1. \A q : q \in ChildDirectories(es, p) <=>
               q \in Paths /\ q # Root /\ Parent(q) = p /\ Is(es, q, "directory")
  BY DEF ChildDirectories, Children
<1>2. ChildDirectories(es, p) \subseteq Paths
  BY <1>1
<1>3. QED
  BY <1>1, <1>2, PathsAssumption, FS_Subset, FS_CardinalityType

------------------------------------------------------------------------------
(* What holds of a transaction after each of its steps *)

\* Rows have numbers of their own, all of them spent.
Numbered(es, next) ==
  /\ \A p, q \in Living(es, Paths) : es[p].ino = es[q].ino => p = q
  /\ \A p \in Living(es, Paths) : es[p].ino < next

\* The tree is one, the totals are exact, and the allocators are ahead.
Solid(tx) ==
  /\ tx \in Transaction
  /\ Shaped(tx.entries)
  /\ tx.usage.inlineBytes = SizeOf(tx.entries, Paths)
  /\ tx.usage.entries = Cardinality(Living(tx.entries, Paths))
  /\ Numbered(tx.entries, tx.usage.nextIno)
  /\ tx.usage.nextIno <= tx.alloc.ino
  /\ usage.nextIno <= tx.usage.nextIno /\ alloc.ino <= tx.alloc.ino /\ alloc.seq <= tx.alloc.seq
  /\ \A p \in Paths : changes[p].seq <= tx.changes[p].seq /\ tx.changes[p].seq <= tx.alloc.seq
  /\ \A p \in Living(tx.entries, Paths) :
       tx.entries[p].ino \in Inos(entries) \/ tx.entries[p].ino >= alloc.ino
  /\ tx.halt # Absent => alloc.ino <= tx.halt.alloc.ino /\ alloc.seq <= tx.halt.alloc.seq

\* Link counts are right together with the deltas, but for the paths X.
Linked(tx, X) ==
  /\ \A p \in Paths \ X : Is(tx.entries, p, "directory") =>
       tx.entries[p].nlink + DeltaOf(tx.deltas, p) = 2 + Cardinality(ChildDirectories(tx.entries, p))
  /\ \A p \in Paths : DeltaOf(tx.deltas, p) # 0 => Is(tx.entries, p, "directory")

\* What has a delta will be flushed.
Pending(tx) == \A p \in Paths : DeltaOf(tx.deltas, p) # 0 => p \in tx.parents

\* Versions only advance, and what changed was announced under a new one.
Told(tx) ==
  /\ \A p \in Paths :
       Version(tx.entries, tx.tombstones, p) >= Version(entries, tombstones, p)
  /\ \A p \in Paths : tx.entries[p] # entries[p] =>
       /\ Version(tx.entries, tx.tombstones, p) > Version(entries, tombstones, p)
       /\ tx.changes[p].seq > alloc.seq
       /\ tx.changes[p].present = (tx.entries[p] # Absent)

\* Versions only advance.
Forward(tx) ==
  \A p \in Paths : Version(tx.entries, tx.tombstones, p) >= Version(entries, tombstones, p)

\* What changed has a new version.
Fresh(tx) ==
  \A p \in Paths : tx.entries[p] # entries[p] =>
    Version(tx.entries, tx.tombstones, p) > Version(entries, tombstones, p)

\* What changed was announced, but for the paths E.
Heard(tx, E) ==
  \A p \in Paths \ E : tx.entries[p] # entries[p] =>
    tx.changes[p].seq > alloc.seq /\ tx.changes[p].present = (tx.entries[p] # Absent)

\* The three together.
LEMMA ToldIs == \A tx : Told(tx) <=> Forward(tx) /\ Fresh(tx) /\ Heard(tx, {})
  BY DEF Told, Forward, Fresh, Heard

\* Versions are numbers.
LEMMA VersionType ==
    ASSUME NEW es \in Table, NEW tombs \in Tombs, NEW p \in Paths
    PROVE  Version(es, tombs, p) \in Nat
  BY DEF Version, Table, Tombs, Entry

\* A new version is ahead of the tombstone.
LEMMA NextEntryVersionIs ==
    ASSUME NEW tx \in Transaction, NEW p \in Paths, NEW previous \in Nat
    PROVE  /\ NextEntryVersion(tx, p, previous) \in Nat
           /\ NextEntryVersion(tx, p, previous) > tx.tombstones[p]
           /\ NextEntryVersion(tx, p, previous) > previous
<1>1. tx.tombstones[p] \in Nat
  BY DEF Transaction, Tombs
<1>2. QED
  BY <1>1, MaxOfTwo DEF NextEntryVersion

\* r is tx with a new row at p, counted, announced, and its parent noted.
IsPlaced(tx, r, p, row, noted) ==
  /\ r \in Transaction
  /\ \A q \in Paths : /\ r.entries[q] = IF q = p THEN row ELSE tx.entries[q]
                      /\ r.tombstones[q] = IF q = p THEN 0 ELSE tx.tombstones[q]
                      /\ r.changes[q] = IF q = p THEN [seq |-> tx.alloc.seq + 1, present |-> TRUE]
                                        ELSE tx.changes[q]
                      /\ DeltaOf(r.deltas, q) = DeltaOf(tx.deltas, q)
                           + (IF row.kind = "directory" /\ q = Parent(p) THEN 1 ELSE 0)
  /\ r.usage.inlineBytes = tx.usage.inlineBytes + row.size
  /\ r.usage.entries = tx.usage.entries + 1
  /\ r.usage.nextIno \in {tx.usage.nextIno, r.alloc.ino} /\ r.usage.nextIno >= r.alloc.ino
  /\ r.alloc.ino = tx.alloc.ino + 1 /\ r.alloc.seq = tx.alloc.seq + 1
  /\ r.parents = tx.parents \cup noted
  /\ r.recount = tx.recount /\ r.halt = tx.halt

\* A row that may be placed at p.
Placeable(tx, p, row) ==
  /\ p \in Paths /\ p # Root /\ tx.entries[p] = Absent /\ Is(tx.entries, Parent(p), "directory")
  /\ row \in Entry /\ row.ino = tx.alloc.ino /\ row.version > tx.tombstones[p]
  /\ row.kind = "directory" => row.nlink = 2

\* A row is not "nothing".
LEMMA RowIs == \A row \in Entry : row # Absent /\ row.size \in Nat /\ row.ino \in Nat
                                  /\ row.version \in Nat /\ row.nlink \in Nat
  BY AbsentAssumption DEF Entry

\* A number of the feed is between the one there was and the last one given.
LEMMA FeedIs ==
    ASSUME TypeOK, NEW tx, Solid(tx), NEW p \in Paths
    PROVE  /\ changes[p].seq \in Nat /\ tx.changes[p].seq \in Nat /\ tx.alloc.seq \in Nat
           /\ changes[p].seq <= tx.changes[p].seq /\ tx.changes[p].seq <= tx.alloc.seq
           /\ changes[p].seq <= tx.alloc.seq
<1>1. changes[p].seq \in Nat /\ tx.changes[p].seq \in Nat /\ tx.alloc.seq \in Nat
  BY DEF TypeOK, Solid, Transaction, Feed, Counters
<1>2. changes[p].seq <= tx.changes[p].seq /\ tx.changes[p].seq <= tx.alloc.seq
  BY DEF Solid
<1>3. QED
  BY <1>1, <1>2

\* A new row keeps the tree, the totals and the numbers.
LEMMA PlacedSolid ==
    ASSUME NEW tx, Solid(tx), TypeOK, NEW p, NEW row, NEW noted, Placeable(tx, p, row),
           NEW r, IsPlaced(tx, r, p, row, noted)
    PROVE  Solid(r)
<1> DEFINE es == tx.entries
           fs == r.entries
<1>1. /\ tx \in Transaction /\ r \in Transaction /\ p \in Paths /\ row \in Entry /\ row # Absent
      /\ es \in Table /\ fs \in Table /\ es[p] = Absent /\ fs[p] = row
      /\ \A q \in Paths : q # p => fs[q] = es[q]
      /\ p # Root /\ Is(es, Parent(p), "directory") /\ Parent(p) \in Paths
  BY RowIs, ParentIsPath DEF Solid, Placeable, IsPlaced, Transaction
<1>2. /\ alloc \in Counters /\ usage.nextIno \in Nat
      /\ tx.alloc \in Counters /\ r.alloc \in Counters /\ tx.usage \in Totals /\ r.usage \in Totals
      /\ \A q \in Paths : tx.changes[q].seq \in Nat /\ r.changes[q].seq \in Nat
  BY <1>1 DEF TypeOK, Transaction, Counters, Feed
<1>3. Living(fs, Paths) = Living(es, Paths) \cup {p}
  BY <1>1 DEF Living
<1>4. Shaped(fs)
  <2>1. Parent(p) # p
    BY <1>1 DEF Is
  <2>2. ASSUME NEW q \in Paths, Is(es, q, "directory")
        PROVE  Is(fs, q, "directory")
    BY <1>1, <2>2 DEF Is
  <2>3. Is(es, Root, "directory") /\ \A q \in Living(es, Paths) : Is(es, Parent(q), "directory")
    BY DEF Solid, Shaped
  <2>4. Is(fs, Root, "directory")
    BY <2>2, <2>3, RootIs
  <2>5. ASSUME NEW q \in Living(fs, Paths)
        PROVE  Is(fs, Parent(q), "directory")
    <3>1. q \in Paths /\ Parent(q) \in Paths
      BY ParentIsPath DEF Living
    <3>2. Is(es, Parent(q), "directory")
      BY <1>1, <1>3, <2>3
    <3>3. QED
      BY <2>2, <3>1, <3>2
  <2>6. QED
    BY <2>4, <2>5 DEF Shaped
<1>5. /\ SizeOf(fs, Paths) = SizeOf(es, Paths) + row.size
      /\ Cardinality(Living(fs, Paths)) = Cardinality(Living(es, Paths)) + 1
  <2> DEFINE one == {p}
  <2>1. one \subseteq Paths /\ \A q \in Paths \ one : fs[q] = es[q]
    BY <1>1
  <2>2. /\ SizeOf(es, one) = 0 /\ Cardinality(Living(es, one)) = 0
        /\ SizeOf(fs, one) = row.size /\ Cardinality(Living(fs, one)) = 1
    BY <1>1, OnePath
  <2> HIDE DEF one, es, fs
  <2>3. TotalsChange(es, fs, one)
    BY <1>1, <2>1, TableChange
  <2>4. SizeOf(es, Paths) \in Nat /\ Cardinality(Living(es, Paths)) \in Nat /\ row.size \in Nat
    BY <1>1, LivingIs, RowIs
  <2>5. QED
    BY <2>2, <2>3, <2>4 DEF TotalsChange
<1>6. /\ r.usage.inlineBytes = SizeOf(fs, Paths)
      /\ r.usage.entries = Cardinality(Living(fs, Paths))
  BY <1>5 DEF Solid, IsPlaced
<1>7. /\ tx.usage.nextIno <= tx.alloc.ino /\ r.usage.nextIno = tx.alloc.ino + 1
      /\ r.alloc.ino = tx.alloc.ino + 1 /\ r.alloc.seq = tx.alloc.seq + 1
      /\ usage.nextIno <= tx.usage.nextIno /\ alloc.ino <= tx.alloc.ino /\ alloc.seq <= tx.alloc.seq
      /\ tx.alloc.ino \in Nat /\ tx.alloc.seq \in Nat /\ tx.usage.nextIno \in Nat
      /\ alloc.ino \in Nat /\ alloc.seq \in Nat
  BY <1>2 DEF Solid, IsPlaced, Counters, Totals
<1>8. ASSUME NEW q \in Living(es, Paths)
      PROVE  /\ fs[q] = es[q] /\ q # p /\ fs[q].ino \in Nat /\ fs[q].ino < tx.alloc.ino
             /\ fs[q].ino \in Inos(entries) \/ fs[q].ino >= alloc.ino
  <2>1. es[q].ino < tx.usage.nextIno /\ es[q].ino \in Nat
    BY <1>1, LivingIs, RowIs DEF Solid, Numbered
  <2>2. q \in Paths /\ q # p
    BY <1>1 DEF Living
  <2>3. es[q].ino \in Inos(entries) \/ es[q].ino >= alloc.ino
    BY DEF Solid
  <2>4. QED
    BY <1>1, <1>7, <2>1, <2>2, <2>3
<1>9. fs[p].ino = tx.alloc.ino
  BY <1>1 DEF Placeable
<1>10. Numbered(fs, r.usage.nextIno)
  <2>1. \A q \in Living(fs, Paths) : fs[q].ino < r.usage.nextIno
    BY <1>3, <1>7, <1>8, <1>9
  <2>2. ASSUME NEW q \in Living(fs, Paths), NEW s \in Living(fs, Paths), fs[q].ino = fs[s].ino
        PROVE  q = s
    <3>1. CASE q = p \/ s = p
      BY <1>3, <1>7, <1>8, <1>9, <2>2, <3>1
    <3>2. CASE q # p /\ s # p
      <4>1. q \in Living(es, Paths) /\ s \in Living(es, Paths) /\ es[q].ino = es[s].ino
        BY <1>3, <1>8, <2>2, <3>2
      <4>2. QED
        BY <4>1 DEF Solid, Numbered
    <3>3. QED
      BY <3>1, <3>2
  <2>3. QED
    BY <2>1, <2>2 DEF Numbered
<1>11. \A q \in Living(fs, Paths) : fs[q].ino \in Inos(entries) \/ fs[q].ino >= alloc.ino
  BY <1>3, <1>7, <1>8, <1>9
<1>12. ASSUME NEW q \in Paths
       PROVE  changes[q].seq <= r.changes[q].seq /\ r.changes[q].seq <= r.alloc.seq
  <2>1. r.changes[q] = IF q = p THEN [seq |-> tx.alloc.seq + 1, present |-> TRUE] ELSE tx.changes[q]
    BY DEF IsPlaced
  <2>2. QED
    BY <1>7, <2>1, FeedIs
<1>13. r.halt # Absent => alloc.ino <= r.halt.alloc.ino /\ alloc.seq <= r.halt.alloc.seq
  BY DEF Solid, IsPlaced
<1>14. /\ r.usage.nextIno <= r.alloc.ino
       /\ usage.nextIno <= r.usage.nextIno /\ alloc.ino <= r.alloc.ino /\ alloc.seq <= r.alloc.seq
  BY <1>2, <1>7
<1>15. QED
  BY <1>1, <1>4, <1>6, <1>10, <1>11, <1>12, <1>13, <1>14 DEF Solid

\* A new row keeps the link counts.
LEMMA PlacedLinked ==
    ASSUME NEW tx, Solid(tx), NEW X, Linked(tx, X), NEW p, NEW row, NEW noted,
           Placeable(tx, p, row), NEW r, IsPlaced(tx, r, p, row, noted)
    PROVE  Linked(r, X) /\ (Pending(tx) /\ Parent(p) \in noted => Pending(r))
<1> DEFINE es == tx.entries
           fs == r.entries
           up == Parent(p)
           new == IF row.kind = "directory" THEN 1 ELSE 0
<1>1. /\ tx \in Transaction /\ r \in Transaction /\ p \in Paths /\ row \in Entry /\ row # Absent
      /\ es \in Table /\ fs \in Table /\ es[p] = Absent /\ fs[p] = row
      /\ \A q \in Paths : q # p => fs[q] = es[q]
      /\ p # Root /\ Is(es, up, "directory") /\ up \in Paths /\ up # p
  <2>1. /\ tx \in Transaction /\ r \in Transaction /\ p \in Paths /\ row \in Entry /\ row # Absent
        /\ es \in Table /\ fs \in Table /\ es[p] = Absent /\ fs[p] = row
        /\ \A q \in Paths : q # p => fs[q] = es[q]
        /\ p # Root /\ Is(es, up, "directory") /\ up \in Paths
    BY RowIs, ParentIsPath DEF Solid, Placeable, IsPlaced, Transaction
  <2>2. QED
    BY <2>1 DEF Is
<1>2. \A q : /\ DeltaOf(tx.deltas, q) \in Int
             /\ q \in Paths => DeltaOf(r.deltas, q) = DeltaOf(tx.deltas, q) + (IF q = up THEN new ELSE 0)
  <2>1. tx.deltas \in Deltas
    BY <1>1 DEF Transaction
  <2>2. ASSUME NEW q \in Paths
        PROVE  DeltaOf(r.deltas, q) = DeltaOf(tx.deltas, q) + (IF q = up THEN new ELSE 0)
    <3>1. DeltaOf(r.deltas, q) = DeltaOf(tx.deltas, q)
             + (IF row.kind = "directory" /\ q = up THEN 1 ELSE 0)
      BY DEF IsPlaced
    <3>2. (IF row.kind = "directory" /\ q = up THEN 1 ELSE 0) = IF q = up THEN new ELSE 0
      OBVIOUS
    <3>3. QED
      BY <3>1, <3>2
  <2>3. QED
    BY <2>1, <2>2, DeltaType
<1>3. \A q \in Paths : q # p => (Is(fs, q, "directory") <=> Is(es, q, "directory"))
  BY <1>1 DEF Is
<1>4. Is(fs, p, "directory") <=> row.kind = "directory"
  BY <1>1 DEF Is
<1>5. ~ Is(es, p, "directory")
  BY <1>1 DEF Is
<1>6. ASSUME NEW q \in Paths, Parent(q) = p, Is(fs, q, "directory"), q # Root
      PROVE  FALSE
  <2>1. q # p
    BY <1>1, <1>6
  <2>2. Is(es, q, "directory")
    BY <1>3, <1>6, <2>1
  <2>3. q \in Living(es, Paths)
    BY <2>2 DEF Is, Living
  <2>4. Is(es, Parent(q), "directory")
    BY <2>3 DEF Solid, Shaped
  <2>5. QED
    BY <1>5, <1>6, <2>4
<1>7. ASSUME NEW q \in Paths
      PROVE  /\ Cardinality(ChildDirectories(es, q)) \in Nat
             /\ Cardinality(ChildDirectories(fs, q)) =
                  Cardinality(ChildDirectories(es, q)) + (IF q = up THEN new ELSE 0)
  <2>1. /\ IsFiniteSet(ChildDirectories(es, q)) /\ Cardinality(ChildDirectories(es, q)) \in Nat
        /\ \A s : s \in ChildDirectories(es, q) <=>
                    s \in Paths /\ s # Root /\ Parent(s) = q /\ Is(es, s, "directory")
    BY ChildrenIs
  <2>2. \A s : s \in ChildDirectories(fs, q) <=>
                 s \in Paths /\ s # Root /\ Parent(s) = q /\ Is(fs, s, "directory")
    BY ChildrenIs
  <2>3. p \notin ChildDirectories(es, q)
    BY <1>5, <2>1
  <2>4. CASE q = up /\ row.kind = "directory"
    <3>1. ChildDirectories(fs, q) = ChildDirectories(es, q) \cup {p}
      BY <1>1, <1>3, <1>4, <2>1, <2>2, <2>4
    <3>2. Cardinality(ChildDirectories(es, q) \cup {p}) = Cardinality(ChildDirectories(es, q)) + 1
      BY <2>1, <2>3, FS_AddElement
    <3>3. QED
      BY <2>1, <2>4, <3>1, <3>2
  <2>5. CASE ~ (q = up /\ row.kind = "directory")
    <3>1. ChildDirectories(fs, q) = ChildDirectories(es, q)
      BY <1>1, <1>3, <1>4, <2>1, <2>2, <2>3, <2>5
    <3>2. QED
      BY <2>1, <2>5, <3>1
  <2>6. QED
    BY <2>4, <2>5
<1>8. ASSUME NEW q \in Paths \ X, Is(fs, q, "directory")
      PROVE  fs[q].nlink + DeltaOf(r.deltas, q) = 2 + Cardinality(ChildDirectories(fs, q))
  <2>1. CASE q = p
    <3>1. ChildDirectories(fs, p) = {}
      BY <1>6, ChildrenIs, <1>1
    <3>2. Cardinality(ChildDirectories(fs, p)) = 0
      BY <3>1, FS_EmptySet
    <3>3. fs[p].nlink = 2
      BY <1>1, <1>4, <1>8, <2>1 DEF Placeable
    <3>4. DeltaOf(tx.deltas, p) = 0
      BY <1>1, <1>5 DEF Linked
    <3>5. DeltaOf(r.deltas, p) = 0
      BY <1>1, <1>2, <3>4
    <3>6. QED
      BY <2>1, <3>2, <3>3, <3>5
  <2>2. CASE q # p
    <3>1. Is(es, q, "directory") /\ fs[q] = es[q]
      BY <1>1, <1>3, <1>8, <2>2
    <3>2. es[q].nlink + DeltaOf(tx.deltas, q) = 2 + Cardinality(ChildDirectories(es, q))
      BY <3>1 DEF Linked
    <3>3. es[q].nlink \in Nat
      BY <1>1, <3>1, RowIs DEF Table, Is
    <3>4. /\ DeltaOf(tx.deltas, q) \in Int
          /\ DeltaOf(r.deltas, q) = DeltaOf(tx.deltas, q) + (IF q = up THEN new ELSE 0)
          /\ Cardinality(ChildDirectories(es, q)) \in Nat
          /\ Cardinality(ChildDirectories(fs, q)) =
               Cardinality(ChildDirectories(es, q)) + (IF q = up THEN new ELSE 0)
      BY <1>2, <1>7
    <3>5. (IF q = up THEN new ELSE 0) \in Nat
      OBVIOUS
    <3> HIDE DEF new, up
    <3>6. QED
      BY <3>1, <3>2, <3>3, <3>4, <3>5
  <2>3. QED
    BY <2>1, <2>2
<1>9. ASSUME NEW q \in Paths, DeltaOf(r.deltas, q) # 0
      PROVE  Is(fs, q, "directory") /\ (q = up \/ DeltaOf(tx.deltas, q) # 0)
  <2>1. q = up \/ DeltaOf(tx.deltas, q) # 0
    BY <1>2, <1>9
  <2>2. Is(es, q, "directory")
    BY <1>1, <2>1 DEF Linked
  <2>3. QED
    BY <1>3, <1>5, <2>1, <2>2
<1>10. Linked(r, X)
  BY <1>8, <1>9 DEF Linked
<1>11. ASSUME Pending(tx), up \in noted
       PROVE  Pending(r)
  <2>1. r.parents = tx.parents \cup noted
    BY DEF IsPlaced
  <2>2. QED
    BY <1>9, <1>11, <2>1 DEF Pending
<1>12. QED
  BY <1>10, <1>11

\* A new row is announced under a new version.
LEMMA PlacedTold ==
    ASSUME NEW tx, Solid(tx), TypeOK, Told(tx), NEW p, NEW row, NEW noted, Placeable(tx, p, row),
           NEW r, IsPlaced(tx, r, p, row, noted)
    PROVE  Told(r)
<1>1. /\ p \in Paths /\ row # Absent /\ tx.entries[p] = Absent /\ row.version > tx.tombstones[p]
      /\ row.version \in Nat /\ tx.tombstones[p] \in Nat
  BY RowIs DEF Solid, Placeable, Transaction, Tombs
<1>2. entries \in Table /\ tombstones \in Tombs /\ alloc.seq \in Nat /\ tx.alloc.seq \in Nat
      /\ alloc.seq <= tx.alloc.seq
  BY DEF TypeOK, Table, Tombs, Solid, Transaction, Counters
<1>3. \A q \in Paths : Version(entries, tombstones, q) \in Nat
  BY <1>2, VersionType
<1>4. ASSUME NEW q \in Paths, q # p
      PROVE  /\ Version(r.entries, r.tombstones, q) = Version(tx.entries, tx.tombstones, q)
             /\ r.entries[q] = tx.entries[q] /\ r.changes[q] = tx.changes[q]
  BY <1>4 DEF IsPlaced, Version
<1>5. /\ Version(r.entries, r.tombstones, p) = row.version
      /\ Version(tx.entries, tx.tombstones, p) = tx.tombstones[p]
      /\ r.entries[p] = row /\ r.changes[p] = [seq |-> tx.alloc.seq + 1, present |-> TRUE]
  BY <1>1 DEF IsPlaced, Version
<1>6. Version(tx.entries, tx.tombstones, p) >= Version(entries, tombstones, p)
  BY <1>1 DEF Told
<1>7. /\ Version(r.entries, r.tombstones, p) > Version(entries, tombstones, p)
      /\ r.changes[p].seq > alloc.seq /\ r.changes[p].present = (r.entries[p] # Absent)
  <2>1. Version(r.entries, r.tombstones, p) > Version(entries, tombstones, p)
    BY <1>1, <1>3, <1>5, <1>6
  <2>2. r.changes[p].seq = tx.alloc.seq + 1 /\ r.changes[p].present = TRUE
    BY <1>5
  <2>3. r.changes[p].seq > alloc.seq
    BY <1>2, <2>2
  <2>4. QED
    BY <1>1, <1>5, <2>1, <2>2, <2>3
<1>8. ASSUME NEW q \in Paths
      PROVE  /\ Version(r.entries, r.tombstones, q) >= Version(entries, tombstones, q)
             /\ r.entries[q] # entries[q] =>
                  /\ Version(r.entries, r.tombstones, q) > Version(entries, tombstones, q)
                  /\ r.changes[q].seq > alloc.seq
                  /\ r.changes[q].present = (r.entries[q] # Absent)
  <2>1. CASE q = p
    <3>1. Version(r.entries, r.tombstones, p) >= Version(entries, tombstones, p)
      BY <1>1, <1>3, <1>5, <1>7
    <3>2. QED
      BY <1>7, <2>1, <3>1
  <2>2. CASE q # p
    BY <1>4, <2>2 DEF Told
  <2>3. QED
    BY <2>1, <2>2
<1>9. QED
  BY <1>8 DEF Told

------------------------------------------------------------------------------
(* Rows that are made *)

NewDirectory(tx, p) ==
  [kind |-> "directory", ino |-> tx.alloc.ino, size |-> 0, nlink |-> 2,
   version |-> NextEntryVersion(tx, p, 0), target |-> Root]
NewFile(tx, p, size) ==
  [kind |-> "file", ino |-> tx.alloc.ino, size |-> size, nlink |-> 1,
   version |-> NextEntryVersion(tx, p, 0), target |-> Root]

\* The row of a new directory or file may be placed.
LEMMA NewRows ==
    ASSUME NEW tx \in Transaction, NEW p \in Paths, NEW size \in Nat
    PROVE  /\ NewDirectory(tx, p) \in Entry /\ NewFile(tx, p, size) \in Entry
           /\ p # Root /\ tx.entries[p] = Absent /\ Is(tx.entries, Parent(p), "directory") =>
                Placeable(tx, p, NewDirectory(tx, p)) /\ Placeable(tx, p, NewFile(tx, p, size))
<1> DEFINE v == NextEntryVersion(tx, p, 0)
<1>1. v \in Nat /\ v > tx.tombstones[p]
  BY NextEntryVersionIs
<1>2. tx.alloc.ino \in Nat /\ Root \in Paths
  BY PathsAssumption DEF Transaction, Counters
<1> HIDE DEF v
<1>3. /\ NewDirectory(tx, p) \in Entry /\ NewFile(tx, p, size) \in Entry
      /\ NewDirectory(tx, p).version = v /\ NewFile(tx, p, size).version = v
      /\ NewDirectory(tx, p).ino = tx.alloc.ino /\ NewFile(tx, p, size).ino = tx.alloc.ino
      /\ NewDirectory(tx, p).nlink = 2 /\ NewFile(tx, p, size).kind = "file"
  BY <1>1, <1>2 DEF NewDirectory, NewFile, Entry, v
<1>4. QED
  BY <1>1, <1>3 DEF Placeable

\* The table of one row.
Only(p, row) == [q \in {p} |-> row]

\* r is tx with one new row.
IsInsertedOne(tx, r, p, row) ==
  /\ r \in Transaction
  /\ r.usage = tx.usage /\ r.changes = tx.changes /\ r.alloc = tx.alloc
  /\ r.deltas = tx.deltas /\ r.parents = tx.parents
  /\ r.recount = tx.recount /\ r.halt = tx.halt
  /\ \A q \in Paths :
       /\ r.entries[q] = IF q = p THEN row ELSE tx.entries[q]
       /\ r.tombstones[q] = IF q = p THEN 0 ELSE tx.tombstones[q]

\* Insert, of one row.
LEMMA InsertOneIs ==
    ASSUME NEW tx \in Transaction, NEW p \in Paths, NEW row \in Entry
    PROVE  IsInsertedOne(tx, Insert(tx, Only(p, row)), p, row)
<1> DEFINE rows == Only(p, row)
<1>1. DOMAIN rows = {p} /\ rows[p] = row /\ \A q \in DOMAIN rows : rows[q] \in Entry
  BY DEF Only
<1> HIDE DEF rows
<1>2. IsInserted(tx, Insert(tx, rows), rows)
  BY <1>1, InsertIs
<1>3. IsInsertedOne(tx, Insert(tx, rows), p, row)
  BY <1>1, <1>2 DEF IsInserted, IsInsertedOne
<1>4. QED
  BY <1>3 DEF rows

\* CreateDirectory.
LEMMA CreateDirectoryIs ==
    ASSUME NEW tx \in Transaction, NEW p \in Paths
    PROVE  IsPlaced(tx, CreateDirectory(tx, p), p, NewDirectory(tx, p), {Parent(p)})
<1> DEFINE row == NewDirectory(tx, p)
           t1 == Insert(tx, Only(p, row))
           t2 == AllocateIno(t1, 1)
           t3 == Announce(t2, {p}, TRUE)
           t4 == NotePending(t3, {p})
           t5 == NoteDelta(t4, Parent(p), 1)
           r == UpdateUsage(t5, 0, 1)
<1>0. /\ row \in Entry /\ row.size = 0 /\ row.kind = "directory" /\ Parent(p) \in Paths
      /\ {p} \subseteq Paths
  BY NewRows, ParentIsPath DEF NewDirectory
<1>1. CreateDirectory(tx, p) = r
  BY DEF CreateDirectory, NewDirectory, Only
<1> HIDE DEF row
<1>2. IsInsertedOne(tx, t1, p, row)
  BY <1>0, InsertOneIs
<1> HIDE DEF t1
<1>3. t1 \in Transaction /\ IsAllocated(t1, t2, 1)
  BY <1>2, AllocateInoIs DEF IsInsertedOne
<1> HIDE DEF t2
<1>4. t2 \in Transaction /\ IsAnnounced(t2, t3, {p}, TRUE)
  BY <1>0, <1>3, AnnounceIs DEF IsAllocated
<1> HIDE DEF t3
<1>5. t3 \in Transaction /\ IsNoted(t3, t4, {p})
  BY <1>0, <1>4, NotePendingIs DEF IsAnnounced
<1> HIDE DEF t4
<1>6. t4 \in Transaction /\ IsCounted(t4, t5, Parent(p), 1)
  BY <1>0, <1>5, NoteDeltaIs DEF IsNoted
<1> HIDE DEF t5
<1>7. t5 \in Transaction /\ IsTotalled(t5, r, 0, 1)
  BY <1>6, UpdateUsageIs DEF IsCounted
<1> HIDE DEF r
<1>8. /\ r.alloc.ino = tx.alloc.ino + 1 /\ r.alloc.seq = tx.alloc.seq + 1
      /\ t5.alloc = r.alloc /\ t5.usage = tx.usage
  BY <1>2, <1>3, <1>4, <1>5, <1>6, <1>7
     DEF IsInsertedOne, IsAllocated, IsAnnounced, IsNoted, IsCounted, IsTotalled
<1>9. /\ r.usage.inlineBytes = tx.usage.inlineBytes + 0
      /\ r.usage.entries = tx.usage.entries + 1
      /\ r.usage.nextIno \in {tx.usage.nextIno, r.alloc.ino} /\ r.usage.nextIno >= r.alloc.ino
  BY <1>7, <1>8 DEF IsTotalled
<1>10. /\ r \in Transaction /\ r.recount = tx.recount /\ r.halt = tx.halt
       /\ r.parents = tx.parents \cup {Parent(q) : q \in {p}}
  BY <1>2, <1>3, <1>4, <1>5, <1>6, <1>7
     DEF IsInsertedOne, IsAllocated, IsAnnounced, IsNoted, IsCounted, IsTotalled
<1>11. ASSUME NEW q \in Paths
       PROVE  /\ r.entries[q] = IF q = p THEN row ELSE tx.entries[q]
              /\ r.tombstones[q] = IF q = p THEN 0 ELSE tx.tombstones[q]
              /\ r.changes[q] = IF q = p THEN [seq |-> tx.alloc.seq + 1, present |-> TRUE]
                                ELSE tx.changes[q]
  <2>1. r.entries = t1.entries /\ r.tombstones = t1.tombstones /\ r.changes = t3.changes
    BY <1>3, <1>4, <1>5, <1>6, <1>7 DEF IsAllocated, IsAnnounced, IsNoted, IsCounted, IsTotalled
  <2>2. t2.changes = tx.changes /\ t2.alloc.seq = tx.alloc.seq
    BY <1>2, <1>3 DEF IsInsertedOne, IsAllocated
  <2>3. t3.changes[q] = IF q \in {p} THEN [seq |-> t2.alloc.seq + 1, present |-> TRUE]
                        ELSE t2.changes[q]
    BY <1>4 DEF IsAnnounced
  <2>4. QED
    BY <1>2, <2>1, <2>2, <2>3 DEF IsInsertedOne
<1>12. \A q \in Paths : DeltaOf(r.deltas, q) = DeltaOf(tx.deltas, q) + (IF q = Parent(p) THEN 1 ELSE 0)
  BY <1>2, <1>3, <1>4, <1>5, <1>6, <1>7
     DEF IsInsertedOne, IsAllocated, IsAnnounced, IsNoted, IsCounted, IsTotalled
<1>13. {Parent(q) : q \in {p}} = {Parent(p)}
  OBVIOUS
<1>14. IsPlaced(tx, r, p, row, {Parent(p)})
  BY <1>0, <1>8, <1>9, <1>10, <1>11, <1>12, <1>13 DEF IsPlaced
<1>15. QED
  BY <1>1, <1>14 DEF row

\* CreateFile.
LEMMA CreateFileIs ==
    ASSUME NEW tx \in Transaction, NEW p \in Paths, NEW size \in Nat
    PROVE  IsPlaced(tx, CreateFile(tx, p, size), p, NewFile(tx, p, size), {Parent(p)})
<1> DEFINE row == NewFile(tx, p, size)
           t1 == Insert(tx, Only(p, row))
           t2 == AllocateIno(t1, 1)
           t3 == Announce(t2, {p}, TRUE)
           t4 == NotePending(t3, {p})
           r == UpdateUsage(t4, size, 1)
<1>0. /\ row \in Entry /\ row.size = size /\ row.kind = "file" /\ {p} \subseteq Paths
  BY NewRows DEF NewFile
<1>1. CreateFile(tx, p, size) = r
  BY DEF CreateFile, NewFile, Only
<1> HIDE DEF row
<1>2. IsInsertedOne(tx, t1, p, row)
  BY <1>0, InsertOneIs
<1> HIDE DEF t1
<1>3. t1 \in Transaction /\ IsAllocated(t1, t2, 1)
  BY <1>2, AllocateInoIs DEF IsInsertedOne
<1> HIDE DEF t2
<1>4. t2 \in Transaction /\ IsAnnounced(t2, t3, {p}, TRUE)
  BY <1>0, <1>3, AnnounceIs DEF IsAllocated
<1> HIDE DEF t3
<1>5. t3 \in Transaction /\ IsNoted(t3, t4, {p})
  BY <1>0, <1>4, NotePendingIs DEF IsAnnounced
<1> HIDE DEF t4
<1>6. t4 \in Transaction /\ IsTotalled(t4, r, size, 1)
  BY <1>5, UpdateUsageIs DEF IsNoted
<1> HIDE DEF r
<1>7. /\ r.alloc.ino = tx.alloc.ino + 1 /\ r.alloc.seq = tx.alloc.seq + 1
      /\ t4.alloc = r.alloc /\ t4.usage = tx.usage
  BY <1>2, <1>3, <1>4, <1>5, <1>6
     DEF IsInsertedOne, IsAllocated, IsAnnounced, IsNoted, IsTotalled
<1>8. /\ r.usage.inlineBytes = tx.usage.inlineBytes + size
      /\ r.usage.entries = tx.usage.entries + 1
      /\ r.usage.nextIno \in {tx.usage.nextIno, r.alloc.ino} /\ r.usage.nextIno >= r.alloc.ino
  BY <1>6, <1>7 DEF IsTotalled
<1>9. /\ r \in Transaction /\ r.recount = tx.recount /\ r.halt = tx.halt
      /\ r.parents = tx.parents \cup {Parent(q) : q \in {p}}
      /\ r.deltas = tx.deltas
  BY <1>2, <1>3, <1>4, <1>5, <1>6
     DEF IsInsertedOne, IsAllocated, IsAnnounced, IsNoted, IsTotalled
<1>10. ASSUME NEW q \in Paths
       PROVE  /\ r.entries[q] = IF q = p THEN row ELSE tx.entries[q]
              /\ r.tombstones[q] = IF q = p THEN 0 ELSE tx.tombstones[q]
              /\ r.changes[q] = IF q = p THEN [seq |-> tx.alloc.seq + 1, present |-> TRUE]
                                ELSE tx.changes[q]
  <2>1. r.entries = t1.entries /\ r.tombstones = t1.tombstones /\ r.changes = t3.changes
    BY <1>3, <1>4, <1>5, <1>6 DEF IsAllocated, IsAnnounced, IsNoted, IsTotalled
  <2>2. t2.changes = tx.changes /\ t2.alloc.seq = tx.alloc.seq
    BY <1>2, <1>3 DEF IsInsertedOne, IsAllocated
  <2>3. t3.changes[q] = IF q \in {p} THEN [seq |-> t2.alloc.seq + 1, present |-> TRUE]
                        ELSE t2.changes[q]
    BY <1>4 DEF IsAnnounced
  <2>4. QED
    BY <1>2, <2>1, <2>2, <2>3 DEF IsInsertedOne
<1>11. \A q \in Paths : DeltaOf(r.deltas, q) = DeltaOf(tx.deltas, q)
                           + (IF row.kind = "directory" /\ q = Parent(p) THEN 1 ELSE 0)
  <2>1. \A q : DeltaOf(tx.deltas, q) \in Int
    BY DeltaType DEF Transaction
  <2>2. row.kind # "directory"
    BY <1>0
  <2>3. QED
    BY <1>9, <2>1, <2>2
<1>12. {Parent(q) : q \in {p}} = {Parent(p)}
  OBVIOUS
<1>13. IsPlaced(tx, r, p, row, {Parent(p)})
  BY <1>0, <1>7, <1>8, <1>9, <1>10, <1>11, <1>12 DEF IsPlaced
<1>14. QED
  BY <1>1, <1>13 DEF row

------------------------------------------------------------------------------
(* The directories that CreateMissingParents makes, one after the other *)

\* g is tx after CreateDirectory of ms[i] for each number i of a set, from
\* the least to the greatest, by the recursion of FoldLeft.
Makes(tx, ms, D, g) ==
  g = [s \in SUBSET D |-> IF s = {} THEN tx ELSE CreateDirectory(g[s \ {Max(s)}], ms[Max(s)])]

\* D is finite, and a part of it has a greatest element.
Ranked(D) == IsFiniteSet(D) /\ \A s \in SUBSET D : s # {} => Max(s) \in s

\* Numbers are.
LEMMA NumbersAreRanked == \A n \in Nat : Ranked(1 .. n)
<1> SUFFICES ASSUME NEW n \in Nat PROVE Ranked(1 .. n)
  OBVIOUS
<1>1. IsFiniteSet(1 .. n)
  BY FS_Interval
<1>2. ASSUME NEW s \in SUBSET (1 .. n), s # {}
      PROVE  Max(s) \in s
  <2>1. s \subseteq Nat /\ \A x \in s : x <= n
    OBVIOUS
  <2>2. QED
    BY <1>2, <2>1, MaxIs
<1>3. QED
  BY <1>1, <1>2 DEF Ranked

\* What remains without the greatest is less.
LEMMA RankedPart ==
    ASSUME NEW D, Ranked(D), NEW s \in SUBSET D
    PROVE  /\ Ranked(s) /\ IsFiniteSet(s)
           /\ s # {} => s \ {Max(s)} \in SUBSET s /\ s \ {Max(s)} # s
<1>1. IsFiniteSet(s)
  BY FS_Subset DEF Ranked
<1>2. \A r \in SUBSET s : r # {} => Max(r) \in r
  BY DEF Ranked
<1>3. QED
  BY <1>1, <1>2 DEF Ranked

\* A solution of the recursion, applied.
LEMMA MakesApplied ==
    ASSUME NEW tx, NEW ms, NEW D, NEW g, Makes(tx, ms, D, g)
    PROVE  \A s \in SUBSET D :
             g[s] = IF s = {} THEN tx ELSE CreateDirectory(g[s \ {Max(s)}], ms[Max(s)])
  BY DEF Makes

\* The recursion has one solution at most.
LEMMA MakesUnique ==
    ASSUME NEW tx, NEW ms, NEW D, Ranked(D),
           NEW g, NEW h, Makes(tx, ms, D, g), Makes(tx, ms, D, h)
    PROVE  g = h
<1> DEFINE bad == {s \in SUBSET D : g[s] # h[s]}
<1>0. IsFiniteSet(D)
  BY DEF Ranked
<1>1. bad = {}
  <2> SUFFICES ASSUME bad # {} PROVE FALSE
    OBVIOUS
  <2> bad \subseteq SUBSET D
    OBVIOUS
  <2> HIDE DEF bad
  <2>1. PICK s \in bad : \A r \in bad : r \subseteq s => r = s
    BY <1>0, LeastSet
  <2> USE DEF bad
  <2>2. s # {}
    BY MakesApplied
  <2>3. s \ {Max(s)} \in SUBSET D /\ s \ {Max(s)} \subseteq s /\ s \ {Max(s)} # s
    BY <2>2, RankedPart
  <2>4. g[s \ {Max(s)}] = h[s \ {Max(s)}]
    BY <2>1, <2>3
  <2>5. g[s] = h[s]
    BY <2>2, <2>4, MakesApplied
  <2>6. QED
    BY <2>5
<1>2. \A s \in SUBSET D : g[s] = h[s]
  BY <1>1
<1>3. g = [s \in SUBSET D |-> g[s]] /\ h = [s \in SUBSET D |-> h[s]]
  BY DEF Makes
<1>4. QED
  BY <1>2, <1>3

\* A solution for a set is one for its subsets.
LEMMA MakesRestricts ==
    ASSUME NEW tx, NEW ms, NEW D,
           NEW g, Makes(tx, ms, D, g), NEW T \in SUBSET D
    PROVE  Makes(tx, ms, T, [s \in SUBSET T |-> g[s]])
<1> DEFINE h == [s \in SUBSET T |-> g[s]]
<1>1. ASSUME NEW s \in SUBSET T
      PROVE  h[s] = IF s = {} THEN tx ELSE CreateDirectory(h[s \ {Max(s)}], ms[Max(s)])
  <2>1. s \in SUBSET D /\ h[s] = g[s] /\ h[s \ {Max(s)}] = g[s \ {Max(s)}]
    OBVIOUS
  <2>2. g[s] = IF s = {} THEN tx ELSE CreateDirectory(g[s \ {Max(s)}], ms[Max(s)])
    BY <2>1, MakesApplied
  <2>3. QED
    BY <2>1, <2>2
<1>2. QED
  BY <1>1 DEF Makes

\* What the recursion gives for a set, before it is known to have a solution.
Product(tx, ms, s) == (CHOOSE g : Makes(tx, ms, s, g))[s]

\* The recursion has a solution.
LEMMA MakesExists ==
    ASSUME NEW tx, NEW ms, NEW D, Ranked(D)
    PROVE  \E g : Makes(tx, ms, D, g)
<1> DEFINE bad == {T \in SUBSET D : ~ \E g : Makes(tx, ms, T, g)}
<1> SUFFICES ASSUME bad # {} PROVE FALSE
  OBVIOUS
<1>0. IsFiniteSet(D)
  BY DEF Ranked
<1> bad \subseteq SUBSET D
  OBVIOUS
<1> HIDE DEF bad
<1>1. PICK T \in bad : \A U \in bad : U \subseteq T => U = T
  BY <1>0, LeastSet
<1> USE DEF bad
<1> DEFINE h == [s \in SUBSET T |-> IF s = {} THEN tx
                                    ELSE CreateDirectory(Product(tx, ms, s \ {Max(s)}), ms[Max(s)])]
<1>2. ASSUME NEW r \in SUBSET T, r # T
      PROVE  h[r] = Product(tx, ms, r)
  <2>1. r \notin bad /\ r \in SUBSET D
    BY <1>1, <1>2
  <2>0. Ranked(r)
    BY <2>1, RankedPart
  <2>2. PICK g : Makes(tx, ms, r, g)
    BY <2>1
  <2>3. Makes(tx, ms, r, CHOOSE f : Makes(tx, ms, r, f))
    BY <2>2
  <2>4. Product(tx, ms, r) = g[r]
    BY <2>0, <2>2, <2>3, MakesUnique DEF Product
  <2>5. CASE r = {}
    BY <2>2, <2>4, <2>5, MakesApplied
  <2>6. CASE r # {}
    <3> DEFINE c == Max(r)
               q == r \ {c}
               f == [s \in SUBSET q |-> g[s]]
    <3>0. q \in SUBSET r /\ Ranked(q)
      BY <2>0, RankedPart
    <3>1. Makes(tx, ms, q, f)
      BY <2>2, <3>0, MakesRestricts
    <3>2. Makes(tx, ms, q, CHOOSE k : Makes(tx, ms, q, k))
      BY <3>1
    <3>3. Product(tx, ms, q) = f[q]
      BY <3>0, <3>1, <3>2, MakesUnique DEF Product
    <3>4. f[q] = g[q]
      OBVIOUS
    <3>5. g[r] = CreateDirectory(g[q], ms[c])
      <4>1. r \in SUBSET r
        OBVIOUS
      <4>2. g[r] = IF r = {} THEN tx ELSE CreateDirectory(g[r \ {Max(r)}], ms[Max(r)])
        BY <2>2, <4>1, MakesApplied
      <4>3. QED
        BY <2>6, <4>2
    <3>6. h[r] = CreateDirectory(Product(tx, ms, q), ms[c])
      BY <2>6
    <3>7. QED
      BY <2>4, <3>3, <3>4, <3>5, <3>6
  <2>7. QED
    BY <2>5, <2>6
<1>3. ASSUME NEW s \in SUBSET T, s # {}
      PROVE  h[s \ {Max(s)}] = Product(tx, ms, s \ {Max(s)})
  <2>1. s \in SUBSET D
    OBVIOUS
  <2>2. s \ {Max(s)} \in SUBSET T /\ s \ {Max(s)} # T
    BY <1>3, <2>1, RankedPart
  <2>3. QED
    BY <1>2, <2>2
<1>4. ASSUME NEW s \in SUBSET T
      PROVE  h[s] = IF s = {} THEN tx ELSE CreateDirectory(h[s \ {Max(s)}], ms[Max(s)])
  BY <1>3
<1>5. Makes(tx, ms, T, h)
  BY <1>4 DEF Makes
<1>6. QED
  BY <1>1, <1>5

\* t is tx after the first k directories of ms.
Made(tx, ms, k) == (CHOOSE g : Makes(tx, ms, DOMAIN ms, g))[1 .. k]

\* r is tx after all n directories of ms.
IsMade(tx, r, ms, n) ==
  /\ r = Made(tx, ms, n) /\ Made(tx, ms, 0) = tx
  /\ \A k \in 0 .. n - 1 : Made(tx, ms, k + 1) = CreateDirectory(Made(tx, ms, k), ms[k + 1])

\* FoldLeft makes one directory after the other.
LEMMA FoldLeftIs ==
    ASSUME NEW tx, NEW ms, NEW n \in Nat, DOMAIN ms = 1 .. n
    PROVE  IsMade(tx, FoldLeft(CreateDirectory, tx, ms), ms, n)
<1> DEFINE g == CHOOSE h : Makes(tx, ms, DOMAIN ms, h)
<1>1. FoldLeft(CreateDirectory, tx, ms) = g[DOMAIN ms]
  BY DEF FoldLeft, MapThenFoldSet, Makes
<1>2. Makes(tx, ms, DOMAIN ms, g)
  <2>1. \E h : Makes(tx, ms, DOMAIN ms, h)
    BY NumbersAreRanked, MakesExists
  <2>2. QED
    BY <2>1
<1>3. \A k : Made(tx, ms, k) = g[1 .. k]
  BY DEF Made
<1> HIDE DEF g
<1>4. 1 .. 0 = {} /\ 1 .. 0 \in SUBSET (DOMAIN ms)
  OBVIOUS
<1>5. g[1 .. 0] = tx
  BY <1>2, <1>4, MakesApplied
<1>6. \A s \in SUBSET (DOMAIN ms) :
        g[s] = IF s = {} THEN tx ELSE CreateDirectory(g[s \ {Max(s)}], ms[Max(s)])
  <2> DEFINE D == DOMAIN ms
  <2> HIDE DEF D
  <2>1. g = [s \in SUBSET D |-> IF s = {} THEN tx
                                ELSE CreateDirectory(g[s \ {Max(s)}], ms[Max(s)])]
    BY <1>2 DEF D, Makes
  <2>2. \A s \in SUBSET D :
          g[s] = IF s = {} THEN tx ELSE CreateDirectory(g[s \ {Max(s)}], ms[Max(s)])
    BY <2>1
  <2>3. QED
    BY <2>2 DEF D
<1>7. ASSUME NEW k \in 0 .. n - 1
      PROVE  g[1 .. k + 1] = CreateDirectory(g[1 .. k], ms[k + 1])
  <2> DEFINE s == 1 .. k + 1
  <2>1. s \in SUBSET (DOMAIN ms)
    OBVIOUS
  <2>2. k + 1 \in s /\ \A x \in s : x \in Nat /\ x <= k + 1
    OBVIOUS
  <2>3. s \ {k + 1} = 1 .. k
    OBVIOUS
  <2>4. k + 1 \in Nat
    OBVIOUS
  <2> HIDE DEF s
  <2>5. s # {} /\ s \subseteq Nat /\ k + 1 \in s /\ \A x \in s : x <= k + 1
    BY <2>2
  <2>6. Max(s) = k + 1
    <3>1. Max(s) \in s /\ \A x \in s : x <= Max(s)
      BY <2>5, <2>4, MaxIs
    <3>2. Max(s) <= k + 1 /\ k + 1 <= Max(s) /\ Max(s) \in Nat
      BY <2>5, <3>1
    <3>3. QED
      BY <2>4, <3>2
  <2>7. g[s] = IF s = {} THEN tx ELSE CreateDirectory(g[s \ {Max(s)}], ms[Max(s)])
    BY <1>6, <2>1
  <2>8. g[s] = CreateDirectory(g[1 .. k], ms[k + 1])
    BY <2>5, <2>6, <2>3, <2>7
  <2>9. QED
    BY <2>8 DEF s
<1>8. QED
  BY <1>1, <1>3, <1>5, <1>7 DEF IsMade

\* A transaction that could be committed as it is.
Good(tx) == Solid(tx) /\ Linked(tx, {}) /\ Pending(tx) /\ Told(tx)

\* A transaction is weighed without being changed.
LEMMA WeighedGood ==
    ASSUME NEW tx, Good(tx), NEW ok, NEW r, IsWeighed(tx, r, ok)
    PROVE  Good(r)
<1>1. Solid(r)
  <2>1. /\ r \in Transaction
        /\ r.entries = tx.entries /\ r.tombstones = tx.tombstones /\ r.usage = tx.usage
        /\ r.changes = tx.changes /\ r.alloc = tx.alloc
    BY DEF IsWeighed
  <2>2. r.halt = tx.halt \/ r.halt = [alloc |-> tx.alloc, full |-> TRUE]
    BY DEF IsWeighed
  <2>3. r.halt # Absent => alloc.ino <= r.halt.alloc.ino /\ alloc.seq <= r.halt.alloc.seq
    BY <2>2 DEF Good, Solid
  <2>4. QED
    BY <2>1, <2>3 DEF Good, Solid
<1>2. r.entries = tx.entries /\ r.deltas = tx.deltas /\ r.parents = tx.parents
      /\ r.changes = tx.changes /\ r.tombstones = tx.tombstones
  BY DEF IsWeighed
<1>3. Linked(r, {}) /\ Pending(r) /\ Told(r)
  BY <1>2 DEF Good, Linked, Pending, Told
<1>4. QED
  BY <1>1, <1>3 DEF Good

\* A transaction that is given up could have been committed.
LEMMA ThrownGood ==
    ASSUME NEW tx, Good(tx), NEW full \in BOOLEAN
    PROVE  Good(Throw(tx, full)) /\ Throw(tx, full).halt # Absent
<1> DEFINE halt == [alloc |-> tx.alloc, full |-> full]
           r == Throw(tx, full)
<1>1. tx \in Transaction /\ Solid(tx) /\ Linked(tx, {}) /\ Pending(tx) /\ Told(tx)
  BY DEF Good, Solid
<1>2. CASE tx.halt # Absent
  <2>1. r = tx
    BY <1>2 DEF Throw
  <2>2. QED
    BY <1>2, <2>1
<1>3. CASE tx.halt = Absent
  <2>1. halt \in Halts /\ halt.alloc = tx.alloc
    BY <1>1 DEF Halts, Transaction
  <2>2. r = [tx EXCEPT !.halt = halt]
    BY <1>3 DEF Throw
  <2> HIDE DEF halt, r
  <2>3. /\ r \in Transaction /\ r.halt = halt
        /\ r.entries = tx.entries /\ r.tombstones = tx.tombstones /\ r.usage = tx.usage
        /\ r.changes = tx.changes /\ r.alloc = tx.alloc /\ r.deltas = tx.deltas
        /\ r.parents = tx.parents
    BY <1>1, <2>1, <2>2 DEF Transaction
  <2>4. Solid(r)
    BY <1>1, <2>1, <2>3 DEF Solid
  <2>5. Linked(r, {}) /\ Pending(r) /\ Told(r)
    BY <1>1, <2>3 DEF Linked, Pending, Told
  <2>6. r.halt # Absent
    BY <2>1, <2>3, HaltIs
  <2>7. QED
    BY <2>4, <2>5, <2>6 DEF Good, r
<1>4. QED
  BY <1>2, <1>3

\* A new row leaves a transaction that could be committed.
LEMMA PlacedGood ==
    ASSUME NEW tx, Good(tx), TypeOK, NEW p, NEW row, Placeable(tx, p, row),
           NEW r, IsPlaced(tx, r, p, row, {Parent(p)})
    PROVE  Good(r)
<1> DEFINE noted == {Parent(p)}
<1>1. Parent(p) \in noted
  OBVIOUS
<1> HIDE DEF noted
<1>2. IsPlaced(tx, r, p, row, noted)
  BY DEF noted
<1>3. Solid(r)
  BY <1>2, PlacedSolid DEF Good
<1>4. Linked(r, {}) /\ Pending(r)
  BY <1>1, <1>2, PlacedLinked DEF Good
<1>5. Told(r)
  BY <1>2, PlacedTold DEF Good
<1>6. QED
  BY <1>3, <1>4, <1>5 DEF Good

\* t is tx with directories on the way to p, down to n names.
Deepened(tx, t, p, n) ==
  /\ Good(t)
  /\ Is(t.entries, At(p, n), "directory")
  /\ \A q \in Paths : t.entries[q] # tx.entries[q] =>
       /\ tx.entries[q] = Absent /\ Is(t.entries, q, "directory")
       /\ \E i \in 0 .. n : q = At(p, i)
  /\ t.usage.inlineBytes = tx.usage.inlineBytes
  /\ t.halt = tx.halt /\ t.recount = tx.recount
  /\ DeltaOf(t.deltas, p) = DeltaOf(tx.deltas, p)

\* One directory more.
LEMMA GrownMore ==
    ASSUME TypeOK, NEW tx, NEW t, NEW p \in Paths, NEW n \in Nat, n + 1 < Len(p), Deepened(tx, t, p, n),
           tx.entries[At(p, n + 1)] = Absent
    PROVE  /\ Deepened(tx, CreateDirectory(t, At(p, n + 1)), p, n + 1)
           /\ CreateDirectory(t, At(p, n + 1)).usage.entries = t.usage.entries + 1
<1> DEFINE m == n + 1
           d == At(p, m)
           r == CreateDirectory(t, d)
           row == NewDirectory(t, d)
<1>1. /\ Len(p) \in Nat /\ n \in 0 .. Len(p) /\ m \in 1 .. Len(p) /\ m \in 0 .. Len(p)
      /\ m - 1 = n /\ m # Len(p) /\ n # Len(p)
  BY PathIsSequence
<1>2. d \in Paths /\ At(p, n) \in Paths
  BY <1>1, AtIsPath
<1>3. d # Root /\ Parent(d) = At(p, n)
  BY <1>1, <1>2, AtParent
<1>4. d # p /\ At(p, n) # p
  BY <1>1, AtAbove
<1>5. \A i \in 0 .. n : d # At(p, i)
  <2> TAKE i \in 0 .. n
  <2>1. i \in 0 .. Len(p) /\ i # m
    BY <1>1
  <2>2. QED
    BY <1>1, <2>1, AtAbove
<1> HIDE DEF m, d, r
<1>6. tx.entries[d] = Absent
  BY DEF d, m
<1>7. t.entries[d] = Absent
  BY <1>2, <1>5, <1>6 DEF Deepened
<1>8. Good(t) /\ t \in Transaction
  BY DEF Deepened, Good, Solid
<1>9. Is(t.entries, Parent(d), "directory")
  BY <1>3 DEF Deepened
<1>10. Placeable(t, d, row) /\ row.kind = "directory" /\ row.size = 0 /\ row # Absent
  <2>1. 0 \in Nat
    OBVIOUS
  <2>2. Placeable(t, d, row) /\ row \in Entry
    BY <1>2, <1>3, <1>7, <1>8, <1>9, <2>1, NewRows
  <2>3. QED
    BY <2>2, RowIs DEF NewDirectory
<1>11. IsPlaced(t, r, d, row, {Parent(d)})
  BY <1>2, <1>8, CreateDirectoryIs DEF r
<1> HIDE DEF row
<1>12. Good(r)
  BY <1>8, <1>10, <1>11, PlacedGood
<1>13. \A q \in Paths : r.entries[q] = IF q = d THEN row ELSE t.entries[q]
  BY <1>11 DEF IsPlaced
<1>14. ASSUME NEW q \in Paths, r.entries[q] # tx.entries[q]
       PROVE  /\ tx.entries[q] = Absent /\ Is(r.entries, q, "directory")
              /\ \E i \in 0 .. m : q = At(p, i)
  <2>1. CASE q = d
    <3>1. q = At(p, m) /\ m \in 0 .. m
      BY <1>1, <2>1 DEF d
    <3>2. QED
      BY <1>6, <1>10, <1>13, <2>1, <3>1 DEF Is
  <2>2. CASE q # d
    <3>1. r.entries[q] = t.entries[q]
      BY <1>13, <2>2
    <3>2. /\ tx.entries[q] = Absent /\ Is(t.entries, q, "directory")
          /\ \E i \in 0 .. n : q = At(p, i)
      BY <1>14, <3>1 DEF Deepened
    <3>3. \A i \in 0 .. n : i \in 0 .. m
      BY <1>1
    <3>4. QED
      BY <3>1, <3>2, <3>3 DEF Is
  <2>3. QED
    BY <2>1, <2>2
<1>15. Is(r.entries, At(p, m), "directory")
  BY <1>2, <1>10, <1>13 DEF d, Is
<1>16. /\ r.usage.inlineBytes = t.usage.inlineBytes + 0 /\ r.usage.entries = t.usage.entries + 1
       /\ r.halt = t.halt /\ r.recount = t.recount
  BY <1>10, <1>11 DEF IsPlaced
<1>17. r.usage.inlineBytes = tx.usage.inlineBytes /\ r.halt = tx.halt /\ r.recount = tx.recount
  <2>1. t.usage.inlineBytes \in Int
    BY <1>8 DEF Transaction, Totals
  <2>2. QED
    BY <1>16, <2>1 DEF Deepened
<1>18. DeltaOf(r.deltas, p) = DeltaOf(tx.deltas, p)
  <2>1. DeltaOf(t.deltas, p) \in Int
    BY <1>8, DeltaType DEF Transaction
  <2>2. DeltaOf(r.deltas, p) = DeltaOf(t.deltas, p)
           + (IF row.kind = "directory" /\ p = Parent(d) THEN 1 ELSE 0)
    BY <1>11 DEF IsPlaced
  <2>3. p # Parent(d)
    BY <1>3, <1>4
  <2>4. QED
    BY <2>1, <2>2, <2>3 DEF Deepened
<1>19. Deepened(tx, r, p, m)
  BY <1>12, <1>14, <1>15, <1>17, <1>18 DEF Deepened
<1>20. QED
  BY <1>16, <1>19 DEF m, d, r

\* The root is there, so a missing path hangs from some directory.
LEMMA AnchorIs ==
    ASSUME NEW es, Is(es, Root, "directory"), NEW p \in Paths, p # Root
    PROVE  Anchor(es, p) \in 0 .. Len(p) - 1
<1> DEFINE S == {n \in 0 .. Len(p) - 1 :
                  LET q == SubSeq(p, 1, n) IN Loops(es, q, TRUE) \/ es[Resolve(es, q, TRUE)] # Absent}
<1>1. Len(p) \in Nat \ {0}
  BY ParentIs
<1>2. SubSeq(p, 1, 0) = Root
  BY <1>1, PathIsSequence, SubSeqEmpty DEF Root
<1>3. Resolve(es, Root, TRUE) = Root
  <2>1. LinksOnTheWay(es, Root, TRUE) = {}
    BY DEF LinksOnTheWay, Is
  <2>2. QED
    BY <2>1 DEF Resolve
<1>4. 0 \in S
  <2>1. 0 \in 0 .. Len(p) - 1
    BY <1>1
  <2>2. es[Resolve(es, SubSeq(p, 1, 0), TRUE)] # Absent
    BY <1>2, <1>3 DEF Is
  <2>3. QED
    BY <2>1, <2>2
<1>5. S \subseteq 0 .. Len(p) - 1
  OBVIOUS
<1>6. Anchor(es, p) = Max(S)
  BY DEF Anchor
<1> HIDE DEF S
<1> DEFINE n == Len(p) - 1
<1>7. n \in Nat /\ S \subseteq Nat /\ S # {} /\ \A x \in S : x <= n
  BY <1>1, <1>4, <1>5
<1>8. Max(S) \in S
  <2> HIDE DEF n
  <2>1. QED
    BY <1>7, MaxIs
<1>9. QED
  BY <1>5, <1>6, <1>8

\* Between the two are directories to make, one name apart.
LEMMA MissingIs ==
    ASSUME NEW es, Is(es, Root, "directory"), NEW p \in Paths, p # Root
    PROVE  LET a == Anchor(es, p)
               ms == Missing(es, p)
           IN  /\ a \in Nat /\ a < Len(p) /\ Len(p) - 1 - a \in Nat
               /\ DOMAIN ms = 1 .. Len(p) - 1 - a
               /\ Len(ms) = Len(p) - 1 - a
               /\ \A i \in 1 .. Len(p) - 1 - a : ms[i] = At(p, a + i)
<1> DEFINE a == Anchor(es, p)
           ms == Missing(es, p)
           m == Len(p) - 1 - a
<1>1. a \in 0 .. Len(p) - 1 /\ Len(p) \in Nat
  BY AnchorIs, PathIsSequence
<1>2. ms = [i \in 1 .. m |-> SubSeq(p, 1, a + i)]
  BY DEF Missing
<1> HIDE DEF a, ms
<1>3. a \in Nat /\ a < Len(p) /\ m \in Nat
  BY <1>1
<1> HIDE DEF m
<1>4. DOMAIN ms = 1 .. m /\ \A i \in 1 .. m : ms[i] = At(p, a + i)
  BY <1>2 DEF At
<1>5. Len(ms) = m
  <2>1. ms \in Seq(Seq(Name))
    <3>1. \A i \in 1 .. m : ms[i] \in Seq(Name)
      <4> SUFFICES ASSUME NEW i \in 1 .. m PROVE At(p, a + i) \in Seq(Name)
        BY <1>4
      <4>1. a + i \in 0 .. Len(p)
        BY <1>1, <1>3 DEF m
      <4>2. QED
        BY <4>1, AtIsSequence
    <3>2. ms \in [1 .. m -> Seq(Name)]
      BY <1>2, <1>4, <3>1
    <3>3. QED
      BY <1>3, <3>2, IsASeq
  <2>2. QED
    BY <1>3, <1>4, <2>1, LenProperties
<1>6. QED
  BY <1>3, <1>4, <1>5 DEF a, ms, m

\* r is tx with the directories that p hangs from.
IsReached(tx, r, p) ==
  /\ Good(r)
  /\ Is(r.entries, Parent(p), "directory")
  /\ \A q \in Paths : r.entries[q] # tx.entries[q] =>
       tx.entries[q] = Absent /\ Is(r.entries, q, "directory") /\ IsPrefix(q, p) /\ q # p
  /\ r.usage.inlineBytes = tx.usage.inlineBytes /\ r.usage.entries >= tx.usage.entries
  /\ r.halt = Absent /\ r.usage.entries > tx.usage.entries => r.usage.entries <= limits.entries
  /\ r.halt = tx.halt \/ r.usage.entries > tx.usage.entries
  /\ r.recount = tx.recount /\ DeltaOf(r.deltas, p) = DeltaOf(tx.deltas, p)

\* CreateMissingParents.
LEMMA CreateMissingParentsIs ==
    ASSUME TypeOK, NEW tx, Good(tx), NEW p \in Paths, p # Root, NEW recursive,
           CreationParents(tx.entries, p, recursive)
    PROVE  IsReached(tx, CreateMissingParents(tx, p), p)
<1> DEFINE es == tx.entries
           a == Anchor(es, p)
           ms == Missing(es, p)
           m == Len(p) - 1 - a
           ok == /\ 0 > 0 => tx.usage.inlineBytes + 0 <= limits.inlineBytes
                 /\ m > 0 => tx.usage.entries + m <= limits.entries
           t == AssertCapacity(tx, 0, Len(ms))
           G(k) == Made(t, ms, k)
           r == CreateMissingParents(tx, p)
<1>1. tx \in Transaction /\ Is(es, Root, "directory")
  BY DEF Good, Solid, Shaped
<1>2. /\ a \in Nat /\ a < Len(p) /\ m \in Nat /\ DOMAIN ms = 1 .. m /\ Len(ms) = m
      /\ \A i \in 1 .. m : ms[i] = At(p, a + i)
  BY <1>1, MissingIs
<1>3. Len(p) \in Nat
  BY PathIsSequence
<1>4. Is(es, At(p, a), "directory") /\ \A i \in 1 .. m : es[At(p, a + i)] = Absent
  <2>1. /\ Is(es, SubSeq(p, 1, Len(p) - 1 - Len(ms)), "directory")
        /\ \A i \in DOMAIN ms : es[ms[i]] = Absent
    BY DEF CreationParents
  <2> HIDE DEF a, ms, es
  <2>2. Len(p) - 1 - Len(ms) = a
    BY <1>2, <1>3
  <2>3. QED
    BY <1>2, <2>1, <2>2 DEF At
<1>5. IsWeighed(tx, t, ok)
  <2>1. IsWeighed(tx, AssertCapacityFrom(tx, tx.usage, 0, m), ok)
    <3> HIDE DEF m, es, a
    <3>1. QED
      BY <1>1, AssertCapacityIs
  <2> HIDE DEF m, es, a, ms
  <2>2. QED
    BY <1>2, <2>1 DEF AssertCapacity
<1>6. r = FoldLeft(CreateDirectory, t, ms)
  BY DEF CreateMissingParents
<1> HIDE DEF t, r, es, a, ms, m, ok
<1>7. /\ r = G(m) /\ G(0) = t
      /\ \A k \in 0 .. m - 1 : G(k + 1) = CreateDirectory(G(k), ms[k + 1])
  <2>1. IsMade(t, FoldLeft(CreateDirectory, t, ms), ms, m)
    BY <1>2, FoldLeftIs
  <2>2. QED
    BY <1>6, <2>1 DEF IsMade
<1>8. Good(t) /\ t.entries = es /\ t.usage = tx.usage /\ t.deltas = tx.deltas /\ t.recount = tx.recount
  BY <1>5, WeighedGood DEF IsWeighed, es
<1> HIDE DEF G
<1> DEFINE Inv(k) == Deepened(t, G(k), p, a + k) /\ G(k).usage.entries = tx.usage.entries + k
<1>9. Inv(0)
  <2>1. Deepened(t, t, p, a)
    BY <1>4, <1>8 DEF Deepened
  <2>2. a + 0 = a /\ tx.usage.entries + 0 = tx.usage.entries
    BY <1>1, <1>2 DEF Transaction, Totals
  <2>3. QED
    BY <1>7, <1>8, <2>1, <2>2
<1>10. ASSUME NEW k \in 0 .. m - 1, Inv(k)
       PROVE  Inv(k + 1)
  <2> DEFINE n == a + k
  <2>1. n \in Nat /\ n + 1 < Len(p) /\ k + 1 \in 1 .. m /\ a + (k + 1) = n + 1
    BY <1>2, <1>3 DEF m
  <2>2. t.entries[At(p, n + 1)] = Absent /\ ms[k + 1] = At(p, n + 1)
    BY <1>2, <1>4, <1>8, <2>1
  <2> HIDE DEF n
  <2>3. Deepened(t, G(k), p, n)
    BY <1>10 DEF n
  <2>4. /\ Deepened(t, CreateDirectory(G(k), At(p, n + 1)), p, n + 1)
        /\ CreateDirectory(G(k), At(p, n + 1)).usage.entries = G(k).usage.entries + 1
    BY <2>1, <2>2, <2>3, GrownMore
  <2>5. G(k + 1) = CreateDirectory(G(k), At(p, n + 1))
    BY <1>7, <2>2
  <2>6. tx.usage.entries \in Int
    BY <1>1 DEF Transaction, Totals
  <2>7. G(k + 1).usage.entries = tx.usage.entries + (k + 1)
    BY <1>10, <2>4, <2>5, <2>6
  <2>8. QED
    BY <2>1, <2>4, <2>5, <2>7
<1>11. Inv(m)
  <2> DEFINE bad == {k \in Nat : k <= m /\ ~ Inv(k)}
  <2> HIDE DEF Inv
  <2> SUFFICES ASSUME bad # {} PROVE FALSE
    BY <1>2
  <2>1. PICK k \in bad : \A j \in bad : k <= j
    <3>1. bad \subseteq Nat
      OBVIOUS
    <3> HIDE DEF bad
    <3>2. QED
      BY <3>1, LeastNumber
  <2>2. k # 0 /\ k \in Nat /\ k <= m /\ ~ Inv(k)
    BY <1>9, <2>1
  <2>3. k - 1 \in 0 .. m - 1 /\ k - 1 \in Nat /\ k - 1 <= m /\ (k - 1) + 1 = k /\ ~ (k <= k - 1)
    BY <1>2, <2>2
  <2>4. Inv(k - 1)
    BY <2>1, <2>3
  <2>5. Inv((k - 1) + 1)
    BY <1>10, <2>3, <2>4
  <2>6. QED
    BY <2>2, <2>3, <2>5
<1>12. a + m = Len(p) - 1 /\ Len(p) \in 1 .. Len(p)
  BY <1>2, <1>3 DEF m
<1>13. At(p, a + m) = Parent(p)
  <2>1. At(p, Len(p)) = p
    BY AtEnds
  <2>2. QED
    BY <1>12, <2>1, AtParent
<1>14. Deepened(t, r, p, a + m) /\ r.usage.entries = tx.usage.entries + m
  BY <1>7, <1>11
<1>15. \A q \in Paths : r.entries[q] # es[q] =>
         es[q] = Absent /\ Is(r.entries, q, "directory") /\ IsPrefix(q, p) /\ q # p
  <2> SUFFICES ASSUME NEW q \in Paths, r.entries[q] # es[q]
               PROVE  es[q] = Absent /\ Is(r.entries, q, "directory") /\ IsPrefix(q, p) /\ q # p
    OBVIOUS
  <2>1. PICK i \in 0 .. a + m : q = At(p, i)
    BY <1>8, <1>14 DEF Deepened
  <2>2. i \in 0 .. Len(p) /\ i # Len(p)
    BY <1>3, <1>12
  <2>3. IsPrefix(q, p) /\ q # p
    BY <2>1, <2>2, AtAbove
  <2>4. QED
    BY <1>8, <1>14, <2>3 DEF Deepened
<1>16. r.usage.entries >= tx.usage.entries
  BY <1>1, <1>2, <1>14 DEF Transaction, Totals
<1>17. r.halt = Absent /\ r.usage.entries > tx.usage.entries => r.usage.entries <= limits.entries
  <2> SUFFICES ASSUME r.halt = Absent, r.usage.entries > tx.usage.entries
               PROVE  r.usage.entries <= limits.entries
    OBVIOUS
  <2>1. t.halt = Absent
    BY <1>14 DEF Deepened
  <2>2. m > 0
    BY <1>1, <1>2, <1>14 DEF Transaction, Totals
  <2>3. ok
    <3>1. [alloc |-> tx.alloc, full |-> TRUE] \in Halts
      BY <1>1 DEF Transaction, Halts
    <3>2. QED
      BY <1>5, <2>1, <3>1, HaltIs DEF IsWeighed
  <2>4. tx.usage.entries + m <= limits.entries
    BY <2>2, <2>3 DEF ok
  <2>5. QED
    BY <1>14, <2>4
<1>18. /\ Good(r) /\ Is(r.entries, Parent(p), "directory")
       /\ r.usage.inlineBytes = tx.usage.inlineBytes
       /\ r.recount = tx.recount /\ DeltaOf(r.deltas, p) = DeltaOf(tx.deltas, p)
  BY <1>8, <1>13, <1>14 DEF Deepened
<1>19. r.halt = tx.halt \/ r.usage.entries > tx.usage.entries
  <2>1. CASE ok
    BY <1>5, <1>14, <2>1 DEF IsWeighed, Deepened
  <2>2. CASE ~ ok
    <3>1. m > 0
      <4>1. ~ (0 > 0)
        OBVIOUS
      <4>2. QED
        BY <2>2, <4>1 DEF ok
    <3>2. QED
      BY <1>1, <1>2, <1>14, <3>1 DEF Transaction, Totals
  <2>3. QED
    BY <2>1, <2>2
<1>20. IsReached(tx, r, p)
  BY <1>15, <1>16, <1>17, <1>18, <1>19 DEF IsReached, es
<1>21. QED
  BY <1>20 DEF r

------------------------------------------------------------------------------
(* The invariant, the start of a transaction and its end *)

IInv ==
  /\ TypeOK
  /\ Shaped(entries)
  /\ UsageExact
  /\ NlinkExact
  /\ Numbered(entries, usage.nextIno)
  /\ usage.nextIno <= alloc.ino
  /\ \A p \in Paths : changes[p].seq <= alloc.seq

\* A transaction begins with what the invariant says.
LEMMA BeginIs ==
    ASSUME IInv
    PROVE  /\ Good(Begin)
           /\ Begin.entries = entries /\ Begin.tombstones = tombstones /\ Begin.usage = usage
           /\ Begin.changes = changes /\ Begin.alloc = alloc
           /\ Begin.halt = Absent /\ Begin.recount = FALSE /\ Begin.parents = {}
           /\ \A p : DeltaOf(Begin.deltas, p) = 0
<1>1. /\ Begin.entries = entries /\ Begin.tombstones = tombstones /\ Begin.usage = usage
      /\ Begin.changes = changes /\ Begin.alloc = alloc
      /\ Begin.halt = Absent /\ Begin.recount = FALSE /\ Begin.parents = {}
      /\ Begin.deltas = << >>
  BY DEF Begin
<1>2. Begin \in Transaction
  <2>1. /\ entries \in Table /\ tombstones \in Tombs /\ usage \in Totals /\ changes \in Feed
        /\ alloc \in Counters
    BY DEF IInv, TypeOK, Table, Tombs, Totals, Feed, Counters
  <2>2. << >> \in Deltas /\ {} \in SUBSET Paths
    BY NoDeltas
  <2>3. QED
    BY <2>1, <2>2 DEF Begin, Transaction
<1>3. \A p : DeltaOf(Begin.deltas, p) = 0
  BY <1>1, NoDeltas
<1>4. /\ alloc.ino \in Nat /\ alloc.seq \in Nat /\ usage.nextIno \in Nat
      /\ \A p \in Living(entries, Paths) : entries[p].ino \in Inos(entries)
  BY DEF IInv, TypeOK, Inos
<1> HIDE DEF Begin
<1>5. Solid(Begin)
  <2>1. \A p \in Paths : changes[p].seq <= changes[p].seq
    BY DEF IInv, TypeOK
  <2>2. QED
    BY <1>1, <1>2, <1>4, <2>1 DEF IInv, Solid, UsageExact
<1>6. Linked(Begin, {})
  <2>1. ASSUME NEW p \in Paths, Is(entries, p, "directory")
        PROVE  entries[p].nlink + 0 = 2 + Cardinality(ChildDirectories(entries, p))
    <3>1. entries[p] \in Entry
      BY <2>1 DEF IInv, TypeOK, Is
    <3>2. entries[p].nlink \in Nat
      BY <3>1, RowIs
    <3>3. entries[p].nlink = 2 + Cardinality(ChildDirectories(entries, p))
      BY <2>1 DEF IInv, NlinkExact
    <3>4. QED
      BY <3>2, <3>3
  <2>2. QED
    BY <1>1, <1>3, <2>1 DEF Linked
<1>7. Pending(Begin)
  BY <1>3 DEF Pending
<1>8. Told(Begin)
  <2>1. ASSUME NEW p \in Paths
        PROVE  Version(entries, tombstones, p) >= Version(entries, tombstones, p)
    <3>1. Version(entries, tombstones, p) \in Nat
      BY VersionType DEF IInv, TypeOK, Table, Tombs
    <3>2. QED
      BY <3>1
  <2>2. QED
    BY <1>1, <2>1 DEF Told
<1>9. QED
  BY <1>1, <1>3, <1>5, <1>6, <1>7, <1>8 DEF Good

\* Each element of a finite set has a number of its own.
LEMMA RankIs ==
    ASSUME NEW S, IsFiniteSet(S)
    PROVE  /\ Rank(S) \in [S -> 1 .. Cardinality(S)]
           /\ \A x, y \in S : Rank(S)[x] = Rank(S)[y] => x = y
<1> DEFINE N == 1 .. Cardinality(S)
<1>1. ExistsBijection(S, N)
  <2>1. ExistsBijection(N, S)
    BY FS_CardinalityType
  <2> HIDE DEF N
  <2>2. QED
    BY <2>1, Fun_ExistsBijSymmetric
<1>2. PICK number \in [S -> N] : \A x, y \in S : number[x] = number[y] => x = y
  <2> HIDE DEF N
  <2>1. PICK f : f \in Bijection(S, N)
    BY <1>1 DEF ExistsBijection
  <2>2. f \in [S -> N] /\ \A x, y \in S : f[x] = f[y] => x = y
    BY <2>1 DEF Bijection, Injection, IsInjective
  <2>3. QED
    BY <2>2
<1>3. Rank(S) = CHOOSE f \in [S -> N] : \A x, y \in S : f[x] = f[y] => x = y
  BY DEF Rank
<1> HIDE DEF N
<1>4. Rank(S) \in [S -> N] /\ \A x, y \in S : Rank(S)[x] = Rank(S)[y] => x = y
  BY <1>2, <1>3
<1>5. QED
  BY <1>4 DEF N

\* Where link counts need not be right before they are flushed.
Open(tx) == IF tx.recount THEN tx.parents ELSE {}

Touched(tx) == {p \in tx.parents : Is(tx.entries, p, "directory")}

\* r is tx with its touched directories renewed.
IsFlushed(tx, r) ==
  /\ r \in Transaction
  /\ r.tombstones = tx.tombstones /\ r.usage = tx.usage
  /\ r.alloc.ino = tx.alloc.ino /\ r.alloc.seq >= tx.alloc.seq
  /\ \A p \in Paths \ Touched(tx) : r.entries[p] = tx.entries[p] /\ r.changes[p] = tx.changes[p]
  /\ \A p \in Touched(tx) :
       /\ Is(r.entries, p, "directory")
       /\ r.entries[p].ino = tx.entries[p].ino /\ r.entries[p].size = tx.entries[p].size
       /\ r.entries[p].version = tx.entries[p].version + 1
       /\ r.entries[p].nlink = 2 + Cardinality(ChildDirectories(tx.entries, p))
       /\ r.changes[p].seq > tx.alloc.seq /\ r.changes[p].seq <= r.alloc.seq
       /\ r.changes[p].present = TRUE

\* FlushParentTimes.
LEMMA FlushIs ==
    ASSUME NEW tx \in Transaction, Linked(tx, Open(tx))
    PROVE  IsFlushed(tx, FlushParentTimes(tx))
<1> DEFINE touched == {p \in tx.parents : Is(tx.entries, p, "directory")}
           counts == tx.recount \/ Cardinality(DOMAIN tx.deltas) > 2
           nlink(p) == IF counts THEN 2 + Cardinality(ChildDirectories(tx.entries, p))
                       ELSE tx.entries[p].nlink
                            + (IF p \in DOMAIN tx.deltas THEN tx.deltas[p] ELSE 0)
           order == Rank(touched)
           row(p) == [tx.entries[p] EXCEPT !.version = @ + 1, !.nlink = nlink(p)]
           rows == [p \in touched |-> row(p)]
           news == [p \in touched |-> [seq |-> tx.alloc.seq + order[p], present |-> TRUE]]
           n == Cardinality(touched)
           es == With(tx.entries, rows)
           cs == With(tx.changes, news)
           seq == tx.alloc.seq + n
           r == FlushParentTimes(tx)
<1>1. /\ tx.entries \in Table /\ tx.changes \in Feed /\ tx.alloc \in Counters
      /\ tx.alloc.seq \in Nat /\ tx.parents \subseteq Paths
  BY DEF Transaction, Counters
<1>2. touched \subseteq Paths /\ touched = Touched(tx)
  BY <1>1 DEF Touched
<1>3. r = [[[tx EXCEPT !.entries = es] EXCEPT !.changes = cs] EXCEPT !.alloc.seq = seq]
  BY DEF FlushParentTimes
<1>4. ASSUME NEW p \in touched
      PROVE  nlink(p) = 2 + Cardinality(ChildDirectories(tx.entries, p)) /\ nlink(p) \in Nat
  <2>1. Cardinality(ChildDirectories(tx.entries, p)) \in Nat
    BY <1>2, ChildrenIs
  <2>2. CASE counts
    BY <2>1, <2>2
  <2>3. CASE ~ counts
    <3>1. p \in Paths \ Open(tx) /\ Is(tx.entries, p, "directory")
      BY <1>2, <2>3 DEF Open
    <3>2. tx.entries[p].nlink + DeltaOf(tx.deltas, p) = 2 + Cardinality(ChildDirectories(tx.entries, p))
      BY <3>1 DEF Linked
    <3>3. nlink(p) = tx.entries[p].nlink + DeltaOf(tx.deltas, p)
      BY <2>3 DEF DeltaOf
    <3>4. QED
      BY <2>1, <3>2, <3>3
  <2>4. QED
    BY <2>2, <2>3
<1>5. IsFiniteSet(touched) /\ n \in Nat
  BY <1>2, PathsAssumption, FS_Subset, FS_CardinalityType
<1>6. \A p \in touched : order[p] \in 1 .. n
  BY <1>5, RankIs
<1> HIDE DEF touched, nlink, order, n
<1>7. \A p \in touched : Is(tx.entries, p, "directory") /\ p \in Paths
  BY <1>2 DEF touched
<1>8. ASSUME NEW p \in touched
      PROVE  /\ row(p) \in Entry /\ row(p).kind = "directory" /\ row(p) # Absent
             /\ row(p).ino = tx.entries[p].ino /\ row(p).size = tx.entries[p].size
             /\ row(p).version = tx.entries[p].version + 1 /\ row(p).nlink = nlink(p)
  <2> DEFINE e == tx.entries[p]
             v == e.version + 1
             k == nlink(p)
  <2>1. e \in Entry /\ v \in Nat /\ k \in Nat /\ e.kind = "directory"
    BY <1>1, <1>4, <1>7 DEF Table, Is, Entry
  <2>2. row(p) = [[e EXCEPT !.version = v] EXCEPT !.nlink = k]
    BY <2>1 DEF Entry
  <2> HIDE DEF e, v, k
  <2>3. /\ row(p) \in Entry /\ row(p).kind = "directory"
        /\ row(p).ino = e.ino /\ row(p).size = e.size
        /\ row(p).version = v /\ row(p).nlink = k
    BY <2>1, <2>2 DEF Entry
  <2> HIDE DEF row
  <2>4. row(p) # Absent
    BY <2>3, RowIs
  <2>5. QED
    BY <2>3, <2>4 DEF e, v, k
<1>9. DOMAIN rows = touched /\ \A p \in touched : rows[p] = row(p)
  OBVIOUS
<1>10. /\ DOMAIN news = touched
       /\ \A p \in touched : news[p] = [seq |-> tx.alloc.seq + order[p], present |-> TRUE]
  OBVIOUS
<1> HIDE DEF rows, news, row
<1>11. es \in Table /\ \A p \in Paths : es[p] = IF p \in touched THEN row(p) ELSE tx.entries[p]
  <2> DEFINE V == Entry \cup {Absent}
  <2>1. tx.entries \in [Paths -> V] /\ DOMAIN rows \subseteq Paths /\ \A p \in DOMAIN rows : rows[p] \in V
    BY <1>1, <1>2, <1>8, <1>9 DEF Table
  <2> HIDE DEF V
  <2>2. es \in [Paths -> V] /\ \A p \in Paths : es[p] = IF p \in DOMAIN rows THEN rows[p] ELSE tx.entries[p]
    BY <2>1, WithIs
  <2>3. QED
    BY <1>9, <2>2 DEF V, Table
<1>12. cs \in Feed /\ \A p \in Paths : cs[p] = IF p \in touched THEN news[p] ELSE tx.changes[p]
  <2> DEFINE V == [seq : Nat, present : BOOLEAN]
  <2>1. ASSUME NEW p \in touched
        PROVE  news[p] \in V
    <3> DEFINE x == tx.alloc.seq + order[p]
    <3>1. x \in Nat
      BY <1>1, <1>5, <1>6
    <3>2. news[p] = [seq |-> x, present |-> TRUE]
      BY <1>10
    <3> HIDE DEF x
    <3>3. QED
      BY <3>1, <3>2
  <2>2. tx.changes \in [Paths -> V] /\ DOMAIN news \subseteq Paths /\ \A p \in DOMAIN news : news[p] \in V
    BY <1>1, <1>2, <1>10, <2>1 DEF Feed
  <2> HIDE DEF V
  <2>3. cs \in [Paths -> V] /\ \A p \in Paths : cs[p] = IF p \in DOMAIN news THEN news[p] ELSE tx.changes[p]
    BY <2>2, WithIs
  <2>4. QED
    BY <1>10, <2>3 DEF V, Feed
<1>13. seq \in Nat /\ seq >= tx.alloc.seq
  BY <1>1, <1>5
<1> HIDE DEF es, cs, seq, r
<1>14. /\ r \in Transaction /\ r.entries = es /\ r.changes = cs
       /\ r.tombstones = tx.tombstones /\ r.usage = tx.usage
       /\ r.alloc.ino = tx.alloc.ino /\ r.alloc.seq = seq
  <2>1. [tx EXCEPT !.entries = es] \in Transaction
    BY <1>11 DEF Transaction
  <2>2. [[tx EXCEPT !.entries = es] EXCEPT !.changes = cs] \in Transaction
    BY <1>12, <2>1 DEF Transaction
  <2>3. r \in Transaction
    BY <1>1, <1>3, <1>13, <2>2 DEF Transaction, Counters
  <2>4. /\ r.entries = es /\ r.changes = cs
        /\ r.tombstones = tx.tombstones /\ r.usage = tx.usage
        /\ r.alloc.ino = tx.alloc.ino /\ r.alloc.seq = seq
    BY <1>1, <1>3 DEF Transaction, Counters
  <2>5. QED
    BY <2>3, <2>4
<1>15. \A p \in Paths \ touched : r.entries[p] = tx.entries[p] /\ r.changes[p] = tx.changes[p]
  BY <1>11, <1>12, <1>14
<1>16. ASSUME NEW p \in touched
       PROVE  /\ Is(r.entries, p, "directory")
              /\ r.entries[p].ino = tx.entries[p].ino /\ r.entries[p].size = tx.entries[p].size
              /\ r.entries[p].version = tx.entries[p].version + 1
              /\ r.entries[p].nlink = 2 + Cardinality(ChildDirectories(tx.entries, p))
              /\ r.changes[p].seq > tx.alloc.seq /\ r.changes[p].seq <= r.alloc.seq
              /\ r.changes[p].present = TRUE
  <2>1. r.entries[p] = row(p) /\ r.changes[p] = news[p]
    BY <1>7, <1>11, <1>12, <1>14
  <2>2. r.changes[p].seq = tx.alloc.seq + order[p] /\ r.changes[p].present = TRUE
    BY <1>10, <2>1
  <2>3. r.changes[p].seq > tx.alloc.seq /\ r.changes[p].seq <= r.alloc.seq
    BY <1>1, <1>5, <1>6, <1>14, <2>2 DEF seq
  <2>4. QED
    BY <1>4, <1>8, <2>1, <2>2, <2>3 DEF Is
<1>17. IsFlushed(tx, r)
  BY <1>2, <1>13, <1>14, <1>15, <1>16 DEF IsFlushed
<1>18. QED
  BY <1>17 DEF r

\* A flush changes no kind, size or number.
LEMMA FlushedSame ==
    ASSUME NEW tx \in Transaction, NEW r, IsFlushed(tx, r)
    PROVE  /\ \A p \in Paths : /\ r.entries[p] = Absent <=> tx.entries[p] = Absent
                               /\ \A k : Is(r.entries, p, k) <=> Is(tx.entries, p, k)
                               /\ r.entries[p] # Absent => /\ r.entries[p].ino = tx.entries[p].ino
                                                           /\ r.entries[p].size = tx.entries[p].size
           /\ Living(r.entries, Paths) = Living(tx.entries, Paths)
           /\ SizeOf(r.entries, Paths) = SizeOf(tx.entries, Paths)
           /\ \A p \in Paths : ChildDirectories(r.entries, p) = ChildDirectories(tx.entries, p)
<1> DEFINE es == tx.entries
           fs == r.entries
<1>1. ASSUME NEW p \in Paths
      PROVE  /\ fs[p] = Absent <=> es[p] = Absent
             /\ \A k : Is(fs, p, k) <=> Is(es, p, k)
             /\ fs[p] # Absent => fs[p].ino = es[p].ino /\ fs[p].size = es[p].size
  <2>1. CASE p \in Touched(tx)
    <3>1. Is(fs, p, "directory") /\ fs[p].ino = es[p].ino /\ fs[p].size = es[p].size
      BY <2>1 DEF IsFlushed
    <3>2. Is(es, p, "directory")
      BY <2>1 DEF Touched
    <3>3. QED
      BY <3>1, <3>2 DEF Is
  <2>2. CASE p \notin Touched(tx)
    <3>1. fs[p] = es[p]
      BY <2>2 DEF IsFlushed
    <3>2. QED
      BY <3>1 DEF Is
  <2>3. QED
    BY <2>1, <2>2
<1>2. es \in Table /\ fs \in Table
  BY DEF IsFlushed, Transaction
<1> HIDE DEF es, fs
<1>3. Living(fs, Paths) = Living(es, Paths)
  BY <1>1 DEF Living
<1>4. SizeOf(fs, Paths) = SizeOf(es, Paths)
  <2> DEFINE S == Living(es, Paths)
             w == SizeAt(es)
             v == SizeAt(fs)
  <2>1. SizeOf(es, Paths) = SumOf(w, S) /\ SizeOf(fs, Paths) = SumOf(v, S)
    BY <1>3, SizeOfIs
  <2>2. IsFiniteSet(S) /\ \A p \in S : v[p] = w[p]
    BY <1>1, <1>2, <1>3, LivingIs DEF Living, SizeAt
  <2> HIDE DEF S, w, v
  <2>3. SumOf(v, S) = SumOf(w, S)
    BY <2>2, SumSame
  <2>4. QED
    BY <2>1, <2>3
<1>5. ASSUME NEW p \in Paths
      PROVE  ChildDirectories(fs, p) = ChildDirectories(es, p)
  BY <1>1 DEF ChildDirectories, Children
<1>6. QED
  BY <1>1, <1>3, <1>4, <1>5 DEF es, fs

\* What a commit needs of link counts, and what a refusal prevents.
Ready(tx) ==
  /\ Solid(tx) /\ Pending(tx) /\ Linked(tx, Open(tx))
  /\ tx.halt = Absent =>
       /\ tx.usage.inlineBytes > usage.inlineBytes => tx.usage.inlineBytes <= limits.inlineBytes
       /\ tx.usage.entries > usage.entries => tx.usage.entries <= limits.entries

\* The action of InodesNeverReused.
NewInodes ==
  /\ \A i \in Inos(entries') \ Inos(entries) : i >= usage.nextIno /\ i < usage'.nextIno
  /\ Cardinality(Inos(entries')) = Cardinality(Living(entries', Paths))

\* The action of TokensNeverRepeat.
NewTokens ==
  \A p \in Paths : entries'[p] # entries[p] =>
    Version(entries', tombstones', p) > Version(entries, tombstones, p)

\* No version of a path is behind what it was.
NewVersions ==
  \A p \in Paths : Version(entries', tombstones', p) >= Version(entries, tombstones, p)

\* The action of EveryChangeIsAnnounced.
NewChanges ==
  \A p \in Paths : entries'[p] # entries[p] =>
    /\ \A q \in Paths : changes'[p].seq > changes[q].seq
    /\ changes'[p].present = (entries'[p] # Absent)

\* No path goes back in the feed.
NewFeed == \A p \in Paths : changes'[p].seq >= changes[p].seq

\* The action of GrowthWithinLimits.
NewTotals ==
  /\ usage'.inlineBytes > usage.inlineBytes => usage'.inlineBytes <= limits.inlineBytes
  /\ usage'.entries > usage.entries => usage'.entries <= limits.entries

\* There are as many numbers as rows.
LEMMA InosAreMany ==
    ASSUME NEW es \in Table, NEW next, Numbered(es, next)
    PROVE  Cardinality(Inos(es)) = Cardinality(Living(es, Paths))
<1> DEFINE S == Living(es, Paths)
           w == [p \in S |-> es[p].ino]
<1>1. IsFiniteSet(S) /\ \A p, q \in S : w[p] = w[q] => p = q
  BY LivingIs DEF Numbered
<1>2. Inos(es) = {w[p] : p \in S}
  BY DEF Inos
<1> HIDE DEF S, w
<1>3. Cardinality({w[p] : p \in S}) = Cardinality(S)
  BY <1>1, FiniteImage
<1>4. QED
  BY <1>2, <1>3 DEF S

\* A transaction that is ready ends in a state of the invariant.
LEMMA FinishKeeps ==
    ASSUME IInv, NEW tx, Ready(tx), Finish(tx)
    PROVE  IInv' /\ NewInodes /\ NewTotals
<1> DEFINE r == FlushParentTimes(tx)
<1>1. tx \in Transaction /\ Solid(tx) /\ Pending(tx) /\ Linked(tx, Open(tx))
  BY DEF Ready, Solid
<1>2. IsFlushed(tx, r)
  BY <1>1, FlushIs
<1> HIDE DEF r
<1>3. r \in Transaction
  BY <1>2 DEF IsFlushed
<1>4. steps' \in 0 .. MaxSteps /\ limits' \in Limits
  BY ValuesAssumption DEF Finish, Step, IInv, TypeOK
<1>5. /\ alloc.ino \in Nat /\ alloc.seq \in Nat /\ usage.nextIno \in Nat
      /\ usage.inlineBytes \in Nat /\ usage.entries \in Nat /\ alloc \in Counters
      /\ entries \in Table
  BY DEF IInv, TypeOK, Counters, Table
<1>6. CASE tx.halt = Absent
  <2>1. /\ entries' = r.entries /\ tombstones' = r.tombstones /\ usage' = r.usage
        /\ changes' = r.changes /\ alloc' = r.alloc /\ refused' = Absent
    BY <1>6 DEF Finish, Commit, r
  <2> DEFINE es == tx.entries
             fs == r.entries
  <2>2. /\ \A p \in Paths : /\ fs[p] = Absent <=> es[p] = Absent
                            /\ \A k : Is(fs, p, k) <=> Is(es, p, k)
                            /\ fs[p] # Absent => fs[p].ino = es[p].ino /\ fs[p].size = es[p].size
        /\ Living(fs, Paths) = Living(es, Paths)
        /\ SizeOf(fs, Paths) = SizeOf(es, Paths)
        /\ \A p \in Paths : ChildDirectories(fs, p) = ChildDirectories(es, p)
    BY <1>1, <1>2, FlushedSame
  <2>3. es \in Table /\ fs \in Table /\ r.usage = tx.usage
    BY <1>1, <1>2, <1>3 DEF Transaction, IsFlushed
  <2>4. TypeOK'
    <3>1. SizeOf(es, Paths) \in Nat /\ Cardinality(Living(es, Paths)) \in Nat
      BY <2>3, LivingIs
    <3>2. tx.usage.inlineBytes \in Nat /\ tx.usage.entries \in Nat /\ tx.usage \in Totals
      BY <1>1, <3>1 DEF Solid, Transaction
    <3>3. tx.usage \in [inlineBytes : Nat, entries : Nat, nextIno : Nat]
      BY <3>2 DEF Totals
    <3>4. /\ entries' \in [Paths -> Entry \cup {Absent}] /\ tombstones' \in [Paths -> Nat]
          /\ changes' \in [Paths -> [seq : Nat, present : BOOLEAN]]
          /\ alloc' \in [ino : Nat, seq : Nat]
      BY <1>3, <2>1 DEF Transaction, Table, Tombs, Feed, Counters
    <3>5. QED
      BY <1>4, <2>1, <2>3, <3>3, <3>4 DEF TypeOK
  <2>5. Shaped(entries')
    <3>1. Is(es, Root, "directory") /\ \A p \in Living(es, Paths) : Is(es, Parent(p), "directory")
      BY <1>1 DEF Solid, Shaped
    <3>2. \A p \in Living(fs, Paths) : Parent(p) \in Paths
      BY ParentIsPath DEF Living
    <3>3. Is(fs, Root, "directory") /\ \A p \in Living(fs, Paths) : Is(fs, Parent(p), "directory")
      BY <2>2, <3>1, <3>2, RootIs
    <3>4. QED
      BY <2>1, <3>3 DEF Shaped
  <2>6. usage'.inlineBytes = SizeOf(entries', Paths) /\ usage'.entries = Cardinality(Living(entries', Paths))
    BY <1>1, <2>1, <2>2, <2>3 DEF Solid
  <2>7. ASSUME NEW p \in Paths, Is(fs, p, "directory")
        PROVE  fs[p].nlink = 2 + Cardinality(ChildDirectories(fs, p))
    <3>1. CASE p \in Touched(tx)
      BY <1>2, <2>2, <3>1 DEF IsFlushed
    <3>2. CASE p \notin Touched(tx)
      <4>1. fs[p] = es[p] /\ Is(es, p, "directory")
        BY <1>2, <2>2, <2>7, <3>2 DEF IsFlushed
      <4>2. p \notin tx.parents
        BY <3>2, <4>1 DEF Touched
      <4>3. DeltaOf(tx.deltas, p) = 0 /\ p \notin Open(tx)
        BY <1>1, <4>2 DEF Pending, Open
      <4>4. es[p].nlink + DeltaOf(tx.deltas, p) = 2 + Cardinality(ChildDirectories(es, p))
        BY <1>1, <4>1, <4>3 DEF Linked
      <4>5. es[p].nlink \in Nat
        BY <2>3, <4>1, RowIs DEF Table, Is
      <4>6. QED
        BY <2>2, <4>1, <4>3, <4>4, <4>5
    <3>3. QED
      BY <3>1, <3>2
  <2>8. NlinkExact'
    BY <2>1, <2>7 DEF NlinkExact
  <2>9. Numbered(entries', usage'.nextIno)
    <3>1. Numbered(es, tx.usage.nextIno)
      BY <1>1 DEF Solid
    <3>2. \A p \in Living(fs, Paths) : fs[p].ino = es[p].ino /\ p \in Living(es, Paths)
      BY <2>2 DEF Living
    <3>3. QED
      BY <2>1, <2>3, <3>1, <3>2 DEF Numbered
  <2>10. usage'.nextIno <= alloc'.ino
    BY <1>1, <1>2, <2>1 DEF Solid, IsFlushed
  <2>11. ASSUME NEW p \in Paths
         PROVE  r.changes[p].seq <= r.alloc.seq
    <3>1. CASE p \in Touched(tx)
      BY <1>2, <3>1 DEF IsFlushed
    <3>2. CASE p \notin Touched(tx)
      <4>1. r.changes[p] = tx.changes[p]
        BY <1>2, <3>2 DEF IsFlushed
      <4>2. tx.changes[p].seq <= tx.alloc.seq /\ tx.alloc.seq <= r.alloc.seq
        BY <1>1, <1>2 DEF Solid, IsFlushed
      <4>3. tx.changes[p].seq \in Nat /\ tx.alloc.seq \in Nat /\ r.alloc.seq \in Nat
        BY <1>1, <1>3 DEF Transaction, Feed, Counters
      <4>4. QED
        BY <4>1, <4>2, <4>3
    <3>3. QED
      BY <3>1, <3>2
  <2>12. IInv'
    BY <2>1, <2>4, <2>5, <2>6, <2>8, <2>9, <2>10, <2>11 DEF IInv, UsageExact
  <2>13. NewInodes
    <3>1. Cardinality(Inos(entries')) = Cardinality(Living(entries', Paths))
      BY <2>1, <2>3, <2>9, InosAreMany
    <3>2. ASSUME NEW i \in Inos(entries') \ Inos(entries)
          PROVE  i >= usage.nextIno /\ i < usage'.nextIno
      <4>1. PICK p \in Living(fs, Paths) : i = fs[p].ino
        BY <2>1, <3>2 DEF Inos
      <4>2. p \in Living(es, Paths) /\ i = es[p].ino /\ p \in Living(entries', Paths)
        BY <2>1, <2>2, <4>1 DEF Living
      <4>3. i >= alloc.ino
        BY <1>1, <3>2, <4>2 DEF Solid
      <4>4. i < usage'.nextIno
        <5>1. i = entries'[p].ino
          BY <2>1, <4>1
        <5>2. QED
          BY <2>9, <4>2, <5>1 DEF Numbered
      <4>5. i \in Nat
        BY <2>3, <4>2, RowIs DEF Table, Living
      <4>6. usage.nextIno <= alloc.ino
        BY DEF IInv
      <4>7. QED
        BY <1>5, <4>3, <4>4, <4>5, <4>6
    <3>3. QED
      BY <3>1, <3>2 DEF NewInodes
  <2>14. NewTotals
    BY <1>6, <2>1, <2>3 DEF NewTotals, Ready
  <2>15. QED
    BY <2>12, <2>13, <2>14
<1>7. CASE tx.halt # Absent
  <2>1. /\ alloc' = tx.halt.alloc
        /\ refused' = IF tx.halt.full
                      THEN [inlineBytes |-> tx.usage.inlineBytes - usage.inlineBytes,
                            entries |-> tx.usage.entries - usage.entries]
                      ELSE Absent
        /\ entries' = entries /\ tombstones' = tombstones /\ usage' = usage /\ changes' = changes
    BY <1>7 DEF Finish, Rollback, durable
  <2>2. tx.halt \in Halts /\ tx.halt.alloc \in Counters
    BY <1>1, <1>7 DEF Transaction, Halts
  <2>3. refused' \in [inlineBytes : Int, entries : Int] \cup {Absent}
    <3>1. tx.usage.inlineBytes - usage.inlineBytes \in Int /\ tx.usage.entries - usage.entries \in Int
      BY <1>1, <1>5 DEF Transaction, Totals
    <3>2. QED
      BY <2>1, <3>1
  <2>4. TypeOK'
    BY <1>4, <2>1, <2>2, <2>3 DEF IInv, TypeOK, Counters
  <2>5. /\ alloc.ino <= alloc'.ino /\ alloc.seq <= alloc'.seq
        /\ alloc'.ino \in Nat /\ alloc'.seq \in Nat
    BY <1>1, <1>7, <2>1, <2>2 DEF Solid, Counters
  <2>6. \A p \in Paths : changes[p].seq \in Nat
    BY DEF IInv, TypeOK
  <2>7. usage'.nextIno <= alloc'.ino /\ \A p \in Paths : changes'[p].seq <= alloc'.seq
    BY <1>5, <2>1, <2>5, <2>6 DEF IInv
  <2>8. Shaped(entries') /\ UsageExact' /\ NlinkExact' /\ Numbered(entries', usage'.nextIno)
    BY <2>1 DEF IInv, UsageExact, NlinkExact
  <2>9. IInv'
    BY <2>4, <2>7, <2>8 DEF IInv
  <2>10. NewInodes
    <3>1. Cardinality(Inos(entries)) = Cardinality(Living(entries, Paths))
      BY <1>5, InosAreMany DEF IInv
    <3>2. QED
      BY <2>1, <3>1 DEF NewInodes
  <2>11. NewTotals
    BY <1>5, <2>1 DEF NewTotals
  <2>12. QED
    BY <2>9, <2>10, <2>11
<1>8. QED
  BY <1>6, <1>7

\* Versions go on when a transaction is committed.
LEMMA FinishAdvances ==
    ASSUME IInv, NEW tx, Ready(tx), Forward(tx), Fresh(tx), Finish(tx)
    PROVE  NewTokens /\ NewVersions
<1> DEFINE r == FlushParentTimes(tx)
<1>1. tx \in Transaction /\ Solid(tx) /\ Linked(tx, Open(tx))
  BY DEF Ready, Solid
<1>2. IsFlushed(tx, r)
  BY <1>1, FlushIs
<1> HIDE DEF r
<1>3. \A p \in Paths : Version(tx.entries, tx.tombstones, p) \in Nat
                       /\ Version(entries, tombstones, p) \in Nat
  BY <1>1, VersionType DEF Transaction, IInv, TypeOK, Table, Tombs
<1>4. CASE tx.halt = Absent
  <2>1. entries' = r.entries /\ tombstones' = r.tombstones
    BY <1>4 DEF Finish, Commit, r
  <2>2. ASSUME NEW p \in Paths
        PROVE  /\ Version(r.entries, r.tombstones, p) >= Version(entries, tombstones, p)
               /\ r.entries[p] # entries[p] =>
                    Version(r.entries, r.tombstones, p) > Version(entries, tombstones, p)
    <3>1. Version(tx.entries, tx.tombstones, p) >= Version(entries, tombstones, p)
      BY DEF Forward
    <3>2. CASE p \in Touched(tx)
      <4>1. /\ Is(r.entries, p, "directory") /\ Is(tx.entries, p, "directory")
            /\ r.entries[p].version = tx.entries[p].version + 1
        BY <1>2, <3>2 DEF IsFlushed, Touched
      <4>2. /\ Version(r.entries, r.tombstones, p) = r.entries[p].version
            /\ Version(tx.entries, tx.tombstones, p) = tx.entries[p].version
        BY <4>1 DEF Version, Is
      <4>3. QED
        BY <1>3, <3>1, <4>1, <4>2
    <3>3. CASE p \notin Touched(tx)
      <4>1. r.entries[p] = tx.entries[p] /\ r.tombstones = tx.tombstones
        BY <1>2, <3>3 DEF IsFlushed
      <4>2. Version(r.entries, r.tombstones, p) = Version(tx.entries, tx.tombstones, p)
        BY <4>1 DEF Version
      <4>3. tx.entries[p] # entries[p] =>
              Version(tx.entries, tx.tombstones, p) > Version(entries, tombstones, p)
        BY DEF Fresh
      <4>4. QED
        BY <3>1, <4>1, <4>2, <4>3
    <3>4. QED
      BY <3>2, <3>3
  <2>3. QED
    BY <2>1, <2>2 DEF NewTokens, NewVersions
<1>5. CASE tx.halt # Absent
  <2>1. entries' = entries /\ tombstones' = tombstones
    BY <1>5 DEF Finish, Rollback, durable
  <2>2. QED
    BY <1>3, <2>1 DEF NewTokens, NewVersions, Version
<1>6. QED
  BY <1>4, <1>5

\* What was announced stays so when it is committed.
LEMMA FinishTells ==
    ASSUME IInv, NEW tx, Ready(tx), Told(tx), Finish(tx)
    PROVE  NewTokens /\ NewVersions /\ NewChanges /\ NewFeed
<1> DEFINE r == FlushParentTimes(tx)
<1>1. tx \in Transaction /\ Solid(tx) /\ Linked(tx, Open(tx))
  BY DEF Ready, Solid
<1>2. IsFlushed(tx, r)
  BY <1>1, FlushIs
<1> HIDE DEF r
<1>3. NewTokens /\ NewVersions
  BY ToldIs, FinishAdvances
<1>4. CASE tx.halt = Absent
  <2>1. entries' = r.entries /\ changes' = r.changes
    BY <1>4 DEF Finish, Commit, r
  <2>2. ASSUME NEW p \in Paths, r.entries[p] # entries[p]
        PROVE  /\ r.changes[p].seq > alloc.seq
               /\ r.changes[p].present = (r.entries[p] # Absent)
    <3>1. CASE p \in Touched(tx)
      <4>1. /\ Is(r.entries, p, "directory")
            /\ r.changes[p].seq > tx.alloc.seq /\ r.changes[p].present = TRUE
        BY <1>2, <3>1 DEF IsFlushed
      <4>2. r.entries[p] # Absent
        BY <4>1 DEF Is
      <4>3. /\ tx.alloc.seq \in Nat /\ alloc.seq \in Nat /\ alloc.seq <= tx.alloc.seq
            /\ r.changes[p].seq \in Nat
        BY <1>1, <1>2 DEF Transaction, Counters, IInv, TypeOK, Solid, IsFlushed, Feed
      <4>4. r.changes[p].seq > alloc.seq
        BY <4>1, <4>3
      <4>5. QED
        BY <4>1, <4>2, <4>4
    <3>2. CASE p \notin Touched(tx)
      <4>1. r.entries[p] = tx.entries[p] /\ r.changes[p] = tx.changes[p]
        BY <1>2, <3>2 DEF IsFlushed
      <4>2. tx.changes[p].seq > alloc.seq /\ tx.changes[p].present = (tx.entries[p] # Absent)
        BY <2>2, <4>1 DEF Told
      <4>3. QED
        BY <4>1, <4>2
    <3>3. QED
      BY <3>1, <3>2
  <2>3. ASSUME NEW p \in Paths, NEW q \in Paths, r.entries[p] # entries[p]
        PROVE  r.changes[p].seq > changes[q].seq
    <3>1. r.changes[p].seq > alloc.seq /\ changes[q].seq <= alloc.seq
      BY <2>2, <2>3 DEF IInv
    <3>2. r.changes[p].seq \in Nat /\ alloc.seq \in Nat /\ changes[q].seq \in Nat
      BY <1>2 DEF IsFlushed, Transaction, Feed, IInv, TypeOK
    <3>3. QED
      BY <3>1, <3>2
  <2>4. NewChanges
    BY <2>1, <2>2, <2>3 DEF NewChanges
  <2>5. ASSUME NEW p \in Paths
        PROVE  r.changes[p].seq >= changes[p].seq
    <3>1. /\ changes[p].seq \in Nat /\ tx.changes[p].seq \in Nat /\ tx.alloc.seq \in Nat
          /\ changes[p].seq <= tx.changes[p].seq /\ changes[p].seq <= tx.alloc.seq
      BY <1>1, FeedIs DEF IInv
    <3>2. r.changes[p] = tx.changes[p] \/ r.changes[p].seq > tx.alloc.seq
      BY <1>2 DEF IsFlushed
    <3>3. r.changes[p].seq \in Nat
      BY <1>2 DEF IsFlushed, Transaction, Feed
    <3>4. QED
      BY <3>1, <3>2, <3>3
  <2>6. QED
    BY <1>3, <2>1, <2>4, <2>5 DEF NewFeed
<1>5. CASE tx.halt # Absent
  <2>1. entries' = entries /\ changes' = changes
    BY <1>5 DEF Finish, Rollback, durable
  <2>2. \A p \in Paths : changes[p].seq \in Nat
    BY DEF IInv, TypeOK
  <2>3. QED
    BY <1>3, <2>1, <2>2 DEF NewChanges, NewFeed
<1>6. QED
  BY <1>4, <1>5

------------------------------------------------------------------------------
(* A row that is removed *)

\* r is tx without the row of p, if there was one.
IsRemoved(tx, r, p, advance) ==
  /\ r \in Transaction
  /\ r.changes = tx.changes /\ r.alloc = tx.alloc /\ r.parents = tx.parents
  /\ r.recount = tx.recount /\ r.halt = tx.halt
  /\ \A q \in Paths :
       /\ r.entries[q] = IF q = p THEN Absent ELSE tx.entries[q]
       /\ r.tombstones[q] >= tx.tombstones[q]
       /\ DeltaOf(r.deltas, q) = DeltaOf(tx.deltas, q)
            - (IF Is(tx.entries, p, "directory") /\ q = Parent(p) THEN 1 ELSE 0)
  /\ tx.entries[p] # Absent => r.tombstones[p] >= tx.entries[p].version + advance
  /\ r.usage.inlineBytes = tx.usage.inlineBytes - SizeOf(tx.entries, {p})
  /\ r.usage.entries = tx.usage.entries - Cardinality(Living(tx.entries, {p}))
  /\ r.usage.nextIno \in {tx.usage.nextIno, tx.alloc.ino} /\ r.usage.nextIno >= tx.usage.nextIno

\* RemoveExact.
LEMMA RemoveExactIs ==
    ASSUME NEW tx \in Transaction, NEW p \in Paths, NEW advance \in Nat
    PROVE  IsRemoved(tx, RemoveExact(tx, p, advance), p, advance)
<1> DEFINE r == RemoveExact(tx, p, advance)
<1>1. tx.entries \in Table /\ tx.tombstones \in Tombs /\ tx.usage \in Totals /\ tx.deltas \in Deltas
  BY DEF Transaction
<1>2. CASE tx.entries[p] = Absent
  <2>1. r = tx
    BY <1>2 DEF RemoveExact
  <2>2. SizeOf(tx.entries, {p}) = 0 /\ Cardinality(Living(tx.entries, {p})) = 0
    BY <1>1, <1>2, OnePath
  <2>3. tx.usage.inlineBytes \in Int /\ tx.usage.entries \in Int /\ tx.usage.nextIno \in Nat
    BY <1>1 DEF Totals
  <2>4. ~ Is(tx.entries, p, "directory")
    BY <1>2 DEF Is
  <2>5. \A q \in Paths : tx.tombstones[q] \in Nat /\ DeltaOf(tx.deltas, q) \in Int
    BY <1>1, DeltaType DEF Tombs
  <2>6. /\ tx.usage.inlineBytes = tx.usage.inlineBytes - 0
        /\ tx.usage.entries = tx.usage.entries - 0
        /\ tx.usage.nextIno >= tx.usage.nextIno
    BY <2>3
  <2>7. \A q \in Paths : /\ tx.tombstones[q] >= tx.tombstones[q]
                         /\ DeltaOf(tx.deltas, q) = DeltaOf(tx.deltas, q) - 0
    BY <2>5
  <2>8. \A q \in Paths : tx.entries[q] = IF q = p THEN Absent ELSE tx.entries[q]
    BY <1>2
  <2>9. IsRemoved(tx, tx, p, advance)
    BY <1>2, <2>2, <2>4, <2>6, <2>7, <2>8 DEF IsRemoved
  <2>10. QED
    BY <2>1, <2>9
<1>3. CASE tx.entries[p] # Absent
  <2> DEFINE t1 == IF Is(tx.entries, p, "directory") THEN NoteDelta(tx, Parent(p), -1) ELSE tx
             ps == {p}
             t2 == Delete(t1, ps, advance)
             size == tx.entries[p].size
  <2>1. r = UpdateUsage(t2, - size, -1)
    BY <1>3 DEF RemoveExact
  <2>2. size \in Nat /\ - size \in Int /\ Parent(p) \in Paths /\ ps \subseteq Paths /\ p \in ps
    BY <1>1, <1>3, RowIs, ParentIsPath DEF Table
  <2>3. SizeOf(tx.entries, {p}) = size /\ Cardinality(Living(tx.entries, {p})) = 1
    BY <1>1, <1>3, OnePath
  <2> HIDE DEF size
  <2>4. /\ t1 \in Transaction
        /\ t1.entries = tx.entries /\ t1.tombstones = tx.tombstones /\ t1.usage = tx.usage
        /\ t1.changes = tx.changes /\ t1.alloc = tx.alloc /\ t1.parents = tx.parents
        /\ t1.recount = tx.recount /\ t1.halt = tx.halt
        /\ \A q \in Paths : DeltaOf(t1.deltas, q) = DeltaOf(tx.deltas, q)
             - (IF Is(tx.entries, p, "directory") /\ q = Parent(p) THEN 1 ELSE 0)
    <3>1. \A q \in Paths : DeltaOf(tx.deltas, q) \in Int
      BY <1>1, DeltaType
    <3>2. CASE Is(tx.entries, p, "directory")
      <4>1. IsCounted(tx, t1, Parent(p), -1)
        <5>1. IsCounted(tx, NoteDelta(tx, Parent(p), -1), Parent(p), -1)
          BY <2>2, NoteDeltaIs
        <5>2. QED
          BY <3>2, <5>1
      <4> HIDE DEF t1
      <4>2. QED
        BY <3>1, <3>2, <4>1 DEF IsCounted
    <3>3. CASE ~ Is(tx.entries, p, "directory")
      <4>1. t1 = tx
        BY <3>3
      <4> HIDE DEF t1
      <4>2. QED
        BY <3>1, <3>3, <4>1
    <3>4. QED
      BY <3>2, <3>3
  <2> HIDE DEF t1
  <2>5. IsDeleted(t1, t2, ps, advance)
    <3> HIDE DEF ps
    <3>1. QED
      BY <2>2, <2>4, DeleteIs
  <2> HIDE DEF t2
  <2>6. t2 \in Transaction /\ IsTotalled(t2, r, - size, -1)
    <3>1. t2 \in Transaction
      BY <2>5 DEF IsDeleted
    <3>2. IsTotalled(t2, UpdateUsage(t2, - size, -1), - size, -1)
      BY <2>2, <3>1, UpdateUsageIs
    <3>3. QED
      BY <2>1, <3>1, <3>2
  <2> HIDE DEF r, ps
  <2>7. /\ r \in Transaction
        /\ r.changes = tx.changes /\ r.alloc = tx.alloc /\ r.parents = tx.parents
        /\ r.recount = tx.recount /\ r.halt = tx.halt
        /\ t2.usage = tx.usage /\ t2.alloc = tx.alloc
    BY <2>4, <2>5, <2>6 DEF IsDeleted, IsTotalled
  <2>8. ASSUME NEW q \in Paths
        PROVE  /\ r.entries[q] = IF q = p THEN Absent ELSE tx.entries[q]
               /\ r.tombstones[q] >= tx.tombstones[q]
               /\ DeltaOf(r.deltas, q) = DeltaOf(tx.deltas, q)
                    - (IF Is(tx.entries, p, "directory") /\ q = Parent(p) THEN 1 ELSE 0)
    <3>1. r.entries = t2.entries /\ r.tombstones = t2.tombstones /\ r.deltas = t1.deltas
      BY <2>5, <2>6 DEF IsDeleted, IsTotalled
    <3>2. /\ t2.entries[q] = IF q \in ps THEN Absent ELSE tx.entries[q]
          /\ t2.tombstones[q] >= tx.tombstones[q]
      BY <2>4, <2>5 DEF IsDeleted
    <3>3. q \in ps <=> q = p
      BY DEF ps
    <3>4. QED
      BY <2>4, <3>1, <3>2, <3>3
  <2>9. r.tombstones[p] >= tx.entries[p].version + advance
    <3>1. r.tombstones = t2.tombstones
      BY <2>6 DEF IsTotalled
    <3>2. QED
      BY <1>3, <2>2, <2>4, <2>5, <3>1 DEF IsDeleted
  <2>10. /\ r.usage.inlineBytes = tx.usage.inlineBytes - size
         /\ r.usage.entries = tx.usage.entries - 1
    <3>1. /\ r.usage.inlineBytes = tx.usage.inlineBytes + (- size)
          /\ r.usage.entries = tx.usage.entries + (-1)
      BY <2>6, <2>7 DEF IsTotalled
    <3>2. tx.usage.inlineBytes \in Int /\ tx.usage.entries \in Int
      BY <1>1 DEF Totals
    <3>3. QED
      BY <2>2, <3>1, <3>2
  <2>11. /\ r.usage.nextIno \in {tx.usage.nextIno, tx.alloc.ino}
         /\ r.usage.nextIno >= tx.usage.nextIno
    BY <2>6, <2>7 DEF IsTotalled
  <2>12. IsRemoved(tx, r, p, advance)
    BY <2>3, <2>7, <2>8, <2>9, <2>10, <2>11 DEF IsRemoved
  <2>13. QED
    BY <2>12 DEF r
<1>4. QED
  BY <1>2, <1>3

\* Nothing is below p.
Leaf(es, p) == \A q \in Paths : IsPrefix(p, q) /\ q # p => es[q] = Absent

\* What may be replaced has nothing below it.
LEMMA ReplaceableIsLeaf ==
    ASSUME NEW es, Shaped(es), NEW p \in Paths,
           Is(es, p, "directory") => Living(es, Subtree[p] \ {p}) = {}
    PROVE  Leaf(es, p)
<1> SUFFICES ASSUME NEW q \in Paths, IsPrefix(p, q), q # p, es[q] # Absent PROVE FALSE
  BY DEF Leaf
<1>1. Is(es, p, "directory")
  BY AboveIsDirectory
<1>2. q \in Living(es, Subtree[p] \ {p})
  BY DEF Living, Subtree
<1>3. QED
  BY <1>1, <1>2

\* A leaf has no children.
LEMMA LeafHasNoChild ==
    ASSUME NEW es, NEW p \in Paths, Leaf(es, p), NEW q \in Paths, q # Root, Parent(q) = p
    PROVE  es[q] = Absent
<1>1. IsPrefix(p, q) /\ q # p
  BY ParentAbove
<1>2. QED
  BY <1>1 DEF Leaf

\* A leaf that goes leaves a tree, and totals and numbers that fit it.
LEMMA RemovedSolid ==
    ASSUME NEW tx, Solid(tx), TypeOK, NEW p \in Paths, p # Root, Leaf(tx.entries, p),
           NEW advance, NEW r, IsRemoved(tx, r, p, advance)
    PROVE  Solid(r)
<1> DEFINE es == tx.entries
           fs == r.entries
           one == {p}
<1>1. /\ tx \in Transaction /\ r \in Transaction /\ es \in Table /\ fs \in Table
      /\ fs[p] = Absent /\ \A q \in Paths : q # p => fs[q] = es[q]
  BY DEF Solid, IsRemoved, Transaction
<1>2. Living(fs, Paths) = Living(es, Paths) \ {p}
  BY <1>1 DEF Living
<1>3. Shaped(fs)
  <2>1. Is(es, Root, "directory") /\ \A q \in Living(es, Paths) : Is(es, Parent(q), "directory")
    BY DEF Solid, Shaped
  <2>2. Is(fs, Root, "directory")
    BY <1>1, <2>1, RootIs DEF Is
  <2>3. ASSUME NEW q \in Living(fs, Paths)
        PROVE  Is(fs, Parent(q), "directory")
    <3>1. q \in Paths /\ es[q] # Absent /\ q \in Living(es, Paths) /\ Parent(q) \in Paths
      BY <1>2, ParentIsPath DEF Living
    <3>2. Parent(q) # p
      BY <3>1, LeafHasNoChild, RootIs
    <3>3. QED
      BY <1>1, <2>1, <3>1, <3>2 DEF Is
  <2>4. QED
    BY <2>2, <2>3 DEF Shaped
<1>4. /\ SizeOf(fs, Paths) = SizeOf(es, Paths) - SizeOf(es, one)
      /\ Cardinality(Living(fs, Paths)) = Cardinality(Living(es, Paths)) - Cardinality(Living(es, one))
      /\ SizeOf(es, Paths) \in Int /\ Cardinality(Living(es, Paths)) \in Int
  <2>1. one \subseteq Paths /\ \A q \in Paths \ one : fs[q] = es[q]
    BY <1>1
  <2>2. SizeOf(fs, one) = 0 /\ Cardinality(Living(fs, one)) = 0
    BY <1>1, OnePath
  <2> HIDE DEF one, es, fs
  <2>3. TotalsChange(es, fs, one)
    BY <1>1, <2>1, TableChange
  <2>4. /\ SizeOf(es, Paths) \in Nat /\ Cardinality(Living(es, Paths)) \in Nat
        /\ SizeOf(es, one) \in Nat /\ Cardinality(Living(es, one)) \in Nat
    BY <1>1, <2>1, LivingIs
  <2>5. QED
    BY <2>2, <2>3, <2>4 DEF TotalsChange
<1>5. r.usage.inlineBytes = SizeOf(fs, Paths) /\ r.usage.entries = Cardinality(Living(fs, Paths))
  BY <1>4 DEF Solid, IsRemoved
<1>6. /\ tx.usage.nextIno \in Nat /\ tx.alloc.ino \in Nat /\ usage.nextIno \in Nat
      /\ r.usage.nextIno \in Nat
  BY <1>1 DEF Transaction, Totals, Counters, TypeOK
<1>7. /\ usage.nextIno <= tx.usage.nextIno /\ tx.usage.nextIno <= tx.alloc.ino
      /\ r.usage.nextIno \in {tx.usage.nextIno, tx.alloc.ino} /\ r.usage.nextIno >= tx.usage.nextIno
      /\ r.alloc = tx.alloc
  BY DEF Solid, IsRemoved
<1>8. usage.nextIno <= r.usage.nextIno /\ r.usage.nextIno <= r.alloc.ino
  BY <1>6, <1>7
<1>9. \A q \in Living(fs, Paths) : q \in Living(es, Paths) /\ fs[q] = es[q] /\ fs[q].ino \in Nat
  BY <1>1, <1>2, RowIs DEF Living, Table
<1>10. Numbered(fs, r.usage.nextIno)
  <2>1. Numbered(es, tx.usage.nextIno)
    BY DEF Solid
  <2>2. ASSUME NEW q \in Living(fs, Paths)
        PROVE  fs[q].ino < r.usage.nextIno
    <3>1. es[q].ino < tx.usage.nextIno
      BY <1>9, <2>1 DEF Numbered
    <3>2. fs[q].ino \in Nat /\ fs[q].ino = es[q].ino
      BY <1>9
    <3>3. QED
      BY <1>6, <1>7, <3>1, <3>2
  <2>3. QED
    BY <1>9, <2>1, <2>2 DEF Numbered
<1>11. \A q \in Living(fs, Paths) : fs[q].ino \in Inos(entries) \/ fs[q].ino >= alloc.ino
  BY <1>9 DEF Solid
<1>12. QED
  BY <1>1, <1>3, <1>5, <1>8, <1>10, <1>11 DEF Solid, IsRemoved

\* A leaf that goes leaves link counts that fit.
LEMMA RemovedLinked ==
    ASSUME NEW tx, Solid(tx), NEW X, Linked(tx, X), NEW p \in Paths, p # Root, Leaf(tx.entries, p),
           DeltaOf(tx.deltas, p) = 0, NEW advance, NEW r, IsRemoved(tx, r, p, advance)
    PROVE  /\ Linked(r, X)
           /\ \A q \in Paths : DeltaOf(r.deltas, q) # 0 => DeltaOf(tx.deltas, q) # 0 \/ q = Parent(p)
<1> DEFINE es == tx.entries
           fs == r.entries
           up == Parent(p)
           old == IF Is(es, p, "directory") THEN 1 ELSE 0
<1>1. /\ tx \in Transaction /\ r \in Transaction /\ es \in Table /\ fs \in Table
      /\ fs[p] = Absent /\ \A q \in Paths : q # p => fs[q] = es[q]
      /\ up \in Paths /\ up # p
  BY ParentIsPath, ParentAbove DEF Solid, IsRemoved, Transaction
<1>2. \A q : /\ DeltaOf(tx.deltas, q) \in Int
             /\ q \in Paths => DeltaOf(r.deltas, q) = DeltaOf(tx.deltas, q) - (IF q = up THEN old ELSE 0)
  <2>1. tx.deltas \in Deltas
    BY <1>1 DEF Transaction
  <2>2. ASSUME NEW q \in Paths
        PROVE  DeltaOf(r.deltas, q) = DeltaOf(tx.deltas, q) - (IF q = up THEN old ELSE 0)
    <3>1. DeltaOf(r.deltas, q) = DeltaOf(tx.deltas, q)
             - (IF Is(es, p, "directory") /\ q = up THEN 1 ELSE 0)
      BY DEF IsRemoved
    <3>2. (IF Is(es, p, "directory") /\ q = up THEN 1 ELSE 0) = IF q = up THEN old ELSE 0
      OBVIOUS
    <3>3. QED
      BY <3>1, <3>2
  <2>3. QED
    BY <2>1, <2>2, DeltaType
<1>3. \A q \in Paths : q # p => (Is(fs, q, "directory") <=> Is(es, q, "directory"))
  BY <1>1 DEF Is
<1>4. ~ Is(fs, p, "directory")
  BY <1>1 DEF Is
<1>5. ASSUME NEW q \in Paths
      PROVE  /\ Cardinality(ChildDirectories(es, q)) \in Nat
             /\ Cardinality(ChildDirectories(fs, q)) =
                  Cardinality(ChildDirectories(es, q)) - (IF q = up THEN old ELSE 0)
  <2>1. /\ IsFiniteSet(ChildDirectories(es, q)) /\ Cardinality(ChildDirectories(es, q)) \in Nat
        /\ \A s : s \in ChildDirectories(es, q) <=>
                    s \in Paths /\ s # Root /\ Parent(s) = q /\ Is(es, s, "directory")
    BY ChildrenIs
  <2>2. \A s : s \in ChildDirectories(fs, q) <=>
                 s \in Paths /\ s # Root /\ Parent(s) = q /\ Is(fs, s, "directory")
    BY ChildrenIs
  <2>3. CASE q = up /\ Is(es, p, "directory")
    <3>1. ChildDirectories(fs, q) = ChildDirectories(es, q) \ {p}
      BY <1>3, <1>4, <2>1, <2>2
    <3>2. p \in ChildDirectories(es, q)
      BY <2>1, <2>3
    <3>3. Cardinality(ChildDirectories(es, q) \ {p}) = Cardinality(ChildDirectories(es, q)) - 1
      BY <2>1, <3>2, FS_RemoveElement
    <3>4. QED
      BY <2>1, <2>3, <3>1, <3>3
  <2>4. CASE ~ (q = up /\ Is(es, p, "directory"))
    <3>1. p \notin ChildDirectories(es, q)
      BY <2>1, <2>4
    <3>2. ChildDirectories(fs, q) = ChildDirectories(es, q)
      BY <1>3, <1>4, <2>1, <2>2, <3>1
    <3>3. QED
      BY <2>1, <2>4, <3>2
  <2>5. QED
    BY <2>3, <2>4
<1>6. ASSUME NEW q \in Paths \ X, Is(fs, q, "directory")
      PROVE  fs[q].nlink + DeltaOf(r.deltas, q) = 2 + Cardinality(ChildDirectories(fs, q))
  <2>1. Is(es, q, "directory") /\ fs[q] = es[q]
    BY <1>1, <1>3, <1>4, <1>6
  <2>2. es[q].nlink + DeltaOf(tx.deltas, q) = 2 + Cardinality(ChildDirectories(es, q))
    BY <2>1 DEF Linked
  <2>3. es[q].nlink \in Nat
    BY <1>1, <2>1, RowIs DEF Table, Is
  <2>4. /\ DeltaOf(tx.deltas, q) \in Int
        /\ DeltaOf(r.deltas, q) = DeltaOf(tx.deltas, q) - (IF q = up THEN old ELSE 0)
        /\ Cardinality(ChildDirectories(es, q)) \in Nat
        /\ Cardinality(ChildDirectories(fs, q)) =
             Cardinality(ChildDirectories(es, q)) - (IF q = up THEN old ELSE 0)
    BY <1>2, <1>5
  <2>5. (IF q = up THEN old ELSE 0) \in Nat
    OBVIOUS
  <2> HIDE DEF old, up
  <2>6. QED
    BY <2>1, <2>2, <2>3, <2>4, <2>5
<1>7. ASSUME NEW q \in Paths, DeltaOf(r.deltas, q) # 0
      PROVE  Is(fs, q, "directory") /\ (DeltaOf(tx.deltas, q) # 0 \/ q = up)
  <2>1. (q = up /\ Is(es, p, "directory")) \/ DeltaOf(tx.deltas, q) # 0
    BY <1>2, <1>7
  <2>2. q # p
    BY <1>1, <2>1
  <2>3. Is(es, q, "directory")
    <3>1. CASE DeltaOf(tx.deltas, q) # 0
      BY <3>1 DEF Linked
    <3>2. CASE q = up /\ Is(es, p, "directory")
      <4>1. p \in Living(es, Paths)
        BY <3>2 DEF Is, Living
      <4>2. QED
        BY <3>2, <4>1 DEF Solid, Shaped
    <3>3. QED
      BY <2>1, <3>1, <3>2
  <2>4. QED
    BY <1>3, <2>1, <2>2, <2>3
<1>8. QED
  BY <1>6, <1>7 DEF Linked

\* A removal keeps them: the tombstone remembers.
LEMMA RemovedForward ==
    ASSUME NEW tx \in Transaction, TypeOK, Forward(tx), NEW p \in Paths, NEW advance \in Nat,
           NEW r, IsRemoved(tx, r, p, advance)
    PROVE  Forward(r) /\ (tx.entries[p] # Absent /\ advance > 0 =>
                          Version(r.entries, r.tombstones, p) > Version(entries, tombstones, p))
<1>1. /\ \A q \in Paths : /\ Version(tx.entries, tx.tombstones, q) \in Nat
                          /\ Version(r.entries, r.tombstones, q) \in Nat
                          /\ Version(entries, tombstones, q) \in Nat
                          /\ tx.tombstones[q] \in Nat /\ r.tombstones[q] \in Nat
      /\ tx.entries[p] # Absent => tx.entries[p].version \in Nat
  <2>1. entries \in Table /\ tombstones \in Tombs /\ tx.entries \in Table /\ tx.tombstones \in Tombs
        /\ r.entries \in Table /\ r.tombstones \in Tombs
    BY DEF TypeOK, Table, Tombs, Transaction, IsRemoved
  <2>2. QED
    BY <2>1, VersionType, RowIs DEF Table, Tombs
<1>2. ASSUME NEW q \in Paths
      PROVE  Version(r.entries, r.tombstones, q) >= Version(tx.entries, tx.tombstones, q)
  <2>1. CASE q = p
    <3>1. Version(r.entries, r.tombstones, q) = r.tombstones[q]
      BY <2>1 DEF IsRemoved, Version
    <3>2. CASE tx.entries[p] = Absent
      BY <2>1, <3>1, <3>2 DEF IsRemoved, Version
    <3>3. CASE tx.entries[p] # Absent
      <4>1. r.tombstones[p] >= tx.entries[p].version + advance
        BY <3>3 DEF IsRemoved
      <4>2. Version(tx.entries, tx.tombstones, q) = tx.entries[p].version
        BY <2>1, <3>3 DEF Version
      <4>3. QED
        BY <1>1, <2>1, <3>1, <3>3, <4>1, <4>2
    <3>4. QED
      BY <3>2, <3>3
  <2>2. CASE q # p
    <3>1. r.entries[q] = tx.entries[q] /\ r.tombstones[q] >= tx.tombstones[q]
      BY <2>2 DEF IsRemoved
    <3>2. CASE tx.entries[q] = Absent
      BY <3>1, <3>2 DEF Version
    <3>3. CASE tx.entries[q] # Absent
      <4>1. Version(r.entries, r.tombstones, q) = Version(tx.entries, tx.tombstones, q)
        BY <3>1, <3>3 DEF Version
      <4>2. QED
        BY <1>1, <4>1
    <3>4. QED
      BY <3>2, <3>3
  <2>3. QED
    BY <2>1, <2>2
<1>3. Forward(r)
  <2> SUFFICES ASSUME NEW q \in Paths
               PROVE  Version(r.entries, r.tombstones, q) >= Version(entries, tombstones, q)
    BY DEF Forward
  <2>1. Version(tx.entries, tx.tombstones, q) >= Version(entries, tombstones, q)
    BY DEF Forward
  <2>2. QED
    BY <1>1, <1>2, <2>1
<1>4. ASSUME tx.entries[p] # Absent, advance > 0
      PROVE  Version(r.entries, r.tombstones, p) > Version(entries, tombstones, p)
  <2>1. r.tombstones[p] >= tx.entries[p].version + advance
    BY <1>4 DEF IsRemoved
  <2>2. Version(r.entries, r.tombstones, p) = r.tombstones[p]
    BY DEF IsRemoved, Version
  <2>3. Version(tx.entries, tx.tombstones, p) = tx.entries[p].version
    BY <1>4 DEF Version
  <2>4. Version(tx.entries, tx.tombstones, p) >= Version(entries, tombstones, p)
    BY DEF Forward
  <2>5. QED
    BY <1>1, <1>4, <2>1, <2>2, <2>3, <2>4
<1>5. QED
  BY <1>3, <1>4

------------------------------------------------------------------------------
(* Announcements, and what is said of a transaction without them *)

\* An announcement changes the feed only, and ends what was not heard yet.
LEMMA AnnouncedKeeps ==
    ASSUME NEW tx \in Transaction, TypeOK, NEW ps, NEW present, NEW r, IsAnnounced(tx, r, ps, present)
    PROVE  /\ Solid(tx) => Solid(r)
           /\ \A X : Linked(tx, X) => Linked(r, X)
           /\ Pending(tx) => Pending(r)
           /\ Forward(tx) => Forward(r)
           /\ Fresh(tx) => Fresh(r)
           /\ Solid(tx) /\ Heard(tx, ps) /\ (\A p \in ps : present = (tx.entries[p] # Absent)) =>
                Heard(r, {})
<1>1. /\ r \in Transaction
      /\ r.entries = tx.entries /\ r.tombstones = tx.tombstones /\ r.usage = tx.usage
      /\ r.parents = tx.parents /\ r.deltas = tx.deltas /\ r.halt = tx.halt
      /\ r.alloc.ino = tx.alloc.ino /\ r.alloc.seq = tx.alloc.seq + 1
  BY DEF IsAnnounced
<1>2. /\ tx.alloc.seq \in Nat /\ alloc.seq \in Nat
      /\ \A p \in Paths : tx.changes[p].seq \in Nat
  BY DEF Transaction, Counters, Feed, TypeOK
<1>3. ASSUME Solid(tx)
      PROVE  Solid(r)
  <2>1. ASSUME NEW p \in Paths
        PROVE  changes[p].seq <= r.changes[p].seq /\ r.changes[p].seq <= r.alloc.seq
    <3>1. r.changes[p] = IF p \in ps THEN [seq |-> tx.alloc.seq + 1, present |-> present]
                         ELSE tx.changes[p]
      BY DEF IsAnnounced
    <3>2. QED
      BY <1>1, <1>3, <3>1, FeedIs
  <2>2. alloc.seq <= r.alloc.seq
    BY <1>1, <1>2, <1>3 DEF Solid
  <2>3. QED
    BY <1>1, <1>3, <2>1, <2>2 DEF Solid
<1>4. /\ \A X : Linked(tx, X) => Linked(r, X)
      /\ Pending(tx) => Pending(r)
      /\ Forward(tx) => Forward(r)
      /\ Fresh(tx) => Fresh(r)
  BY <1>1 DEF Linked, Pending, Forward, Fresh
<1>5. ASSUME Solid(tx), Heard(tx, ps), \A p \in ps : present = (tx.entries[p] # Absent)
      PROVE  Heard(r, {})
  <2>1. ASSUME NEW p \in Paths, r.entries[p] # entries[p]
        PROVE  r.changes[p].seq > alloc.seq /\ r.changes[p].present = (r.entries[p] # Absent)
    <3>1. CASE p \in ps
      <4>1. r.changes[p].seq = tx.alloc.seq + 1 /\ r.changes[p].present = present
        BY <3>1 DEF IsAnnounced
      <4>2. alloc.seq <= tx.alloc.seq
        BY <1>5 DEF Solid
      <4>3. r.changes[p].seq > alloc.seq
        BY <1>2, <4>1, <4>2
      <4>4. present = (tx.entries[p] # Absent)
        BY <1>5, <3>1
      <4>5. QED
        BY <1>1, <4>1, <4>3, <4>4
    <3>2. CASE p \notin ps
      <4>1. r.changes[p] = tx.changes[p] /\ tx.entries[p] # entries[p]
        BY <1>1, <2>1, <3>2 DEF IsAnnounced
      <4>2. QED
        BY <1>1, <1>5, <3>2, <4>1 DEF Heard
    <3>3. QED
      BY <3>1, <3>2
  <2>2. QED
    BY <2>1 DEF Heard
<1>6. QED
  BY <1>3, <1>4, <1>5

\* What a transaction may do to the totals.
Fits(tx) ==
  tx.halt = Absent =>
    /\ tx.usage.inlineBytes > usage.inlineBytes => tx.usage.inlineBytes <= limits.inlineBytes
    /\ tx.usage.entries > usage.entries => tx.usage.entries <= limits.entries

\* The invariant and the actions of the properties.
Kept == IInv' /\ NewInodes /\ NewTotals /\ NewTokens /\ NewVersions /\ NewChanges /\ NewFeed

\* A transaction that could be committed, is.
LEMMA FinishGood ==
    ASSUME IInv, NEW tx, Good(tx), Fits(tx), Finish(tx)
    PROVE  Kept
<1>1. Linked(tx, Open(tx))
  <2>1. Linked(tx, {})
    BY DEF Good
  <2>2. QED
    BY <2>1 DEF Linked
<1>2. Ready(tx) /\ Told(tx)
  BY <1>1 DEF Good, Fits, Ready
<1>3. QED
  BY <1>2, FinishKeeps, FinishTells DEF Kept

\* A commit shows the kinds and sizes that the transaction left.
LEMMA FinishShows ==
    ASSUME NEW tx, Ready(tx), tx.halt = Absent, Finish(tx), NEW p \in Paths
    PROVE  /\ \A k : Is(entries', p, k) <=> Is(tx.entries, p, k)
           /\ entries'[p] # Absent => entries'[p].size = tx.entries[p].size
<1> DEFINE r == FlushParentTimes(tx)
<1>1. tx \in Transaction
  BY DEF Ready, Solid
<1>2. IsFlushed(tx, r)
  BY FlushIs DEF Ready, Solid
<1>3. entries' = r.entries
  BY DEF Finish, Commit
<1> HIDE DEF r
<1>4. QED
  BY <1>1, <1>2, <1>3, FlushedSame

\* A transaction that was not given up was in order.
LEMMA WeighedOk ==
    ASSUME NEW tx \in Transaction, NEW ok, NEW r, IsWeighed(tx, r, ok), r.halt = Absent
    PROVE  tx.halt = Absent /\ ok
<1>1. [alloc |-> tx.alloc, full |-> TRUE] \in Halts
  BY DEF Transaction, Halts
<1>2. QED
  BY <1>1, HaltIs DEF IsWeighed

------------------------------------------------------------------------------
(* A row that is written again *)

\* r is tx with another size at p, counted and announced.
IsRewritten(tx, r, p, size) ==
  /\ r \in Transaction
  /\ r.tombstones = tx.tombstones /\ r.deltas = tx.deltas /\ r.parents = tx.parents
  /\ r.recount = tx.recount /\ r.halt = tx.halt
  /\ r.entries[p] = [tx.entries[p] EXCEPT !.size = size, !.version = @ + 1]
  /\ r.changes[p] = [seq |-> tx.alloc.seq + 1, present |-> TRUE]
  /\ \A q \in Paths \ {p} : r.entries[q] = tx.entries[q] /\ r.changes[q] = tx.changes[q]
  /\ r.alloc.ino = tx.alloc.ino /\ r.alloc.seq = tx.alloc.seq + 1
  /\ r.usage.inlineBytes = tx.usage.inlineBytes + (size - tx.entries[p].size)
  /\ r.usage.entries = tx.usage.entries + 0
  /\ r.usage.nextIno \in {tx.usage.nextIno, tx.alloc.ino} /\ r.usage.nextIno >= tx.usage.nextIno

Rewrite(tx, p, size) ==
  UpdateUsage(Announce(Update(tx, p, size), {p}, TRUE), size - tx.entries[p].size, 0)

\* Update, Announce and UpdateUsage.
LEMMA RewriteIs ==
    ASSUME NEW tx \in Transaction, NEW p \in Paths, tx.entries[p] # Absent, NEW size \in Nat
    PROVE  IsRewritten(tx, Rewrite(tx, p, size), p, size)
<1> DEFINE one == {p}
           t1 == Update(tx, p, size)
           t2 == Announce(t1, one, TRUE)
           d == size - tx.entries[p].size
           r == UpdateUsage(t2, d, 0)
<1>0. one \subseteq Paths /\ p \in one /\ \A q : q \in one => q = p
  OBVIOUS
<1>1. d \in Int
  <2>1. tx.entries[p] \in Entry
    BY DEF Transaction, Table
  <2>2. QED
    BY <2>1, RowIs
<1>2. Rewrite(tx, p, size) = r
  BY DEF Rewrite
<1> HIDE DEF d, one
<1>3. t1 \in Transaction /\ IsUpdated(tx, t1, p, size)
  <2>1. IsUpdated(tx, t1, p, size)
    BY UpdateIs
  <2> HIDE DEF t1
  <2>2. t1 \in Transaction
    BY <2>1 DEF IsUpdated
  <2>3. QED
    BY <2>1, <2>2
<1> HIDE DEF t1
<1>4. t2 \in Transaction /\ IsAnnounced(t1, t2, one, TRUE)
  BY <1>0, <1>3, AnnounceIs DEF IsAnnounced
<1> HIDE DEF t2
<1>5. IsTotalled(t2, r, d, 0)
  BY <1>1, <1>4, UpdateUsageIs
<1> HIDE DEF r
<1>6. /\ r \in Transaction
      /\ r.tombstones = tx.tombstones /\ r.deltas = tx.deltas /\ r.parents = tx.parents
      /\ r.recount = tx.recount /\ r.halt = tx.halt
      /\ r.entries = t1.entries /\ r.changes = t2.changes /\ r.alloc = t2.alloc
      /\ t1.alloc = tx.alloc /\ t2.usage = tx.usage /\ t1.changes = tx.changes
  BY <1>3, <1>4, <1>5 DEF IsUpdated, IsAnnounced, IsTotalled
<1>7. /\ r.entries[p] = [tx.entries[p] EXCEPT !.size = size, !.version = @ + 1]
      /\ \A q \in Paths \ {p} : r.entries[q] = tx.entries[q]
  BY <1>3, <1>6 DEF IsUpdated
<1>8. /\ r.changes[p] = [seq |-> tx.alloc.seq + 1, present |-> TRUE]
      /\ \A q \in Paths \ {p} : r.changes[q] = tx.changes[q]
  BY <1>0, <1>4, <1>6 DEF IsAnnounced
<1>9. t2.alloc.ino = tx.alloc.ino /\ t2.alloc.seq = tx.alloc.seq + 1
  BY <1>4, <1>6 DEF IsAnnounced
<1>10. /\ r.usage.inlineBytes = tx.usage.inlineBytes + d
       /\ r.usage.entries = tx.usage.entries + 0
       /\ r.usage.nextIno \in {tx.usage.nextIno, tx.alloc.ino}
       /\ r.usage.nextIno >= tx.usage.nextIno
  BY <1>5, <1>6, <1>9 DEF IsTotalled
<1>11. IsRewritten(tx, r, p, size)
  BY <1>6, <1>7, <1>8, <1>9, <1>10 DEF IsRewritten, d
<1>12. QED
  BY <1>2, <1>11

\* The row of a path that is written again.
LEMMA RewrittenRow ==
    ASSUME NEW tx \in Transaction, NEW p \in Paths, tx.entries[p] # Absent, NEW size \in Nat,
           NEW r, IsRewritten(tx, r, p, size)
    PROVE  /\ r.entries[p] # Absent /\ r.entries[p].size = size /\ r.entries[p].ino = tx.entries[p].ino
           /\ r.entries[p].kind = tx.entries[p].kind /\ r.entries[p].nlink = tx.entries[p].nlink
           /\ r.entries[p].version = tx.entries[p].version + 1
           /\ tx.entries[p] \in Entry /\ r.entries[p] \in Entry
<1> DEFINE e == tx.entries[p]
           v == e.version + 1
           row == r.entries[p]
<1>1. e \in Entry /\ v \in Nat
  BY RowIs DEF Transaction, Table
<1>2. row = [[e EXCEPT !.size = size] EXCEPT !.version = v]
  BY <1>1 DEF IsRewritten, Entry
<1> HIDE DEF e, v, row
<1>3. /\ row \in Entry /\ row.size = size /\ row.ino = e.ino /\ row.kind = e.kind
      /\ row.nlink = e.nlink /\ row.version = v
  BY <1>1, <1>2 DEF Entry
<1>4. row # Absent
  BY <1>3, RowIs
<1>5. QED
  BY <1>1, <1>3, <1>4 DEF e, v, row

\* Rows that are in both tables have the kinds and numbers that they had.
LEMMA SameKinds ==
    ASSUME NEW es, NEW fs,
           \A q \in Paths : /\ fs[q] = Absent <=> es[q] = Absent
                            /\ es[q] # Absent => fs[q].kind = es[q].kind
    PROVE  /\ Living(fs, Paths) = Living(es, Paths)
           /\ Shaped(es) => Shaped(fs)
           /\ \A q \in Paths : \A k : Is(fs, q, k) <=> Is(es, q, k)
           /\ \A q \in Paths : ChildDirectories(fs, q) = ChildDirectories(es, q)
<1>1. \A q \in Paths : \A k : Is(fs, q, k) <=> Is(es, q, k)
  BY DEF Is
<1>2. Living(fs, Paths) = Living(es, Paths)
  BY DEF Living
<1>3. \A q \in Living(es, Paths) : Parent(q) \in Paths
  BY ParentIsPath DEF Living
<1>4. Shaped(es) => Shaped(fs)
  BY <1>1, <1>2, <1>3, RootIs DEF Shaped
<1>5. ASSUME NEW q \in Paths
      PROVE  ChildDirectories(fs, q) = ChildDirectories(es, q)
  BY <1>1 DEF ChildDirectories, Children
<1>6. QED
  BY <1>1, <1>2, <1>4, <1>5

\* A row that is written again leaves a transaction that could be committed.
LEMMA RewrittenGood ==
    ASSUME NEW tx, Good(tx), TypeOK, NEW p \in Paths, tx.entries[p] # Absent, NEW size \in Nat,
           NEW r, IsRewritten(tx, r, p, size)
    PROVE  Good(r)
<1> DEFINE es == tx.entries
           fs == r.entries
           one == {p}
<1>1. /\ tx \in Transaction /\ r \in Transaction /\ es \in Table /\ fs \in Table
      /\ Solid(tx) /\ Linked(tx, {}) /\ Pending(tx) /\ Told(tx)
  BY DEF Good, Solid, IsRewritten, Transaction
<1>2. /\ fs[p] # Absent /\ fs[p].size = size /\ fs[p].ino = es[p].ino
      /\ fs[p].kind = es[p].kind /\ fs[p].nlink = es[p].nlink
      /\ fs[p].version = es[p].version + 1 /\ es[p] \in Entry /\ fs[p] \in Entry
  BY <1>1, RewrittenRow
<1>3. \A q \in Paths : q # p => fs[q] = es[q] /\ r.changes[q] = tx.changes[q]
  BY DEF IsRewritten
<1>4. /\ Living(fs, Paths) = Living(es, Paths)
      /\ Shaped(fs)
      /\ \A q \in Paths : \A k : Is(fs, q, k) <=> Is(es, q, k)
      /\ \A q \in Paths : ChildDirectories(fs, q) = ChildDirectories(es, q)
  <2> HIDE DEF es, fs
  <2>1. \A q \in Paths : /\ fs[q] = Absent <=> es[q] = Absent
                         /\ es[q] # Absent => fs[q].kind = es[q].kind
    BY <1>2, <1>3 DEF es
  <2>2. Shaped(es)
    BY <1>1 DEF Solid, es
  <2>3. QED
    BY <2>1, <2>2, SameKinds
<1>5. SizeOf(fs, Paths) = SizeOf(es, Paths) + (size - es[p].size) /\ SizeOf(es, Paths) \in Int
  <2>1. one \subseteq Paths /\ \A q \in Paths \ one : fs[q] = es[q]
    BY <1>3
  <2>2. SizeOf(es, one) = es[p].size /\ SizeOf(fs, one) = size
    BY <1>1, <1>2, OnePath
  <2>3. es[p].size \in Nat
    BY <1>2, RowIs
  <2> HIDE DEF one, es, fs
  <2>4. TotalsChange(es, fs, one)
    BY <1>1, <2>1, TableChange
  <2>5. SizeOf(es, Paths) \in Nat
    BY <1>1, LivingIs
  <2>6. QED
    BY <2>2, <2>3, <2>4, <2>5 DEF TotalsChange
<1>6. /\ r.usage.inlineBytes = SizeOf(fs, Paths)
      /\ r.usage.entries = Cardinality(Living(fs, Paths))
  <2>1. tx.usage.inlineBytes = SizeOf(es, Paths) /\ tx.usage.entries = Cardinality(Living(es, Paths))
    BY <1>1 DEF Solid
  <2>2. tx.usage.entries \in Int
    BY <1>1 DEF Transaction, Totals
  <2>3. QED
    BY <1>4, <1>5, <2>1, <2>2 DEF IsRewritten
<1>7. /\ tx.usage.nextIno \in Nat /\ tx.alloc.ino \in Nat /\ usage.nextIno \in Nat
      /\ r.usage.nextIno \in Nat /\ tx.alloc.seq \in Nat /\ alloc.seq \in Nat
      /\ \A q \in Paths : tx.changes[q].seq \in Nat
  BY <1>1 DEF Transaction, Totals, Counters, Feed, TypeOK
<1>8. /\ usage.nextIno <= tx.usage.nextIno /\ tx.usage.nextIno <= tx.alloc.ino
      /\ r.usage.nextIno \in {tx.usage.nextIno, tx.alloc.ino} /\ r.usage.nextIno >= tx.usage.nextIno
      /\ r.alloc.ino = tx.alloc.ino /\ r.alloc.seq = tx.alloc.seq + 1 /\ alloc.seq <= tx.alloc.seq
  BY <1>1 DEF Solid, IsRewritten
<1>9. usage.nextIno <= r.usage.nextIno /\ r.usage.nextIno <= r.alloc.ino /\ alloc.seq <= r.alloc.seq
  BY <1>7, <1>8
<1>10. \A q \in Living(fs, Paths) : /\ q \in Living(es, Paths) /\ q \in Paths
                                    /\ fs[q].ino = es[q].ino /\ es[q].ino \in Nat
  <2>1. \A q \in Living(es, Paths) : q \in Paths /\ es[q].ino \in Nat
    BY <1>1, RowIs DEF Living, Table
  <2>2. QED
    BY <1>2, <1>3, <1>4, <2>1
<1>11. Numbered(fs, r.usage.nextIno)
  <2>1. Numbered(es, tx.usage.nextIno)
    BY <1>1 DEF Solid
  <2>2. ASSUME NEW q \in Living(fs, Paths)
        PROVE  fs[q].ino < r.usage.nextIno
    <3>1. es[q].ino < tx.usage.nextIno /\ es[q].ino \in Nat /\ fs[q].ino = es[q].ino
      BY <1>10, <2>1 DEF Numbered
    <3>2. QED
      BY <1>7, <1>8, <3>1
  <2>3. QED
    BY <1>10, <2>1, <2>2 DEF Numbered
<1>12. \A q \in Living(fs, Paths) : fs[q].ino \in Inos(entries) \/ fs[q].ino >= alloc.ino
  BY <1>1, <1>10 DEF Solid
<1>13. ASSUME NEW q \in Paths
       PROVE  changes[q].seq <= r.changes[q].seq /\ r.changes[q].seq <= r.alloc.seq
  <2>1. /\ changes[q].seq \in Nat /\ changes[q].seq <= tx.changes[q].seq
        /\ tx.changes[q].seq <= tx.alloc.seq /\ changes[q].seq <= tx.alloc.seq
    BY <1>1, FeedIs
  <2>2. r.changes[q] = tx.changes[q] \/ r.changes[q].seq = tx.alloc.seq + 1
    <3>1. r.changes[p].seq = tx.alloc.seq + 1
      BY DEF IsRewritten
    <3>2. QED
      BY <1>3, <3>1
  <2>3. QED
    BY <1>7, <1>8, <2>1, <2>2
<1>14. Solid(r)
  BY <1>1, <1>4, <1>6, <1>8, <1>9, <1>11, <1>12, <1>13 DEF Solid, IsRewritten
<1>15. Linked(r, {}) /\ Pending(r)
  <2>1. r.deltas = tx.deltas /\ r.parents = tx.parents
    BY DEF IsRewritten
  <2>2. \A q \in Paths : es[q] # Absent => fs[q].nlink = es[q].nlink
    BY <1>2, <1>3
  <2>3. \A q \in Paths : Is(es, q, "directory") => es[q] # Absent
    BY DEF Is
  <2> HIDE DEF es, fs
  <2>4. ASSUME NEW q \in Paths, Is(fs, q, "directory")
        PROVE  fs[q].nlink + DeltaOf(r.deltas, q) = 2 + Cardinality(ChildDirectories(fs, q))
    <3>1. Is(es, q, "directory") /\ fs[q].nlink = es[q].nlink
      BY <1>4, <2>2, <2>3, <2>4
    <3>2. es[q].nlink + DeltaOf(tx.deltas, q) = 2 + Cardinality(ChildDirectories(es, q))
      BY <1>1, <3>1 DEF Linked, es
    <3>3. QED
      BY <1>4, <2>1, <3>1, <3>2
  <2>5. \A q \in Paths : DeltaOf(r.deltas, q) # 0 => Is(fs, q, "directory")
    BY <1>1, <1>4, <2>1 DEF Linked, es
  <2>6. Linked(r, {})
    BY <2>4, <2>5 DEF Linked, fs
  <2>7. Pending(r)
    BY <1>1, <2>1 DEF Pending
  <2>8. QED
    BY <2>6, <2>7
<1>16. Told(r)
  <2>1. r.tombstones = tx.tombstones
    BY DEF IsRewritten
  <2>2. \A q \in Paths : Version(entries, tombstones, q) \in Nat /\ Version(tx.entries, tx.tombstones, q) \in Nat
    BY <1>1, VersionType DEF TypeOK, Table, Tombs, Transaction
  <2>3. ASSUME NEW q \in Paths
        PROVE  /\ Version(r.entries, r.tombstones, q) >= Version(entries, tombstones, q)
               /\ r.entries[q] # entries[q] =>
                    /\ Version(r.entries, r.tombstones, q) > Version(entries, tombstones, q)
                    /\ r.changes[q].seq > alloc.seq
                    /\ r.changes[q].present = (r.entries[q] # Absent)
    <3>1. CASE q = p
      <4>1. Version(r.entries, r.tombstones, q) = es[p].version + 1
        BY <1>2, <3>1 DEF Version
      <4>2. Version(tx.entries, tx.tombstones, q) = es[p].version
        BY <3>1 DEF Version
      <4>3. Version(tx.entries, tx.tombstones, q) >= Version(entries, tombstones, q)
        BY <1>1 DEF Told
      <4>4. r.changes[q].seq = tx.alloc.seq + 1 /\ r.changes[q].present = TRUE
        BY <3>1 DEF IsRewritten
      <4>5. /\ Version(r.entries, r.tombstones, q) >= Version(entries, tombstones, q)
            /\ Version(r.entries, r.tombstones, q) > Version(entries, tombstones, q)
        BY <2>2, <4>1, <4>2, <4>3
      <4>6. r.changes[q].seq > alloc.seq
        BY <1>7, <1>8, <4>4
      <4>7. QED
        BY <1>2, <3>1, <4>4, <4>5, <4>6
    <3>2. CASE q # p
      <4>1. Version(r.entries, r.tombstones, q) = Version(tx.entries, tx.tombstones, q)
        BY <1>3, <2>1, <3>2 DEF Version
      <4>2. r.entries[q] = tx.entries[q] /\ r.changes[q] = tx.changes[q]
        BY <1>3, <3>2
      <4>3. QED
        BY <1>1, <4>1, <4>2 DEF Told
    <3>3. QED
      BY <3>1, <3>2
  <2>4. QED
    BY <2>3 DEF Told
<1>17. QED
  BY <1>14, <1>15, <1>16 DEF Good

------------------------------------------------------------------------------
(* Metadata, files and directories *)

\* What AssertCapacity asks of a transaction.
Affords(tx, bytes, count) ==
  /\ bytes > 0 => tx.usage.inlineBytes + bytes <= limits.inlineBytes
  /\ count > 0 => tx.usage.entries + count <= limits.entries

\* AssertCapacity.
LEMMA WeighIs ==
    ASSUME NEW tx \in Transaction, NEW bytes, NEW count
    PROVE  IsWeighed(tx, AssertCapacity(tx, bytes, count), Affords(tx, bytes, count))
<1> DEFINE base == tx.usage
<1>1. IsWeighed(tx, AssertCapacityFrom(tx, base, bytes, count),
                /\ bytes > 0 => base.inlineBytes + bytes <= limits.inlineBytes
                /\ count > 0 => base.entries + count <= limits.entries)
  BY AssertCapacityIs
<1>2. QED
  BY <1>1 DEF AssertCapacity, Affords

\* The totals of the transaction are numbers.
LEMMA TotalsAre ==
    ASSUME TypeOK, NEW tx \in Transaction
    PROVE  /\ tx.usage.inlineBytes \in Int /\ tx.usage.entries \in Int
           /\ tx.usage.nextIno \in Nat /\ tx.alloc.ino \in Nat /\ tx.alloc.seq \in Nat
           /\ usage.inlineBytes \in Nat /\ usage.entries \in Nat /\ usage.nextIno \in Nat
           /\ alloc.ino \in Nat /\ alloc.seq \in Nat
           /\ limits.inlineBytes \in Nat /\ limits.entries \in Nat
<1>1. tx.usage \in Totals /\ tx.alloc \in Counters
  BY DEF Transaction
<1>2. limits \in [inlineBytes : Nat, entries : Nat]
  BY ValuesAssumption DEF TypeOK
<1>3. QED
  BY <1>1, <1>2 DEF TypeOK, Totals, Counters

\* SetMetadata keeps the invariant.
LEMMA SetMetadataKeeps ==
    ASSUME IInv, NEW p \in Paths, SetMetadata(p)
    PROVE  Kept
<1> DEFINE size == entries[p].size
           r == Announce(Update(Begin, p, size), {p}, TRUE)
<1>1. TypeOK /\ Good(Begin) /\ Begin \in Transaction /\ Begin.entries = entries /\ Begin.usage = usage
  BY BeginIs DEF IInv, Good, Solid
<1>2. entries[p] # Absent /\ Finish(r)
  BY DEF SetMetadata
<1>3. size \in Nat
  BY <1>1, <1>2, RowIs DEF TypeOK
<1>4. Rewrite(Begin, p, size) = r
  <2>1. size - Begin.entries[p].size = 0
    BY <1>1, <1>3
  <2> HIDE DEF size
  <2>2. QED
    BY <2>1 DEF Rewrite, UpdateUsage
<1>5. IsRewritten(Begin, Rewrite(Begin, p, size), p, size)
  BY <1>1, <1>2, <1>3, RewriteIs
<1> HIDE DEF r
<1>6. IsRewritten(Begin, r, p, size)
  BY <1>4, <1>5
<1>7. Good(r)
  BY <1>1, <1>2, <1>3, <1>6, RewrittenGood
<1>8. Fits(r)
  <2>1. r.usage.inlineBytes = usage.inlineBytes + (size - size) /\ r.usage.entries = usage.entries + 0
    BY <1>1, <1>6 DEF IsRewritten
  <2>2. QED
    BY <1>1, <1>3, <2>1, TotalsAre DEF Fits
<1>9. QED
  BY <1>2, <1>7, <1>8, FinishGood

\* t has a place for a row of so many bytes at p.
IsRoom(t, p, bytes) ==
  /\ Good(t)
  /\ p # Root /\ t.entries[p] = Absent /\ Is(t.entries, Parent(p), "directory")
  /\ t.usage.inlineBytes = usage.inlineBytes
  /\ t.halt = Absent => Affords(t, bytes, 1)

\* CreateMissingParents and AssertCapacity make room.
LEMMA RoomIs ==
    ASSUME IInv, NEW p \in Paths, entries[p] = Absent, NEW recursive,
           CreationParents(entries, p, recursive), NEW bytes
    PROVE  IsRoom(AssertCapacity(CreateMissingParents(Begin, p), bytes, 1), p, bytes)
<1> DEFINE t1 == CreateMissingParents(Begin, p)
           t2 == AssertCapacity(t1, bytes, 1)
<1>1. TypeOK /\ Good(Begin) /\ Begin.entries = entries /\ Begin.usage = usage
  BY BeginIs DEF IInv
<1>2. p # Root
  BY DEF IInv, Shaped, Is
<1>3. IsReached(Begin, t1, p)
  BY <1>1, <1>2, CreateMissingParentsIs
<1> HIDE DEF t1
<1>4. Good(t1) /\ t1 \in Transaction
  BY <1>3 DEF IsReached, Good, Solid
<1>5. IsWeighed(t1, t2, Affords(t1, bytes, 1))
  BY <1>4, WeighIs
<1> HIDE DEF t2
<1>6. Good(t2)
  BY <1>4, <1>5, WeighedGood
<1>7. t2.entries = t1.entries /\ t2.usage = t1.usage
  BY <1>5 DEF IsWeighed
<1>8. t1.entries[p] = Absent
  BY <1>1, <1>3 DEF IsReached
<1>9. t2.halt = Absent => Affords(t2, bytes, 1)
  <2>1. t2.halt = Absent => Affords(t1, bytes, 1)
    BY <1>4, <1>5, WeighedOk
  <2>2. QED
    BY <1>7, <2>1 DEF Affords
<1>10. t2.usage.inlineBytes = usage.inlineBytes /\ Is(t2.entries, Parent(p), "directory")
  BY <1>1, <1>3, <1>7 DEF IsReached
<1>11. IsRoom(t2, p, bytes)
  BY <1>2, <1>6, <1>7, <1>8, <1>9, <1>10 DEF IsRoom
<1>12. QED
  BY <1>11 DEF t1, t2

\* A row placed where there is room may be committed.
LEMMA PlacedFits ==
    ASSUME IInv, NEW t, NEW p \in Paths, NEW row, IsRoom(t, p, row.size), Placeable(t, p, row),
           NEW r, IsPlaced(t, r, p, row, {Parent(p)})
    PROVE  Good(r) /\ Fits(r)
<1>1. TypeOK /\ Good(t) /\ t \in Transaction /\ row.size \in Nat
  BY RowIs DEF IInv, IsRoom, Good, Solid, Placeable
<1>2. Good(r)
  BY <1>1, PlacedGood
<1>3. /\ r.usage.inlineBytes = usage.inlineBytes + row.size
      /\ r.usage.entries = t.usage.entries + 1 /\ r.halt = t.halt
      /\ t.usage.inlineBytes = usage.inlineBytes
  BY DEF IsPlaced, IsRoom
<1>4. Fits(r)
  <2> SUFFICES ASSUME r.halt = Absent
               PROVE  /\ r.usage.inlineBytes > usage.inlineBytes => r.usage.inlineBytes <= limits.inlineBytes
                      /\ r.usage.entries > usage.entries => r.usage.entries <= limits.entries
    BY DEF Fits
  <2>1. Affords(t, row.size, 1)
    BY <1>3 DEF IsRoom
  <2>2. /\ row.size > 0 => usage.inlineBytes + row.size <= limits.inlineBytes
        /\ t.usage.entries + 1 <= limits.entries
    BY <1>3, <2>1 DEF Affords
  <2>3. QED
    BY <1>1, <1>3, <2>2, TotalsAre
<1>5. QED
  BY <1>2, <1>4

\* Mkdir keeps the invariant.
LEMMA MkdirKeeps ==
    ASSUME IInv, NEW p \in Paths, NEW recursive, Mkdir(p, recursive)
    PROVE  Kept
<1> DEFINE t == AssertCapacity(CreateMissingParents(Begin, p), 0, 1)
           r == CreateDirectory(t, p)
           row == NewDirectory(t, p)
<1>1. IsRoom(t, p, 0) /\ Finish(r)
  BY RoomIs DEF Mkdir
<1> HIDE DEF t
<1>2. t \in Transaction
  BY <1>1 DEF IsRoom, Good, Solid
<1>3. IsPlaced(t, r, p, row, {Parent(p)})
  BY <1>2, CreateDirectoryIs
<1>4. Placeable(t, p, row)
  BY <1>1, <1>2, NewRows DEF IsRoom
<1>5. row.size = 0
  BY DEF NewDirectory
<1> HIDE DEF r, row
<1>6. IsRoom(t, p, row.size)
  BY <1>1, <1>5
<1>7. QED
  BY <1>1, <1>3, <1>4, <1>6, PlacedFits, FinishGood

\* r is what becomes of tx when the body of p is written: it may be committed, and p has it.
IsPut(tx, r, p, size) ==
  /\ Good(r)
  /\ r.entries[p] # Absent /\ r.entries[p].size = size
  /\ r.entries[p].kind = IF tx.entries[p] = Absent THEN "file" ELSE tx.entries[p].kind

\* PutFile, whoever called it.
LEMMA PutFileIs ==
    ASSUME IInv, NEW p \in Paths, NEW size \in Nat, NEW recursive,
           entries[p] = Absent => CreationParents(entries, p, recursive)
    PROVE  IsPut(Begin, PutFile(Begin, p, size), p, size) /\ Fits(PutFile(Begin, p, size))
<1>1. TypeOK /\ Good(Begin) /\ Begin \in Transaction /\ Begin.entries = entries /\ Begin.usage = usage
  BY BeginIs DEF IInv, Good, Solid
<1>2. CASE entries[p] = Absent
  <2> DEFINE t == AssertCapacity(CreateMissingParents(Begin, p), size, 1)
             r == CreateFile(t, p, size)
             row == NewFile(t, p, size)
  <2>1. PutFile(Begin, p, size) = r
    BY <1>1, <1>2 DEF PutFile
  <2>2. IsRoom(t, p, size)
    BY <1>2, RoomIs
  <2> HIDE DEF t
  <2>3. t \in Transaction
    BY <2>2 DEF IsRoom, Good, Solid
  <2>4. IsPlaced(t, r, p, row, {Parent(p)})
    BY <2>3, CreateFileIs
  <2>5. Placeable(t, p, row)
    BY <2>2, <2>3, NewRows DEF IsRoom
  <2>6. row.size = size /\ row.kind = "file" /\ row # Absent
    <3>1. row.size = size /\ row.kind = "file"
      BY DEF NewFile
    <3>2. row # Absent
      BY <2>5, RowIs DEF Placeable
    <3>3. QED
      BY <3>1, <3>2
  <2> HIDE DEF r, row
  <2>7. IsRoom(t, p, row.size)
    BY <2>2, <2>6
  <2>8. Good(r) /\ Fits(r) /\ r.entries[p] = row
    <3>1. r.entries[p] = row
      BY <2>4 DEF IsPlaced
    <3>2. QED
      BY <2>4, <2>5, <2>7, <3>1, PlacedFits
  <2>9. QED
    BY <1>1, <1>2, <2>1, <2>6, <2>8 DEF IsPut
<1>3. CASE entries[p] # Absent
  <2> DEFINE d == size - entries[p].size
             t == AssertCapacity(Begin, d, 0)
             r == Rewrite(t, p, size)
  <2>1. IsWeighed(Begin, t, Affords(Begin, d, 0))
    BY <1>1, WeighIs
  <2>2. t.entries = entries /\ t.usage = usage /\ t \in Transaction
    BY <1>1, <2>1 DEF IsWeighed
  <2>3. PutFile(Begin, p, size) = r
    <3>1. PutFile(Begin, p, size) = UpdateUsage(Announce(Update(t, p, size), {p}, TRUE), d, 0)
      BY <1>1, <1>3 DEF PutFile
    <3> HIDE DEF t
    <3>2. t.entries[p] = entries[p]
      BY <2>2
    <3>3. r = UpdateUsage(Announce(Update(t, p, size), {p}, TRUE), d, 0)
      BY <3>2 DEF Rewrite
    <3>4. QED
      BY <3>1, <3>3
  <2> HIDE DEF t
  <2>4. Good(t)
    BY <1>1, <2>1, WeighedGood
  <2>5. IsRewritten(t, r, p, size)
    BY <1>3, <2>2, RewriteIs
  <2> HIDE DEF r
  <2>6. Good(r)
    BY <1>1, <1>3, <2>2, <2>4, <2>5, RewrittenGood
  <2>7. Fits(r)
    <3> SUFFICES ASSUME r.halt = Absent
                 PROVE  /\ r.usage.inlineBytes > usage.inlineBytes => r.usage.inlineBytes <= limits.inlineBytes
                        /\ r.usage.entries > usage.entries => r.usage.entries <= limits.entries
      BY DEF Fits
    <3>1. /\ r.usage.inlineBytes = usage.inlineBytes + d /\ r.usage.entries = usage.entries + 0
          /\ t.halt = Absent
      BY <2>2, <2>5 DEF IsRewritten
    <3>2. Affords(Begin, d, 0)
      BY <1>1, <2>1, <3>1, WeighedOk
    <3>3. entries[p].size \in Nat
      BY <1>1, <1>3, RowIs DEF TypeOK
    <3>4. d \in Int
      BY <3>3
    <3> HIDE DEF d
    <3>5. QED
      BY <1>1, <3>1, <3>2, <3>4, TotalsAre DEF Affords
  <2>8. r.entries[p] # Absent /\ r.entries[p].size = size /\ r.entries[p].kind = entries[p].kind
    BY <1>3, <2>2, <2>5, RewrittenRow
  <2>9. QED
    BY <1>1, <1>3, <2>3, <2>6, <2>7, <2>8 DEF IsPut
<1>4. QED
  BY <1>2, <1>3

\* PutFile keeps the invariant.
LEMMA PutFileKeeps ==
    ASSUME IInv, NEW p \in Paths, NEW size \in Nat, NEW recursive,
           entries[p] = Absent => CreationParents(entries, p, recursive),
           Finish(PutFile(Begin, p, size))
    PROVE  Kept
  BY PutFileIs, FinishGood DEF IsPut

\* WriteFile keeps the invariant.
LEMMA WriteFileKeeps ==
    ASSUME IInv, NEW p \in Paths, NEW size \in Sizes, NEW recursive, WriteFile(p, size, recursive)
    PROVE  Kept
<1>1. size \in Nat
  BY ValuesAssumption
<1>2. QED
  BY <1>1, PutFileKeeps DEF WriteFile

\* AppendFile keeps the invariant.
LEMMA AppendFileKeeps ==
    ASSUME IInv, NEW p \in Paths, NEW suffix, AppendFile(p, suffix)
    PROVE  Kept
<1> DEFINE size == entries[p].size + suffix
<1>1. size \in Nat /\ entries[p] # Absent /\ Finish(PutFile(Begin, p, size))
  BY ValuesAssumption DEF AppendFile, Is
<1> HIDE DEF size
<1>2. QED
  BY <1>1, PutFileKeeps

------------------------------------------------------------------------------
(* One row removed, and one put in the place of another *)

\* What is not a directory has nothing below it.
LEMMA NoDirectoryIsLeaf ==
    ASSUME NEW es, Shaped(es), NEW p \in Paths, ~ Is(es, p, "directory")
    PROVE  Leaf(es, p)
  BY ReplaceableIsLeaf

\* r is tx with its notes changed and nothing else.
LEMMA NotedKeeps ==
    ASSUME NEW tx \in Transaction, NEW ps, NEW r, IsNoted(tx, r, ps)
    PROVE  /\ Solid(tx) => Solid(r)
           /\ \A X : Linked(tx, X) => Linked(r, X)
           /\ Told(tx) => Told(r)
           /\ (\A q \in Paths : DeltaOf(tx.deltas, q) # 0 =>
                 q \in tx.parents \/ \E p \in ps : q = Parent(p)) => Pending(r)
<1>1. /\ r \in Transaction
      /\ r.entries = tx.entries /\ r.tombstones = tx.tombstones /\ r.usage = tx.usage
      /\ r.changes = tx.changes /\ r.alloc = tx.alloc /\ r.deltas = tx.deltas /\ r.halt = tx.halt
  BY DEF IsNoted
<1>2. Solid(tx) => Solid(r)
  BY <1>1 DEF Solid
<1>3. \A X : Linked(tx, X) => Linked(r, X)
  BY <1>1 DEF Linked
<1>4. Told(tx) => Told(r)
  BY <1>1 DEF Told
<1>5. \A q : q \in r.parents <=> q \in tx.parents \/ \E p \in ps : q = Parent(p)
  BY DEF IsNoted
<1>6. (\A q \in Paths : DeltaOf(tx.deltas, q) # 0 =>
         q \in tx.parents \/ \E p \in ps : q = Parent(p)) => Pending(r)
  BY <1>1, <1>5 DEF Pending
<1>7. QED
  BY <1>2, <1>3, <1>4, <1>6

\* RemovePath of one row keeps the invariant.
LEMMA RemoveOneKeeps ==
    ASSUME IInv, NEW p \in Paths, p # Root, entries[p] # Absent, Leaf(entries, p),
           Finish(NotePending(Announce(RemoveExact(Begin, p, 1), {p}, FALSE), {p}))
    PROVE  Kept
<1> DEFINE one == {p}
           t1 == RemoveExact(Begin, p, 1)
           t2 == Announce(t1, one, FALSE)
           r == NotePending(t2, one)
<1>0. one \subseteq Paths /\ p \in one /\ \A q : q \in one <=> q = p
  OBVIOUS
<1>1. Finish(r)
  OBVIOUS
<1> HIDE DEF one
<1>2. /\ TypeOK /\ Good(Begin) /\ Begin \in Transaction /\ Begin.entries = entries
      /\ Begin.usage = usage /\ Begin.changes = changes /\ Begin.parents = {}
      /\ \A q : DeltaOf(Begin.deltas, q) = 0
  BY BeginIs DEF IInv, Good, Solid
<1>3. IsRemoved(Begin, t1, p, 1)
  BY <1>2, RemoveExactIs
<1> HIDE DEF t1
<1>4. t1 \in Transaction
  BY <1>3 DEF IsRemoved
<1>5. Solid(t1)
  BY <1>2, <1>3, RemovedSolid DEF Good
<1>6. /\ Linked(t1, {})
      /\ \A q \in Paths : DeltaOf(t1.deltas, q) # 0 => q = Parent(p)
  BY <1>2, <1>3, RemovedLinked DEF Good
<1>7. Forward(t1) /\ Version(t1.entries, t1.tombstones, p) > Version(entries, tombstones, p)
  <2>1. Forward(Begin)
    BY <1>2, ToldIs DEF Good
  <2>2. QED
    BY <1>2, <1>3, <2>1, RemovedForward
<1>8. t1.entries[p] = Absent /\ \A q \in Paths : q # p => t1.entries[q] = entries[q]
  BY <1>2, <1>3 DEF IsRemoved
<1>9. Fresh(t1) /\ Heard(t1, one)
  BY <1>0, <1>7, <1>8 DEF Fresh, Heard
<1>10. IsAnnounced(t1, t2, one, FALSE)
  BY <1>0, <1>4, AnnounceIs
<1> HIDE DEF t2
<1>11. Solid(t2) /\ Linked(t2, {}) /\ Told(t2)
  <2>1. \A q \in one : FALSE = (t1.entries[q] # Absent)
    BY <1>0, <1>8
  <2>2. Solid(t2) /\ Linked(t2, {}) /\ Forward(t2) /\ Fresh(t2) /\ Heard(t2, {})
    BY <1>2, <1>4, <1>5, <1>6, <1>7, <1>9, <1>10, <2>1, AnnouncedKeeps
  <2>3. QED
    BY <2>2, ToldIs
<1>12. t2 \in Transaction /\ t2.deltas = t1.deltas /\ t2.usage = t1.usage
  BY <1>10 DEF IsAnnounced
<1>13. IsNoted(t2, r, one)
  BY <1>0, <1>12, NotePendingIs
<1> HIDE DEF r
<1>14. Good(r)
  <2>1. \A q \in Paths : DeltaOf(t2.deltas, q) # 0 => \E c \in one : q = Parent(c)
    BY <1>0, <1>6, <1>12
  <2>2. QED
    BY <1>11, <1>12, <1>13, <2>1, NotedKeeps DEF Good
<1>15. Fits(r)
  <2>1. r.usage = t1.usage
    BY <1>12, <1>13 DEF IsNoted
  <2>2. /\ t1.usage.inlineBytes = usage.inlineBytes - SizeOf(entries, {p})
        /\ t1.usage.entries = usage.entries - Cardinality(Living(entries, {p}))
    BY <1>2, <1>3 DEF IsRemoved
  <2>3. SizeOf(entries, {p}) \in Nat /\ Cardinality(Living(entries, {p})) \in Nat
    BY <1>2, LivingIs DEF TypeOK, Table
  <2>4. QED
    BY <1>2, <2>1, <2>2, <2>3, TotalsAre DEF Fits
<1>16. QED
  BY <1>1, <1>14, <1>15, FinishGood

\* Versions advance, and what changed outside E was announced under a new one.
ToldBut(tx, E) ==
  /\ Forward(tx)
  /\ \A p \in Paths \ E : tx.entries[p] # entries[p] =>
       /\ Version(tx.entries, tx.tombstones, p) > Version(entries, tombstones, p)
       /\ tx.changes[p].seq > alloc.seq
       /\ tx.changes[p].present = (tx.entries[p] # Absent)

\* r is tx with rows and announcements at M, where there were none.
IsGrafted(tx, r, M) ==
  /\ r \in Transaction
  /\ \A q \in Paths \cap M :
       /\ tx.entries[q] = Absent
       /\ r.entries[q] # Absent /\ r.entries[q].version > tx.tombstones[q]
       /\ r.changes[q] = [seq |-> tx.alloc.seq + 1, present |-> TRUE]
  /\ \A q \in Paths \ M :
       /\ r.entries[q] = tx.entries[q] /\ r.tombstones[q] = tx.tombstones[q]
       /\ r.changes[q] = tx.changes[q]

\* The tombstones see to it that new rows are told of.
LEMMA GraftedTold ==
    ASSUME TypeOK, NEW tx \in Transaction, alloc.seq <= tx.alloc.seq, NEW M, ToldBut(tx, M),
           NEW r, IsGrafted(tx, r, M)
    PROVE  Told(r)
<1>1. /\ r \in Transaction /\ tx.alloc.seq \in Nat /\ alloc.seq \in Nat
      /\ \A q \in Paths : /\ Version(r.entries, r.tombstones, q) \in Nat
                          /\ Version(entries, tombstones, q) \in Nat
                          /\ tx.tombstones[q] \in Nat
  <2>1. r \in Transaction
    BY DEF IsGrafted
  <2>2. entries \in Table /\ tombstones \in Tombs /\ tx.tombstones \in Tombs
        /\ r.entries \in Table /\ r.tombstones \in Tombs
    BY <2>1 DEF TypeOK, Table, Tombs, Transaction
  <2>3. QED
    BY <2>1, <2>2, VersionType, TotalsAre DEF Tombs
<1>2. ASSUME NEW q \in Paths, q \in M
      PROVE  /\ Version(r.entries, r.tombstones, q) > Version(entries, tombstones, q)
             /\ r.changes[q].seq > alloc.seq /\ r.changes[q].present = TRUE
             /\ r.entries[q] # Absent
  <2>1. /\ tx.entries[q] = Absent
        /\ r.entries[q] # Absent /\ r.entries[q].version > tx.tombstones[q]
        /\ r.changes[q] = [seq |-> tx.alloc.seq + 1, present |-> TRUE]
    BY <1>2 DEF IsGrafted
  <2>2. Version(r.entries, r.tombstones, q) > tx.tombstones[q]
    BY <2>1 DEF Version
  <2>3. tx.tombstones[q] >= Version(entries, tombstones, q)
    BY <2>1 DEF ToldBut, Forward, Version
  <2>4. QED
    BY <1>1, <2>1, <2>2, <2>3
<1>3. ASSUME NEW q \in Paths, q \notin M
      PROVE  /\ Version(r.entries, r.tombstones, q) = Version(tx.entries, tx.tombstones, q)
             /\ r.entries[q] = tx.entries[q] /\ r.changes[q] = tx.changes[q]
  BY <1>3 DEF IsGrafted, Version
<1>4. ASSUME NEW q \in Paths
      PROVE  Version(r.entries, r.tombstones, q) >= Version(entries, tombstones, q)
  <2>1. CASE q \in M
    <3>1. Version(r.entries, r.tombstones, q) > Version(entries, tombstones, q)
      BY <1>2, <2>1
    <3>2. Version(r.entries, r.tombstones, q) \in Nat /\ Version(entries, tombstones, q) \in Nat
      BY <1>1
    <3>3. QED
      BY <3>1, <3>2
  <2>2. CASE q \notin M
    BY <1>3, <2>2 DEF ToldBut, Forward
  <2>3. QED
    BY <2>1, <2>2
<1>5. ASSUME NEW q \in Paths, r.entries[q] # entries[q]
      PROVE  /\ Version(r.entries, r.tombstones, q) > Version(entries, tombstones, q)
             /\ r.changes[q].seq > alloc.seq
             /\ r.changes[q].present = (r.entries[q] # Absent)
  <2>1. CASE q \in M
    BY <1>2, <2>1
  <2>2. CASE q \notin M
    <3>1. q \in Paths \ M /\ tx.entries[q] # entries[q]
      BY <1>3, <1>5, <2>2
    <3>2. QED
      BY <1>3, <2>2, <3>1 DEF ToldBut
  <2>3. QED
    BY <2>1, <2>2
<1>6. QED
  BY <1>4, <1>5 DEF Told

\* A cleared place is a place for a row, and the rest of the tree was told of.
LEMMA ClearedIs ==
    ASSUME TypeOK, NEW t, Good(t), NEW p \in Paths, p # Root, Leaf(t.entries, p),
           DeltaOf(t.deltas, p) = 0, NEW r, IsRemoved(t, r, p, 0)
    PROVE  /\ Solid(r) /\ Linked(r, {}) /\ ToldBut(r, {p})
           /\ \A q \in Paths : DeltaOf(r.deltas, q) # 0 => q \in r.parents \/ q = Parent(p)
           /\ ~ Is(t.entries, p, "directory") => Pending(r)
<1>1. t \in Transaction /\ Solid(t) /\ Linked(t, {}) /\ Pending(t) /\ Told(t) /\ Forward(t)
  BY ToldIs DEF Good, Solid
<1>2. Solid(r)
  BY <1>1, RemovedSolid
<1>3. /\ Linked(r, {})
      /\ \A q \in Paths : DeltaOf(r.deltas, q) # 0 => DeltaOf(t.deltas, q) # 0 \/ q = Parent(p)
  BY <1>1, RemovedLinked
<1>4. r.parents = t.parents /\ r.changes = t.changes
  BY DEF IsRemoved
<1>5. \A q \in Paths : DeltaOf(r.deltas, q) # 0 => q \in r.parents \/ q = Parent(p)
  BY <1>1, <1>3, <1>4 DEF Pending
<1>6. ~ Is(t.entries, p, "directory") => Pending(r)
  <2> SUFFICES ASSUME ~ Is(t.entries, p, "directory"), NEW q \in Paths, DeltaOf(r.deltas, q) # 0
               PROVE  q \in r.parents
    BY DEF Pending
  <2>1. DeltaOf(t.deltas, q) \in Int
    BY <1>1, DeltaType DEF Transaction
  <2>2. DeltaOf(r.deltas, q) = DeltaOf(t.deltas, q) - 0
    BY DEF IsRemoved
  <2>3. DeltaOf(t.deltas, q) # 0
    BY <2>1, <2>2
  <2>4. QED
    BY <1>1, <1>4, <2>3 DEF Pending
<1>7. Forward(r)
  <2>1. 0 \in Nat
    OBVIOUS
  <2>2. QED
    BY <1>1, <2>1, RemovedForward
<1>8. ASSUME NEW q \in Paths, q # p, r.entries[q] # entries[q]
      PROVE  /\ Version(r.entries, r.tombstones, q) > Version(entries, tombstones, q)
             /\ r.changes[q].seq > alloc.seq /\ r.changes[q].present = (r.entries[q] # Absent)
  <2>1. r.entries[q] = t.entries[q] /\ r.tombstones[q] >= t.tombstones[q]
    BY <1>8 DEF IsRemoved
  <2>2. /\ Version(t.entries, t.tombstones, q) > Version(entries, tombstones, q)
        /\ t.changes[q].seq > alloc.seq /\ t.changes[q].present = (t.entries[q] # Absent)
    BY <1>1, <1>8, <2>1 DEF Told
  <2>3. Version(r.entries, r.tombstones, q) >= Version(t.entries, t.tombstones, q)
    <3>1. CASE t.entries[q] = Absent
      BY <2>1, <3>1 DEF Version
    <3>2. CASE t.entries[q] # Absent
      <4>1. t.entries[q].version \in Nat
        BY <1>1, <3>2, RowIs DEF Transaction, Table
      <4>2. QED
        BY <2>1, <3>2, <4>1 DEF Version
    <3>3. QED
      BY <3>1, <3>2
  <2>4. /\ Version(r.entries, r.tombstones, q) \in Nat /\ Version(t.entries, t.tombstones, q) \in Nat
        /\ Version(entries, tombstones, q) \in Nat
    <3>1. /\ r.entries \in Table /\ r.tombstones \in Tombs /\ t.entries \in Table
          /\ t.tombstones \in Tombs /\ entries \in Table /\ tombstones \in Tombs
      BY <1>1, <1>2 DEF Solid, Transaction, TypeOK, Table, Tombs
    <3>2. QED
      BY <3>1, VersionType
  <2>5. Version(r.entries, r.tombstones, q) > Version(entries, tombstones, q)
    BY <2>2, <2>3, <2>4
  <2>6. QED
    BY <1>4, <2>1, <2>2, <2>5
<1>9. ToldBut(r, {p})
  BY <1>7, <1>8 DEF ToldBut
<1>10. QED
  BY <1>2, <1>3, <1>5, <1>6, <1>9

\* What holds of a transaction before it is weighed holds after it.
LEMMA WeighedKeeps ==
    ASSUME NEW tx \in Transaction, NEW ok, NEW r, IsWeighed(tx, r, ok)
    PROVE  /\ Solid(tx) => Solid(r)
           /\ \A X : Linked(tx, X) => Linked(r, X)
           /\ Pending(tx) => Pending(r)
           /\ \A E : ToldBut(tx, E) => ToldBut(r, E)
<1>1. /\ r \in Transaction
      /\ r.entries = tx.entries /\ r.tombstones = tx.tombstones /\ r.usage = tx.usage
      /\ r.changes = tx.changes /\ r.alloc = tx.alloc /\ r.deltas = tx.deltas /\ r.parents = tx.parents
      /\ r.halt = tx.halt \/ r.halt = [alloc |-> tx.alloc, full |-> TRUE]
  BY DEF IsWeighed
<1>2. Solid(tx) => Solid(r)
  <2> SUFFICES ASSUME Solid(tx) PROVE Solid(r)
    OBVIOUS
  <2>1. r.halt # Absent => alloc.ino <= r.halt.alloc.ino /\ alloc.seq <= r.halt.alloc.seq
    BY <1>1 DEF Solid
  <2>2. QED
    BY <1>1, <2>1 DEF Solid
<1>3. \A X : Linked(tx, X) => Linked(r, X)
  BY <1>1 DEF Linked
<1>4. Pending(tx) => Pending(r)
  BY <1>1 DEF Pending
<1>5. \A E : ToldBut(tx, E) => ToldBut(r, E)
  BY <1>1 DEF ToldBut, Forward
<1>6. QED
  BY <1>2, <1>3, <1>4, <1>5

\* The row of a link that is put at p.
NewLink(tx, p, previous, target) ==
  [kind |-> "symlink", ino |-> tx.alloc.ino, size |-> 0, nlink |-> 1,
   version |-> NextEntryVersion(tx, p, previous), target |-> target]

\* It may be placed.
LEMMA NewLinkIs ==
    ASSUME NEW tx \in Transaction, NEW p \in Paths, NEW previous \in Nat, NEW target \in Targets
    PROVE  /\ NewLink(tx, p, previous, target) \in Entry
           /\ NewLink(tx, p, previous, target).kind = "symlink"
           /\ NewLink(tx, p, previous, target).size = 0
           /\ p # Root /\ tx.entries[p] = Absent /\ Is(tx.entries, Parent(p), "directory") =>
                Placeable(tx, p, NewLink(tx, p, previous, target))
<1> DEFINE v == NextEntryVersion(tx, p, previous)
           row == NewLink(tx, p, previous, target)
<1>1. v \in Nat /\ v > tx.tombstones[p]
  BY NextEntryVersionIs
<1>2. tx.alloc.ino \in Nat
  BY DEF Transaction, Counters
<1> HIDE DEF v
<1>3. row \in Entry /\ row.version = v /\ row.ino = tx.alloc.ino /\ row.kind = "symlink" /\ row.size = 0
  <2>1. target \in Paths
    BY ValuesAssumption
  <2>2. row \in [kind : {"directory", "file", "symlink"}, ino : Nat, size : Nat, nlink : Nat,
                version : Nat, target : Paths]
    BY <1>1, <1>2, <2>1 DEF NewLink, v
  <2>3. row.kind = "symlink" /\ row.target = target
    BY DEF NewLink
  <2>4. row.version = v /\ row.ino = tx.alloc.ino /\ row.size = 0
    BY DEF NewLink, v
  <2>5. QED
    BY <2>2, <2>3, <2>4 DEF Entry
<1> HIDE DEF row
<1>4. p # Root /\ tx.entries[p] = Absent /\ Is(tx.entries, Parent(p), "directory") =>
        Placeable(tx, p, row)
  BY <1>1, <1>3 DEF Placeable
<1>5. QED
  BY <1>3, <1>4 DEF row

\* Insert, AllocateIno, UpdateUsage and Announce, for one row that is not a directory.
LEMMA PlaceIs ==
    ASSUME NEW tx \in Transaction, NEW p \in Paths, NEW row \in Entry, row.kind # "directory",
           row.size = 0
    PROVE  IsPlaced(tx, Announce(UpdateUsage(AllocateIno(Insert(tx, Only(p, row)), 1), 0, 1), {p}, TRUE),
                    p, row, {})
<1> DEFINE one == {p}
           none == {}
           t1 == Insert(tx, Only(p, row))
           t2 == AllocateIno(t1, 1)
           t3 == UpdateUsage(t2, 0, 1)
           r == Announce(t3, one, TRUE)
<1>0. one \subseteq Paths /\ \A q : q \in one <=> q = p
  OBVIOUS
<1> HIDE DEF one
<1>1. IsInsertedOne(tx, t1, p, row)
  BY InsertOneIs
<1> HIDE DEF t1
<1>2. t1 \in Transaction
  BY <1>1 DEF IsInsertedOne
<1>3. IsAllocated(t1, t2, 1)
  BY <1>2, AllocateInoIs
<1> HIDE DEF t2
<1>4. t2 \in Transaction
  BY <1>3 DEF IsAllocated
<1>5. IsTotalled(t2, t3, 0, 1)
  BY <1>4, UpdateUsageIs
<1> HIDE DEF t3
<1>6. t3 \in Transaction
  BY <1>5 DEF IsTotalled
<1>7. IsAnnounced(t3, r, one, TRUE)
  BY <1>0, <1>6, AnnounceIs
<1> HIDE DEF r
<1>8. /\ r \in Transaction
      /\ r.entries = t1.entries /\ r.tombstones = t1.tombstones /\ r.usage = t3.usage
      /\ r.deltas = tx.deltas /\ r.parents = tx.parents /\ r.recount = tx.recount /\ r.halt = tx.halt
      /\ t3.changes = tx.changes /\ t3.alloc = t2.alloc /\ t1.alloc = tx.alloc /\ t2.usage = tx.usage
  BY <1>1, <1>3, <1>5, <1>7 DEF IsInsertedOne, IsAllocated, IsTotalled, IsAnnounced
<1>9. r.alloc.ino = tx.alloc.ino + 1 /\ r.alloc.seq = tx.alloc.seq + 1 /\ t2.alloc.ino = r.alloc.ino
      /\ t3.alloc.seq = tx.alloc.seq
  BY <1>3, <1>7, <1>8 DEF IsAllocated, IsAnnounced
<1>10. \A q \in Paths : /\ r.entries[q] = IF q = p THEN row ELSE tx.entries[q]
                        /\ r.tombstones[q] = IF q = p THEN 0 ELSE tx.tombstones[q]
  BY <1>1, <1>8 DEF IsInsertedOne
<1>11. \A q \in Paths : r.changes[q] = IF q = p THEN [seq |-> tx.alloc.seq + 1, present |-> TRUE]
                                       ELSE tx.changes[q]
  BY <1>0, <1>7, <1>8, <1>9 DEF IsAnnounced
<1>12. \A q \in Paths : DeltaOf(r.deltas, q) = DeltaOf(tx.deltas, q)
                           + (IF row.kind = "directory" /\ q = Parent(p) THEN 1 ELSE 0)
  <2> TAKE q \in Paths
  <2>1. DeltaOf(tx.deltas, q) \in Int
    BY DeltaType DEF Transaction
  <2>2. QED
    BY <1>8, <2>1
<1>13. /\ r.usage.inlineBytes = tx.usage.inlineBytes + row.size
       /\ r.usage.entries = tx.usage.entries + 1
       /\ r.usage.nextIno \in {tx.usage.nextIno, r.alloc.ino} /\ r.usage.nextIno >= r.alloc.ino
  BY <1>5, <1>8, <1>9 DEF IsTotalled
<1>14. r.parents = tx.parents \cup none
  BY <1>8
<1>15. IsPlaced(tx, r, p, row, none)
  BY <1>8, <1>9, <1>10, <1>11, <1>12, <1>13, <1>14 DEF IsPlaced
<1>16. QED
  BY <1>15 DEF r, t3, t2, t1, one

\* A link that takes a free place, or the place of a row, leaves what could be committed.
LEMMA LinkPlacedGood ==
    ASSUME TypeOK, NEW t, Solid(t), Linked(t, {}), Pending(t), NEW p \in Paths, ToldBut(t, {p}),
           NEW row, Placeable(t, p, row), row.kind # "directory",
           NEW r, IsPlaced(t, r, p, row, {})
    PROVE  Good(r)
<1> DEFINE none == {}
           one == {p}
<1>1. t \in Transaction /\ alloc.seq <= t.alloc.seq
  BY DEF Solid
<1>2. IsPlaced(t, r, p, row, none)
  OBVIOUS
<1>3. \A q : q \in one <=> q = p
  OBVIOUS
<1>4. ToldBut(t, one)
  OBVIOUS
<1>5. \A q : q \notin none
  OBVIOUS
<1> HIDE DEF one, none
<1>6. Solid(r)
  BY <1>2, PlacedSolid
<1>7. Linked(r, {})
  BY <1>2, PlacedLinked
<1>8. Pending(r)
  <2> SUFFICES ASSUME NEW q \in Paths, DeltaOf(r.deltas, q) # 0 PROVE q \in r.parents
    BY DEF Pending
  <2>1. DeltaOf(t.deltas, q) \in Int
    BY <1>1, DeltaType DEF Transaction
  <2>2. DeltaOf(r.deltas, q) = DeltaOf(t.deltas, q) + 0
    BY DEF IsPlaced
  <2>3. q \in t.parents
    BY <2>1, <2>2 DEF Pending
  <2>4. r.parents = t.parents \cup none
    BY <1>2 DEF IsPlaced
  <2>5. QED
    BY <2>3, <2>4
<1>9. Told(r)
  <2>1. /\ row # Absent /\ row.version > t.tombstones[p] /\ t.entries[p] = Absent
        /\ r \in Transaction
    BY RowIs DEF Placeable, IsPlaced
  <2>2. \A q \in Paths \cap one :
           /\ t.entries[q] = Absent
           /\ r.entries[q] # Absent /\ r.entries[q].version > t.tombstones[q]
           /\ r.changes[q] = [seq |-> t.alloc.seq + 1, present |-> TRUE]
    BY <1>2, <1>3, <2>1 DEF IsPlaced
  <2>3. \A q \in Paths \ one :
           /\ r.entries[q] = t.entries[q] /\ r.tombstones[q] = t.tombstones[q]
           /\ r.changes[q] = t.changes[q]
    BY <1>2, <1>3 DEF IsPlaced
  <2>4. IsGrafted(t, r, one)
    BY <2>1, <2>2, <2>3 DEF IsGrafted
  <2>5. QED
    BY <1>1, <1>4, <2>4, GraftedTold
<1>10. QED
  BY <1>6, <1>7, <1>8, <1>9 DEF Good

\* Symlink keeps the invariant.
LEMMA SymlinkKeeps ==
    ASSUME IInv, NEW p \in Paths, NEW target \in Targets, NEW replace, NEW recursive,
           Symlink(p, target, replace, recursive)
    PROVE  Kept
<1> DEFINE old == entries[p]
           previous == IF old = Absent THEN 0 ELSE old.version
           one == {p}
           t1 == CreateMissingParents(Begin, p)
           t2 == RemoveExact(t1, p, 0)
           t3 == AssertCapacity(t2, 0, 1)
           row == NewLink(t3, p, previous, target)
           t4 == Announce(UpdateUsage(AllocateIno(Insert(t3, Only(p, row)), 1), 0, 1), one, TRUE)
           r == IF old = Absent THEN NotePending(t4, one) ELSE t4
<1>1. /\ p # Root /\ CreationParents(entries, p, recursive)
      /\ (old # Absent => old.kind # "directory")
      /\ Finish(r)
  BY DEF Symlink, NewLink, Only
<1>2. /\ TypeOK /\ Good(Begin) /\ Begin.entries = entries /\ Begin.usage = usage
      /\ DeltaOf(Begin.deltas, p) = 0
  BY BeginIs DEF IInv
<1>3. previous \in Nat
  BY <1>2, RowIs DEF TypeOK
<1> HIDE DEF previous
<1>4. IsReached(Begin, t1, p)
  BY <1>1, <1>2, CreateMissingParentsIs
<1> HIDE DEF t1
<1>5. /\ Good(t1) /\ t1 \in Transaction /\ Shaped(t1.entries) /\ t1.entries[p] = old
      /\ DeltaOf(t1.deltas, p) = 0 /\ t1.usage.inlineBytes = usage.inlineBytes
      /\ Is(t1.entries, Parent(p), "directory")
  <2>1. Good(t1)
    BY <1>4 DEF IsReached
  <2>2. t1.entries[p] = old
    BY <1>2, <1>4 DEF IsReached
  <2>3. QED
    BY <1>2, <1>4, <2>1, <2>2 DEF IsReached, Good, Solid
<1>6. ~ Is(t1.entries, p, "directory")
  BY <1>1, <1>5 DEF Is
<1>7. Leaf(t1.entries, p)
  BY <1>5, <1>6, NoDirectoryIsLeaf
<1>8. IsRemoved(t1, t2, p, 0)
  <2>1. 0 \in Nat
    OBVIOUS
  <2>2. QED
    BY <1>5, <2>1, RemoveExactIs
<1> HIDE DEF t2
<1>9. Solid(t2) /\ Linked(t2, {}) /\ ToldBut(t2, one) /\ Pending(t2)
  BY <1>1, <1>2, <1>5, <1>6, <1>7, <1>8, ClearedIs
<1>10. t2 \in Transaction
  BY <1>9 DEF Solid
<1>11. IsWeighed(t2, t3, Affords(t2, 0, 1))
  BY <1>10, WeighIs
<1> HIDE DEF t3
<1>12. Solid(t3) /\ Linked(t3, {}) /\ ToldBut(t3, one) /\ Pending(t3) /\ t3 \in Transaction
  <2>1. Solid(t3) /\ Linked(t3, {}) /\ ToldBut(t3, one) /\ Pending(t3)
    BY <1>9, <1>10, <1>11, WeighedKeeps
  <2>2. QED
    BY <2>1 DEF Solid
<1>13. t3.entries[p] = Absent /\ Is(t3.entries, Parent(p), "directory")
  <2>1. Parent(p) \in Paths /\ Parent(p) # p
    BY <1>1, ParentIsPath, ParentAbove
  <2>2. t3.entries = t2.entries /\ t2.entries[p] = Absent /\ t2.entries[Parent(p)] = t1.entries[Parent(p)]
    BY <1>8, <1>11, <2>1 DEF IsRemoved, IsWeighed
  <2>3. QED
    BY <1>5, <2>2 DEF Is
<1>14. row \in Entry /\ row.kind = "symlink" /\ row.size = 0 /\ Placeable(t3, p, row)
  BY <1>1, <1>3, <1>12, <1>13, NewLinkIs
<1> HIDE DEF row
<1>15. IsPlaced(t3, t4, p, row, {})
  <2>1. row.kind # "directory"
    BY <1>14
  <2>2. QED
    BY <1>12, <1>14, <2>1, PlaceIs
<1> HIDE DEF t4
<1>16. Good(t4)
  <2>1. row.kind # "directory"
    BY <1>14
  <2>2. QED
    BY <1>2, <1>12, <1>14, <1>15, <2>1, LinkPlacedGood
<1>17. Good(r) /\ r.usage = t4.usage /\ r.halt = t4.halt
  <2>1. CASE old = Absent
    <3> DEFINE s == NotePending(t4, one)
    <3>1. r = s
      BY <2>1
    <3>2. t4 \in Transaction /\ one \subseteq Paths
      BY <1>16 DEF Good, Solid
    <3>3. IsNoted(t4, s, one)
      BY <3>2, NotePendingIs
    <3> HIDE DEF s
    <3>4. s.usage = t4.usage /\ s.halt = t4.halt
      BY <3>3 DEF IsNoted
    <3>5. Pending(t4) /\ Solid(t4) /\ Linked(t4, {}) /\ Told(t4)
      BY <1>16 DEF Good
    <3>6. \A q \in Paths : DeltaOf(t4.deltas, q) # 0 => q \in t4.parents
      BY <3>5 DEF Pending
    <3>7. Good(s)
      BY <3>2, <3>3, <3>5, <3>6, NotedKeeps DEF Good
    <3>8. QED
      BY <3>1, <3>4, <3>7
  <2>2. CASE old # Absent
    BY <1>16, <2>2
  <2>3. QED
    BY <2>1, <2>2
<1> HIDE DEF r
<1>18. Fits(r)
  <2> SUFFICES ASSUME r.halt = Absent
               PROVE  /\ r.usage.inlineBytes > usage.inlineBytes => r.usage.inlineBytes <= limits.inlineBytes
                      /\ r.usage.entries > usage.entries => r.usage.entries <= limits.entries
    BY DEF Fits
  <2>1. /\ r.usage.inlineBytes = t3.usage.inlineBytes + 0 /\ r.usage.entries = t3.usage.entries + 1
        /\ t3.halt = Absent
    BY <1>14, <1>15, <1>17 DEF IsPlaced
  <2>2. t3.usage = t2.usage
    BY <1>11 DEF IsWeighed
  <2>3. t2.usage.entries + 1 <= limits.entries
    <3>1. Affords(t2, 0, 1)
      BY <1>10, <1>11, <2>1, WeighedOk
    <3>2. QED
      BY <3>1 DEF Affords
  <2>4. t2.usage.inlineBytes = usage.inlineBytes - SizeOf(t1.entries, one)
    BY <1>5, <1>8 DEF IsRemoved
  <2>5. SizeOf(t1.entries, one) \in Nat
    BY <1>5, LivingIs DEF Transaction
  <2>6. r.usage.inlineBytes <= usage.inlineBytes
    BY <1>2, <1>10, <2>1, <2>2, <2>4, <2>5, TotalsAre
  <2>7. r.usage.entries <= limits.entries
    BY <1>2, <1>10, <2>1, <2>2, <2>3, TotalsAre
  <2>8. r.usage.inlineBytes \in Int
    BY <1>17 DEF Good, Solid, Transaction, Totals
  <2>9. QED
    BY <1>2, <1>10, <2>6, <2>7, <2>8, TotalsAre
<1>19. QED
  BY <1>1, <1>17, <1>18, FinishGood

------------------------------------------------------------------------------
(* Subtrees that go, and subtrees that are put somewhere *)

\* The rows below a path, and where they are when they are put below another.
Tree(es, top) == Living(es, Subtree[top])
Moved(es, from, to) == {Rebase(p, from, to) : p \in Tree(es, from)}

\* What a subtree is.
LEMMA TreeIs ==
    ASSUME NEW es, NEW top \in Paths
    PROVE  /\ Tree(es, top) \subseteq Paths
           /\ \A p \in Paths : p \in Tree(es, top) <=> es[p] # Absent /\ IsPrefix(top, p)
  BY DEF Tree, Living, Subtree

\* Nothing counts for nothing.
LEMMA NothingIs ==
    ASSUME NEW es, NEW ps, ps \subseteq Paths, \A p \in ps : es[p] = Absent
    PROVE  SizeOf(es, ps) = 0 /\ Cardinality(Living(es, ps)) = 0
<1>1. Living(es, ps) = {}
  BY DEF Living
<1>2. SizeOf(es, ps) = SumOf(SizeAt(es), {})
  BY <1>1, SizeOfIs
<1>3. QED
  BY <1>1, <1>2, SumEmpty, FS_EmptySet

\* gs is es without the rows below top.
IsCut(es, gs, top) ==
  /\ Shaped(gs)
  /\ \A q \in Paths : gs[q] = IF IsPrefix(top, q) THEN Absent ELSE es[q]
  /\ SizeOf(gs, Paths) = SizeOf(es, Paths) - SizeOf(es, Tree(es, top))
  /\ Cardinality(Living(gs, Paths)) = Cardinality(Living(es, Paths)) - Cardinality(Tree(es, top))
  /\ \A q \in Paths : ~ IsPrefix(top, q) /\ (q # Parent(top) \/ ~ Is(es, top, "directory")) =>
       ChildDirectories(gs, q) = ChildDirectories(es, q)

\* A subtree goes.
LEMMA CutIs ==
    ASSUME NEW es \in Table, Shaped(es), NEW top \in Paths, top # Root, NEW gs \in Table,
           \A q \in Paths : gs[q] = IF q \in Tree(es, top) THEN Absent ELSE es[q]
    PROVE  IsCut(es, gs, top)
<1> DEFINE tree == Tree(es, top)
<1>1. /\ tree \subseteq Paths
      /\ \A p \in Paths : p \in tree <=> es[p] # Absent /\ IsPrefix(top, p)
  BY TreeIs
<1>2. \A q \in Paths : gs[q] = IF q \in tree THEN Absent ELSE es[q]
  OBVIOUS
<1>3. tree = Living(es, tree)
  BY <1>1 DEF Living
<1> HIDE DEF tree
<1>4. \A q \in Paths : gs[q] = IF IsPrefix(top, q) THEN Absent ELSE es[q]
  BY <1>1, <1>2
<1>5. ASSUME NEW q \in Paths, q # Root, IsPrefix(top, Parent(q))
      PROVE  IsPrefix(top, q)
  <2>1. Parent(q) \in Paths /\ IsPrefix(Parent(q), q)
    BY <1>5, ParentIsPath, ParentAbove
  <2>2. QED
    BY <1>5, <2>1, PrefixOrder
<1>6. Shaped(gs)
  <2>1. ~ IsPrefix(top, Root)
    BY RootIs, RootAbove, PrefixOrder
  <2>2. Is(gs, Root, "directory")
    BY <1>4, <2>1, RootIs DEF Shaped, Is
  <2>3. ASSUME NEW q \in Paths, gs[q] # Absent
        PROVE  Is(gs, Parent(q), "directory")
    <3>1. es[q] # Absent /\ ~ IsPrefix(top, q)
      BY <1>4, <2>3
    <3>2. Is(es, Parent(q), "directory") /\ Parent(q) \in Paths
      BY <3>1, ParentIsPath DEF Shaped, Living
    <3>3. ~ IsPrefix(top, Parent(q))
      BY <1>5, <3>1, RootIs
    <3>4. QED
      BY <1>4, <3>2, <3>3 DEF Is
  <2>4. QED
    BY <2>2, <2>3 DEF Shaped, Living
<1>7. TotalsChange(es, gs, tree)
  BY <1>1, <1>2, TableChange
<1>8. SizeOf(gs, tree) = 0 /\ Cardinality(Living(gs, tree)) = 0
  BY <1>1, <1>2, NothingIs
<1>9. /\ SizeOf(es, Paths) \in Nat /\ Cardinality(Living(es, Paths)) \in Nat
      /\ SizeOf(es, tree) \in Nat /\ Cardinality(Living(es, tree)) \in Nat
  BY <1>1, LivingIs
<1>10. SizeOf(gs, Paths) = SizeOf(es, Paths) - SizeOf(es, tree)
  BY <1>7, <1>8, <1>9 DEF TotalsChange
<1>11. Cardinality(Living(gs, Paths)) = Cardinality(Living(es, Paths)) - Cardinality(tree)
  BY <1>3, <1>7, <1>8, <1>9 DEF TotalsChange
<1>12. ASSUME NEW q \in Paths, ~ IsPrefix(top, q), q # Parent(top) \/ ~ Is(es, top, "directory")
       PROVE  ChildDirectories(gs, q) = ChildDirectories(es, q)
  <2>1. ASSUME NEW c \in Paths, c # Root, Parent(c) = q
        PROVE  Is(gs, c, "directory") <=> Is(es, c, "directory")
    <3>1. CASE c = top
      <4>1. ~ Is(es, top, "directory")
        BY <1>12, <2>1, <3>1
      <4>2. QED
        BY <1>4, <3>1, <4>1 DEF Is
    <3>2. CASE c # top
      <4>1. ~ IsPrefix(top, c)
        BY <1>12, <2>1, <3>2, ParentAbove
      <4>2. QED
        BY <1>4, <4>1 DEF Is
    <3>3. QED
      BY <3>1, <3>2
  <2>2. \A c : c \in ChildDirectories(gs, q) <=> c \in ChildDirectories(es, q)
    BY <2>1, ChildrenIs
  <2>3. QED
    BY <2>2
<1>13. QED
  BY <1>4, <1>6, <1>10, <1>11, <1>12 DEF IsCut, tree

\* Each row has its place there, and each place its row.
LEMMA MovedIs ==
    ASSUME NEW es, NEW from \in Paths, NEW to \in Paths, Moved(es, from, to) \subseteq Paths
    PROVE  /\ \A p \in Tree(es, from) :
                /\ Rebase(p, from, to) \in Moved(es, from, to)
                /\ Rebase(Rebase(p, from, to), to, from) = p
           /\ \A q \in Moved(es, from, to) :
                /\ IsPrefix(to, q) /\ Rebase(q, to, from) \in Tree(es, from)
                /\ Rebase(Rebase(q, to, from), from, to) = q
<1>1. /\ Tree(es, from) \subseteq Paths
      /\ \A p \in Paths : p \in Tree(es, from) <=> es[p] # Absent /\ IsPrefix(from, p)
  BY TreeIs
<1>2. \A p \in Tree(es, from) : Rebase(p, from, to) \in Moved(es, from, to)
  BY DEF Moved
<1>3. \A p \in Tree(es, from) : Rebase(Rebase(p, from, to), to, from) = p
  BY <1>1, <1>2, RebaseBack
<1>4. ASSUME NEW q \in Moved(es, from, to)
      PROVE  /\ IsPrefix(to, q) /\ Rebase(q, to, from) \in Tree(es, from)
             /\ Rebase(Rebase(q, to, from), from, to) = q
  <2>1. PICK p \in Tree(es, from) : q = Rebase(p, from, to)
    BY DEF Moved
  <2>2. IsPrefix(to, q)
    BY <1>1, <2>1, RebaseIs
  <2>3. QED
    BY <1>3, <2>1, <2>2
<1>5. QED
  BY <1>2, <1>3, <1>4

\* fs is gs with rows below `to` like the rows of ss below `from`.
IsGraft(ss, gs, fs, from, to) ==
  /\ Shaped(fs)
  /\ IsFiniteSet(Tree(ss, from)) /\ IsFiniteSet(Moved(ss, from, to))
  /\ Cardinality(Moved(ss, from, to)) = Cardinality(Tree(ss, from))
  /\ SizeOf(fs, Paths) = SizeOf(gs, Paths) + SizeOf(ss, Tree(ss, from))
  /\ Cardinality(Living(fs, Paths)) = Cardinality(Living(gs, Paths)) + Cardinality(Tree(ss, from))
  /\ \A q \in Moved(ss, from, to) :
       Cardinality(ChildDirectories(fs, q)) = Cardinality(ChildDirectories(ss, Rebase(q, to, from)))
  /\ \A q \in Paths : q \notin Moved(ss, from, to) /\ (q # Parent(to) \/ ~ Is(ss, from, "directory")) =>
       ChildDirectories(fs, q) = ChildDirectories(gs, q)

\* T is the image of S, element by element.
IsOneToOne(r, S, T) ==
  /\ T = {r[x] : x \in S}
  /\ \A x, y \in S : r[x] = r[y] => x = y

\* Such sets are of one size.
LEMMA OneToOneIs ==
    ASSUME NEW S, IsFiniteSet(S), NEW r, NEW T, IsOneToOne(r, S, T)
    PROVE  Cardinality(T) = Cardinality(S)
  BY FiniteImage DEF IsOneToOne

\* A subtree is put where there was nothing, below a directory.
LEMMA GraftIs ==
    ASSUME NEW ss \in Table, Shaped(ss), NEW gs \in Table, Shaped(gs), NEW fs \in Table,
           NEW from \in Paths, NEW to \in Paths, to # Root, ss[from] # Absent,
           Is(gs, Parent(to), "directory"), \A q \in Paths : IsPrefix(to, q) => gs[q] = Absent,
           Moved(ss, from, to) \subseteq Paths,
           \A q \in Moved(ss, from, to) :
             /\ fs[q] # Absent /\ fs[q].kind = ss[Rebase(q, to, from)].kind
             /\ fs[q].size = ss[Rebase(q, to, from)].size,
           \A q \in Paths : q \notin Moved(ss, from, to) => fs[q] = gs[q]
    PROVE  IsGraft(ss, gs, fs, from, to)
<1> DEFINE tree == Tree(ss, from)
           moved == Moved(ss, from, to)
           there == [p \in tree |-> Rebase(p, from, to)]
           back(q) == Rebase(q, to, from)
<1>1. /\ tree \subseteq Paths /\ moved \subseteq Paths
      /\ \A p \in Paths : p \in tree <=> ss[p] # Absent /\ IsPrefix(from, p)
  BY TreeIs
<1>2. /\ \A p \in tree : there[p] \in moved /\ back(there[p]) = p
      /\ \A q \in moved : IsPrefix(to, q) /\ back(q) \in tree /\ there[back(q)] = q
  BY MovedIs
<1>3. \A q \in moved : /\ gs[q] = Absent
                       /\ fs[q] # Absent /\ fs[q].kind = ss[back(q)].kind
                       /\ fs[q].size = ss[back(q)].size
  BY <1>1, <1>2
<1>4. \A q \in Paths : q \notin moved => fs[q] = gs[q]
  OBVIOUS
<1>5. \A p \in tree : p # from => /\ p # Root /\ IsPrefix(from, Parent(p)) /\ Parent(p) \in Paths
                                  /\ there[p] # Root
                                  /\ Parent(there[p]) = Rebase(Parent(p), from, to)
  <2> SUFFICES ASSUME NEW p \in tree, p # from
               PROVE  /\ p # Root /\ IsPrefix(from, Parent(p)) /\ Parent(p) \in Paths
                      /\ there[p] # Root
                      /\ Parent(there[p]) = Rebase(Parent(p), from, to)
    OBVIOUS
  <2>1. p \in Paths /\ IsPrefix(from, p) /\ there[p] \in Paths /\ there[p] = Rebase(p, from, to)
    BY <1>1, <1>2
  <2>2. Rebase(p, from, to) \in Paths
    BY <2>1
  <2>3. /\ p # Root /\ IsPrefix(from, Parent(p)) /\ Rebase(p, from, to) # Root
        /\ Parent(Rebase(p, from, to)) = Rebase(Parent(p), from, to)
    BY <2>1, <2>2, RebaseParent
  <2>4. QED
    BY <2>1, <2>3, ParentIsPath
<1>6. from \in tree /\ there[from] = to
  <2>1. from \in tree
    BY <1>1, PrefixOrder
  <2>2. QED
    BY <2>1, RebaseRoot
<1>7. \A p \in tree : there[p] = Rebase(p, from, to)
  OBVIOUS
<1>8. \A p \in tree : p # from => /\ Parent(p) \in tree /\ Is(ss, Parent(p), "directory")
                                  /\ Parent(there[p]) = there[Parent(p)] /\ Parent(there[p]) \in moved
  <2> SUFFICES ASSUME NEW p \in tree, p # from
               PROVE  /\ Parent(p) \in tree /\ Is(ss, Parent(p), "directory")
                      /\ Parent(there[p]) = there[Parent(p)] /\ Parent(there[p]) \in moved
    OBVIOUS
  <2>1. Is(ss, Parent(p), "directory")
    BY <1>1 DEF Shaped, Living
  <2>2. Parent(p) \in tree
    BY <1>1, <1>5, <2>1 DEF Is
  <2>3. Parent(there[p]) = there[Parent(p)]
    BY <1>5, <1>7, <2>2
  <2>4. QED
    BY <1>2, <2>1, <2>2, <2>3
<1>9. \A x, y \in tree : there[x] = there[y] => x = y
  BY <1>2
<1>10. moved = {there[p] : p \in tree}
  BY DEF Moved
<1>11. IsFiniteSet(tree)
  BY <1>1, PathsAssumption, FS_Subset
<1>12. Living(ss, tree) = tree /\ Living(fs, moved) = moved
  BY <1>1, <1>3 DEF Living
<1>13. \A q \in moved : IsPrefix(to, q)
  BY <1>2
<1> HIDE DEF tree, moved, there, back
<1>14. \A q \in moved : \A k : Is(fs, q, k) <=> Is(ss, back(q), k)
  BY <1>1, <1>2, <1>3 DEF Is
<1>15. Parent(to) \in Paths /\ Parent(to) \notin moved
  <2>1. Parent(to) \in Paths
    BY ParentIsPath
  <2>2. QED
    BY <1>13, <2>1 DEF Is
<1>16. Shaped(fs)
  <2>1. Root \notin moved
    BY <1>13, RootIs, RootAbove, PrefixOrder
  <2>2. Is(fs, Root, "directory")
    BY <1>4, <2>1, RootIs DEF Shaped, Is
  <2>3. ASSUME NEW q \in Paths, fs[q] # Absent
        PROVE  Is(fs, Parent(q), "directory")
    <3>1. CASE q \in moved
      <4>1. CASE back(q) = from
        <5>1. q = to
          BY <1>2, <1>6, <3>1, <4>1
        <5>2. fs[Parent(to)] = gs[Parent(to)]
          BY <1>4, <1>15
        <5>3. QED
          BY <5>1, <5>2 DEF Is
      <4>2. CASE back(q) # from
        <5>1. back(q) \in tree /\ there[back(q)] = q
          BY <1>2, <3>1
        <5>2. /\ Parent(back(q)) \in tree /\ Is(ss, Parent(back(q)), "directory")
              /\ Parent(q) = there[Parent(back(q))] /\ Parent(q) \in moved
          BY <1>8, <4>2, <5>1
        <5>3. back(Parent(q)) = Parent(back(q))
          BY <1>2, <5>2
        <5>4. QED
          BY <1>14, <5>2, <5>3
      <4>3. QED
        BY <4>1, <4>2
    <3>2. CASE q \notin moved
      <4>1. Is(gs, Parent(q), "directory") /\ Parent(q) \in Paths
        BY <1>4, <2>3, <3>2, ParentIsPath DEF Shaped, Living
      <4>2. Parent(q) \notin moved
        BY <1>3, <4>1 DEF Is
      <4>3. QED
        BY <1>4, <4>1, <4>2 DEF Is
    <3>3. QED
      BY <3>1, <3>2
  <2>4. QED
    BY <2>2, <2>3 DEF Shaped, Living
<1>17. IsFiniteSet(moved) /\ Cardinality(moved) = Cardinality(tree)
  BY <1>9, <1>10, <1>11, FiniteImage
<1>18. TotalsChange(gs, fs, moved)
  BY <1>1, <1>4, TableChange
<1>19. SizeOf(gs, moved) = 0 /\ Cardinality(Living(gs, moved)) = 0
  BY <1>1, <1>3, NothingIs
<1>20. SizeOf(fs, moved) = SizeOf(ss, tree)
  <2>1. SizeOf(fs, moved) = SumOf(SizeAt(fs), moved) /\ SizeOf(ss, tree) = SumOf(SizeAt(ss), tree)
    BY <1>1, <1>12, SizeOfIs
  <2>2. \A p \in tree : SizeAt(ss)[p] = SizeAt(fs)[there[p]] /\ SizeAt(ss)[p] \in Int
    <3> SUFFICES ASSUME NEW p \in tree
                 PROVE  SizeAt(ss)[p] = SizeAt(fs)[there[p]] /\ SizeAt(ss)[p] \in Int
      OBVIOUS
    <3>1. there[p] \in moved /\ back(there[p]) = p
      BY <1>2
    <3>2. fs[there[p]].size = ss[p].size
      BY <1>3, <3>1
    <3>3. SizeAt(ss)[p] = ss[p].size /\ ss[p].size \in Nat
      BY <1>1, <1>12, LivingIs
    <3>4. SizeAt(fs)[there[p]] = fs[there[p]].size
      BY <1>1, <3>1 DEF SizeAt
    <3>5. QED
      BY <3>2, <3>3, <3>4
  <2>3. SumOf(SizeAt(ss), tree) = SumOf(SizeAt(fs), {there[p] : p \in tree})
    BY <1>9, <1>11, <2>2, SumImage
  <2>4. QED
    BY <1>10, <2>1, <2>3
<1>21. /\ SizeOf(gs, Paths) \in Nat /\ Cardinality(Living(gs, Paths)) \in Nat
       /\ SizeOf(ss, tree) \in Nat /\ Cardinality(tree) \in Nat
  BY <1>1, <1>12, LivingIs
<1>22. /\ SizeOf(fs, Paths) = SizeOf(gs, Paths) + SizeOf(ss, tree)
       /\ Cardinality(Living(fs, Paths)) = Cardinality(Living(gs, Paths)) + Cardinality(tree)
  BY <1>12, <1>17, <1>18, <1>19, <1>20, <1>21 DEF TotalsChange
<1>23. ASSUME NEW q \in moved
       PROVE  Cardinality(ChildDirectories(fs, q)) = Cardinality(ChildDirectories(ss, back(q)))
  <2> DEFINE s == back(q)
             D == ChildDirectories(ss, s)
  <2>1. s \in tree /\ s \in Paths /\ there[s] = q /\ q \in Paths /\ IsPrefix(to, q) /\ IsPrefix(from, s)
    BY <1>1, <1>2
  <2> HIDE DEF s
  <2>2. \A c : c \in D <=> c \in Paths /\ c # Root /\ Parent(c) = s /\ Is(ss, c, "directory")
    BY <2>1, ChildrenIs
  <2>3. IsFiniteSet(D)
    BY <2>1, ChildrenIs
  <2>4. \A c : c \in ChildDirectories(fs, q) <=>
                 c \in Paths /\ c # Root /\ Parent(c) = q /\ Is(fs, c, "directory")
    BY <2>1, ChildrenIs
  <2> HIDE DEF D
  <2>5. ASSUME NEW c \in D
        PROVE  c \in tree /\ c # from
    <3>1. c \in Paths /\ c # Root /\ Parent(c) = s /\ Is(ss, c, "directory")
      BY <2>2
    <3>2. IsPrefix(s, c) /\ s # c
      BY <3>1, ParentAbove
    <3>3. IsPrefix(from, c)
      BY <2>1, <3>1, <3>2, PrefixOrder
    <3>4. c # from
      BY <2>1, <3>2, PrefixOrder
    <3>5. QED
      BY <1>1, <3>1, <3>3, <3>4 DEF Is
  <2>6. ASSUME NEW c \in D
        PROVE  there[c] \in ChildDirectories(fs, q)
    <3>1. Parent(c) = s /\ Is(ss, c, "directory") /\ c \in tree /\ c # from
      BY <2>2, <2>5
    <3>2. there[c] \in moved /\ back(there[c]) = c /\ Parent(there[c]) = q /\ there[c] # Root
      BY <1>2, <1>5, <1>8, <2>1, <3>1
    <3>3. Is(fs, there[c], "directory") /\ there[c] \in Paths
      BY <1>1, <1>14, <3>1, <3>2
    <3>4. QED
      BY <2>4, <3>2, <3>3
  <2>7. ASSUME NEW d \in ChildDirectories(fs, q)
        PROVE  \E c \in D : d = there[c]
    <3>1. d \in Paths /\ d # Root /\ Parent(d) = q /\ Is(fs, d, "directory")
      BY <2>4
    <3>2. IsPrefix(q, d)
      BY <3>1, ParentAbove
    <3>3. IsPrefix(to, d)
      BY <2>1, <3>1, <3>2, PrefixOrder
    <3>4. d \in moved
      BY <1>4, <3>1, <3>3 DEF Is
    <3> DEFINE c == back(d)
    <3>5. c \in tree /\ there[c] = d /\ back(d) = c
      BY <1>2, <3>4
    <3> HIDE DEF c
    <3>6. c # from
      BY <1>6, <1>15, <3>1, <3>5
    <3>7. Parent(c) \in tree /\ q = there[Parent(c)] /\ c # Root
      BY <1>5, <1>8, <3>1, <3>5, <3>6
    <3>8. Parent(c) = s
      BY <1>9, <2>1, <3>7
    <3>9. Is(ss, c, "directory")
      BY <1>14, <3>1, <3>4, <3>5
    <3>10. c \in D
      BY <1>1, <2>2, <3>5, <3>7, <3>8, <3>9
    <3>11. QED
      BY <3>5, <3>10
  <2>8. ChildDirectories(fs, q) = {there[c] : c \in D}
    BY <2>6, <2>7
  <2>9. \A x, y \in D : there[x] = there[y] => x = y
    BY <1>9, <2>5
  <2> DEFINE E == ChildDirectories(fs, q)
  <2>10. E = {there[c] : c \in D}
    BY <2>8
  <2> HIDE DEF E
  <2>11. Cardinality(E) = Cardinality(D)
    <3>1. IsOneToOne(there, D, E)
      BY <2>9, <2>10 DEF IsOneToOne
    <3>2. QED
      BY <2>3, <3>1, OneToOneIs
  <2>12. QED
    BY <2>11 DEF D, E, s
<1>24. ASSUME NEW q \in Paths, q \notin moved, q # Parent(to) \/ ~ Is(ss, from, "directory")
       PROVE  ChildDirectories(fs, q) = ChildDirectories(gs, q)
  <2>1. ASSUME NEW c \in Paths, c # Root, Parent(c) = q
        PROVE  Is(fs, c, "directory") <=> Is(gs, c, "directory")
    <3>1. CASE c \in moved
      <4>1. back(c) \in tree /\ there[back(c)] = c
        BY <1>2, <3>1
      <4>2. back(c) = from
        BY <1>8, <1>24, <2>1, <4>1
      <4>3. c = to
        BY <1>6, <4>1, <4>2
      <4>4. ~ Is(ss, from, "directory")
        BY <1>24, <2>1, <4>3
      <4>5. ~ Is(fs, c, "directory")
        BY <1>14, <3>1, <4>2, <4>4
      <4>6. ~ Is(gs, c, "directory")
        BY <1>3, <3>1 DEF Is
      <4>7. QED
        BY <4>5, <4>6
    <3>2. CASE c \notin moved
      BY <1>4, <3>2 DEF Is
    <3>3. QED
      BY <3>1, <3>2
  <2>2. \A c : c \in ChildDirectories(fs, q) <=> c \in ChildDirectories(gs, q)
    BY <2>1, ChildrenIs
  <2>3. QED
    BY <2>2
<1>25. QED
  BY <1>11, <1>16, <1>17, <1>22, <1>23, <1>24 DEF IsGraft, tree, moved, back

\* Rows that stay keep their numbers.
LEMMA PartNumbered ==
    ASSUME NEW es \in Table, NEW gs, NEW n \in Nat, NEW m \in Nat, n <= m, Numbered(es, n),
           \A q \in Paths : gs[q] = Absent \/ gs[q] = es[q]
    PROVE  Numbered(gs, m)
<1>1. \A q \in Living(gs, Paths) : q \in Living(es, Paths) /\ gs[q] = es[q] /\ es[q].ino \in Nat
  <2> TAKE q \in Living(gs, Paths)
  <2>1. q \in Paths /\ gs[q] # Absent
    BY DEF Living
  <2>2. gs[q] = es[q] /\ es[q] \in Entry
    BY <2>1 DEF Table
  <2>3. QED
    BY <2>1, <2>2, RowIs DEF Living
<1>2. QED
  BY <1>1 DEF Numbered

\* Tables that agree add up to the same.
LEMMA SizeAgrees ==
    ASSUME NEW es \in Table, NEW gs, NEW K, K \subseteq Paths, \A q \in K : gs[q] = es[q]
    PROVE  SizeOf(gs, K) = SizeOf(es, K) /\ Living(gs, K) = Living(es, K)
<1> DEFINE S == Living(es, K)
<1>1. Living(gs, K) = S
  BY DEF Living
<1>2. SizeOf(gs, K) = SumOf(SizeAt(gs), S) /\ SizeOf(es, K) = SumOf(SizeAt(es), S)
  BY <1>1, SizeOfIs
<1>3. IsFiniteSet(S) /\ \A q \in S : SizeAt(es)[q] \in Int
  BY LivingIs
<1>4. \A q \in S : SizeAt(gs)[q] = SizeAt(es)[q]
  BY DEF SizeAt, Living
<1> HIDE DEF S
<1>5. SumOf(SizeAt(gs), S) = SumOf(SizeAt(es), S)
  BY <1>3, <1>4, SumSame
<1>6. QED
  BY <1>1, <1>2, <1>5 DEF S

\* Rows that are announced and deleted are told of.
LEMMA CutTold ==
    ASSUME TypeOK, NEW tx \in Transaction, alloc.seq <= tx.alloc.seq, NEW E, ToldBut(tx, E),
           NEW T, T \subseteq Paths, \A q \in T : tx.entries[q] # Absent,
           NEW t, IsAnnounced(tx, t, T, FALSE), NEW r, IsDeleted(t, r, T, 1)
    PROVE  ToldBut(r, E)
<1>1. /\ r \in Transaction /\ tx.alloc.seq \in Nat /\ alloc.seq \in Nat
      /\ \A q \in Paths : /\ Version(r.entries, r.tombstones, q) \in Nat
                          /\ Version(tx.entries, tx.tombstones, q) \in Nat
                          /\ Version(entries, tombstones, q) \in Nat
                          /\ tx.tombstones[q] \in Nat /\ r.tombstones[q] \in Nat
  <2>1. r \in Transaction
    BY DEF IsDeleted
  <2>2. entries \in Table /\ tombstones \in Tombs /\ tx.tombstones \in Tombs /\ tx.entries \in Table
        /\ r.entries \in Table /\ r.tombstones \in Tombs
    BY <2>1 DEF TypeOK, Table, Tombs, Transaction
  <2>3. QED
    BY <2>1, <2>2, VersionType, TotalsAre DEF Tombs
<1>2. t.entries = tx.entries /\ t.tombstones = tx.tombstones /\ r.changes = t.changes
  BY DEF IsAnnounced, IsDeleted
<1>3. ASSUME NEW q \in T
      PROVE  /\ r.entries[q] = Absent
             /\ Version(r.entries, r.tombstones, q) > Version(entries, tombstones, q)
             /\ r.changes[q].seq > alloc.seq /\ r.changes[q].present = FALSE
  <2>1. q \in Paths /\ tx.entries[q] # Absent
    BY <1>3
  <2>2. r.entries[q] = Absent /\ r.tombstones[q] >= tx.entries[q].version + 1
    BY <1>2, <2>1 DEF IsDeleted
  <2>3. Version(r.entries, r.tombstones, q) = r.tombstones[q]
        /\ Version(tx.entries, tx.tombstones, q) = tx.entries[q].version
    BY <2>1, <2>2 DEF Version
  <2>4. Version(tx.entries, tx.tombstones, q) >= Version(entries, tombstones, q)
    BY <2>1 DEF ToldBut, Forward
  <2>5. Version(r.entries, r.tombstones, q) > Version(entries, tombstones, q)
    BY <1>1, <2>1, <2>2, <2>3, <2>4
  <2>6. r.changes[q] = [seq |-> tx.alloc.seq + 1, present |-> FALSE]
    BY <1>2, <2>1 DEF IsAnnounced
  <2>7. QED
    BY <1>1, <2>2, <2>5, <2>6
<1>4. ASSUME NEW q \in Paths, q \notin T
      PROVE  /\ r.entries[q] = tx.entries[q] /\ r.changes[q] = tx.changes[q]
             /\ Version(r.entries, r.tombstones, q) >= Version(tx.entries, tx.tombstones, q)
  <2>1. r.entries[q] = tx.entries[q] /\ r.tombstones[q] >= tx.tombstones[q]
    BY <1>2, <1>4 DEF IsDeleted
  <2>2. r.changes[q] = tx.changes[q]
    BY <1>2, <1>4 DEF IsAnnounced
  <2>3. CASE tx.entries[q] = Absent
    BY <2>1, <2>2, <2>3 DEF Version
  <2>4. CASE tx.entries[q] # Absent
    <3>1. Version(r.entries, r.tombstones, q) = Version(tx.entries, tx.tombstones, q)
      BY <2>1, <2>4 DEF Version
    <3>2. QED
      BY <1>1, <2>1, <2>2, <3>1
  <2>5. QED
    BY <2>3, <2>4
<1>5. ASSUME NEW q \in Paths
      PROVE  Version(r.entries, r.tombstones, q) >= Version(entries, tombstones, q)
  <2>1. Version(tx.entries, tx.tombstones, q) >= Version(entries, tombstones, q)
    BY DEF ToldBut, Forward
  <2>2. CASE q \in T
    <3>1. Version(r.entries, r.tombstones, q) > Version(entries, tombstones, q)
      BY <1>3, <2>2
    <3>2. QED
      BY <1>1, <3>1
  <2>3. CASE q \notin T
    <3>1. Version(r.entries, r.tombstones, q) >= Version(tx.entries, tx.tombstones, q)
      BY <1>4, <2>3
    <3>2. QED
      BY <1>1, <2>1, <3>1
  <2>4. QED
    BY <2>2, <2>3
<1>6. ASSUME NEW q \in Paths \ E, r.entries[q] # entries[q]
      PROVE  /\ Version(r.entries, r.tombstones, q) > Version(entries, tombstones, q)
             /\ r.changes[q].seq > alloc.seq
             /\ r.changes[q].present = (r.entries[q] # Absent)
  <2>1. CASE q \in T
    BY <1>3, <2>1
  <2>2. CASE q \notin T
    <3>1. /\ r.entries[q] = tx.entries[q] /\ r.changes[q] = tx.changes[q]
          /\ Version(r.entries, r.tombstones, q) >= Version(tx.entries, tx.tombstones, q)
      BY <1>4, <2>2
    <3>2. /\ Version(tx.entries, tx.tombstones, q) > Version(entries, tombstones, q)
          /\ tx.changes[q].seq > alloc.seq /\ tx.changes[q].present = (tx.entries[q] # Absent)
      BY <1>6, <3>1 DEF ToldBut
    <3>3. Version(r.entries, r.tombstones, q) > Version(entries, tombstones, q)
      BY <1>1, <3>1, <3>2
    <3>4. QED
      BY <3>1, <3>2, <3>3
  <2>3. QED
    BY <2>1, <2>2
<1>7. QED
  BY <1>5, <1>6 DEF ToldBut, Forward

\* RemovePath of a directory with all that is in it keeps the invariant.
LEMMA RemoveTreeKeeps ==
    ASSUME IInv, NEW p \in Paths, p # Root, entries[p] # Absent, NEW T, T = Tree(entries, p),
           Finish(NotePending(NoteRecount(UpdateUsage(Delete(Announce(Begin, T, FALSE), T, 1),
                                                      - SizeOf(entries, T), - Cardinality(T)),
                                          TRUE), {p}))
    PROVE  Kept
<1> DEFINE one == {p}
           bytes == - SizeOf(entries, T)
           count == - Cardinality(T)
           t1 == Announce(Begin, T, FALSE)
           t2 == Delete(t1, T, 1)
           t3 == UpdateUsage(t2, bytes, count)
           t4 == NoteRecount(t3, TRUE)
           r == NotePending(t4, one)
           es == entries
           fs == r.entries
<1>0. one \subseteq Paths /\ p \in one /\ Finish(r)
  OBVIOUS
<1> HIDE DEF one
<1>1. /\ TypeOK /\ Begin \in Transaction /\ Solid(Begin) /\ Told(Begin)
      /\ Begin.entries = entries /\ Begin.tombstones = tombstones /\ Begin.usage = usage
      /\ Begin.changes = changes /\ Begin.alloc = alloc /\ Begin.halt = Absent
      /\ Begin.parents = {} /\ \A q : DeltaOf(Begin.deltas, q) = 0
  BY BeginIs DEF IInv, Good, Solid
<1>2. entries \in Table /\ Shaped(entries)
  BY DEF IInv, TypeOK, Table
<1>3. /\ T \subseteq Paths /\ \A q \in Paths : q \in T <=> entries[q] # Absent /\ IsPrefix(p, q)
      /\ T = Living(entries, T)
  <2>1. T \subseteq Paths /\ \A q \in Paths : q \in T <=> entries[q] # Absent /\ IsPrefix(p, q)
    BY TreeIs
  <2>2. T = Living(entries, T)
    BY <2>1 DEF Living
  <2>3. QED
    BY <2>1, <2>2
<1>4. /\ SizeOf(entries, T) \in Nat /\ Cardinality(T) \in Nat
      /\ SizeOf(entries, Paths) \in Nat /\ Cardinality(Living(entries, Paths)) \in Nat
  <2>1. SizeOf(entries, T) \in Nat /\ Cardinality(Living(entries, T)) \in Nat
    BY <1>2, <1>3, LivingIs
  <2>2. SizeOf(entries, Paths) \in Nat /\ Cardinality(Living(entries, Paths)) \in Nat
    BY <1>2, LivingIs
  <2>3. QED
    BY <1>3, <2>1, <2>2
<1>5. bytes \in Int /\ count \in Int
  BY <1>4
<1> HIDE DEF bytes, count
<1>6. IsAnnounced(Begin, t1, T, FALSE)
  BY <1>1, <1>3, AnnounceIs
<1> HIDE DEF t1
<1>7. t1 \in Transaction
  BY <1>6 DEF IsAnnounced
<1>8. IsDeleted(t1, t2, T, 1)
  BY <1>3, <1>7, DeleteIs
<1> HIDE DEF t2
<1>9. t2 \in Transaction
  BY <1>8 DEF IsDeleted
<1>10. IsTotalled(t2, t3, bytes, count)
  BY <1>5, <1>9, UpdateUsageIs
<1> HIDE DEF t3
<1>11. t3 \in Transaction
  BY <1>10 DEF IsTotalled
<1>12. IsRecounted(t3, t4, TRUE)
  BY <1>11, NoteRecountIs
<1> HIDE DEF t4
<1>13. t4 \in Transaction
  BY <1>12 DEF IsRecounted
<1>14. IsNoted(t4, r, one)
  BY <1>0, <1>13, NotePendingIs
<1> HIDE DEF r
<1>15. /\ r \in Transaction
       /\ r.entries = t2.entries /\ r.tombstones = t2.tombstones /\ r.changes = t2.changes
       /\ r.alloc = t1.alloc /\ t2.alloc = t1.alloc /\ t2.changes = t1.changes /\ r.halt = Absent
       /\ r.usage = t3.usage /\ t2.usage = usage
       /\ r.deltas = Begin.deltas /\ t1.entries = entries
  BY <1>1, <1>6, <1>8, <1>10, <1>12, <1>14
     DEF IsAnnounced, IsDeleted, IsTotalled, IsRecounted, IsNoted
<1>16. r.recount = TRUE /\ Parent(p) \in r.parents
  BY <1>0, <1>12, <1>14 DEF IsRecounted, IsNoted
<1>17. fs \in Table /\ \A q \in Paths : fs[q] = IF q \in T THEN Absent ELSE entries[q]
  BY <1>8, <1>15 DEF IsDeleted, Transaction
<1> HIDE DEF fs
<1>18. IsCut(entries, fs, p)
  BY <1>2, <1>17, CutIs
<1>19. /\ r.usage.inlineBytes = usage.inlineBytes + bytes
       /\ r.usage.entries = usage.entries + count
       /\ r.usage.nextIno \in {usage.nextIno, alloc.ino} /\ r.usage.nextIno >= usage.nextIno
       /\ r.alloc.ino = alloc.ino /\ r.alloc.seq = alloc.seq + 1
  <2>1. r.alloc.ino = alloc.ino /\ r.alloc.seq = alloc.seq + 1
    BY <1>1, <1>6, <1>15 DEF IsAnnounced
  <2>2. QED
    BY <1>10, <1>15, <2>1 DEF IsTotalled
<1>20. Solid(r)
  <2>1. Shaped(fs) /\ r.usage.inlineBytes = SizeOf(fs, Paths)
        /\ r.usage.entries = Cardinality(Living(fs, Paths))
    <3>1. usage.inlineBytes = SizeOf(entries, Paths) /\ usage.entries = Cardinality(Living(entries, Paths))
      BY DEF IInv, UsageExact
    <3>2. /\ Shaped(fs) /\ SizeOf(fs, Paths) = SizeOf(entries, Paths) - SizeOf(entries, T)
          /\ Cardinality(Living(fs, Paths)) = Cardinality(Living(entries, Paths)) - Cardinality(T)
      BY <1>18 DEF IsCut
    <3>3. QED
      BY <1>4, <1>19, <3>1, <3>2 DEF bytes, count
  <2>2. Numbered(entries, usage.nextIno) /\ usage.nextIno <= alloc.ino
    BY DEF IInv
  <2>3. r.usage.nextIno \in Nat /\ usage.nextIno \in Nat /\ alloc.ino \in Nat /\ alloc.seq \in Nat
        /\ r.alloc.seq \in Nat
    BY <1>1, <1>15, TotalsAre
  <2>4. usage.nextIno <= r.usage.nextIno /\ r.usage.nextIno <= r.alloc.ino
        /\ alloc.ino <= r.alloc.ino /\ alloc.seq <= r.alloc.seq
    BY <1>19, <2>2, <2>3
  <2>5. Numbered(fs, r.usage.nextIno)
    <3>1. \A q \in Paths : fs[q] = Absent \/ fs[q] = entries[q]
      BY <1>17
    <3>2. QED
      BY <1>2, <2>2, <2>3, <2>4, <3>1, PartNumbered
  <2>6. \A q \in Paths : changes[q].seq <= r.changes[q].seq /\ r.changes[q].seq <= r.alloc.seq
    <3> TAKE q \in Paths
    <3>1. r.changes[q] = IF q \in T THEN [seq |-> alloc.seq + 1, present |-> FALSE] ELSE changes[q]
      BY <1>1, <1>6, <1>15 DEF IsAnnounced
    <3>2. changes[q].seq <= alloc.seq /\ changes[q].seq \in Nat
      BY DEF IInv, TypeOK
    <3>3. CASE q \in T
      <4>1. r.changes[q].seq = alloc.seq + 1
        BY <3>1, <3>3
      <4>2. QED
        BY <1>19, <2>3, <3>2, <4>1
    <3>4. CASE q \notin T
      <4>1. r.changes[q].seq = changes[q].seq
        BY <3>1, <3>4
      <4>2. QED
        BY <1>19, <2>3, <3>2, <4>1
    <3>5. QED
      BY <3>3, <3>4
  <2>7. \A q \in Living(fs, Paths) : fs[q].ino \in Inos(entries)
    BY <1>17 DEF Living, Inos
  <2>8. QED
    BY <1>15, <2>1, <2>4, <2>5, <2>6, <2>7 DEF Solid, fs
<1>21. \A q : DeltaOf(r.deltas, q) = 0
  BY <1>1, <1>15
<1>22. Linked(r, Open(r))
  <2> SUFFICES ASSUME NEW q \in Paths \ Open(r), Is(fs, q, "directory")
               PROVE  fs[q].nlink + 0 = 2 + Cardinality(ChildDirectories(fs, q))
    BY <1>21 DEF Linked, fs
  <2>1. q \in Paths /\ q # Parent(p)
    BY <1>16 DEF Open
  <2>2. ~ IsPrefix(p, q) /\ fs[q] = entries[q]
    BY <1>18, <2>1 DEF IsCut, Is
  <2>3. ChildDirectories(fs, q) = ChildDirectories(entries, q)
    BY <1>18, <2>1, <2>2 DEF IsCut
  <2>4. Is(entries, q, "directory") /\ entries[q].nlink \in Nat
    BY <1>2, <2>1, <2>2, RowIs DEF Is, Table
  <2>5. entries[q].nlink = 2 + Cardinality(ChildDirectories(entries, q))
    BY <2>1, <2>4 DEF IInv, NlinkExact
  <2>6. QED
    BY <2>2, <2>3, <2>4, <2>5
<1>23. Pending(r)
  BY <1>21 DEF Pending
<1>24. Told(r)
  <2>1. alloc.seq <= Begin.alloc.seq
    BY <1>1 DEF Solid
  <2>2. ToldBut(Begin, {})
    BY <1>1 DEF Told, ToldBut, Forward
  <2>3. \A q \in T : Begin.entries[q] # Absent
    BY <1>1, <1>3
  <2>4. ToldBut(t2, {})
    BY <1>1, <1>3, <1>6, <1>8, <2>1, <2>2, <2>3, CutTold
  <2>5. QED
    BY <1>15, <2>4 DEF Told, ToldBut, Forward
<1>25. Ready(r)
  <2>1. /\ ~ (r.usage.inlineBytes > usage.inlineBytes) /\ ~ (r.usage.entries > usage.entries)
    <3>1. usage.inlineBytes \in Nat /\ usage.entries \in Nat
      BY <1>1 DEF TypeOK
    <3>2. QED
      BY <1>4, <1>19, <3>1 DEF bytes, count
  <2>2. QED
    BY <1>20, <1>22, <1>23, <2>1 DEF Ready
<1>26. QED
  BY <1>0, <1>24, <1>25, FinishKeeps, FinishTells DEF Kept

\* RemovePath keeps the invariant.
LEMMA RemovePathKeeps ==
    ASSUME IInv, NEW p \in Paths, NEW recursive, RemovePath(p, recursive)
    PROVE  Kept
<1>1. p # Root /\ entries[p] # Absent /\ (recursive \/ Tree(entries, p) = {p}) /\ Shaped(entries)
  BY DEF RemovePath, Tree, IInv
<1>2. CASE recursive /\ Is(entries, p, "directory")
  <2> DEFINE T == Tree(entries, p)
  <2>1. Finish(NotePending(NoteRecount(UpdateUsage(Delete(Announce(Begin, T, FALSE), T, 1),
                                                   - SizeOf(entries, T), - Cardinality(T)),
                                       TRUE), {p}))
    BY <1>2 DEF RemovePath, Tree
  <2> HIDE DEF T
  <2>2. T = Tree(entries, p)
    BY DEF T
  <2>3. QED
    BY <1>1, <2>1, <2>2, RemoveTreeKeeps
<1>3. CASE ~ (recursive /\ Is(entries, p, "directory"))
  <2>1. Finish(NotePending(Announce(RemoveExact(Begin, p, 1), {p}, FALSE), {p}))
    BY <1>3 DEF RemovePath
  <2>2. Leaf(entries, p)
    <3>1. CASE ~ Is(entries, p, "directory")
      BY <1>1, <3>1, NoDirectoryIsLeaf
    <3>2. CASE Tree(entries, p) = {p}
      <4>1. \A q \in Paths : q \in Tree(entries, p) <=> entries[q] # Absent /\ IsPrefix(p, q)
        BY TreeIs
      <4>2. QED
        BY <3>2, <4>1 DEF Leaf
    <3>3. QED
      BY <1>1, <1>3, <3>1, <3>2
  <2>3. QED
    BY <1>1, <2>1, <2>2, RemoveOneKeeps
<1>4. QED
  BY <1>2, <1>3

------------------------------------------------------------------------------
(* Move *)

\* A row under another version.
LEMMA RenewedRow ==
    ASSUME NEW e \in Entry, NEW v \in Nat
    PROVE  LET row == [e EXCEPT !.version = v]
           IN  /\ row \in Entry /\ row.kind = e.kind /\ row.size = e.size /\ row.nlink = e.nlink
               /\ row.version = v /\ row.ino = e.ino
  BY DEF Entry

\* What Move starts from: two places, neither below the other, the second one free.
IsMovable(source, target) ==
  /\ source # Root /\ target # Root /\ entries[source] # Absent
  /\ Leaf(entries, target) /\ Is(entries, Parent(target), "directory")
  /\ \A q \in Paths : IsPrefix(target, q) => ~ IsPrefix(source, q)
  /\ ~ IsPrefix(source, target) /\ ~ IsPrefix(source, Parent(target))
  /\ Moved(entries, source, target) \subseteq Paths

\* Move finds its two places so.
LEMMA MovableIs ==
    ASSUME IInv, NEW source \in Paths, NEW target \in Paths, NEW replace,
           Move(source, target, replace)
    PROVE  IsMovable(source, target)
<1>1. /\ source # Root /\ entries[source] # Absent /\ target \notin Subtree[source]
      /\ Moved(entries, source, target) \subseteq Paths
      /\ Is(entries, Parent(target), "directory") /\ Replaceable(entries, target, replace)
  BY DEF Move, Moved, Tree
<1>2. Shaped(entries)
  BY DEF IInv
<1>3. Leaf(entries, target)
  <2>1. Is(entries, target, "directory") => Living(entries, Subtree[target] \ {target}) = {}
    BY <1>1 DEF Replaceable, Is
  <2>2. QED
    BY <1>2, <2>1, ReplaceableIsLeaf
<1>4. target # Root
  BY <1>1, <1>3, RootAbove DEF Leaf
<1>5. ~ IsPrefix(source, target)
  BY <1>1 DEF Subtree
<1>6. ~ IsPrefix(source, Parent(target))
  <2>1. Parent(target) \in Paths /\ IsPrefix(Parent(target), target)
    BY <1>4, ParentIsPath, ParentAbove
  <2>2. QED
    BY <1>5, <2>1, PrefixOrder
<1>7. ASSUME NEW q \in Paths, IsPrefix(target, q), IsPrefix(source, q)
      PROVE  FALSE
  <2>1. IsPrefix(target, source)
    BY <1>5, <1>7, PrefixOrder
  <2>2. source # target
    BY <1>5, PrefixOrder
  <2>3. QED
    BY <1>1, <1>3, <2>1, <2>2 DEF Leaf
<1>8. QED
  BY <1>1, <1>3, <1>4, <1>5, <1>6, <1>7 DEF IsMovable

\* The rows are gone from their place: t1 without the rows below source.
IsGone(t1, t3, source, target) ==
  /\ Solid(t1) /\ Linked(t1, {}) /\ t1.halt = Absent /\ t1.recount = FALSE /\ t1.parents = {}
  /\ \A q \in Paths : DeltaOf(t1.deltas, q) # 0 => q = Parent(target)
  /\ \A q \in Paths : t1.entries[q] = IF q = target THEN Absent ELSE entries[q]
  /\ t1.usage.inlineBytes <= usage.inlineBytes /\ t1.usage.entries <= usage.entries
  /\ t3 \in Transaction /\ ToldBut(t3, {target}) /\ IsCut(t1.entries, t3.entries, source)
  /\ SizeOf(t1.entries, Tree(t1.entries, source)) = SizeOf(entries, Tree(entries, source))
  /\ Tree(t1.entries, source) = Tree(entries, source)
  /\ t3.usage = t1.usage /\ t3.deltas = t1.deltas /\ t3.parents = t1.parents
  /\ t3.recount = t1.recount /\ t3.halt = t1.halt
  /\ t3.alloc.ino = t1.alloc.ino /\ t3.alloc.seq >= t1.alloc.seq
  /\ \A q \in Paths : changes[q].seq <= t3.changes[q].seq /\ t3.changes[q].seq <= t3.alloc.seq

\* Move first takes the rows away, with what stood at the target.
LEMMA GoneIs ==
    ASSUME IInv, NEW source \in Paths, NEW target \in Paths, IsMovable(source, target),
           NEW tree, tree = Tree(entries, source)
    PROVE  LET t1 == RemoveExact(Begin, target, 0)
           IN  IsGone(t1, Delete(Announce(t1, tree, FALSE), tree, 1), source, target)
<1> DEFINE t1 == RemoveExact(Begin, target, 0)
           t2 == Announce(t1, tree, FALSE)
           t3 == Delete(t2, tree, 1)
           es == t1.entries
           gs == t3.entries
<1>1. /\ TypeOK /\ Good(Begin) /\ Begin \in Transaction
      /\ Begin.entries = entries /\ Begin.usage = usage
      /\ Begin.halt = Absent /\ Begin.recount = FALSE
      /\ Begin.parents = {} /\ \A q : DeltaOf(Begin.deltas, q) = 0
  BY BeginIs DEF IInv, Good, Solid
<1>2. entries \in Table /\ Shaped(entries)
  BY DEF IInv, TypeOK, Table
<1>3. /\ tree \subseteq Paths
      /\ \A q \in Paths : q \in tree <=> entries[q] # Absent /\ IsPrefix(source, q)
  BY TreeIs
<1>4. IsRemoved(Begin, t1, target, 0)
  <2>1. 0 \in Nat
    OBVIOUS
  <2>2. QED
    BY <1>1, <2>1, RemoveExactIs
<1> HIDE DEF t1
<1>5. /\ Solid(t1) /\ Linked(t1, {}) /\ ToldBut(t1, {target})
      /\ \A q \in Paths : DeltaOf(t1.deltas, q) # 0 => q \in t1.parents \/ q = Parent(target)
  BY <1>1, <1>4, ClearedIs DEF IsMovable
<1>6. /\ t1 \in Transaction /\ t1.halt = Absent /\ t1.recount = FALSE /\ t1.parents = {}
      /\ es \in Table /\ Shaped(es)
      /\ \A q \in Paths : es[q] = IF q = target THEN Absent ELSE entries[q]
  BY <1>1, <1>4, <1>5 DEF IsRemoved, Solid, Transaction
<1>7. \A q \in Paths : DeltaOf(t1.deltas, q) # 0 => q = Parent(target)
  BY <1>5, <1>6
<1>8. t1.usage.inlineBytes <= usage.inlineBytes /\ t1.usage.entries <= usage.entries
  <2>1. SizeOf(entries, {target}) \in Nat /\ Cardinality(Living(entries, {target})) \in Nat
    BY <1>2, LivingIs
  <2>2. /\ t1.usage.inlineBytes = usage.inlineBytes - SizeOf(entries, {target})
        /\ t1.usage.entries = usage.entries - Cardinality(Living(entries, {target}))
    BY <1>1, <1>4 DEF IsRemoved
  <2>3. QED
    BY <1>1, <2>1, <2>2, TotalsAre
<1>9. target \notin tree /\ \A q \in tree : es[q] = entries[q] /\ entries[q] # Absent
  BY <1>3, <1>6 DEF IsMovable
<1>10. Tree(es, source) = tree
  <2>1. /\ Tree(es, source) \subseteq Paths
        /\ \A q \in Paths : q \in Tree(es, source) <=> es[q] # Absent /\ IsPrefix(source, q)
    BY TreeIs
  <2>2. \A q \in Paths : q \in Tree(es, source) <=> q \in tree
    BY <1>3, <1>6, <2>1 DEF IsMovable
  <2>3. QED
    BY <1>3, <2>1, <2>2
<1>11. SizeOf(es, tree) = SizeOf(entries, tree)
  BY <1>2, <1>3, <1>9, SizeAgrees
<1>12. IsAnnounced(t1, t2, tree, FALSE)
  BY <1>3, <1>6, AnnounceIs
<1> HIDE DEF t2
<1>13. t2 \in Transaction
  BY <1>12 DEF IsAnnounced
<1>14. IsDeleted(t2, t3, tree, 1)
  BY <1>3, <1>13, DeleteIs
<1> HIDE DEF t3
<1>15. /\ t3 \in Transaction /\ gs \in Table
       /\ \A q \in Paths : gs[q] = IF q \in tree THEN Absent ELSE es[q]
       /\ t3.usage = t1.usage /\ t3.deltas = t1.deltas /\ t3.parents = t1.parents
       /\ t3.recount = t1.recount /\ t3.halt = t1.halt
       /\ t3.alloc = t2.alloc /\ t3.changes = t2.changes
  BY <1>12, <1>14 DEF IsAnnounced, IsDeleted, Transaction
<1>16. t3.alloc.ino = t1.alloc.ino /\ t3.alloc.seq = t1.alloc.seq + 1
  BY <1>12, <1>15 DEF IsAnnounced
<1>17. t1.alloc.seq \in Nat /\ alloc.seq <= t1.alloc.seq
  BY <1>1, <1>5, <1>6, TotalsAre DEF Solid
<1>18. ToldBut(t3, {target})
  <2>1. \A q \in tree : t1.entries[q] # Absent
    BY <1>9
  <2>2. QED
    BY <1>1, <1>3, <1>5, <1>6, <1>12, <1>14, <1>17, <2>1, CutTold
<1>19. IsCut(es, gs, source)
  BY <1>6, <1>10, <1>15, CutIs DEF IsMovable
<1>20. ASSUME NEW q \in Paths
       PROVE  changes[q].seq <= t3.changes[q].seq /\ t3.changes[q].seq <= t3.alloc.seq
  <2>1. t3.changes[q] = IF q \in tree THEN [seq |-> t1.alloc.seq + 1, present |-> FALSE] ELSE t1.changes[q]
    BY <1>12, <1>15 DEF IsAnnounced
  <2>2. /\ t1.changes[q].seq <= t1.alloc.seq /\ t1.changes[q].seq \in Nat /\ changes[q].seq \in Nat
        /\ changes[q].seq <= t1.changes[q].seq /\ changes[q].seq <= t1.alloc.seq
    BY <1>1, <1>5, <1>6, FeedIs
  <2>3. CASE q \in tree
    <3>1. t3.changes[q].seq = t1.alloc.seq + 1
      BY <2>1, <2>3
    <3>2. QED
      BY <1>16, <1>17, <2>2, <3>1
  <2>4. CASE q \notin tree
    <3>1. t3.changes[q].seq = t1.changes[q].seq
      BY <2>1, <2>4
    <3>2. QED
      BY <1>16, <1>17, <2>2, <3>1
  <2>5. QED
    BY <2>3, <2>4
<1>21. t3.alloc.seq >= t1.alloc.seq
  BY <1>16, <1>17
<1>22. IsGone(t1, t3, source, target)
  BY <1>5, <1>6, <1>7, <1>8, <1>10, <1>11, <1>15, <1>16, <1>18, <1>19, <1>20, <1>21 DEF IsGone
<1>23. QED
  BY <1>22 DEF t1, t2, t3

\* r is t with the rows below source put below target, and announced.
IsMoved(t, r, source, target, recount) ==
  /\ r \in Transaction
  /\ \A q \in Moved(entries, source, target) :
       LET e == entries[Rebase(q, target, source)]
       IN  /\ r.entries[q] # Absent /\ r.entries[q].kind = e.kind /\ r.entries[q].size = e.size
           /\ r.entries[q].nlink = e.nlink /\ r.entries[q].ino = e.ino
           /\ r.entries[q].version > t.tombstones[q]
           /\ r.changes[q] = [seq |-> t.alloc.seq + 1, present |-> TRUE]
  /\ \A q \in Paths \ Moved(entries, source, target) :
       /\ r.entries[q] = t.entries[q] /\ r.tombstones[q] = t.tombstones[q]
       /\ r.changes[q] = t.changes[q]
  /\ r.usage = t.usage /\ r.deltas = t.deltas /\ r.halt = t.halt
  /\ r.recount = (t.recount \/ recount)
  /\ Parent(source) \in r.parents /\ Parent(target) \in r.parents
  /\ r.alloc.ino = t.alloc.ino /\ r.alloc.seq = t.alloc.seq + 1

\* Then it puts them there, under versions of their own.
LEMMA MovedThereIs ==
    ASSUME IInv, NEW source \in Paths, NEW target \in Paths, IsMovable(source, target),
           NEW t \in Transaction, NEW recount \in BOOLEAN,
           NEW moved, moved = Moved(entries, source, target)
    PROVE  LET row(p) == [entries[Rebase(p, target, source)] EXCEPT
                            !.version = NextEntryVersion(t, p, 0)]
               there == Announce(Insert(t, [p \in moved |-> row(p)]), moved, TRUE)
           IN  IsMoved(t, NoteRecount(NotePending(there, {source, target}), recount),
                       source, target, recount)
<1> DEFINE row(p) == [entries[Rebase(p, target, source)] EXCEPT
                        !.version = NextEntryVersion(t, p, 0)]
           rows == [p \in moved |-> row(p)]
           two == {source, target}
           t4 == Insert(t, rows)
           t5 == Announce(t4, moved, TRUE)
           t6 == NotePending(t5, two)
           r == NoteRecount(t6, recount)
<1>1. two \subseteq Paths /\ source \in two /\ target \in two
  OBVIOUS
<1> HIDE DEF two
<1>2. entries \in Table /\ moved \subseteq Paths
  BY DEF IInv, TypeOK, Table, IsMovable
<1>3. ASSUME NEW q \in moved
      PROVE  LET e == entries[Rebase(q, target, source)]
             IN  /\ row(q) \in Entry /\ row(q).kind = e.kind /\ row(q).size = e.size
                 /\ row(q).nlink = e.nlink /\ row(q).ino = e.ino
                 /\ row(q).version > t.tombstones[q]
  <2> DEFINE e == entries[Rebase(q, target, source)]
             v == NextEntryVersion(t, q, 0)
  <2>1. Rebase(q, target, source) \in Tree(entries, source)
    BY <1>2, MovedIs
  <2>2. e \in Entry
    BY <1>2, <2>1, TreeIs DEF Table
  <2>3. v \in Nat /\ v > t.tombstones[q]
    <3>1. 0 \in Nat /\ q \in Paths
      BY <1>2
    <3>2. QED
      BY <3>1, NextEntryVersionIs
  <2>4. row(q) = [e EXCEPT !.version = v]
    OBVIOUS
  <2> HIDE DEF e, v, row
  <2>5. /\ row(q) \in Entry /\ row(q).kind = e.kind /\ row(q).size = e.size
        /\ row(q).nlink = e.nlink /\ row(q).version = v /\ row(q).ino = e.ino
    BY <2>2, <2>3, <2>4, RenewedRow
  <2>6. QED
    BY <2>3, <2>5 DEF e
<1> HIDE DEF row
<1>4. /\ DOMAIN rows = moved /\ \A q \in DOMAIN rows : rows[q] \in Entry
      /\ \A q \in moved : rows[q] = row(q)
  BY <1>3
<1> HIDE DEF rows
<1>5. IsInserted(t, t4, rows)
  BY <1>2, <1>4, InsertIs
<1> HIDE DEF t4
<1>6. t4 \in Transaction
  BY <1>5 DEF IsInserted
<1>7. IsAnnounced(t4, t5, moved, TRUE)
  BY <1>2, <1>6, AnnounceIs
<1> HIDE DEF t5
<1>8. t5 \in Transaction
  BY <1>7 DEF IsAnnounced
<1>9. IsNoted(t5, t6, two)
  BY <1>1, <1>8, NotePendingIs
<1> HIDE DEF t6
<1>10. t6 \in Transaction
  BY <1>9 DEF IsNoted
<1>11. IsRecounted(t6, r, recount)
  BY <1>10, NoteRecountIs
<1> HIDE DEF r
<1>12. /\ r \in Transaction /\ r.entries = t4.entries /\ r.tombstones = t4.tombstones
       /\ r.changes = t5.changes /\ r.alloc = t5.alloc
       /\ r.usage = t.usage /\ r.deltas = t.deltas /\ r.halt = t.halt
       /\ r.recount = (t.recount \/ recount) /\ r.parents = t6.parents
       /\ t4.changes = t.changes /\ t4.alloc = t.alloc
  BY <1>5, <1>7, <1>9, <1>11 DEF IsInserted, IsAnnounced, IsNoted, IsRecounted
<1>13. Parent(source) \in r.parents /\ Parent(target) \in r.parents
  BY <1>1, <1>9, <1>12 DEF IsNoted
<1>14. r.alloc.ino = t.alloc.ino /\ r.alloc.seq = t.alloc.seq + 1
  BY <1>7, <1>12 DEF IsAnnounced
<1>15. \A q \in Paths :
         /\ r.entries[q] = IF q \in moved THEN row(q) ELSE t.entries[q]
         /\ r.tombstones[q] = IF q \in moved THEN 0 ELSE t.tombstones[q]
         /\ r.changes[q] = IF q \in moved THEN [seq |-> t.alloc.seq + 1, present |-> TRUE]
                           ELSE t.changes[q]
  <2> TAKE q \in Paths
  <2>1. /\ r.entries[q] = IF q \in moved THEN row(q) ELSE t.entries[q]
        /\ r.tombstones[q] = IF q \in moved THEN 0 ELSE t.tombstones[q]
    BY <1>4, <1>5, <1>12 DEF IsInserted
  <2>2. r.changes[q] = IF q \in moved THEN [seq |-> t.alloc.seq + 1, present |-> TRUE]
                       ELSE t.changes[q]
    BY <1>7, <1>12 DEF IsAnnounced
  <2>3. QED
    BY <2>1, <2>2
<1>16. ASSUME NEW q \in moved
       PROVE  LET e == entries[Rebase(q, target, source)]
              IN  /\ r.entries[q] # Absent /\ r.entries[q].kind = e.kind /\ r.entries[q].size = e.size
                  /\ r.entries[q].nlink = e.nlink /\ r.entries[q].ino = e.ino
                  /\ r.entries[q].version > t.tombstones[q]
                  /\ r.changes[q] = [seq |-> t.alloc.seq + 1, present |-> TRUE]
  <2>1. /\ q \in Paths /\ r.entries[q] = row(q) /\ row(q) # Absent
        /\ r.changes[q] = [seq |-> t.alloc.seq + 1, present |-> TRUE]
    <3>1. q \in Paths
      BY <1>2
    <3>2. row(q) # Absent
      BY <1>3, RowIs
    <3>3. QED
      BY <1>15, <3>1, <3>2
  <2>2. QED
    BY <1>3, <2>1
<1>17. \A q \in Paths \ moved :
         /\ r.entries[q] = t.entries[q] /\ r.tombstones[q] = t.tombstones[q]
         /\ r.changes[q] = t.changes[q]
  BY <1>15
<1>18. IsMoved(t, r, source, target, recount)
  BY <1>12, <1>13, <1>14, <1>16, <1>17 DEF IsMoved
<1>19. QED
  BY <1>18 DEF r, t6, t5, t4, two, rows, row

\* Each row of fs was one of es: those at M came from `back`, where nothing is left.
ComeFrom(es, fs, M, back) ==
  /\ \A q \in Living(fs, Paths) :
       IF q \in M THEN /\ back[q] \in Living(es, Paths) /\ fs[q].ino = es[back[q]].ino
                       /\ fs[back[q]] = Absent
                  ELSE es[q] # Absent /\ fs[q] = es[q]
  /\ \A p, q \in M : back[p] = back[q] => p = q

\* A subtree that moved keeps its numbers.
LEMMA MovedNumbered ==
    ASSUME NEW es \in Table, NEW fs, NEW M, NEW back, NEW n \in Nat, NEW m \in Nat, n <= m,
           Numbered(es, n),
           ComeFrom(es, fs, M, back)
    PROVE  /\ Numbered(fs, m)
           /\ \A q \in Living(fs, Paths) : \E p \in Living(es, Paths) : fs[q].ino = es[p].ino
<1> DEFINE origin(q) == IF q \in M THEN back[q] ELSE q
<1>1. ASSUME NEW q \in Living(fs, Paths)
      PROVE  origin(q) \in Living(es, Paths) /\ fs[q].ino = es[origin(q)].ino
  BY <1>1 DEF Living, ComeFrom
<1>2. ASSUME NEW p \in Living(fs, Paths), NEW q \in Living(fs, Paths), origin(p) = origin(q)
      PROVE  p = q
  <2>1. CASE p \in M /\ q \in M
    BY <1>2, <2>1 DEF ComeFrom
  <2>2. CASE p \notin M /\ q \notin M
    BY <1>2, <2>2
  <2>3. CASE p \in M /\ q \notin M
    <3>1. back[p] = q /\ fs[q] # Absent
      BY <1>2, <2>3 DEF Living
    <3>2. QED
      BY <2>3, <3>1 DEF ComeFrom
  <2>4. CASE p \notin M /\ q \in M
    <3>1. back[q] = p /\ fs[p] # Absent
      BY <1>2, <2>4 DEF Living
    <3>2. QED
      BY <2>4, <3>1 DEF ComeFrom
  <2>5. QED
    BY <2>1, <2>2, <2>3, <2>4
<1> HIDE DEF origin
<1>3. \A p \in Living(es, Paths) : es[p].ino \in Nat /\ es[p].ino < n
  <2> TAKE p \in Living(es, Paths)
  <2>1. es[p] \in Entry
    BY DEF Living, Table
  <2>2. QED
    BY <2>1, RowIs DEF Numbered
<1>4. ASSUME NEW p \in Living(fs, Paths), NEW q \in Living(fs, Paths), fs[p].ino = fs[q].ino
      PROVE  p = q
  <2>1. origin(p) = origin(q)
    BY <1>1, <1>4 DEF Numbered
  <2>2. QED
    BY <1>2, <2>1
<1>5. ASSUME NEW q \in Living(fs, Paths)
      PROVE  fs[q].ino < m
  <2>1. fs[q].ino \in Nat /\ fs[q].ino < n
    BY <1>1, <1>3
  <2>2. QED
    BY <2>1
<1>6. QED
  BY <1>1, <1>4, <1>5 DEF Numbered

\* Subtrees that moved leave a transaction that is ready.
LEMMA MoveReady ==
    ASSUME IInv, NEW source \in Paths, NEW target \in Paths, IsMovable(source, target),
           NEW t1, NEW t3, IsGone(t1, t3, source, target),
           NEW recount, recount = Is(entries, source, "directory"),
           NEW r, IsMoved(t3, r, source, target, recount)
    PROVE  Ready(r) /\ Told(r)
<1> DEFINE es == t1.entries
           gs == t3.entries
           fs == r.entries
           tree == Tree(entries, source)
           moved == Moved(entries, source, target)
           back == [q \in moved |-> Rebase(q, target, source)]
<1>1. /\ TypeOK /\ entries \in Table /\ Shaped(entries) /\ UsageExact /\ NlinkExact
      /\ Numbered(entries, usage.nextIno) /\ usage.nextIno <= alloc.ino
  BY DEF IInv, TypeOK, Table
<1>2. /\ Solid(t1) /\ Linked(t1, {}) /\ t1 \in Transaction /\ t3 \in Transaction /\ r \in Transaction
      /\ es \in Table /\ gs \in Table /\ fs \in Table /\ Shaped(es)
  BY DEF IsGone, IsMoved, Solid, Transaction
<1>3. /\ \A q \in Paths : es[q] = IF q = target THEN Absent ELSE entries[q]
      /\ \A q \in Paths : gs[q] = IF IsPrefix(source, q) THEN Absent ELSE es[q]
      /\ Shaped(gs) /\ Tree(es, source) = tree /\ IsCut(es, gs, source)
  BY DEF IsGone, IsCut
<1>4. /\ tree \subseteq Paths /\ moved \subseteq Paths
      /\ \A q \in Paths : q \in tree <=> entries[q] # Absent /\ IsPrefix(source, q)
  BY TreeIs DEF IsMovable
<1>5. /\ \A q \in moved : IsPrefix(target, q) /\ back[q] \in tree /\ Rebase(back[q], source, target) = q
      /\ \A q \in moved : back[q] = Rebase(q, target, source)
  BY <1>4, MovedIs
<1>6. /\ \A q \in moved :
           /\ fs[q] # Absent /\ fs[q].kind = entries[back[q]].kind /\ fs[q].size = entries[back[q]].size
           /\ fs[q].nlink = entries[back[q]].nlink /\ fs[q].ino = entries[back[q]].ino
           /\ fs[q].version > t3.tombstones[q]
           /\ r.changes[q] = [seq |-> t3.alloc.seq + 1, present |-> TRUE]
      /\ \A q \in Paths : q \notin moved => fs[q] = gs[q]
      /\ \A q \in Paths \ moved : /\ fs[q] = gs[q] /\ r.tombstones[q] = t3.tombstones[q]
                                  /\ r.changes[q] = t3.changes[q]
  BY <1>5 DEF IsMoved
<1>7. \A q \in Paths : IsPrefix(target, q) => ~ IsPrefix(source, q) /\ es[q] = Absent /\ gs[q] = Absent
  BY <1>3 DEF IsMovable, Leaf
<1>8. IsGraft(entries, gs, fs, source, target)
  <2>1. Is(gs, Parent(target), "directory")
    <3>1. Parent(target) \in Paths /\ Parent(target) # target /\ ~ IsPrefix(source, Parent(target))
      BY ParentIsPath, ParentAbove DEF IsMovable
    <3>2. gs[Parent(target)] = entries[Parent(target)]
      BY <1>3, <3>1
    <3>3. QED
      BY <3>2 DEF IsMovable, Is
  <2>2. \A q \in moved :
             /\ fs[q] # Absent /\ fs[q].kind = entries[Rebase(q, target, source)].kind
             /\ fs[q].size = entries[Rebase(q, target, source)].size
    BY <1>5, <1>6
  <2>3. target # Root /\ entries[source] # Absent
    BY DEF IsMovable
  <2>4. \A q \in Paths : IsPrefix(target, q) => gs[q] = Absent
    BY <1>7
  <2>5. \A q \in Paths : q \notin moved => fs[q] = gs[q]
    BY <1>6
  <2> HIDE DEF gs, fs
  <2>6. QED
    BY <1>1, <1>2, <1>3, <1>4, <2>1, <2>2, <2>3, <2>4, <2>5, GraftIs
<1>9. /\ r.usage = t1.usage /\ r.deltas = t1.deltas /\ r.halt = Absent /\ r.recount = recount
      /\ Parent(source) \in r.parents /\ Parent(target) \in r.parents
      /\ r.alloc.ino = t1.alloc.ino /\ r.alloc.seq = t3.alloc.seq + 1
      /\ t3.alloc.seq >= t1.alloc.seq
  <2>1. r.recount = recount
    BY DEF IsGone, IsMoved, Is
  <2>2. QED
    BY <2>1 DEF IsGone, IsMoved
<1>10. /\ t1.alloc.seq \in Nat /\ t3.alloc.seq \in Nat /\ alloc.seq \in Nat /\ r.alloc.seq \in Nat
       /\ usage.nextIno \in Nat /\ t1.usage.nextIno \in Nat
       /\ alloc.seq <= t3.alloc.seq /\ t3.alloc.seq <= r.alloc.seq /\ alloc.seq <= r.alloc.seq
  <2>1. /\ t1.alloc.seq \in Nat /\ t3.alloc.seq \in Nat /\ alloc.seq \in Nat /\ r.alloc.seq \in Nat
        /\ usage.nextIno \in Nat /\ t1.usage.nextIno \in Nat
    BY <1>1, <1>2, TotalsAre
  <2>2. alloc.seq <= t1.alloc.seq
    BY <1>2 DEF Solid
  <2>3. QED
    BY <1>9, <2>1, <2>2
<1>11. Numbered(fs, t1.usage.nextIno) /\ \A q \in Living(fs, Paths) : fs[q].ino \in Inos(entries)
  <2>1. ASSUME NEW q \in Living(fs, Paths)
        PROVE  IF q \in moved THEN /\ back[q] \in Living(entries, Paths)
                                   /\ fs[q].ino = entries[back[q]].ino
                                   /\ fs[back[q]] = Absent
                              ELSE entries[q] # Absent /\ fs[q] = entries[q]
    <3>1. q \in Paths /\ fs[q] # Absent
      BY <2>1 DEF Living
    <3>2. CASE q \in moved
      <4>1. back[q] \in tree /\ back[q] \in Paths /\ entries[back[q]] # Absent /\ IsPrefix(source, back[q])
        BY <1>4, <1>5, <3>2
      <4>2. back[q] \notin moved
        BY <1>5, <1>7, <4>1
      <4>3. fs[back[q]] = Absent
        BY <1>3, <1>6, <4>1, <4>2
      <4>4. QED
        BY <1>6, <3>2, <4>1, <4>3 DEF Living
    <3>3. CASE q \notin moved
      <4>1. fs[q] = gs[q]
        BY <1>6, <3>1, <3>3
      <4>2. gs[q] = es[q] /\ es[q] = entries[q]
        BY <1>3, <3>1, <4>1
      <4>3. QED
        BY <3>1, <3>3, <4>1, <4>2
    <3>4. QED
      BY <3>2, <3>3
  <2>2. \A p, q \in moved : back[p] = back[q] => p = q
    BY <1>5
  <2>3. usage.nextIno <= t1.usage.nextIno
    BY <1>2 DEF Solid
  <2> HIDE DEF back, moved, fs
  <2>4. /\ Numbered(fs, t1.usage.nextIno)
        /\ \A q \in Living(fs, Paths) : \E p \in Living(entries, Paths) : fs[q].ino = entries[p].ino
    <3>1. ComeFrom(entries, fs, moved, back)
      BY <2>1, <2>2 DEF ComeFrom
    <3>2. QED
      BY <1>1, <1>10, <2>3, <3>1, MovedNumbered
  <2>5. QED
    BY <2>4 DEF Inos
<1>12. Solid(r)
  <2>1. /\ t1.usage.inlineBytes = SizeOf(es, Paths) /\ t1.usage.entries = Cardinality(Living(es, Paths))
        /\ t1.usage.nextIno <= t1.alloc.ino /\ usage.nextIno <= t1.usage.nextIno
        /\ alloc.ino <= t1.alloc.ino
    BY <1>2 DEF Solid
  <2>2. /\ SizeOf(gs, Paths) = SizeOf(es, Paths) - SizeOf(es, tree)
        /\ Cardinality(Living(gs, Paths)) = Cardinality(Living(es, Paths)) - Cardinality(tree)
    BY <1>3 DEF IsCut
  <2>3. SizeOf(es, tree) = SizeOf(entries, tree)
    BY <1>3 DEF IsGone
  <2>4. /\ SizeOf(fs, Paths) = SizeOf(gs, Paths) + SizeOf(entries, tree)
        /\ Cardinality(Living(fs, Paths)) = Cardinality(Living(gs, Paths)) + Cardinality(tree)
        /\ Shaped(fs) /\ IsFiniteSet(tree)
    BY <1>8 DEF IsGraft
  <2>5. SizeOf(es, Paths) \in Nat /\ SizeOf(es, tree) \in Nat /\ Cardinality(tree) \in Nat
        /\ Cardinality(Living(es, Paths)) \in Nat
    BY <1>2, <1>4, <2>4, LivingIs, FS_CardinalityType
  <2>6. r.usage.inlineBytes = SizeOf(fs, Paths) /\ r.usage.entries = Cardinality(Living(fs, Paths))
    BY <1>9, <2>1, <2>2, <2>3, <2>4, <2>5
  <2>7. \A q \in Paths : changes[q].seq <= r.changes[q].seq /\ r.changes[q].seq <= r.alloc.seq
    <3> TAKE q \in Paths
    <3>1. changes[q].seq <= t3.changes[q].seq /\ t3.changes[q].seq <= t3.alloc.seq
      BY DEF IsGone
    <3>2. t3.changes[q].seq \in Nat /\ changes[q].seq \in Nat
      BY <1>1, <1>2 DEF Transaction, Feed, TypeOK
    <3>3. CASE q \in moved
      <4>1. r.changes[q].seq = t3.alloc.seq + 1
        BY <1>6, <3>3
      <4>2. QED
        BY <1>9, <1>10, <3>1, <3>2, <4>1
    <3>4. CASE q \notin moved
      <4>1. r.changes[q] = t3.changes[q]
        BY <1>6, <3>4
      <4>2. QED
        BY <1>10, <3>1, <3>2, <4>1
    <3>5. QED
      BY <3>3, <3>4
  <2>8. QED
    BY <1>2, <1>9, <1>10, <1>11, <2>1, <2>4, <2>6, <2>7 DEF Solid
<1>13. \A q \in Paths : DeltaOf(r.deltas, q) = DeltaOf(t1.deltas, q) /\ DeltaOf(r.deltas, q) \in Int
  BY <1>2, <1>9, DeltaType DEF Transaction
<1>14. \A q \in Paths : DeltaOf(t1.deltas, q) # 0 => q = Parent(target) /\ Is(es, q, "directory")
  BY <1>2 DEF IsGone, Linked
<1>15. ASSUME NEW q \in Paths \ Open(r), Is(fs, q, "directory")
       PROVE  fs[q].nlink + DeltaOf(r.deltas, q) = 2 + Cardinality(ChildDirectories(fs, q))
  <2>1. q \in Paths
    OBVIOUS
  <2>2. (q # Parent(source) /\ q # Parent(target)) \/ ~ Is(entries, source, "directory")
    BY <1>9, <1>15 DEF Open
  <2>3. CASE q \in moved
    <3> DEFINE s == back[q]
    <3>1. s \in tree /\ s \in Paths /\ fs[q].nlink = entries[s].nlink /\ fs[q].kind = entries[s].kind
          /\ s = Rebase(q, target, source) /\ entries[s] # Absent
      BY <1>4, <1>5, <1>6, <2>3
    <3> HIDE DEF s
    <3>2. Cardinality(ChildDirectories(fs, q)) = Cardinality(ChildDirectories(entries, s))
      BY <1>8, <2>3, <3>1 DEF IsGraft
    <3>3. Is(entries, s, "directory") /\ entries[s].nlink \in Nat
      BY <1>1, <1>15, <3>1, RowIs DEF Is, Table
    <3>4. entries[s].nlink = 2 + Cardinality(ChildDirectories(entries, s))
      BY <1>1, <3>1, <3>3 DEF NlinkExact
    <3>5. DeltaOf(r.deltas, q) = 0
      BY <1>5, <1>7, <1>13, <1>14, <2>1, <2>3 DEF Is
    <3>6. QED
      BY <3>1, <3>2, <3>3, <3>4, <3>5
  <2>4. CASE q \notin moved
    <3>1. fs[q] = gs[q] /\ gs[q] = es[q] /\ ~ IsPrefix(source, q)
      BY <1>3, <1>6, <1>15, <2>1, <2>4 DEF Is
    <3>2. ChildDirectories(fs, q) = ChildDirectories(gs, q)
      BY <1>8, <2>1, <2>2, <2>4 DEF IsGraft
    <3>3. ChildDirectories(gs, q) = ChildDirectories(es, q)
      <4>1. es[source] = entries[source]
        BY <1>3, PrefixOrder DEF IsMovable
      <4>2. q # Parent(source) \/ ~ Is(es, source, "directory")
        BY <2>2, <4>1 DEF Is
      <4>3. QED
        BY <1>3, <2>1, <3>1, <4>2 DEF IsCut
    <3>4. es[q].nlink + DeltaOf(t1.deltas, q) = 2 + Cardinality(ChildDirectories(es, q))
      BY <1>2, <1>15, <2>1, <3>1 DEF Linked, Is
    <3>5. QED
      BY <1>13, <2>1, <3>1, <3>2, <3>3, <3>4
  <2>5. QED
    BY <2>3, <2>4
<1>16. Linked(r, Open(r)) /\ Pending(r)
  <2>1. ASSUME NEW q \in Paths, DeltaOf(r.deltas, q) # 0
        PROVE  Is(fs, q, "directory") /\ q \in r.parents
    <3>1. q = Parent(target) /\ Is(es, q, "directory")
      BY <1>13, <1>14, <2>1
    <3>2. q \notin moved
      BY <1>5, <1>7, <2>1, <3>1 DEF Is
    <3>3. gs[q] = es[q]
      BY <1>3, <3>1 DEF IsMovable
    <3>4. QED
      BY <1>6, <1>9, <2>1, <3>1, <3>2, <3>3 DEF Is
  <2>2. QED
    BY <1>15, <2>1 DEF Linked, Pending
<1>17. Told(r)
  <2>1. ToldBut(t3, moved)
    <3>1. target \in moved
      <4>1. source \in tree
        BY <1>4, PrefixOrder DEF IsMovable
      <4>2. Rebase(source, source, target) \in moved
        BY <1>4, <4>1, MovedIs
      <4>3. QED
        BY <4>2, RebaseRoot
    <3>2. ToldBut(t3, {target})
      BY DEF IsGone
    <3>3. \A q : q \notin moved => q \notin {target}
      BY <3>1
    <3>4. QED
      BY <3>2, <3>3 DEF ToldBut
  <2>2. IsGrafted(t3, r, moved)
    BY <1>2, <1>5, <1>6, <1>7 DEF IsGrafted
  <2>3. QED
    BY <1>1, <1>2, <1>10, <2>1, <2>2, GraftedTold
<1>18. Fits(r)
  <2>1. /\ r.usage.inlineBytes <= usage.inlineBytes /\ r.usage.entries <= usage.entries
    BY <1>9 DEF IsGone
  <2>2. QED
    BY <1>1, <1>2, <2>1, TotalsAre DEF Fits
<1>19. QED
  BY <1>12, <1>16, <1>17, <1>18 DEF Ready, Fits

\* Move keeps the invariant.
LEMMA MoveKeeps ==
    ASSUME IInv, NEW source \in Paths, NEW target \in Paths, NEW replace,
           Move(source, target, replace)
    PROVE  Kept
<1> DEFINE tree == Tree(entries, source)
           moved == Moved(entries, source, target)
           recount == Is(entries, source, "directory")
           t1 == RemoveExact(Begin, target, 0)
           t3 == Delete(Announce(t1, tree, FALSE), tree, 1)
           row(p) == [entries[Rebase(p, target, source)] EXCEPT !.version = NextEntryVersion(t3, p, 0)]
           there == Announce(Insert(t3, [p \in moved |-> row(p)]), moved, TRUE)
           r == NoteRecount(NotePending(there, {source, target}), recount)
<1>1. IsMovable(source, target)
  BY MovableIs
<1>2. Finish(r)
  BY DEF Move, Tree, Moved
<1>3. recount \in BOOLEAN
  BY DEF Is
<1> HIDE DEF tree, moved, recount
<1>4. IsGone(t1, t3, source, target)
  BY <1>1, GoneIs DEF tree
<1> HIDE DEF t1, t3
<1>5. IsMoved(t3, r, source, target, recount)
  <2>1. t3 \in Transaction /\ moved = Moved(entries, source, target)
    BY <1>4 DEF IsGone, moved
  <2>2. QED
    BY <1>1, <1>3, <2>1, MovedThereIs
<1> HIDE DEF r
<1>6. Ready(r) /\ Told(r)
  <2>1. recount = Is(entries, source, "directory")
    BY DEF recount
  <2>2. QED
    BY <1>1, <1>4, <1>5, <2>1, MoveReady
<1>7. QED
  BY <1>2, <1>6, FinishKeeps, FinishTells DEF Kept

------------------------------------------------------------------------------
(* Copy *)

\* t has a free place for a subtree at target.
IsPlaceFor(t, target, bytes, count) ==
  /\ Solid(t) /\ Linked(t, {}) /\ ToldBut(t, {target}) /\ t.recount = FALSE
  /\ \A q \in Paths : DeltaOf(t.deltas, q) # 0 => q \in t.parents \/ q = Parent(target)
  /\ \A q \in Paths : IsPrefix(target, q) => t.entries[q] = Absent
  /\ Is(t.entries, Parent(target), "directory")
  /\ entries[target] # Absent =>
       \A q \in Living(t.entries, Paths) : t.entries[q].ino # entries[target].ino
  /\ t.halt = Absent =>
       /\ t.usage.inlineBytes + bytes > usage.inlineBytes => t.usage.inlineBytes + bytes <= limits.inlineBytes
       /\ t.usage.entries + count > usage.entries => t.usage.entries + count <= limits.entries
  /\ \/ t.halt = Absent
     \/ t.usage.inlineBytes + bytes > usage.inlineBytes
     \/ t.usage.entries + count > usage.entries

\* Copy makes room like that: parents, the weighing, and the removal of what stood there.
LEMMA PlaceForIs ==
    ASSUME IInv, NEW target \in Paths, target # Root, NEW recursive,
           CreationParents(entries, target, recursive), Leaf(entries, target),
           NEW bytes \in Nat, NEW count \in Nat, count > 0
    PROVE  LET old == entries[target]
               weighed == AssertCapacity(CreateMissingParents(Begin, target),
                                         bytes - (IF old = Absent THEN 0 ELSE old.size),
                                         count - (IF old = Absent THEN 0 ELSE 1))
           IN  IsPlaceFor(RemoveExact(weighed, target, 0), target, bytes, count)
<1> DEFINE old == entries[target]
           oldBytes == IF old = Absent THEN 0 ELSE old.size
           oldCount == IF old = Absent THEN 0 ELSE 1
           db == bytes - oldBytes
           dc == count - oldCount
           t1 == CreateMissingParents(Begin, target)
           t2 == AssertCapacity(t1, db, dc)
           t == RemoveExact(t2, target, 0)
<1>1. /\ TypeOK /\ Good(Begin) /\ Begin.entries = entries /\ Begin.usage = usage
      /\ Begin.halt = Absent /\ Begin.recount = FALSE /\ DeltaOf(Begin.deltas, target) = 0
      /\ entries \in Table /\ Numbered(entries, usage.nextIno)
  BY BeginIs DEF IInv, TypeOK, Table
<1>2. oldBytes \in Nat /\ oldCount \in {0, 1}
  BY <1>1, RowIs DEF Table
<1>3. IsReached(Begin, t1, target)
  BY <1>1, CreateMissingParentsIs
<1> HIDE DEF t1
<1>4. /\ Good(t1) /\ t1 \in Transaction /\ t1.entries[target] = old
      /\ DeltaOf(t1.deltas, target) = 0 /\ t1.recount = FALSE
      /\ t1.usage.inlineBytes = usage.inlineBytes
      /\ Is(t1.entries, Parent(target), "directory")
  <2>1. Good(t1)
    BY <1>3 DEF IsReached
  <2>2. t1.entries[target] = old
    BY <1>1, <1>3 DEF IsReached
  <2>3. QED
    BY <1>1, <1>3, <2>1, <2>2 DEF IsReached, Good, Solid
<1>5. Leaf(t1.entries, target)
  <2> SUFFICES ASSUME NEW q \in Paths, IsPrefix(target, q), q # target PROVE t1.entries[q] = Absent
    BY DEF Leaf
  <2>1. entries[q] = Absent
    BY DEF Leaf
  <2>2. ~ IsPrefix(q, target)
    BY PrefixOrder
  <2>3. QED
    BY <1>1, <1>3, <2>1, <2>2 DEF IsReached
<1>6. IsWeighed(t1, t2, Affords(t1, db, dc))
  BY <1>4, WeighIs
<1> HIDE DEF t2
<1>7. Good(t2) /\ t2 \in Transaction
  <2>1. Good(t2)
    BY <1>4, <1>6, WeighedGood
  <2>2. QED
    BY <2>1 DEF Good, Solid
<1>8. t2.entries = t1.entries /\ t2.usage = t1.usage /\ t2.deltas = t1.deltas /\ t2.recount = FALSE
  BY <1>4, <1>6 DEF IsWeighed
<1>9. IsRemoved(t2, t, target, 0)
  <2>1. 0 \in Nat
    OBVIOUS
  <2>2. QED
    BY <1>7, <2>1, RemoveExactIs
<1> HIDE DEF t
<1>10. /\ Solid(t) /\ Linked(t, {}) /\ ToldBut(t, {target})
       /\ \A q \in Paths : DeltaOf(t.deltas, q) # 0 => q \in t.parents \/ q = Parent(target)
  BY <1>1, <1>4, <1>5, <1>7, <1>8, <1>9, ClearedIs
<1>11. t.recount = FALSE /\ t.halt = t2.halt
       /\ \A q \in Paths : t.entries[q] = IF q = target THEN Absent ELSE t1.entries[q]
  BY <1>8, <1>9 DEF IsRemoved
<1>12. \A q \in Paths : IsPrefix(target, q) => t.entries[q] = Absent
  BY <1>5, <1>11 DEF Leaf
<1>13. Is(t.entries, Parent(target), "directory")
  <2>1. Parent(target) \in Paths /\ Parent(target) # target
    BY ParentIsPath, ParentAbove
  <2>2. QED
    BY <1>4, <1>11, <2>1 DEF Is
<1>14. ASSUME old # Absent, NEW q \in Living(t.entries, Paths)
       PROVE  t.entries[q].ino # old.ino
  <2>1. q \in Paths /\ t.entries[q] # Absent
    BY <1>14 DEF Living
  <2>2. q # target /\ t.entries[q] = t1.entries[q]
    BY <1>11, <2>1
  <2>3. q \in Living(t1.entries, Paths) /\ target \in Living(t1.entries, Paths)
    BY <1>4, <1>14, <2>1, <2>2 DEF Living
  <2>4. Numbered(t1.entries, t1.usage.nextIno)
    BY <1>4 DEF Good, Solid
  <2>5. QED
    BY <1>4, <2>2, <2>3, <2>4 DEF Numbered
<1>15. t.usage.inlineBytes = usage.inlineBytes - oldBytes /\ t.usage.entries = t1.usage.entries - oldCount
  <2>1. t1.entries \in Table
    BY <1>4 DEF Transaction
  <2>2. SizeOf(t1.entries, {target}) = oldBytes /\ Cardinality(Living(t1.entries, {target})) = oldCount
    BY <1>4, <2>1, OnePath
  <2>3. QED
    BY <1>4, <1>8, <1>9, <2>2 DEF IsRemoved
<1>16. ASSUME t.halt = Absent
       PROVE  /\ t.usage.inlineBytes + bytes > usage.inlineBytes => t.usage.inlineBytes + bytes <= limits.inlineBytes
              /\ t.usage.entries + count > usage.entries => t.usage.entries + count <= limits.entries
  <2> HIDE DEF db, dc
  <2>1. t1.halt = Absent /\ Affords(t1, db, dc)
    <3>1. t2.halt = Absent
      BY <1>11, <1>16
    <3>2. QED
      BY <1>4, <1>6, <3>1, WeighedOk
  <2>2. /\ usage.inlineBytes \in Nat /\ usage.entries \in Nat /\ t1.usage.entries \in Int
        /\ limits.inlineBytes \in Nat /\ limits.entries \in Nat
    BY <1>1, <1>4, TotalsAre
  <2>3. /\ db > 0 => usage.inlineBytes + db <= limits.inlineBytes
        /\ dc > 0 => t1.usage.entries + dc <= limits.entries
    BY <1>4, <2>1 DEF Affords
  <2>4. t1.usage.entries > usage.entries => t1.usage.entries <= limits.entries
    BY <1>1, <1>3, <2>1 DEF IsReached
  <2> HIDE DEF oldBytes, oldCount
  <2>5. t.usage.inlineBytes + bytes > usage.inlineBytes => t.usage.inlineBytes + bytes <= limits.inlineBytes
    BY <1>2, <1>15, <2>2, <2>3 DEF db
  <2>6. t.usage.entries + count > usage.entries => t.usage.entries + count <= limits.entries
    BY <1>2, <1>15, <2>2, <2>3, <2>4 DEF dc
  <2>7. QED
    BY <2>5, <2>6
<1>17. ASSUME t.halt # Absent
       PROVE  \/ t.usage.inlineBytes + bytes > usage.inlineBytes
              \/ t.usage.entries + count > usage.entries
  <2> HIDE DEF db, dc
  <2>1. /\ usage.inlineBytes \in Nat /\ usage.entries \in Nat /\ t1.usage.entries \in Int
    BY <1>1, <1>4, TotalsAre
  <2>2. t1.usage.entries >= usage.entries
    BY <1>1, <1>3 DEF IsReached
  <2> HIDE DEF oldBytes, oldCount
  <2>3. CASE t1.halt # Absent
    <3>1. t1.usage.entries > usage.entries
      BY <1>1, <1>3, <2>3 DEF IsReached
    <3>2. QED
      BY <1>2, <1>15, <2>1, <3>1
  <2>4. CASE t1.halt = Absent
    <3>1. ~ Affords(t1, db, dc)
      BY <1>6, <1>11, <1>17, <2>4 DEF IsWeighed
    <3>2. db > 0 \/ dc > 0
      BY <3>1 DEF Affords
    <3>3. QED
      BY <1>2, <1>15, <2>1, <2>2, <3>2 DEF db, dc
  <2>5. QED
    BY <2>3, <2>4
<1>18. IsPlaceFor(t, target, bytes, count)
  BY <1>10, <1>11, <1>12, <1>13, <1>14, <1>16, <1>17 DEF IsPlaceFor
<1>19. QED
  BY <1>18 DEF t, t2, t1

\* There are as many places as rows.
LEMMA MovedMany ==
    ASSUME NEW es, NEW from \in Paths, NEW to \in Paths, Moved(es, from, to) \subseteq Paths
    PROVE  /\ IsFiniteSet(Tree(es, from)) /\ IsFiniteSet(Moved(es, from, to))
           /\ Cardinality(Moved(es, from, to)) = Cardinality(Tree(es, from))
           /\ Cardinality(Tree(es, from)) \in Nat
           /\ es[from] # Absent => Cardinality(Tree(es, from)) > 0
<1> DEFINE S == Tree(es, from)
           T == Moved(es, from, to)
           there == [p \in S |-> Rebase(p, from, to)]
<1>1. S \subseteq Paths
  BY TreeIs
<1>2. IsFiniteSet(S) /\ IsFiniteSet(T)
  BY <1>1, PathsAssumption, FS_Subset
<1>3. IsOneToOne(there, S, T)
  <2>1. T = {there[p] : p \in S}
    BY DEF Moved
  <2>2. \A x, y \in S : there[x] = there[y] => x = y
    BY MovedIs
  <2>3. QED
    BY <2>1, <2>2 DEF IsOneToOne
<1>4. es[from] # Absent => from \in S
  BY TreeIs, PrefixOrder
<1> HIDE DEF S, T, there
<1>5. Cardinality(T) = Cardinality(S)
  BY <1>2, <1>3, OneToOneIs
<1>6. Cardinality(S) \in Nat /\ (from \in S => Cardinality(S) > 0)
  BY <1>2, FS_CardinalityType, FS_EmptySet
<1>7. QED
  BY <1>2, <1>4, <1>5, <1>6 DEF S, T

\* r is t with copies of the rows below source put below target, counted and announced.
IsCopied(t, r, source, target, recount) ==
  /\ r \in Transaction
  /\ \A q \in Moved(entries, source, target) :
       LET e == entries[Rebase(q, target, source)]
       IN  /\ r.entries[q] # Absent /\ r.entries[q].kind = e.kind /\ r.entries[q].size = e.size
           /\ r.entries[q].nlink = e.nlink
           /\ r.entries[q].version > t.tombstones[q]
           /\ r.changes[q] = [seq |-> t.alloc.seq + 1, present |-> TRUE]
  /\ \A p, q \in Moved(entries, source, target) : r.entries[p].ino = r.entries[q].ino => p = q
  /\ \A q \in Moved(entries, source, target) :
       /\ r.entries[q].ino < r.alloc.ino
       /\ \/ r.entries[q].ino >= t.alloc.ino
          \/ entries[target] # Absent /\ r.entries[q].ino = entries[target].ino
  /\ \A q \in Paths \ Moved(entries, source, target) :
       /\ r.entries[q] = t.entries[q] /\ r.tombstones[q] = t.tombstones[q]
       /\ r.changes[q] = t.changes[q]
  /\ r.deltas = t.deltas /\ r.halt = t.halt
  /\ r.recount = (t.recount \/ recount)
  /\ \A q : q \in r.parents <=> q \in t.parents \/ q = Parent(target)
  /\ r.usage.inlineBytes = t.usage.inlineBytes + SizeOf(entries, Tree(entries, source))
  /\ r.usage.entries = t.usage.entries + Cardinality(Tree(entries, source))
  /\ r.usage.nextIno = r.alloc.ino \/ r.usage.nextIno = t.usage.nextIno
  /\ r.usage.nextIno >= t.usage.nextIno /\ r.usage.nextIno >= r.alloc.ino
  /\ r.alloc.ino >= t.alloc.ino /\ r.alloc.seq = t.alloc.seq + 1

\* A file over a file is one row over another.
LEMMA FileTreeIs ==
    ASSUME IInv, NEW source \in Paths, NEW target \in Paths, Is(entries, source, "file")
    PROVE  Tree(entries, source) = {source} /\ Moved(entries, source, target) = {target}
<1>1. Leaf(entries, source)
  <2>1. ~ Is(entries, source, "directory") /\ Shaped(entries)
    BY DEF Is, IInv
  <2>2. QED
    BY <2>1, NoDirectoryIsLeaf
<1>2. Tree(entries, source) = {source}
  <2>1. /\ Tree(entries, source) \subseteq Paths
        /\ \A q \in Paths : q \in Tree(entries, source) <=> entries[q] # Absent /\ IsPrefix(source, q)
    BY TreeIs
  <2>2. source \in Tree(entries, source)
    BY <2>1, PrefixOrder DEF Is
  <2>3. \A q \in Tree(entries, source) : q = source
    BY <1>1, <2>1 DEF Leaf
  <2>4. QED
    BY <2>2, <2>3
<1>3. Moved(entries, source, target) = {Rebase(source, source, target)}
  BY <1>2 DEF Moved
<1>4. QED
  BY <1>2, <1>3, RebaseRoot

\* The number that a copy takes: that of the file it replaces, or the next one.
CopyBase(t, source, target) ==
  (IF Is(entries, target, "file") /\ Is(entries, source, "file")
   THEN entries[target].ino ELSE t.alloc.ino) - 1
CopyAllocated(t, source, target) ==
  IF Is(entries, target, "file") /\ Is(entries, source, "file")
  THEN t ELSE AllocateIno(t, Cardinality(Tree(entries, source)))

\* The numbers of a copy are new, but for that of a file which replaces a file.
LEMMA CopyNumbers ==
    ASSUME IInv, NEW source \in Paths, NEW target \in Paths,
           Moved(entries, source, target) \subseteq Paths,
           NEW t \in Transaction, alloc.ino <= t.alloc.ino
    PROVE  LET base == CopyBase(t, source, target)
               a == CopyAllocated(t, source, target)
               rank == Rank(Moved(entries, source, target))
           IN  /\ a \in Transaction /\ IsAllocated(t, a, a.alloc.ino - t.alloc.ino)
               /\ a.alloc.ino >= t.alloc.ino
               /\ base \in Int
               /\ \A q \in Moved(entries, source, target) :
                    /\ rank[q] \in Nat /\ base + rank[q] \in Nat /\ base + rank[q] < a.alloc.ino
                    /\ \/ base + rank[q] >= t.alloc.ino
                       \/ entries[target] # Absent /\ base + rank[q] = entries[target].ino
               /\ \A p, q \in Moved(entries, source, target) : rank[p] = rank[q] => p = q
<1> DEFINE moved == Moved(entries, source, target)
           tree == Tree(entries, source)
           n == Cardinality(tree)
           a == CopyAllocated(t, source, target)
           base == CopyBase(t, source, target)
           rank == Rank(moved)
           preserve == Is(entries, target, "file") /\ Is(entries, source, "file")
<1>1. /\ IsFiniteSet(moved) /\ Cardinality(moved) = n /\ n \in Nat
  BY MovedMany
<1>2. /\ rank \in [moved -> 1 .. n] /\ \A p, q \in moved : rank[p] = rank[q] => p = q
  BY <1>1, RankIs
<1>3. /\ t.alloc.ino \in Nat /\ alloc.ino \in Nat /\ usage.nextIno \in Nat
      /\ usage.nextIno <= alloc.ino /\ Numbered(entries, usage.nextIno) /\ entries \in Table
  BY TotalsAre DEF IInv, TypeOK, Table
<1>4. \A q \in moved : rank[q] \in Nat /\ rank[q] >= 1 /\ rank[q] <= n
  BY <1>1, <1>2
<1> HIDE DEF rank, n
<1>5. CASE preserve
  <2>1. a = t /\ base = entries[target].ino - 1
    BY <1>5 DEF CopyAllocated, CopyBase
  <2>2. moved = {target} /\ tree = {source}
    BY <1>5, FileTreeIs
  <2>3. n = 1
    BY <2>2, FS_Singleton DEF n
  <2>4. entries[target] # Absent /\ entries[target].ino \in Nat /\ entries[target].ino < usage.nextIno
    <3>1. entries[target] # Absent /\ entries[target] \in Entry
      BY <1>3, <1>5 DEF Is, Table
    <3>2. target \in Living(entries, Paths)
      BY <3>1 DEF Living
    <3>3. QED
      BY <1>3, <3>1, <3>2, RowIs DEF Numbered
  <2>5. \A q \in moved : base + rank[q] = entries[target].ino
    BY <1>4, <2>1, <2>3, <2>4
  <2>6. IsAllocated(t, t, 0)
    BY <1>3 DEF IsAllocated
  <2>7. /\ a \in Transaction /\ a.alloc.ino - t.alloc.ino = 0 /\ a.alloc.ino >= t.alloc.ino
        /\ base \in Int
    BY <1>3, <2>1, <2>4
  <2>8. entries[target].ino < a.alloc.ino
    BY <1>3, <2>1, <2>4
  <2> HIDE DEF a, base, moved
  <2>9. /\ IsAllocated(t, a, a.alloc.ino - t.alloc.ino)
        /\ \A q \in moved :
             /\ rank[q] \in Nat /\ base + rank[q] \in Nat /\ base + rank[q] < a.alloc.ino
             /\ \/ base + rank[q] >= t.alloc.ino
                \/ entries[target] # Absent /\ base + rank[q] = entries[target].ino
    BY <1>4, <2>1, <2>4, <2>5, <2>6, <2>7, <2>8
  <2>10. QED
    BY <1>2, <2>7, <2>9 DEF a, base, moved, rank
<1>6. CASE ~ preserve
  <2>1. a = AllocateIno(t, n) /\ base = t.alloc.ino - 1
    BY <1>6 DEF CopyAllocated, CopyBase, n
  <2>2. IsAllocated(t, a, n)
    BY <1>1, <2>1, AllocateInoIs
  <2> HIDE DEF a, base, moved, tree
  <2>3. a \in Transaction /\ a.alloc.ino = t.alloc.ino + n
    BY <2>2 DEF IsAllocated
  <2>4. a.alloc.ino - t.alloc.ino = n /\ a.alloc.ino >= t.alloc.ino /\ base \in Int
    BY <1>1, <1>3, <2>1, <2>3
  <2>5. \A q \in moved :
          /\ rank[q] \in Nat /\ base + rank[q] \in Nat /\ base + rank[q] < a.alloc.ino
          /\ base + rank[q] >= t.alloc.ino
    BY <1>1, <1>3, <1>4, <2>1, <2>3
  <2>6. IsAllocated(t, a, a.alloc.ino - t.alloc.ino)
    BY <2>2, <2>4
  <2>7. QED
    BY <1>2, <2>3, <2>4, <2>5, <2>6 DEF a, base, moved, rank
<1>7. QED
  BY <1>5, <1>6


\* The row that a copy gets.
CopyRow(t, source, target, p) ==
  [entries[Rebase(p, target, source)] EXCEPT
     !.version = NextEntryVersion(CopyAllocated(t, source, target), p, 0),
     !.ino = CopyBase(t, source, target) + Rank(Moved(entries, source, target))[p]]

\* Copy puts the rows there, with numbers and versions of their own.
LEMMA CopiedThereIs ==
    ASSUME IInv, NEW source \in Paths, NEW target \in Paths, entries[source] # Absent,
           Moved(entries, source, target) \subseteq Paths,
           NEW t \in Transaction, alloc.ino <= t.alloc.ino, NEW recount \in BOOLEAN,
           NEW moved, moved = Moved(entries, source, target),
           NEW bytes, bytes = SizeOf(entries, Tree(entries, source)),
           NEW count, count = Cardinality(Tree(entries, source))
    PROVE  LET a == CopyAllocated(t, source, target)
               rows == [p \in moved |-> CopyRow(t, source, target, p)]
               there == Announce(Insert(a, rows), moved, TRUE)
           IN  IsCopied(t, NoteRecount(NotePending(UpdateUsage(there, bytes, count), {target}), recount),
                        source, target, recount)
<1> DEFINE base == CopyBase(t, source, target)
           a == CopyAllocated(t, source, target)
           row(p) == CopyRow(t, source, target, p)
           rows == [p \in moved |-> row(p)]
           one == {target}
           t4 == Insert(a, rows)
           t5 == Announce(t4, moved, TRUE)
           t6 == UpdateUsage(t5, bytes, count)
           t7 == NotePending(t6, one)
           r == NoteRecount(t7, recount)
<1>1. one \subseteq Paths /\ \A q : q \in {Parent(p) : p \in one} <=> q = Parent(target)
  OBVIOUS
<1> HIDE DEF one
<1>2. entries \in Table /\ moved \subseteq Paths
  BY DEF IInv, TypeOK, Table
<1>3. /\ a \in Transaction /\ IsAllocated(t, a, a.alloc.ino - t.alloc.ino)
      /\ a.alloc.ino >= t.alloc.ino
      /\ \A q \in moved :
           /\ base + Rank(moved)[q] \in Nat /\ base + Rank(moved)[q] < a.alloc.ino
           /\ \/ base + Rank(moved)[q] >= t.alloc.ino
              \/ entries[target] # Absent /\ base + Rank(moved)[q] = entries[target].ino
  BY CopyNumbers
<1>4. \A p, q \in moved : base + Rank(moved)[p] = base + Rank(moved)[q] => p = q
  <2>1. base \in Int /\ \A q \in moved : Rank(moved)[q] \in Nat
    BY CopyNumbers
  <2>2. \A p, q \in moved : Rank(moved)[p] = Rank(moved)[q] => p = q
    BY CopyNumbers
  <2>3. ASSUME NEW p \in moved, NEW q \in moved, base + Rank(moved)[p] = base + Rank(moved)[q]
        PROVE  p = q
    <3> DEFINE x == Rank(moved)[p]
               y == Rank(moved)[q]
    <3>1. x \in Nat /\ y \in Nat /\ base \in Int /\ base + x = base + y
      BY <2>1, <2>3
    <3> HIDE DEF x, y
    <3>2. x = y
      BY <3>1
    <3>3. QED
      BY <2>2, <3>2 DEF x, y
  <2>4. QED
    BY <2>3
<1>5. /\ a.entries = t.entries /\ a.tombstones = t.tombstones /\ a.usage = t.usage
      /\ a.changes = t.changes /\ a.parents = t.parents /\ a.deltas = t.deltas
      /\ a.recount = t.recount /\ a.halt = t.halt /\ a.alloc.seq = t.alloc.seq
  BY <1>3 DEF IsAllocated
<1>6. ASSUME NEW q \in moved
      PROVE  LET e == entries[Rebase(q, target, source)]
             IN  /\ row(q) \in Entry /\ row(q).kind = e.kind /\ row(q).size = e.size
                 /\ row(q).nlink = e.nlink /\ row(q).ino = base + Rank(moved)[q]
                 /\ row(q).version > t.tombstones[q]
  <2> DEFINE e == entries[Rebase(q, target, source)]
             v == NextEntryVersion(a, q, 0)
             i == base + Rank(moved)[q]
  <2>1. Rebase(q, target, source) \in Tree(entries, source)
    BY <1>2, MovedIs
  <2>2. e \in Entry
    BY <1>2, <2>1, TreeIs DEF Table
  <2>3. v \in Nat /\ v > t.tombstones[q]
    <3>1. 0 \in Nat /\ q \in Paths
      BY <1>2
    <3>2. QED
      BY <1>3, <1>5, <3>1, NextEntryVersionIs
  <2>4. row(q) = [e EXCEPT !.version = v, !.ino = i]
    BY DEF CopyRow
  <2>5. i \in Nat
    BY <1>3
  <2> HIDE DEF e, v, i, row
  <2> DEFINE renewed == [e EXCEPT !.version = v, !.ino = i]
  <2>8. /\ renewed \in Entry /\ renewed.kind = e.kind /\ renewed.size = e.size
        /\ renewed.nlink = e.nlink /\ renewed.version = v /\ renewed.ino = i
    BY <2>2, <2>3, <2>5 DEF renewed, Entry
  <2>9. row(q) = renewed
    BY <2>4
  <2> HIDE DEF renewed
  <2>6. /\ row(q) \in Entry /\ row(q).kind = e.kind /\ row(q).size = e.size
        /\ row(q).nlink = e.nlink /\ row(q).version = v /\ row(q).ino = i
    BY <2>8, <2>9
  <2>7. QED
    BY <2>3, <2>6 DEF e, i
<1> HIDE DEF row, base, a
<1>7. /\ DOMAIN rows = moved /\ \A q \in DOMAIN rows : rows[q] \in Entry
      /\ \A q \in moved : rows[q] = row(q)
  BY <1>6
<1> HIDE DEF rows
<1>8. IsInserted(a, t4, rows)
  BY <1>2, <1>3, <1>7, InsertIs
<1> HIDE DEF t4
<1>9. t4 \in Transaction
  BY <1>8 DEF IsInserted
<1>10. IsAnnounced(t4, t5, moved, TRUE)
  BY <1>2, <1>9, AnnounceIs
<1> HIDE DEF t5
<1>11. t5 \in Transaction
  BY <1>10 DEF IsAnnounced
<1>12. bytes \in Nat /\ count \in Nat /\ count > 0
  <2>1. bytes \in Nat
    BY <1>2, LivingIs, TreeIs
  <2>2. count \in Nat /\ count > 0
    BY MovedMany
  <2>3. QED
    BY <2>1, <2>2
<1>13. IsTotalled(t5, t6, bytes, count)
  <2>1. bytes \in Int /\ count \in Int
    BY <1>12
  <2>2. QED
    BY <1>11, <2>1, UpdateUsageIs
<1> HIDE DEF t6
<1>14. t6 \in Transaction
  BY <1>13 DEF IsTotalled
<1>15. IsNoted(t6, t7, one)
  BY <1>1, <1>14, NotePendingIs
<1> HIDE DEF t7
<1>16. t7 \in Transaction
  BY <1>15 DEF IsNoted
<1>17. IsRecounted(t7, r, recount)
  BY <1>16, NoteRecountIs
<1> HIDE DEF r
<1>18. /\ r \in Transaction /\ r.entries = t7.entries /\ r.tombstones = t7.tombstones
       /\ r.changes = t7.changes /\ r.alloc = t7.alloc /\ r.usage = t7.usage
       /\ r.deltas = t7.deltas /\ r.halt = t7.halt /\ r.recount = (t7.recount \/ recount)
       /\ r.parents = t7.parents
  BY <1>17 DEF IsRecounted
<1>19. /\ t7.entries = t4.entries /\ t7.tombstones = t4.tombstones
       /\ t7.changes = t5.changes /\ t7.alloc = t5.alloc /\ t7.usage = t6.usage
       /\ t7.deltas = t.deltas /\ t7.halt = t.halt /\ t7.recount = t.recount
       /\ t5.usage = t.usage /\ t6.parents = t.parents
       /\ t4.changes = t.changes /\ t4.alloc = a.alloc /\ t6.alloc = t5.alloc
  BY <1>5, <1>8, <1>10, <1>13, <1>15 DEF IsInserted, IsAnnounced, IsTotalled, IsNoted
<1>20. \A q : q \in r.parents <=> q \in t.parents \/ q = Parent(target)
  BY <1>1, <1>15, <1>18, <1>19 DEF IsNoted
<1>21. /\ t.alloc.ino \in Nat /\ a.alloc.ino \in Nat /\ t.alloc.seq \in Nat
       /\ t.usage.nextIno \in Nat /\ r.alloc.ino = a.alloc.ino /\ r.alloc.seq = t.alloc.seq + 1
  <2>1. /\ t.alloc.ino \in Nat /\ a.alloc.ino \in Nat /\ t.alloc.seq \in Nat /\ t.usage.nextIno \in Nat
    BY <1>3, TotalsAre DEF IInv
  <2>2. r.alloc.ino = a.alloc.ino /\ r.alloc.seq = t.alloc.seq + 1
    BY <1>5, <1>10, <1>18, <1>19 DEF IsAnnounced
  <2>3. QED
    BY <2>1, <2>2
<1>22. /\ r.usage.inlineBytes = t.usage.inlineBytes + bytes
       /\ r.usage.entries = t.usage.entries + count
       /\ r.usage.nextIno = r.alloc.ino \/ r.usage.nextIno = t.usage.nextIno
       /\ r.usage.nextIno >= t.usage.nextIno /\ r.usage.nextIno >= r.alloc.ino
  BY <1>12, <1>13, <1>18, <1>19 DEF IsTotalled
<1>23. \A q \in Paths :
         /\ r.entries[q] = IF q \in moved THEN row(q) ELSE t.entries[q]
         /\ r.tombstones[q] = IF q \in moved THEN 0 ELSE t.tombstones[q]
         /\ r.changes[q] = IF q \in moved THEN [seq |-> t.alloc.seq + 1, present |-> TRUE]
                           ELSE t.changes[q]
  <2> TAKE q \in Paths
  <2>1. /\ r.entries[q] = IF q \in moved THEN row(q) ELSE t.entries[q]
        /\ r.tombstones[q] = IF q \in moved THEN 0 ELSE t.tombstones[q]
    BY <1>5, <1>7, <1>8, <1>18, <1>19 DEF IsInserted
  <2>2. r.changes[q] = IF q \in moved THEN [seq |-> t.alloc.seq + 1, present |-> TRUE]
                       ELSE t.changes[q]
    <3>1. r.changes = t5.changes /\ t4.alloc.seq = t.alloc.seq /\ t4.changes = t.changes
      BY <1>5, <1>18, <1>19
    <3>2. QED
      BY <1>10, <3>1 DEF IsAnnounced
  <2>3. QED
    BY <2>1, <2>2
<1>24. ASSUME NEW q \in moved
       PROVE  /\ q \in Paths /\ r.entries[q] = row(q) /\ row(q) # Absent
              /\ r.changes[q] = [seq |-> t.alloc.seq + 1, present |-> TRUE]
  <2>1. q \in Paths
    BY <1>2
  <2>2. row(q) # Absent
    BY <1>6, RowIs
  <2>3. QED
    BY <1>23, <2>1, <2>2
<1>25. ASSUME NEW q \in moved
       PROVE  LET e == entries[Rebase(q, target, source)]
              IN  /\ r.entries[q] # Absent /\ r.entries[q].kind = e.kind /\ r.entries[q].size = e.size
                  /\ r.entries[q].nlink = e.nlink
                  /\ r.entries[q].version > t.tombstones[q]
                  /\ r.changes[q] = [seq |-> t.alloc.seq + 1, present |-> TRUE]
  BY <1>6, <1>24
<1>26. \A q \in moved : r.entries[q].ino = base + Rank(moved)[q]
  BY <1>6, <1>24
<1>27. \A q \in Paths \ moved :
         /\ r.entries[q] = t.entries[q] /\ r.tombstones[q] = t.tombstones[q]
         /\ r.changes[q] = t.changes[q]
  BY <1>23
<1>28. \A p, q \in moved : r.entries[p].ino = r.entries[q].ino => p = q
  BY <1>4, <1>26
<1>29. \A q \in moved :
         /\ r.entries[q].ino < r.alloc.ino
         /\ \/ r.entries[q].ino >= t.alloc.ino
            \/ entries[target] # Absent /\ r.entries[q].ino = entries[target].ino
  BY <1>3, <1>21, <1>26
<1>30. r.deltas = t.deltas /\ r.halt = t.halt /\ r.recount = (t.recount \/ recount)
  BY <1>18, <1>19
<1>31. r.alloc.ino >= t.alloc.ino /\ r.alloc.seq = t.alloc.seq + 1 /\ r \in Transaction
  BY <1>3, <1>18, <1>21
<1>32. IsCopied(t, r, source, target, recount)
  BY <1>20, <1>22, <1>25, <1>27, <1>28, <1>29, <1>30, <1>31 DEF IsCopied
<1>33. QED
  BY <1>32 DEF r, t7, t6, t5, t4, one, rows, row, a

\* The rows of a table and of a copy in it: those of the copy, M, have numbers from
\* `from` on, or the number `old` that nothing else has.
AreBeside(gs, fs, M, from, next, old) ==
  /\ \A q \in Paths \ M : fs[q] = gs[q]
  /\ \A p, q \in M : fs[p].ino = fs[q].ino => p = q
  /\ \A q \in M : fs[q] \in Entry /\ fs[q].ino < next /\ (fs[q].ino >= from \/ fs[q].ino = old)
  /\ \A q \in Living(gs, Paths) : gs[q].ino # old

\* All numbers are different.
LEMMA BesideNumbered ==
    ASSUME NEW gs \in Table, NEW fs, NEW M, NEW n \in Nat, Numbered(gs, n),
           NEW from \in Nat, n <= from, NEW next \in Nat, n <= next, NEW old,
           AreBeside(gs, fs, M, from, next, old)
    PROVE  Numbered(fs, next)
<1>1. \A q \in Living(gs, Paths) : gs[q].ino \in Nat /\ gs[q].ino < n /\ gs[q].ino # old
  <2> TAKE q \in Living(gs, Paths)
  <2>1. gs[q] \in Entry
    BY DEF Living, Table
  <2>2. QED
    BY <2>1, RowIs DEF Numbered, AreBeside
<1>2. \A q \in M : fs[q].ino \in Nat /\ fs[q].ino < next /\ (fs[q].ino >= from \/ fs[q].ino = old)
  BY RowIs DEF AreBeside
<1>3. \A q \in Living(fs, Paths) : q \notin M => q \in Living(gs, Paths) /\ fs[q] = gs[q]
  BY DEF Living, AreBeside
<1>4. ASSUME NEW p \in Living(fs, Paths), NEW q \in Living(fs, Paths), p \in M, q \notin M
      PROVE  fs[p].ino # fs[q].ino
  <2>1. /\ fs[q].ino \in Nat /\ fs[q].ino < n /\ fs[q].ino # old
    BY <1>1, <1>3, <1>4
  <2>2. fs[p].ino \in Nat /\ (fs[p].ino >= from \/ fs[p].ino = old)
    BY <1>2, <1>4
  <2>3. QED
    BY <2>1, <2>2
<1>5. ASSUME NEW p \in Living(fs, Paths), NEW q \in Living(fs, Paths), fs[p].ino = fs[q].ino
      PROVE  p = q
  <2>1. CASE p \in M /\ q \in M
    BY <1>5, <2>1 DEF AreBeside
  <2>2. CASE p \notin M /\ q \notin M
    <3>1. /\ p \in Living(gs, Paths) /\ q \in Living(gs, Paths) /\ gs[p].ino = gs[q].ino
      BY <1>3, <1>5, <2>2
    <3>2. QED
      BY <3>1 DEF Numbered
  <2>3. ~ (p \in M /\ q \notin M) /\ ~ (p \notin M /\ q \in M)
    BY <1>4, <1>5
  <2>4. QED
    BY <2>1, <2>2, <2>3
<1>6. ASSUME NEW q \in Living(fs, Paths)
      PROVE  fs[q].ino < next
  <2>1. CASE q \in M
    BY <1>2, <2>1
  <2>2. CASE q \notin M
    <3>1. fs[q].ino \in Nat /\ fs[q].ino < n
      BY <1>1, <1>3, <2>2
    <3>2. QED
      BY <3>1
  <2>3. QED
    BY <2>1, <2>2
<1>7. QED
  BY <1>5, <1>6 DEF Numbered

\* A copy leaves a transaction that is ready.
LEMMA CopyReady ==
    ASSUME IInv, NEW source \in Paths, NEW target \in Paths, target # Root,
           entries[source] # Absent, Moved(entries, source, target) \subseteq Paths,
           NEW bytes, bytes = SizeOf(entries, Tree(entries, source)),
           NEW count, count = Cardinality(Tree(entries, source)),
           NEW t, IsPlaceFor(t, target, bytes, count),
           NEW recount, recount = Is(entries, source, "directory"),
           NEW r, IsCopied(t, r, source, target, recount)
    PROVE  Ready(r) /\ Told(r)
<1> DEFINE gs == t.entries
           fs == r.entries
           tree == Tree(entries, source)
           moved == Moved(entries, source, target)
           back == [q \in moved |-> Rebase(q, target, source)]
           old == IF entries[target] # Absent THEN entries[target].ino ELSE alloc.ino - alloc.ino - 1
<1>1. /\ TypeOK /\ entries \in Table /\ Shaped(entries) /\ UsageExact /\ NlinkExact
      /\ usage.nextIno <= alloc.ino
  BY DEF IInv, TypeOK, Table
<1>2. /\ Solid(t) /\ Linked(t, {}) /\ t \in Transaction /\ r \in Transaction
      /\ gs \in Table /\ fs \in Table /\ Shaped(gs)
      /\ Numbered(gs, t.usage.nextIno)
  BY DEF IsPlaceFor, IsCopied, Solid, Transaction
<1>3. \A q \in Paths : IsPrefix(target, q) => gs[q] = Absent
  BY DEF IsPlaceFor
<1>4. /\ tree \subseteq Paths /\ moved \subseteq Paths
      /\ \A q \in Paths : q \in tree <=> entries[q] # Absent /\ IsPrefix(source, q)
  BY TreeIs
<1>5. /\ \A q \in moved : IsPrefix(target, q) /\ back[q] \in tree /\ Rebase(back[q], source, target) = q
      /\ \A q \in moved : back[q] = Rebase(q, target, source)
  BY <1>4, MovedIs
<1>6. /\ \A q \in moved :
           /\ fs[q] # Absent /\ fs[q].kind = entries[back[q]].kind /\ fs[q].size = entries[back[q]].size
           /\ fs[q].nlink = entries[back[q]].nlink
           /\ fs[q].version > t.tombstones[q]
           /\ r.changes[q] = [seq |-> t.alloc.seq + 1, present |-> TRUE]
      /\ \A q \in Paths : q \notin moved => fs[q] = gs[q]
      /\ \A q \in Paths \ moved : /\ fs[q] = gs[q] /\ r.tombstones[q] = t.tombstones[q]
                                  /\ r.changes[q] = t.changes[q]
  BY <1>5 DEF IsCopied
<1>7. IsGraft(entries, gs, fs, source, target)
  <2>1. Is(gs, Parent(target), "directory")
    BY DEF IsPlaceFor
  <2>2. \A q \in moved :
             /\ fs[q] # Absent /\ fs[q].kind = entries[Rebase(q, target, source)].kind
             /\ fs[q].size = entries[Rebase(q, target, source)].size
    BY <1>5, <1>6
  <2>3. \A q \in Paths : q \notin moved => fs[q] = gs[q]
    BY <1>6
  <2> HIDE DEF gs, fs
  <2>4. QED
    BY <1>1, <1>2, <1>3, <1>4, <2>1, <2>2, <2>3, GraftIs
<1>8. /\ r.deltas = t.deltas /\ r.halt = t.halt /\ r.recount = recount
      /\ \A q : q \in r.parents <=> q \in t.parents \/ q = Parent(target)
      /\ r.usage.inlineBytes = t.usage.inlineBytes + bytes
      /\ r.usage.entries = t.usage.entries + count
  <2>1. r.recount = recount
    BY DEF IsPlaceFor, IsCopied, Is
  <2>2. QED
    BY <2>1 DEF IsCopied
<1>9. /\ t.alloc.seq \in Nat /\ alloc.seq \in Nat /\ r.alloc.seq \in Nat
      /\ t.alloc.ino \in Nat /\ alloc.ino \in Nat /\ r.alloc.ino \in Nat
      /\ usage.nextIno \in Nat /\ t.usage.nextIno \in Nat /\ r.usage.nextIno \in Nat
      /\ t.usage.inlineBytes \in Int /\ t.usage.entries \in Int
  BY <1>1, <1>2, TotalsAre
<1>10. /\ usage.nextIno <= t.usage.nextIno /\ t.usage.nextIno <= t.alloc.ino
       /\ alloc.ino <= t.alloc.ino /\ alloc.seq <= t.alloc.seq
       /\ r.usage.nextIno = r.alloc.ino \/ r.usage.nextIno = t.usage.nextIno
       /\ r.usage.nextIno >= t.usage.nextIno /\ r.usage.nextIno >= r.alloc.ino
       /\ r.alloc.ino >= t.alloc.ino /\ r.alloc.seq = t.alloc.seq + 1
  BY <1>2 DEF Solid, IsCopied
<1>11. \A q \in moved : fs[q] \in Entry /\ fs[q].ino < r.usage.nextIno
  <2> TAKE q \in moved
  <2>1. fs[q] \in Entry
    BY <1>2, <1>4, <1>6 DEF Table
  <2>2. fs[q].ino \in Nat /\ fs[q].ino < r.alloc.ino
    BY <2>1, RowIs DEF IsCopied
  <2>3. QED
    BY <1>9, <1>10, <2>1, <2>2
<1>12. Numbered(fs, r.usage.nextIno)
  <2>1. \A q \in moved : fs[q].ino >= t.alloc.ino \/ fs[q].ino = old
    BY DEF IsCopied
  <2>2. \A q \in Living(gs, Paths) : gs[q].ino # old
    <3> TAKE q \in Living(gs, Paths)
    <3>1. CASE entries[target] # Absent
      BY <3>1 DEF IsPlaceFor
    <3>2. CASE entries[target] = Absent
      <4>1. gs[q] \in Entry
        BY <1>2 DEF Living, Table
      <4>2. gs[q].ino \in Nat /\ old = alloc.ino - alloc.ino - 1
        BY <3>2, <4>1, RowIs
      <4> HIDE DEF old, gs
      <4>3. QED
        BY <1>9, <4>2
    <3>3. QED
      BY <3>1, <3>2
  <2>3. \A p, q \in moved : fs[p].ino = fs[q].ino => p = q
    BY DEF IsCopied
  <2> HIDE DEF old, gs, fs, moved
  <2>4. AreBeside(gs, fs, moved, t.alloc.ino, r.usage.nextIno, old)
    BY <1>6, <1>11, <2>1, <2>2, <2>3 DEF AreBeside
  <2>5. t.usage.nextIno <= t.alloc.ino /\ t.usage.nextIno <= r.usage.nextIno
    BY <1>9, <1>10
  <2>6. QED
    BY <1>2, <1>9, <2>4, <2>5, BesideNumbered
<1>13. ASSUME NEW q \in Living(fs, Paths)
       PROVE  fs[q].ino \in Inos(entries) \/ fs[q].ino >= alloc.ino
  <2>1. q \in Paths /\ fs[q] # Absent
    BY <1>13 DEF Living
  <2>2. CASE q \in moved
    <3>1. fs[q].ino \in Nat
      BY <1>11, <2>2, RowIs
    <3>2. \/ fs[q].ino >= t.alloc.ino
          \/ entries[target] # Absent /\ fs[q].ino = entries[target].ino
      BY <2>2 DEF IsCopied
    <3>3. entries[target] # Absent => entries[target].ino \in Inos(entries)
      BY DEF Inos, Living
    <3>4. QED
      BY <1>9, <1>10, <3>1, <3>2, <3>3
  <2>3. CASE q \notin moved
    <3>1. fs[q] = gs[q] /\ q \in Living(gs, Paths)
      BY <1>6, <2>1, <2>3 DEF Living
    <3>2. QED
      BY <1>2, <3>1 DEF Solid
  <2>4. QED
    BY <2>2, <2>3
<1>14. \A q \in Paths : changes[q].seq <= r.changes[q].seq /\ r.changes[q].seq <= r.alloc.seq
  <2> TAKE q \in Paths
  <2>1. /\ changes[q].seq \in Nat /\ t.changes[q].seq \in Nat /\ t.changes[q].seq <= t.alloc.seq
        /\ changes[q].seq <= t.changes[q].seq /\ changes[q].seq <= t.alloc.seq
    BY <1>1, <1>2, FeedIs
  <2>2. CASE q \in moved
    <3>1. r.changes[q].seq = t.alloc.seq + 1
      BY <1>6, <2>2
    <3>2. QED
      BY <1>9, <1>10, <2>1, <3>1
  <2>3. CASE q \notin moved
    <3>1. r.changes[q] = t.changes[q]
      BY <1>6, <2>3
    <3>2. QED
      BY <1>9, <1>10, <2>1, <3>1
  <2>4. QED
    BY <2>2, <2>3
<1>15. Solid(r)
  <2>1. t.usage.inlineBytes = SizeOf(gs, Paths) /\ t.usage.entries = Cardinality(Living(gs, Paths))
    BY <1>2 DEF Solid
  <2>2. /\ SizeOf(fs, Paths) = SizeOf(gs, Paths) + bytes
        /\ Cardinality(Living(fs, Paths)) = Cardinality(Living(gs, Paths)) + count
        /\ Shaped(fs)
    BY <1>7 DEF IsGraft
  <2>3. r.usage.inlineBytes = SizeOf(fs, Paths) /\ r.usage.entries = Cardinality(Living(fs, Paths))
    BY <1>8, <2>1, <2>2
  <2>4. /\ r.usage.nextIno <= r.alloc.ino /\ usage.nextIno <= r.usage.nextIno
        /\ alloc.ino <= r.alloc.ino /\ alloc.seq <= r.alloc.seq
    BY <1>9, <1>10
  <2>5. r.halt # Absent => alloc.ino <= r.halt.alloc.ino /\ alloc.seq <= r.halt.alloc.seq
    BY <1>2, <1>8 DEF Solid
  <2>6. QED
    BY <1>2, <1>12, <1>13, <1>14, <2>2, <2>3, <2>4, <2>5 DEF Solid
<1>16. \A q \in Paths : DeltaOf(r.deltas, q) = DeltaOf(t.deltas, q) /\ DeltaOf(r.deltas, q) \in Int
  BY <1>2, <1>8, DeltaType DEF Transaction
<1>17. \A q \in Paths : DeltaOf(t.deltas, q) # 0 => Is(gs, q, "directory")
  BY <1>2 DEF Linked
<1>18. ASSUME NEW q \in Paths \ Open(r), Is(fs, q, "directory")
       PROVE  fs[q].nlink + DeltaOf(r.deltas, q) = 2 + Cardinality(ChildDirectories(fs, q))
  <2>1. q \in Paths
    OBVIOUS
  <2>2. q # Parent(target) \/ ~ Is(entries, source, "directory")
    BY <1>8, <1>18 DEF Open
  <2>3. CASE q \in moved
    <3> DEFINE s == back[q]
    <3>1. s \in tree /\ s \in Paths /\ fs[q].nlink = entries[s].nlink /\ fs[q].kind = entries[s].kind
          /\ s = Rebase(q, target, source) /\ entries[s] # Absent
      BY <1>4, <1>5, <1>6, <2>3
    <3> HIDE DEF s
    <3>2. Cardinality(ChildDirectories(fs, q)) = Cardinality(ChildDirectories(entries, s))
      BY <1>7, <2>3, <3>1 DEF IsGraft
    <3>3. Is(entries, s, "directory") /\ entries[s].nlink \in Nat
      BY <1>1, <1>18, <3>1, RowIs DEF Is, Table
    <3>4. entries[s].nlink = 2 + Cardinality(ChildDirectories(entries, s))
      BY <1>1, <3>1, <3>3 DEF NlinkExact
    <3>5. DeltaOf(r.deltas, q) = 0
      BY <1>3, <1>5, <1>16, <1>17, <2>1, <2>3 DEF Is
    <3>6. QED
      BY <3>1, <3>2, <3>3, <3>4, <3>5
  <2>4. CASE q \notin moved
    <3>1. fs[q] = gs[q]
      BY <1>6, <2>1, <2>4
    <3>2. ChildDirectories(fs, q) = ChildDirectories(gs, q)
      BY <1>7, <2>1, <2>2, <2>4 DEF IsGraft
    <3>3. gs[q].nlink + DeltaOf(t.deltas, q) = 2 + Cardinality(ChildDirectories(gs, q))
      BY <1>2, <1>18, <2>1, <3>1 DEF Linked, Is
    <3>4. QED
      BY <1>16, <2>1, <3>1, <3>2, <3>3
  <2>5. QED
    BY <2>3, <2>4
<1>19. Linked(r, Open(r)) /\ Pending(r)
  <2>1. ASSUME NEW q \in Paths, DeltaOf(r.deltas, q) # 0
        PROVE  Is(fs, q, "directory") /\ q \in r.parents
    <3>1. Is(gs, q, "directory") /\ (q \in t.parents \/ q = Parent(target))
      BY <1>16, <1>17, <2>1 DEF IsPlaceFor
    <3>2. q \notin moved
      BY <1>3, <1>5, <2>1, <3>1 DEF Is
    <3>3. QED
      BY <1>6, <1>8, <2>1, <3>1, <3>2 DEF Is
  <2>2. QED
    BY <1>18, <2>1 DEF Linked, Pending
<1>20. Told(r)
  <2>1. ToldBut(t, moved)
    <3>1. target \in moved
      <4>1. source \in tree
        BY <1>4, PrefixOrder
      <4>2. Rebase(source, source, target) \in moved
        BY <1>4, <4>1, MovedIs
      <4>3. QED
        BY <4>2, RebaseRoot
    <3>2. ToldBut(t, {target})
      BY DEF IsPlaceFor
    <3>3. \A q : q \notin moved => q \notin {target}
      BY <3>1
    <3>4. QED
      BY <3>2, <3>3 DEF ToldBut
  <2>2. IsGrafted(t, r, moved)
    BY <1>2, <1>3, <1>5, <1>6 DEF IsGrafted
  <2>3. QED
    BY <1>1, <1>2, <1>10, <2>1, <2>2, GraftedTold
<1>21. Fits(r)
  BY <1>8 DEF IsPlaceFor, Fits
<1>22. QED
  BY <1>15, <1>19, <1>20, <1>21 DEF Ready, Fits

\* Copy keeps the invariant.
LEMMA CopyKeeps ==
    ASSUME IInv, NEW source \in Paths, NEW target \in Paths, NEW replace, NEW recursive,
           Copy(source, target, replace, recursive)
    PROVE  Kept
<1> DEFINE tree == Tree(entries, source)
           moved == Moved(entries, source, target)
           old == entries[target]
           bytes == SizeOf(entries, tree)
           count == Cardinality(tree)
           recount == Is(entries, source, "directory")
           weighed == AssertCapacity(CreateMissingParents(Begin, target),
                                     bytes - (IF old = Absent THEN 0 ELSE old.size),
                                     count - (IF old = Absent THEN 0 ELSE 1))
           t == RemoveExact(weighed, target, 0)
           a == CopyAllocated(t, source, target)
           rows == [p \in moved |-> CopyRow(t, source, target, p)]
           there == Announce(Insert(a, rows), moved, TRUE)
           r == NoteRecount(NotePending(UpdateUsage(there, bytes, count), {target}), recount)
<1>1. /\ target # Root /\ entries[source] # Absent /\ moved \subseteq Paths
      /\ CreationParents(entries, target, recursive) /\ Replaceable(entries, target, replace)
  BY DEF Copy, Tree, Moved
<1>2. Finish(r)
  BY DEF Copy, Tree, Moved, CopyBase, CopyAllocated, CopyRow
<1>3. Leaf(entries, target)
  <2>1. Is(entries, target, "directory") => Living(entries, Subtree[target] \ {target}) = {}
    BY <1>1 DEF Replaceable, Is
  <2>2. Shaped(entries)
    BY DEF IInv
  <2>3. QED
    BY <2>1, <2>2, ReplaceableIsLeaf
<1>4. bytes \in Nat /\ count \in Nat /\ count > 0 /\ recount \in BOOLEAN
  <2>1. entries \in Table /\ tree \subseteq Paths
    BY TreeIs DEF IInv, TypeOK, Table
  <2>2. SizeOf(entries, tree) \in Nat
    BY <2>1, LivingIs
  <2>3. Cardinality(tree) \in Nat /\ Cardinality(tree) > 0
    BY <1>1, MovedMany
  <2>4. QED
    BY <2>2, <2>3 DEF Is
<1>5. bytes = SizeOf(entries, Tree(entries, source)) /\ count = Cardinality(Tree(entries, source))
      /\ recount = Is(entries, source, "directory") /\ moved = Moved(entries, source, target)
  OBVIOUS
<1> HIDE DEF tree, moved, bytes, count, recount
<1>6. IsPlaceFor(t, target, bytes, count)
  BY <1>1, <1>3, <1>4, PlaceForIs
<1> HIDE DEF t
<1>7. IsCopied(t, r, source, target, recount)
  <2>1. t \in Transaction /\ alloc.ino <= t.alloc.ino
    BY <1>6 DEF IsPlaceFor, Solid
  <2>2. QED
    BY <1>1, <1>4, <1>5, <2>1, CopiedThereIs
<1> HIDE DEF r
<1>8. Ready(r) /\ Told(r)
  BY <1>1, <1>5, <1>6, <1>7, CopyReady
<1>9. QED
  BY <1>2, <1>8, FinishKeeps, FinishTells DEF Kept

------------------------------------------------------------------------------
(* What is refused for space *)

\* A transaction that was given up had asked for more than there is.
Growing(tx) ==
  \/ tx.halt = Absent
  \/ tx.usage.inlineBytes > usage.inlineBytes
  \/ tx.usage.entries > usage.entries

\* A transaction that asked for more may be refused.
LEMMA GrowingRefused ==
    ASSUME TypeOK, NEW tx \in Transaction, Growing(tx), Finish(tx)
    PROVE  RefusesOnlyGrowth'
<1> DEFINE asked == [inlineBytes |-> tx.usage.inlineBytes - usage.inlineBytes,
                     entries |-> tx.usage.entries - usage.entries]
<1>1. CASE tx.halt = Absent
  BY <1>1 DEF Finish, Commit, RefusesOnlyGrowth
<1>2. CASE tx.halt # Absent
  <2>1. refused' = Absent \/ refused' = asked
    BY <1>2 DEF Finish, Rollback
  <2>2. asked.inlineBytes > 0 \/ asked.entries > 0
    BY <1>2, TotalsAre DEF Growing
  <2> HIDE DEF asked
  <2>3. QED
    BY <2>1, <2>2 DEF RefusesOnlyGrowth
<1>3. QED
  BY <1>1, <1>2

\* Whatever it is refused for, a row that is placed beside others is one more.
LEMMA PlacedGrows ==
    ASSUME IInv, NEW p \in Paths, entries[p] = Absent, NEW recursive,
           CreationParents(entries, p, recursive), NEW bytes,
           NEW row, NEW r,
           IsPlaced(AssertCapacity(CreateMissingParents(Begin, p), bytes, 1), r, p, row, {Parent(p)})
    PROVE  r \in Transaction /\ Growing(r)
<1> DEFINE t1 == CreateMissingParents(Begin, p)
           t == AssertCapacity(t1, bytes, 1)
<1>1. TypeOK /\ Good(Begin) /\ Begin.entries = entries /\ Begin.usage = usage
  BY BeginIs DEF IInv
<1>2. p # Root
  BY DEF IInv, Shaped, Is
<1>3. IsReached(Begin, t1, p)
  BY <1>1, <1>2, CreateMissingParentsIs
<1>4. IsPlaced(t, r, p, row, {Parent(p)})
  OBVIOUS
<1> HIDE DEF t1
<1>5. t1 \in Transaction
  BY <1>3 DEF IsReached, Good, Solid
<1>6. IsWeighed(t1, t, Affords(t1, bytes, 1))
  BY <1>5, WeighIs
<1> HIDE DEF t
<1>7. r.usage.entries = t1.usage.entries + 1 /\ r \in Transaction
  BY <1>4, <1>6 DEF IsPlaced, IsWeighed
<1>8. t1.usage.entries >= usage.entries
  BY <1>1, <1>3 DEF IsReached
<1>9. QED
  BY <1>1, <1>5, <1>7, <1>8, TotalsAre DEF Growing

\* Mkdir is refused only when it needs more.
LEMMA MkdirRefused ==
    ASSUME IInv, NEW p \in Paths, NEW recursive, Mkdir(p, recursive)
    PROVE  RefusesOnlyGrowth'
<1> DEFINE t == AssertCapacity(CreateMissingParents(Begin, p), 0, 1)
           r == CreateDirectory(t, p)
           row == NewDirectory(t, p)
<1>1. /\ entries[p] = Absent /\ CreationParents(entries, p, recursive) /\ Finish(r)
  BY DEF Mkdir
<1>2. IsRoom(t, p, 0)
  BY <1>1, RoomIs
<1>3. IsPlaced(t, r, p, row, {Parent(p)})
  <2> HIDE DEF t
  <2>1. t \in Transaction
    BY <1>2 DEF IsRoom, Good, Solid
  <2>2. QED
    BY <2>1, CreateDirectoryIs
<1> HIDE DEF r, row
<1>4. r \in Transaction /\ Growing(r)
  BY <1>1, <1>3, PlacedGrows
<1>5. QED
  BY <1>1, <1>4, GrowingRefused DEF IInv

\* PutFile is refused only when it needs more.
LEMMA PutFileRefused ==
    ASSUME IInv, NEW p \in Paths, NEW size \in Nat, NEW recursive,
           entries[p] = Absent => CreationParents(entries, p, recursive),
           Finish(PutFile(Begin, p, size))
    PROVE  RefusesOnlyGrowth'
<1>1. TypeOK /\ Begin \in Transaction /\ Begin.entries = entries /\ Begin.usage = usage
      /\ Begin.halt = Absent
  BY BeginIs DEF IInv, Good, Solid
<1>2. CASE entries[p] = Absent
  <2> DEFINE t == AssertCapacity(CreateMissingParents(Begin, p), size, 1)
             r == CreateFile(t, p, size)
             row == NewFile(t, p, size)
  <2>1. Finish(r)
    BY <1>1, <1>2 DEF PutFile
  <2>2. IsRoom(t, p, size)
    BY <1>2, RoomIs
  <2>3. IsPlaced(t, r, p, row, {Parent(p)})
    <3> HIDE DEF t
    <3>1. t \in Transaction
      BY <2>2 DEF IsRoom, Good, Solid
    <3>2. QED
      BY <3>1, CreateFileIs
  <2> HIDE DEF r, row
  <2>4. r \in Transaction /\ Growing(r)
    BY <1>2, <2>3, PlacedGrows
  <2>5. QED
    BY <1>1, <2>1, <2>4, GrowingRefused
<1>3. CASE entries[p] # Absent
  <2> DEFINE d == size - entries[p].size
             t == AssertCapacity(Begin, d, 0)
             r == Rewrite(t, p, size)
  <2>1. IsWeighed(Begin, t, Affords(Begin, d, 0))
    BY <1>1, WeighIs
  <2>2. t.entries = entries /\ t.usage = usage /\ t \in Transaction
    BY <1>1, <2>1 DEF IsWeighed
  <2>3. Finish(r)
    <3>1. PutFile(Begin, p, size) = UpdateUsage(Announce(Update(t, p, size), {p}, TRUE), d, 0)
      BY <1>1, <1>3 DEF PutFile
    <3> HIDE DEF t
    <3>2. t.entries[p] = entries[p]
      BY <2>2
    <3>3. r = UpdateUsage(Announce(Update(t, p, size), {p}, TRUE), d, 0)
      BY <3>2 DEF Rewrite
    <3>4. QED
      BY <3>1, <3>3
  <2> HIDE DEF t
  <2>4. IsRewritten(t, r, p, size)
    BY <1>3, <2>2, RewriteIs
  <2> HIDE DEF r
  <2>5. d \in Int
    <3>1. entries[p].size \in Nat
      BY <1>1, <1>3, RowIs DEF TypeOK
    <3>2. QED
      BY <3>1
  <2>6. r \in Transaction /\ r.usage.inlineBytes = usage.inlineBytes + d /\ r.halt = t.halt
    BY <2>2, <2>4 DEF IsRewritten
  <2>7. t.halt = Absent \/ d > 0
    <3>1. CASE Affords(Begin, d, 0)
      BY <1>1, <2>1, <3>1 DEF IsWeighed
    <3>2. CASE ~ Affords(Begin, d, 0)
      BY <3>2 DEF Affords
    <3>3. QED
      BY <3>1, <3>2
  <2> HIDE DEF d
  <2>8. Growing(r)
    BY <1>1, <2>5, <2>6, <2>7, TotalsAre DEF Growing
  <2>9. QED
    BY <1>1, <2>3, <2>6, <2>8, GrowingRefused
<1>4. QED
  BY <1>2, <1>3

\* SetMetadata is not refused.
LEMMA SetMetadataRefused ==
    ASSUME IInv, NEW p \in Paths, SetMetadata(p)
    PROVE  RefusesOnlyGrowth'
<1> DEFINE size == entries[p].size
           one == {p}
           t == Update(Begin, p, size)
           r == Announce(t, one, TRUE)
<1>1. TypeOK /\ Begin \in Transaction /\ Begin.entries = entries /\ Begin.halt = Absent
  BY BeginIs DEF IInv, Good, Solid
<1>2. entries[p] # Absent /\ Finish(r) /\ one \subseteq Paths
  BY DEF SetMetadata
<1>3. size \in Nat
  BY <1>1, <1>2, RowIs DEF TypeOK
<1> HIDE DEF size, one
<1>4. IsUpdated(Begin, t, p, size)
  BY <1>1, <1>2, <1>3, UpdateIs
<1> HIDE DEF t
<1>5. t \in Transaction /\ t.halt = Absent
  BY <1>1, <1>4 DEF IsUpdated
<1>6. IsAnnounced(t, r, one, TRUE)
  BY <1>2, <1>5, AnnounceIs
<1> HIDE DEF r
<1>7. r \in Transaction /\ r.halt = Absent
  BY <1>5, <1>6 DEF IsAnnounced
<1>8. QED
  BY <1>1, <1>2, <1>7, GrowingRefused DEF Growing

\* RemovePath is not refused.
LEMMA RemovePathRefused ==
    ASSUME IInv, NEW p \in Paths, NEW recursive, RemovePath(p, recursive)
    PROVE  RefusesOnlyGrowth'
<1>1. TypeOK /\ Begin \in Transaction /\ Begin.halt = Absent /\ entries \in Table
  BY BeginIs DEF IInv, Good, Solid, TypeOK, Table
<1>2. CASE recursive /\ Is(entries, p, "directory")
  <2> DEFINE T == Tree(entries, p)
             one == {p}
             bytes == - SizeOf(entries, T)
             count == - Cardinality(T)
             t1 == Announce(Begin, T, FALSE)
             t2 == Delete(t1, T, 1)
             t3 == UpdateUsage(t2, bytes, count)
             t4 == NoteRecount(t3, TRUE)
             r == NotePending(t4, one)
  <2>1. Finish(r) /\ one \subseteq Paths
    BY <1>2 DEF RemovePath, Tree
  <2> HIDE DEF one
  <2>2. T \subseteq Paths /\ T = Living(entries, T)
    <3>1. T \subseteq Paths /\ \A q \in Paths : q \in T => entries[q] # Absent
      BY TreeIs
    <3>2. QED
      BY <3>1 DEF Living
  <2>3. bytes \in Int /\ count \in Int
    <3> HIDE DEF T
    <3>1. SizeOf(entries, T) \in Nat /\ Cardinality(Living(entries, T)) \in Nat
      BY <1>1, <2>2, LivingIs
    <3>2. QED
      BY <2>2, <3>1
  <2> HIDE DEF T, bytes, count
  <2>4. IsAnnounced(Begin, t1, T, FALSE)
    BY <1>1, <2>2, AnnounceIs
  <2> HIDE DEF t1
  <2>5. t1 \in Transaction /\ t1.halt = Absent
    BY <1>1, <2>4 DEF IsAnnounced
  <2>6. IsDeleted(t1, t2, T, 1)
    BY <2>2, <2>5, DeleteIs
  <2> HIDE DEF t2
  <2>7. t2 \in Transaction /\ t2.halt = Absent
    BY <2>5, <2>6 DEF IsDeleted
  <2>8. IsTotalled(t2, t3, bytes, count)
    BY <2>3, <2>7, UpdateUsageIs
  <2> HIDE DEF t3
  <2>9. t3 \in Transaction /\ t3.halt = Absent
    BY <2>7, <2>8 DEF IsTotalled
  <2>10. IsRecounted(t3, t4, TRUE)
    BY <2>9, NoteRecountIs
  <2> HIDE DEF t4
  <2>11. t4 \in Transaction /\ t4.halt = Absent
    BY <2>9, <2>10 DEF IsRecounted
  <2>12. IsNoted(t4, r, one)
    BY <2>1, <2>11, NotePendingIs
  <2> HIDE DEF r
  <2>13. r \in Transaction /\ r.halt = Absent
    BY <2>11, <2>12 DEF IsNoted
  <2>14. QED
    BY <1>1, <2>1, <2>13, GrowingRefused DEF Growing
<1>3. CASE ~ (recursive /\ Is(entries, p, "directory"))
  <2> DEFINE one == {p}
             t1 == RemoveExact(Begin, p, 1)
             t2 == Announce(t1, one, FALSE)
             r == NotePending(t2, one)
  <2>1. Finish(r) /\ one \subseteq Paths
    BY <1>3 DEF RemovePath
  <2> HIDE DEF one
  <2>2. IsRemoved(Begin, t1, p, 1)
    BY <1>1, RemoveExactIs
  <2> HIDE DEF t1
  <2>3. t1 \in Transaction /\ t1.halt = Absent
    BY <1>1, <2>2 DEF IsRemoved
  <2>4. IsAnnounced(t1, t2, one, FALSE)
    BY <2>1, <2>3, AnnounceIs
  <2> HIDE DEF t2
  <2>5. t2 \in Transaction /\ t2.halt = Absent
    BY <2>3, <2>4 DEF IsAnnounced
  <2>6. IsNoted(t2, r, one)
    BY <2>1, <2>5, NotePendingIs
  <2> HIDE DEF r
  <2>7. r \in Transaction /\ r.halt = Absent
    BY <2>5, <2>6 DEF IsNoted
  <2>8. QED
    BY <1>1, <2>1, <2>7, GrowingRefused DEF Growing
<1>4. QED
  BY <1>2, <1>3

\* Move is not refused.
LEMMA MoveRefused ==
    ASSUME IInv, NEW source \in Paths, NEW target \in Paths, NEW replace,
           Move(source, target, replace)
    PROVE  RefusesOnlyGrowth'
<1> DEFINE tree == Tree(entries, source)
           moved == Moved(entries, source, target)
           recount == Is(entries, source, "directory")
           t1 == RemoveExact(Begin, target, 0)
           t3 == Delete(Announce(t1, tree, FALSE), tree, 1)
           row(p) == [entries[Rebase(p, target, source)] EXCEPT !.version = NextEntryVersion(t3, p, 0)]
           there == Announce(Insert(t3, [p \in moved |-> row(p)]), moved, TRUE)
           r == NoteRecount(NotePending(there, {source, target}), recount)
<1>1. IsMovable(source, target)
  BY MovableIs
<1>2. Finish(r)
  BY DEF Move, Tree, Moved
<1>3. recount \in BOOLEAN
  BY DEF Is
<1> HIDE DEF tree, moved, recount
<1>4. IsGone(t1, t3, source, target)
  BY <1>1, GoneIs DEF tree
<1> HIDE DEF t1, t3
<1>5. IsMoved(t3, r, source, target, recount)
  <2>1. t3 \in Transaction /\ moved = Moved(entries, source, target)
    BY <1>4 DEF IsGone, moved
  <2>2. QED
    BY <1>1, <1>3, <2>1, MovedThereIs
<1> HIDE DEF r
<1>6. r \in Transaction /\ r.halt = Absent
  BY <1>4, <1>5 DEF IsMoved, IsGone
<1>7. QED
  BY <1>2, <1>6, GrowingRefused DEF Growing, IInv

\* Copy is refused only when it needs more, also when it replaces what it copies over.
LEMMA CopyRefused ==
    ASSUME IInv, NEW source \in Paths, NEW target \in Paths, NEW replace, NEW recursive,
           Copy(source, target, replace, recursive)
    PROVE  RefusesOnlyGrowth'
<1> DEFINE tree == Tree(entries, source)
           moved == Moved(entries, source, target)
           old == entries[target]
           bytes == SizeOf(entries, tree)
           count == Cardinality(tree)
           recount == Is(entries, source, "directory")
           weighed == AssertCapacity(CreateMissingParents(Begin, target),
                                     bytes - (IF old = Absent THEN 0 ELSE old.size),
                                     count - (IF old = Absent THEN 0 ELSE 1))
           t == RemoveExact(weighed, target, 0)
           a == CopyAllocated(t, source, target)
           rows == [p \in moved |-> CopyRow(t, source, target, p)]
           there == Announce(Insert(a, rows), moved, TRUE)
           r == NoteRecount(NotePending(UpdateUsage(there, bytes, count), {target}), recount)
<1>1. /\ target # Root /\ entries[source] # Absent /\ moved \subseteq Paths
      /\ CreationParents(entries, target, recursive) /\ Replaceable(entries, target, replace)
  BY DEF Copy, Tree, Moved
<1>2. Finish(r)
  BY DEF Copy, Tree, Moved, CopyBase, CopyAllocated, CopyRow
<1>3. Leaf(entries, target)
  <2>1. Is(entries, target, "directory") => Living(entries, Subtree[target] \ {target}) = {}
    BY <1>1 DEF Replaceable, Is
  <2>2. Shaped(entries)
    BY DEF IInv
  <2>3. QED
    BY <2>1, <2>2, ReplaceableIsLeaf
<1>4. bytes \in Nat /\ count \in Nat /\ count > 0 /\ recount \in BOOLEAN
  <2>1. entries \in Table /\ tree \subseteq Paths
    BY TreeIs DEF IInv, TypeOK, Table
  <2>2. SizeOf(entries, tree) \in Nat
    BY <2>1, LivingIs
  <2>3. Cardinality(tree) \in Nat /\ Cardinality(tree) > 0
    BY <1>1, MovedMany
  <2>4. QED
    BY <2>2, <2>3 DEF Is
<1>5. bytes = SizeOf(entries, Tree(entries, source)) /\ count = Cardinality(Tree(entries, source))
      /\ moved = Moved(entries, source, target)
  OBVIOUS
<1> HIDE DEF tree, moved, bytes, count, recount
<1>6. IsPlaceFor(t, target, bytes, count)
  BY <1>1, <1>3, <1>4, PlaceForIs
<1> HIDE DEF t
<1>7. IsCopied(t, r, source, target, recount)
  <2>1. t \in Transaction /\ alloc.ino <= t.alloc.ino
    BY <1>6 DEF IsPlaceFor, Solid
  <2>2. QED
    BY <1>1, <1>4, <1>5, <2>1, CopiedThereIs
<1> HIDE DEF r
<1>8. /\ r \in Transaction /\ r.halt = t.halt
      /\ r.usage.inlineBytes = t.usage.inlineBytes + bytes /\ r.usage.entries = t.usage.entries + count
  BY <1>5, <1>7 DEF IsCopied
<1>9. Growing(r)
  BY <1>6, <1>8 DEF Growing, IsPlaceFor
<1>10. QED
  BY <1>2, <1>8, <1>9, GrowingRefused DEF IInv

\* Everything but symbolic links.
LinklessNext == Files \/ Trees \/ Host

\* What was refused asked for more, in a workspace without symbolic links.
LEMMA LinklessRefused ==
    ASSUME IInv, RefusesOnlyGrowth, LinklessNext
    PROVE  RefusesOnlyGrowth'
<1>1. CASE Files
  <2>1. PICK p \in Paths : \/ \E size \in Sizes, createParents \in BOOLEAN :
                                WriteFile(p, size, createParents)
                           \/ \E suffix \in Sizes : AppendFile(p, suffix)
                           \/ SetMetadata(p)
    BY <1>1 DEF Files
  <2>2. ASSUME NEW size \in Sizes, NEW createParents \in BOOLEAN, WriteFile(p, size, createParents)
        PROVE  RefusesOnlyGrowth'
    <3>1. size \in Nat
      BY ValuesAssumption
    <3>2. QED
      BY <2>2, <3>1, PutFileRefused DEF WriteFile
  <2>3. ASSUME NEW suffix \in Sizes, AppendFile(p, suffix)
        PROVE  RefusesOnlyGrowth'
    <3> DEFINE size == entries[p].size + suffix
    <3>1. size \in Nat /\ entries[p] # Absent /\ Finish(PutFile(Begin, p, size))
      BY <2>3, ValuesAssumption DEF AppendFile, Is
    <3> HIDE DEF size
    <3>2. QED
      BY <3>1, PutFileRefused
  <2>4. CASE SetMetadata(p)
    BY <2>4, SetMetadataRefused
  <2>5. QED
    BY <2>1, <2>2, <2>3, <2>4
<1>2. CASE Trees
  <2>1. PICK p \in Paths : \/ \E recursive \in BOOLEAN : Mkdir(p, recursive) \/ RemovePath(p, recursive)
                           \/ \E target \in Paths, replace \in BOOLEAN :
                                \/ Move(p, target, replace)
                                \/ \E createParents \in BOOLEAN :
                                     Copy(p, target, replace, createParents)
    BY <1>2 DEF Trees
  <2>2. CASE \E recursive \in BOOLEAN : Mkdir(p, recursive) \/ RemovePath(p, recursive)
    BY <2>2, MkdirRefused, RemovePathRefused
  <2>3. CASE \E target \in Paths, replace \in BOOLEAN : Move(p, target, replace)
    BY <2>3, MoveRefused
  <2>4. CASE \E target \in Paths, replace, createParents \in BOOLEAN :
               Copy(p, target, replace, createParents)
    BY <2>4, CopyRefused
  <2>5. QED
    BY <2>1, <2>2, <2>3, <2>4
<1>3. CASE Host
  BY <1>3 DEF Host, Evict, SetLimits, RefusesOnlyGrowth
<1>4. QED
  BY <1>1, <1>2, <1>3 DEF LinklessNext

------------------------------------------------------------------------------
(* The host, the initial states, and the theorems *)

\* A step that leaves the database alone tells of nothing.
LEMMA DurableKept ==
    ASSUME IInv, UNCHANGED durable
    PROVE  NewInodes /\ NewTotals /\ NewTokens /\ NewVersions /\ NewChanges /\ NewFeed
<1>1. entries' = entries /\ tombstones' = tombstones /\ usage' = usage /\ changes' = changes
  BY DEF durable
<1>2. entries \in Table /\ Numbered(entries, usage.nextIno)
  BY DEF IInv, TypeOK, Table
<1>3. Cardinality(Inos(entries)) = Cardinality(Living(entries, Paths))
  BY <1>2, InosAreMany
<1>4. NewInodes
  BY <1>1, <1>3 DEF NewInodes
<1>5. NewTotals
  <2>1. usage.inlineBytes \in Nat /\ usage.entries \in Nat
    BY DEF IInv, TypeOK
  <2>2. QED
    BY <1>1, <2>1 DEF NewTotals
<1>6. NewVersions
  <2>1. \A p \in Paths : Version(entries, tombstones, p) \in Nat
    BY VersionType DEF IInv, TypeOK, Table, Tombs
  <2>2. QED
    BY <1>1, <2>1 DEF NewVersions, Version
<1>7. NewFeed
  <2>1. \A p \in Paths : changes[p].seq \in Nat
    BY DEF IInv, TypeOK
  <2>2. QED
    BY <1>1, <2>1 DEF NewFeed
<1>8. QED
  BY <1>1, <1>4, <1>5, <1>6, <1>7 DEF NewTokens, NewChanges

\* The tables say the same when they are the same.
LEMMA SameTables ==
    ASSUME IInv, UNCHANGED durable, alloc' \in [ino : Nat, seq : Nat],
           usage.nextIno <= alloc'.ino, \A p \in Paths : changes[p].seq <= alloc'.seq,
           limits' \in Limits, refused' = refused, steps' \in 0 .. MaxSteps
    PROVE  Kept
<1>1. entries' = entries /\ tombstones' = tombstones /\ usage' = usage /\ changes' = changes
  BY DEF durable
<1>2. TypeOK'
  BY <1>1 DEF IInv, TypeOK
<1>3. UsageExact' /\ NlinkExact'
  BY <1>1 DEF IInv, UsageExact, NlinkExact
<1>4. IInv'
  BY <1>1, <1>2, <1>3 DEF IInv
<1>5. QED
  BY <1>4, DurableKept DEF Kept

\* A new instance is as far as the database says.
LEMMA EvictKeeps ==
    ASSUME IInv, Evict
    PROVE  Kept
<1> DEFINE S == {changes[p].seq : p \in Paths}
<1>1. /\ usage.nextIno \in Nat /\ alloc.seq \in Nat /\ steps' \in 0 .. MaxSteps
      /\ \A p \in Paths : changes[p].seq \in Nat
  BY ValuesAssumption DEF IInv, TypeOK, Evict, Step
<1>2. S \subseteq Nat /\ S # {} /\ \A x \in S : x <= alloc.seq
  BY <1>1, PathsAssumption DEF IInv
<1>3. \A p \in Paths : changes[p].seq \in S
  OBVIOUS
<1>4. alloc' = [ino |-> usage.nextIno, seq |-> Max(S)]
  BY DEF Evict
<1> HIDE DEF S
<1>5. Max(S) \in S /\ \A x \in S : x <= Max(S)
  BY <1>1, <1>2, MaxIs
<1>6. /\ alloc' \in [ino : Nat, seq : Nat] /\ usage.nextIno <= alloc'.ino
      /\ \A p \in Paths : changes[p].seq <= alloc'.seq
  <2> DEFINE m == Max(S)
  <2>1. m \in Nat /\ \A p \in Paths : changes[p].seq <= m
    BY <1>2, <1>3, <1>5
  <2>2. alloc' = [ino |-> usage.nextIno, seq |-> m]
    BY <1>4
  <2> HIDE DEF m
  <2>3. alloc'.ino = usage.nextIno /\ alloc'.seq = m
    BY <2>2
  <2>4. QED
    BY <1>1, <2>1, <2>2, <2>3
<1>7. UNCHANGED durable /\ limits' \in Limits /\ refused' = refused
  BY DEF Evict, IInv, TypeOK
<1>8. QED
  BY <1>1, <1>6, <1>7, SameTables

\* The limits say nothing of what is there.
LEMMA SetLimitsKeeps ==
    ASSUME IInv, NEW l \in Limits, SetLimits(l)
    PROVE  Kept
<1>1. /\ UNCHANGED durable /\ limits' \in Limits /\ refused' = refused /\ alloc' = alloc
      /\ steps' \in 0 .. MaxSteps
  BY ValuesAssumption DEF SetLimits, Step, IInv, TypeOK
<1>2. /\ alloc \in [ino : Nat, seq : Nat] /\ usage.nextIno <= alloc.ino
      /\ \A p \in Paths : changes[p].seq <= alloc.seq
  BY DEF IInv, TypeOK
<1>3. QED
  BY <1>1, <1>2, SameTables

\* Every step keeps the invariant.
LEMMA NextKeeps ==
    ASSUME IInv, Next
    PROVE  Kept
<1>1. CASE Files
  <2>1. PICK p \in Paths : \/ \E size \in Sizes, createParents \in BOOLEAN :
                                WriteFile(p, size, createParents)
                           \/ \E suffix \in Sizes : AppendFile(p, suffix)
                           \/ SetMetadata(p)
    BY <1>1 DEF Files
  <2>2. CASE \E size \in Sizes, createParents \in BOOLEAN : WriteFile(p, size, createParents)
    BY <2>2, WriteFileKeeps
  <2>3. CASE \E suffix \in Sizes : AppendFile(p, suffix)
    BY <2>3, AppendFileKeeps
  <2>4. CASE SetMetadata(p)
    BY <2>4, SetMetadataKeeps
  <2>5. QED
    BY <2>1, <2>2, <2>3, <2>4
<1>2. CASE Trees
  <2>1. PICK p \in Paths : \/ \E recursive \in BOOLEAN : Mkdir(p, recursive) \/ RemovePath(p, recursive)
                           \/ \E target \in Paths, replace \in BOOLEAN :
                                \/ Move(p, target, replace)
                                \/ \E createParents \in BOOLEAN :
                                     Copy(p, target, replace, createParents)
    BY <1>2 DEF Trees
  <2>2. CASE \E recursive \in BOOLEAN : Mkdir(p, recursive) \/ RemovePath(p, recursive)
    BY <2>2, MkdirKeeps, RemovePathKeeps
  <2>3. CASE \E target \in Paths, replace \in BOOLEAN : Move(p, target, replace)
    BY <2>3, MoveKeeps
  <2>4. CASE \E target \in Paths, replace, createParents \in BOOLEAN :
               Copy(p, target, replace, createParents)
    BY <2>4, CopyKeeps
  <2>5. QED
    BY <2>1, <2>2, <2>3, <2>4
<1>3. CASE Links
  BY <1>3, SymlinkKeeps DEF Links
<1>4. CASE Host
  BY <1>4, EvictKeeps, SetLimitsKeeps DEF Host
<1>5. QED
  BY <1>1, <1>2, <1>3, <1>4 DEF Next

\* A step that changes nothing keeps it, too.
LEMMA StepKeeps ==
    ASSUME IInv, [Next]_vars
    PROVE  IInv' /\ NewFeed
           /\ (Next => NewInodes /\ NewTotals /\ NewTokens /\ NewVersions /\ NewChanges)
<1>1. CASE Next
  BY <1>1, NextKeeps DEF Kept
<1>2. CASE UNCHANGED vars
  <2>1. /\ UNCHANGED durable /\ alloc' = alloc /\ limits' = limits /\ refused' = refused
        /\ steps' = steps
    BY <1>2 DEF vars, durable
  <2>2. /\ alloc \in [ino : Nat, seq : Nat] /\ limits \in Limits /\ steps \in 0 .. MaxSteps
        /\ usage.nextIno <= alloc.ino /\ \A p \in Paths : changes[p].seq <= alloc.seq
    BY DEF IInv, TypeOK
  <2>3. QED
    BY <2>1, <2>2, SameTables DEF Kept
<1>3. QED
  BY <1>1, <1>2

\* A fresh workspace is in order.
LEMMA InitIsGood ==
    ASSUME Init
    PROVE  IInv
<1> DEFINE top == [kind |-> "directory", ino |-> 1, size |-> 0, nlink |-> 2,
                   version |-> 1, target |-> Root]
<1>1. top \in Entry /\ Root \in Paths
  BY PathsAssumption DEF Entry
<1>2. /\ top.kind = "directory" /\ top.ino = 1 /\ top.size = 0 /\ top.nlink = 2
  OBVIOUS
<1>3. /\ entries \in [Paths -> Entry \cup {Absent}]
      /\ \A p \in Paths : entries[p] = IF p = Root THEN top ELSE Absent
  BY <1>1 DEF Init
<1> HIDE DEF top
<1>4. top # Absent
  BY <1>1, RowIs
<1>5. /\ entries[Root] = top /\ Is(entries, Root, "directory")
      /\ \A p \in Paths : entries[p] # Absent <=> p = Root
  BY <1>1, <1>2, <1>3, <1>4 DEF Is
<1>6. Living(entries, Paths) = {Root} /\ Living(entries, {Root}) = {Root}
  BY <1>1, <1>5 DEF Living
<1>7. TypeOK
  <2>1. /\ tombstones \in [Paths -> Nat]
        /\ usage \in [inlineBytes : Nat, entries : Nat, nextIno : Nat]
        /\ changes \in [Paths -> [seq : Nat, present : BOOLEAN]]
        /\ alloc \in [ino : Nat, seq : Nat]
        /\ limits \in Limits /\ refused = Absent /\ steps = 0
    BY DEF Init
  <2>2. QED
    BY <1>3, <2>1, ValuesAssumption DEF TypeOK
<1>8. Shaped(entries)
  BY <1>5, <1>6, RootIs DEF Shaped
<1>9. UsageExact
  <2>1. entries \in Table
    BY <1>3 DEF Table
  <2>2. SizeOf(entries, {Root}) = 0 /\ Cardinality(Living(entries, {Root})) = 1
    BY <1>1, <1>2, <1>4, <1>5, <2>1, OnePath
  <2>3. SizeOf(entries, Paths) = SizeOf(entries, {Root})
    BY <1>6 DEF SizeOf
  <2>4. usage.inlineBytes = 0 /\ usage.entries = 1
    BY DEF Init
  <2>5. QED
    BY <1>6, <2>2, <2>3, <2>4 DEF UsageExact
<1>10. NlinkExact
  <2> SUFFICES ASSUME NEW p \in Paths, Is(entries, p, "directory")
               PROVE  entries[p].nlink = 2 + Cardinality(ChildDirectories(entries, p))
    BY DEF NlinkExact
  <2>1. p = Root
    BY <1>5 DEF Is
  <2>2. ChildDirectories(entries, Root) = {}
    BY <1>1, <1>5, ChildrenIs DEF Is
  <2>3. Cardinality({}) = 0
    BY FS_EmptySet
  <2>4. QED
    BY <1>2, <1>5, <2>1, <2>2, <2>3
<1>11. Numbered(entries, usage.nextIno)
  <2>1. usage.nextIno = 2
    BY DEF Init
  <2>2. QED
    BY <1>2, <1>5, <1>6, <2>1 DEF Numbered
<1>12. usage.nextIno <= alloc.ino /\ \A p \in Paths : changes[p].seq <= alloc.seq
  BY DEF Init
<1>13. QED
  BY <1>7, <1>8, <1>9, <1>10, <1>11, <1>12 DEF IInv

\* The invariant holds in every state: rows, totals, link counts, numbers and the feed
\* are in order after every transaction, rollback and eviction.
THEOREM Invariance == Spec => []IInv
<1>1. Init => IInv
  BY InitIsGood
<1>2. IInv /\ [Next]_vars => IInv'
  BY StepKeeps
<1>3. QED
  BY <1>1, <1>2, PTL DEF Spec

\* The tables have the shape of the schema.
THEOREM TypeCorrect == Spec => []TypeOK
<1>1. IInv => TypeOK
  BY DEF IInv
<1>2. QED
  BY <1>1, Invariance, PTL

\* Every row but the root hangs from a directory, over moves, copies, replacements and
\* removals of whole trees: what resolution trusts when a path has a row.
THEOREM TreeIsOne == Spec => []TreeShape
<1>1. IInv => TreeShape
  BY DEF IInv, Shaped, TreeShape
<1>2. QED
  BY <1>1, Invariance, PTL

\* The totals that updateUsage keeps by differences are what a scan would add up.
THEOREM TotalsAreExact == Spec => []UsageExact
<1>1. IInv => UsageExact
  BY DEF IInv
<1>2. QED
  BY <1>1, Invariance, PTL

\* The link counts that flushParentTimes keeps by deltas or by counting are exact.
THEOREM LinkCountsAreExact == Spec => []NlinkExact
<1>1. IInv => NlinkExact
  BY DEF IInv
<1>2. QED
  BY <1>1, Invariance, PTL

\* An inode number that a row takes was never durable before.
THEOREM NumbersAreNew == Spec => InodesNeverReused
<1>1. IInv /\ [Next]_vars => [NewInodes]_vars
  BY StepKeeps
<1>2. Spec => [][NewInodes]_vars
  BY <1>1, Invariance, PTL DEF Spec
<1>3. QED
  BY <1>2 DEF InodesNeverReused, NewInodes

\* A row that changes gets a version that its path never had.
THEOREM TokensAdvance == Spec => TokensNeverRepeat
<1>1. IInv /\ [Next]_vars => [NewTokens]_vars
  BY StepKeeps
<1>2. Spec => [][NewTokens]_vars
  BY <1>1, Invariance, PTL DEF Spec
<1>3. QED
  BY <1>2 DEF TokensNeverRepeat, NewTokens

\* What changes is in the feed behind every number that was ever in it.
THEOREM ChangesAreTold == Spec => EveryChangeIsAnnounced
<1>1. IInv /\ [Next]_vars => [NewChanges]_vars
  BY StepKeeps
<1>2. Spec => [][NewChanges]_vars
  BY <1>1, Invariance, PTL DEF Spec
<1>3. QED
  BY <1>2 DEF EveryChangeIsAnnounced, NewChanges

\* The totals grow only as far as the limits of that moment.
THEOREM LimitsAreKept == Spec => GrowthWithinLimits
<1>1. IInv /\ [Next]_vars => [NewTotals]_vars
  BY StepKeeps
<1>2. Spec => [][NewTotals]_vars
  BY <1>1, Invariance, PTL DEF Spec
<1>3. QED
  BY <1>2 DEF GrowthWithinLimits, NewTotals

\* Only growth is refused, whatever limits the host sets and when, as long as no symbolic
\* link is made: a link that replaces a file is weighed as if nothing were given back.
THEOREM OnlyGrowthIsRefused == Init /\ [][LinklessNext]_vars => []RefusesOnlyGrowth
<1>1. Init => IInv /\ RefusesOnlyGrowth
  BY InitIsGood DEF Init, RefusesOnlyGrowth
<1>2. IInv /\ RefusesOnlyGrowth /\ [LinklessNext]_vars => IInv' /\ RefusesOnlyGrowth'
  <2> SUFFICES ASSUME IInv, RefusesOnlyGrowth, [LinklessNext]_vars
               PROVE  IInv' /\ RefusesOnlyGrowth'
    OBVIOUS
  <2>1. [Next]_vars
    BY DEF LinklessNext, Next
  <2>2. CASE LinklessNext
    BY <2>1, <2>2, StepKeeps, LinklessRefused
  <2>3. CASE UNCHANGED vars
    BY <2>1, <2>3, StepKeeps DEF vars, RefusesOnlyGrowth
  <2>4. QED
    BY <2>2, <2>3
<1>3. QED
  BY <1>1, <1>2, PTL

==============================================================================
