-------------------------------- MODULE Sums --------------------------------
(***************************************************************************)
(* What MapThenSumSet computes over a finite set: the recursion it is      *)
(* defined by has one solution, whatever the order in which elements are   *)
(* chosen.  The induction theorems of the library take an operator; here   *)
(* induction is over a set of counterexamples, which has a least one.      *)
(***************************************************************************)
EXTENDS Integers, FiniteSets, FiniteSetsExt, FiniteSetTheorems, WellFoundedInduction, TLAPS

\* The sum of a function over a set.
SumOf(w, S) == MapThenSumSet(LAMBDA x : w[x], S)

Chosen(s) == CHOOSE x \in s : TRUE

\* g is the sum of w over each subset of S, by the recursion of MapThenSumSet.
Adds(w, S, g) ==
    g = [s \in SUBSET S |-> IF s = {} THEN 0 ELSE w[Chosen(s)] + g[s \ {Chosen(s)}]]

\* Among subsets of a finite set there is one that contains no other.
LEMMA LeastSet ==
    ASSUME NEW S, IsFiniteSet(S), NEW bad, bad \subseteq SUBSET S, bad # {}
    PROVE  \E T \in bad : \A U \in bad : U \subseteq T => U = T
<1>1. IsWellFoundedOn(StrictSubsetOrdering(S), SUBSET S)
  BY FS_FiniteSubsetsOfFinite, FS_StrictSubsetOrderingWellFounded
<1>2. PICK T \in bad : \A U \in bad : ~ (<<U, T>> \in StrictSubsetOrdering(S))
  BY <1>1, WFMin
<1>3. ASSUME NEW U \in bad, U \subseteq T, U # T
      PROVE  FALSE
  <2>1. <<U, T>> \in (SUBSET S) \X (SUBSET S)
    OBVIOUS
  <2>2. <<U, T>> \in StrictSubsetOrdering(S)
    BY <1>3, <2>1 DEF StrictSubsetOrdering
  <2>3. QED
    BY <1>2, <2>2
<1>4. QED
  BY <1>3

\* A solution of the recursion, applied.
LEMMA AddsApplied ==
    ASSUME NEW w, NEW S, NEW g, Adds(w, S, g), NEW s \in SUBSET S
    PROVE  g[s] = IF s = {} THEN 0 ELSE w[Chosen(s)] + g[s \ {Chosen(s)}]
  BY DEF Adds

\* The recursion has one solution at most.
LEMMA AddsUnique ==
    ASSUME NEW w, NEW S, IsFiniteSet(S), NEW g, NEW h, Adds(w, S, g), Adds(w, S, h)
    PROVE  g = h
<1> DEFINE bad == {s \in SUBSET S : g[s] # h[s]}
<1>1. bad = {}
  <2> SUFFICES ASSUME bad # {} PROVE FALSE
    OBVIOUS
  <2> bad \subseteq SUBSET S
    OBVIOUS
  <2> HIDE DEF bad
  <2>1. PICK s \in bad : \A r \in bad : r \subseteq s => r = s
    BY LeastSet
  <2> USE DEF bad
  <2>2. s # {}
    BY AddsApplied
  <2>3. Chosen(s) \in s
    BY <2>2 DEF Chosen
  <2>4. s \ {Chosen(s)} \in SUBSET S /\ s \ {Chosen(s)} # s
    BY <2>3
  <2>5. g[s \ {Chosen(s)}] = h[s \ {Chosen(s)}]
    BY <2>1, <2>4
  <2>6. g[s] = h[s]
    BY <2>2, <2>5, AddsApplied
  <2>7. QED
    BY <2>6
<1>2. \A s \in SUBSET S : g[s] = h[s]
  BY <1>1
<1>3. g = [s \in SUBSET S |-> g[s]] /\ h = [s \in SUBSET S |-> h[s]]
  BY DEF Adds
<1>4. QED
  BY <1>2, <1>3

\* A solution for a set is one for its subsets.
LEMMA AddsRestricts ==
    ASSUME NEW w, NEW S, NEW g, Adds(w, S, g), NEW T \in SUBSET S
    PROVE  Adds(w, T, [s \in SUBSET T |-> g[s]])
<1> DEFINE h == [s \in SUBSET T |-> g[s]]
<1>1. ASSUME NEW s \in SUBSET T, s # {}
      PROVE  h[s \ {Chosen(s)}] = g[s \ {Chosen(s)}]
  BY <1>1
<1>2. ASSUME NEW s \in SUBSET T
      PROVE  h[s] = IF s = {} THEN 0 ELSE w[Chosen(s)] + h[s \ {Chosen(s)}]
  <2>1. s \in SUBSET S /\ h[s] = g[s]
    OBVIOUS
  <2>2. g[s] = IF s = {} THEN 0 ELSE w[Chosen(s)] + g[s \ {Chosen(s)}]
    BY <2>1, AddsApplied
  <2>3. QED
    BY <1>1, <2>1, <2>2
<1>3. QED
  BY <1>2 DEF Adds

\* The sum of a function over a set, before it is known to exist.
Value(w, s) == (CHOOSE g : Adds(w, s, g))[s]

\* The recursion has a solution for each finite set.
LEMMA AddsExists ==
    ASSUME NEW w, NEW S, IsFiniteSet(S)
    PROVE  \E g : Adds(w, S, g)
<1> DEFINE bad == {T \in SUBSET S : ~ \E g : Adds(w, T, g)}
<1> SUFFICES ASSUME bad # {} PROVE FALSE
  OBVIOUS
<1> bad \subseteq SUBSET S
  OBVIOUS
<1> HIDE DEF bad
<1>1. PICK T \in bad : \A U \in bad : U \subseteq T => U = T
  BY LeastSet
<1> USE DEF bad
<1> DEFINE h == [s \in SUBSET T |-> IF s = {} THEN 0
                                    ELSE w[Chosen(s)] + Value(w, s \ {Chosen(s)})]
<1>2. ASSUME NEW r \in SUBSET T, r # T
      PROVE  h[r] = Value(w, r)
  <2>1. r \notin bad /\ r \in SUBSET S /\ IsFiniteSet(r)
    BY <1>1, <1>2, FS_Subset
  <2>2. PICK g : Adds(w, r, g)
    BY <2>1
  <2>3. Adds(w, r, CHOOSE f : Adds(w, r, f))
    BY <2>2
  <2>4. Value(w, r) = g[r]
    BY <2>1, <2>2, <2>3, AddsUnique DEF Value
  <2>5. CASE r = {}
    BY <2>2, <2>4, <2>5, AddsApplied
  <2>6. CASE r # {}
    <3> DEFINE c == Chosen(r)
    <3> DEFINE f == [s \in SUBSET (r \ {c}) |-> g[s]]
    <3>0. r \ {c} \in SUBSET r
      OBVIOUS
    <3>1. Adds(w, r \ {c}, f)
      BY <2>2, <3>0, AddsRestricts
    <3>2. IsFiniteSet(r \ {c})
      BY <2>1, FS_Subset
    <3>3. Adds(w, r \ {c}, CHOOSE k : Adds(w, r \ {c}, k))
      BY <3>1
    <3>4. Value(w, r \ {c}) = f[r \ {c}]
      BY <3>1, <3>2, <3>3, AddsUnique DEF Value
    <3>5. f[r \ {c}] = g[r \ {c}]
      OBVIOUS
    <3>6. g[r] = w[c] + g[r \ {c}]
      <4>1. r \in SUBSET r
        OBVIOUS
      <4>2. g[r] = IF r = {} THEN 0 ELSE w[Chosen(r)] + g[r \ {Chosen(r)}]
        BY <2>2, <4>1, AddsApplied
      <4>3. QED
        BY <2>6, <4>2
    <3>7. h[r] = w[c] + Value(w, r \ {c})
      BY <2>6
    <3>8. QED
      BY <2>4, <3>4, <3>5, <3>6, <3>7
  <2>7. QED
    BY <2>5, <2>6
<1>3. ASSUME NEW s \in SUBSET T, s # {}
      PROVE  h[s \ {Chosen(s)}] = Value(w, s \ {Chosen(s)})
  <2>1. Chosen(s) \in s
    BY <1>3 DEF Chosen
  <2>2. s \ {Chosen(s)} \in SUBSET T /\ s \ {Chosen(s)} # T
    BY <2>1
  <2>3. QED
    BY <1>2, <2>2
<1>4. ASSUME NEW s \in SUBSET T
      PROVE  h[s] = IF s = {} THEN 0 ELSE w[Chosen(s)] + h[s \ {Chosen(s)}]
  BY <1>3
<1>5. Adds(w, T, h)
  BY <1>4 DEF Adds
<1>6. QED
  BY <1>1, <1>5

\* So the sum over a set is what any solution says of it.
LEMMA SumIsValue ==
    ASSUME NEW w, NEW S
    PROVE  SumOf(w, S) = Value(w, S)
  BY DEF SumOf, Value, Adds, Chosen, MapThenSumSet, MapThenFoldSet

\* A solution for a larger set says it too.
LEMMA SumIsSolution ==
    ASSUME NEW w, NEW S, IsFiniteSet(S), NEW g, Adds(w, S, g), NEW T \in SUBSET S
    PROVE  SumOf(w, T) = g[T]
<1> DEFINE f == [s \in SUBSET T |-> g[s]]
<1>1. Adds(w, T, f)
  BY AddsRestricts
<1>2. IsFiniteSet(T)
  BY FS_Subset
<1>3. Adds(w, T, CHOOSE k : Adds(w, T, k))
  BY <1>1
<1>4. Value(w, T) = f[T]
  BY <1>1, <1>2, <1>3, AddsUnique DEF Value
<1>5. QED
  BY <1>4, SumIsValue

\* The sum over a set is made of the chosen element and the sum of the rest.
LEMMA SumChosen ==
    ASSUME NEW w, NEW S, IsFiniteSet(S)
    PROVE  SumOf(w, S) = IF S = {} THEN 0 ELSE w[Chosen(S)] + SumOf(w, S \ {Chosen(S)})
<1>1. PICK g : Adds(w, S, g)
  BY AddsExists
<1>2. S \in SUBSET S /\ S \ {Chosen(S)} \in SUBSET S
  OBVIOUS
<1>3. SumOf(w, S) = g[S] /\ SumOf(w, S \ {Chosen(S)}) = g[S \ {Chosen(S)}]
  BY <1>1, <1>2, SumIsSolution
<1>4. QED
  BY <1>1, <1>2, <1>3, AddsApplied

\* The sum of integers is an integer.
LEMMA SumType ==
    ASSUME NEW S, IsFiniteSet(S), NEW w, \A x \in S : w[x] \in Int
    PROVE  SumOf(w, S) \in Int
<1> DEFINE bad == {T \in SUBSET S : SumOf(w, T) \notin Int}
<1> SUFFICES ASSUME bad # {} PROVE FALSE
  OBVIOUS
<1> bad \subseteq SUBSET S
  OBVIOUS
<1> HIDE DEF bad
<1>1. PICK T \in bad : \A U \in bad : U \subseteq T => U = T
  BY LeastSet
<1> USE DEF bad
<1>2. IsFiniteSet(T)
  BY FS_Subset
<1>3. T # {} /\ SumOf(w, T) = w[Chosen(T)] + SumOf(w, T \ {Chosen(T)})
  <2>1. SumOf(w, T) = IF T = {} THEN 0 ELSE w[Chosen(T)] + SumOf(w, T \ {Chosen(T)})
    BY <1>2, SumChosen
  <2>2. SumOf(w, T) # 0
    OBVIOUS
  <2>3. QED
    BY <2>1, <2>2
<1>4. Chosen(T) \in T
  BY <1>3 DEF Chosen
<1>5. T \ {Chosen(T)} \in SUBSET S /\ T \ {Chosen(T)} # T
  BY <1>4
<1>6. SumOf(w, T \ {Chosen(T)}) \in Int /\ w[Chosen(T)] \in Int
  BY <1>1, <1>4, <1>5
<1>7. QED
  BY <1>3, <1>6

\* The sum of natural numbers is one.
LEMMA SumNatural ==
    ASSUME NEW S, IsFiniteSet(S), NEW w, \A x \in S : w[x] \in Nat
    PROVE  SumOf(w, S) \in Nat
<1> DEFINE bad == {T \in SUBSET S : SumOf(w, T) \notin Nat}
<1> SUFFICES ASSUME bad # {} PROVE FALSE
  OBVIOUS
<1> bad \subseteq SUBSET S
  OBVIOUS
<1> HIDE DEF bad
<1>1. PICK T \in bad : \A U \in bad : U \subseteq T => U = T
  BY LeastSet
<1> USE DEF bad
<1>2. IsFiniteSet(T)
  BY FS_Subset
<1>3. T # {} /\ SumOf(w, T) = w[Chosen(T)] + SumOf(w, T \ {Chosen(T)})
  <2>1. SumOf(w, T) = IF T = {} THEN 0 ELSE w[Chosen(T)] + SumOf(w, T \ {Chosen(T)})
    BY <1>2, SumChosen
  <2>2. SumOf(w, T) # 0
    OBVIOUS
  <2>3. QED
    BY <2>1, <2>2
<1>4. Chosen(T) \in T
  BY <1>3 DEF Chosen
<1>5. T \ {Chosen(T)} \in SUBSET S /\ T \ {Chosen(T)} # T
  BY <1>4
<1>6. SumOf(w, T \ {Chosen(T)}) \in Nat /\ w[Chosen(T)] \in Nat
  BY <1>1, <1>4, <1>5
<1>7. QED
  BY <1>3, <1>6

\* Any element can be taken out first.
LEMMA SumWithout ==
    ASSUME NEW S, IsFiniteSet(S), NEW w, \A x \in S : w[x] \in Int, NEW a \in S
    PROVE  SumOf(w, S) = w[a] + SumOf(w, S \ {a})
<1> DEFINE bad == {T \in SUBSET S : \E x \in T : SumOf(w, T) # w[x] + SumOf(w, T \ {x})}
<1> SUFFICES ASSUME bad # {} PROVE FALSE
  OBVIOUS
<1> bad \subseteq SUBSET S
  OBVIOUS
<1> HIDE DEF bad
<1>1. PICK T \in bad : \A U \in bad : U \subseteq T => U = T
  BY LeastSet
<1> USE DEF bad
<1>2. PICK x \in T : SumOf(w, T) # w[x] + SumOf(w, T \ {x})
  OBVIOUS
<1> DEFINE c == Chosen(T)
           R == T \ {c, x}
<1>3. c \in T
  BY DEF Chosen
<1>4. IsFiniteSet(T) /\ IsFiniteSet(T \ {x}) /\ IsFiniteSet(T \ {c}) /\ IsFiniteSet(R)
  BY FS_Subset
<1>5. SumOf(w, T) = w[c] + SumOf(w, T \ {c})
  BY <1>3, <1>4, SumChosen
<1>6. c # x
  BY <1>2, <1>5
<1>7. T \ {c} \notin bad /\ T \ {x} \notin bad
  BY <1>1, <1>3
<1>8. SumOf(w, T \ {c}) = w[x] + SumOf(w, R)
  <2>1. x \in T \ {c} /\ T \ {c} \in SUBSET S /\ (T \ {c}) \ {x} = R
    BY <1>6
  <2>2. QED
    BY <1>7, <2>1
<1>9. SumOf(w, T \ {x}) = w[c] + SumOf(w, R)
  <2>1. c \in T \ {x} /\ T \ {x} \in SUBSET S /\ (T \ {x}) \ {c} = R
    BY <1>3, <1>6
  <2>2. QED
    BY <1>7, <2>1
<1>10. SumOf(w, R) \in Int /\ w[c] \in Int /\ w[x] \in Int
  BY <1>3, <1>4, SumType
<1> HIDE DEF c, R
<1>11. QED
  BY <1>2, <1>5, <1>8, <1>9, <1>10

\* An element more adds its weight.
LEMMA SumAdds ==
    ASSUME NEW S, IsFiniteSet(S), NEW a, a \notin S,
           NEW w, \A x \in S \cup {a} : w[x] \in Int
    PROVE  SumOf(w, S \cup {a}) = SumOf(w, S) + w[a]
<1>1. IsFiniteSet(S \cup {a}) /\ (S \cup {a}) \ {a} = S
  BY FS_AddElement
<1>2. SumOf(w, S) \in Int
  BY SumType
<1>3. SumOf(w, S \cup {a}) = w[a] + SumOf(w, (S \cup {a}) \ {a})
  BY <1>1, SumWithout
<1>4. w[a] \in Int /\ SumOf(w, S \cup {a}) = w[a] + SumOf(w, S)
  BY <1>1, <1>3
<1>5. QED
  BY <1>2, <1>4

\* Nothing adds up to zero.
LEMMA SumEmpty == \A w : SumOf(w, {}) = 0
  BY SumChosen, FS_EmptySet

\* One element adds up to its weight.
LEMMA SumSingle ==
    ASSUME NEW a, NEW w, w[a] \in Int
    PROVE  SumOf(w, {a}) = w[a]
<1>1. SumOf(w, {} \cup {a}) = SumOf(w, {}) + w[a]
  BY SumAdds, FS_EmptySet
<1>2. QED
  BY <1>1, SumEmpty

\* The sum depends on the weights of the elements only.
LEMMA SumSame ==
    ASSUME NEW S, IsFiniteSet(S), NEW w, NEW v, \A x \in S : w[x] = v[x]
    PROVE  SumOf(w, S) = SumOf(v, S)
<1>1. PICK g : Adds(w, S, g)
  BY AddsExists
<1>2. ASSUME NEW s \in SUBSET S
      PROVE  g[s] = IF s = {} THEN 0 ELSE v[Chosen(s)] + g[s \ {Chosen(s)}]
  <2>1. s # {} => Chosen(s) \in s
    BY DEF Chosen
  <2>2. g[s] = IF s = {} THEN 0 ELSE w[Chosen(s)] + g[s \ {Chosen(s)}]
    BY <1>1, AddsApplied
  <2>3. s # {} => w[Chosen(s)] = v[Chosen(s)]
    BY <2>1
  <2>4. QED
    BY <2>2, <2>3
<1>3. g = [s \in SUBSET S |-> g[s]]
  BY <1>1 DEF Adds
<1>4. Adds(v, S, g)
  BY <1>2, <1>3 DEF Adds
<1>5. QED
  BY <1>1, <1>4, SumIsSolution

\* Two sets with nothing in common add up.
LEMMA SumUnion ==
    ASSUME NEW S, IsFiniteSet(S), NEW T, IsFiniteSet(T), S \cap T = {},
           NEW w, \A x \in S \cup T : w[x] \in Int
    PROVE  SumOf(w, S \cup T) = SumOf(w, S) + SumOf(w, T)
<1> DEFINE bad == {R \in SUBSET T : SumOf(w, S \cup R) # SumOf(w, S) + SumOf(w, R)}
<1> SUFFICES ASSUME bad # {} PROVE FALSE
  OBVIOUS
<1> bad \subseteq SUBSET T
  OBVIOUS
<1> HIDE DEF bad
<1>1. PICK R \in bad : \A U \in bad : U \subseteq R => U = R
  BY LeastSet
<1> USE DEF bad
<1>2. SumOf(w, S) \in Int
  BY SumType
<1>3. R # {}
  <2> SUFFICES ASSUME R = {} PROVE FALSE
    OBVIOUS
  <2>1. S \cup R = S /\ SumOf(w, R) = 0
    BY SumEmpty
  <2>2. SumOf(w, S \cup R) = SumOf(w, S) + SumOf(w, R)
    BY <1>2, <2>1
  <2>3. QED
    BY <2>2
<1>4. PICK a \in R : TRUE
  BY <1>3
<1> DEFINE Q == R \ {a}
<1>5. Q \in SUBSET T /\ Q # R /\ a \notin Q /\ Q \cup {a} = R /\ a \notin S
  OBVIOUS
<1>6. SumOf(w, S \cup Q) = SumOf(w, S) + SumOf(w, Q)
  BY <1>1, <1>5
<1>7. IsFiniteSet(Q) /\ IsFiniteSet(S \cup Q)
  BY <1>5, FS_Subset, FS_Union
<1>8. SumOf(w, Q \cup {a}) = SumOf(w, Q) + w[a]
  BY <1>5, <1>7, SumAdds
<1>9. SumOf(w, (S \cup Q) \cup {a}) = SumOf(w, S \cup Q) + w[a]
  BY <1>5, <1>7, SumAdds
<1>10. (S \cup Q) \cup {a} = S \cup R
  BY <1>5
<1>11. SumOf(w, Q) \in Int /\ w[a] \in Int
  BY <1>5, <1>7, SumType
<1>12. SumOf(w, S \cup R) = SumOf(w, S \cup Q) + w[a] /\ SumOf(w, R) = SumOf(w, Q) + w[a]
  BY <1>5, <1>8, <1>9, <1>10
<1> HIDE DEF Q
<1>13. SumOf(w, S \cup R) # SumOf(w, S) + SumOf(w, R)
  OBVIOUS
<1> HIDE DEF bad
<1>14. QED
  BY <1>2, <1>6, <1>11, <1>12, <1>13

\* A set adds up to what is in a part of it and what is not.
LEMMA SumSplit ==
    ASSUME NEW S, IsFiniteSet(S), NEW T \in SUBSET S, NEW w, \A x \in S : w[x] \in Int
    PROVE  /\ SumOf(w, S) = SumOf(w, S \ T) + SumOf(w, T)
           /\ SumOf(w, S \ T) \in Int /\ SumOf(w, T) \in Int
<1>1. IsFiniteSet(T) /\ IsFiniteSet(S \ T)
  BY FS_Subset, FS_Difference
<1>2. (S \ T) \cup T = S /\ (S \ T) \cap T = {}
  OBVIOUS
<1>3. SumOf(w, (S \ T) \cup T) = SumOf(w, S \ T) + SumOf(w, T)
  BY <1>1, <1>2, SumUnion
<1>4. SumOf(w, S \ T) \in Int /\ SumOf(w, T) \in Int
  BY <1>1, SumType
<1>5. QED
  BY <1>2, <1>3, <1>4

\* From w over S to v over T, the sum changes by what is inside K.
ChangesInside(K, w, S, v, T) ==
    /\ SumOf(v, T) = SumOf(w, S) - SumOf(w, S \cap K) + SumOf(v, T \cap K)
    /\ SumOf(w, S) \in Int /\ SumOf(w, S \cap K) \in Int
    /\ SumOf(v, T) \in Int /\ SumOf(v, T \cap K) \in Int

\* When elements come, go and change their weight inside K only, the sum
\* changes by what they were and are.
LEMMA SumChange ==
    ASSUME NEW S, IsFiniteSet(S), NEW T, IsFiniteSet(T), NEW K, S \ K = T \ K,
           NEW w, \A x \in S : w[x] \in Int, NEW v, \A x \in T : v[x] \in Int,
           \A x \in S \ K : v[x] = w[x]
    PROVE  ChangesInside(K, w, S, v, T)
<1>1. S \ (S \cap K) = S \ K /\ T \ (T \cap K) = S \ K
  OBVIOUS
<1>2. S \cap K \in SUBSET S /\ T \cap K \in SUBSET T
  OBVIOUS
<1>3. /\ SumOf(w, S) = SumOf(w, S \ K) + SumOf(w, S \cap K)
      /\ SumOf(w, S \ K) \in Int /\ SumOf(w, S \cap K) \in Int
  <2>1. /\ SumOf(w, S) = SumOf(w, S \ (S \cap K)) + SumOf(w, S \cap K)
        /\ SumOf(w, S \ (S \cap K)) \in Int /\ SumOf(w, S \cap K) \in Int
    BY <1>2, SumSplit
  <2>2. QED
    BY <1>1, <2>1
<1>4. /\ SumOf(v, T) = SumOf(v, S \ K) + SumOf(v, T \cap K)
      /\ SumOf(v, S \ K) \in Int /\ SumOf(v, T \cap K) \in Int
  <2>1. /\ SumOf(v, T) = SumOf(v, T \ (T \cap K)) + SumOf(v, T \cap K)
        /\ SumOf(v, T \ (T \cap K)) \in Int /\ SumOf(v, T \cap K) \in Int
    BY <1>2, SumSplit
  <2>2. QED
    BY <1>1, <2>1
<1>5. SumOf(v, S \ K) = SumOf(w, S \ K)
  <2>1. IsFiniteSet(S \ K)
    BY FS_Difference
  <2>2. QED
    BY <2>1, SumSame
<1>6. QED
  BY <1>3, <1>4, <1>5 DEF ChangesInside

\* What the elements of a finite set are renamed to is finite, and as many if
\* none are renamed to the same.
LEMMA FiniteImage ==
    ASSUME NEW S, IsFiniteSet(S), NEW r
    PROVE  /\ IsFiniteSet({r[x] : x \in S})
           /\ (\A x, y \in S : r[x] = r[y] => x = y) => Cardinality({r[x] : x \in S}) = Cardinality(S)
<1> DEFINE T == {r[x] : x \in S}
           f == [x \in S |-> r[x]]
<1>1. f \in [S -> T] /\ \A t \in T : \E x \in S : f[x] = t
  OBVIOUS
<1>2. \A x \in S : f[x] = r[x]
  OBVIOUS
<1> HIDE DEF f, T
<1>3. f \in Surjection(S, T)
  BY <1>1 DEF Surjection
<1>4. IsFiniteSet(T) /\ (Cardinality(T) = Cardinality(S) <=> f \in Injection(S, T))
  BY <1>3, FS_Surjection
<1>5. (\A x, y \in S : r[x] = r[y] => x = y) => f \in Injection(S, T)
  BY <1>1, <1>2 DEF Injection, IsInjective
<1>6. QED
  BY <1>4, <1>5 DEF T

\* Weights that are given to other elements add up as they did.
LEMMA SumImage ==
    ASSUME NEW S, IsFiniteSet(S), NEW r, \A x, y \in S : r[x] = r[y] => x = y,
           NEW v, NEW w, \A x \in S : v[x] = w[r[x]] /\ v[x] \in Int
    PROVE  SumOf(v, S) = SumOf(w, {r[x] : x \in S})
<1> DEFINE image(T) == {r[x] : x \in T}
           bad == {T \in SUBSET S : SumOf(v, T) # SumOf(w, image(T))}
<1> SUFFICES ASSUME bad # {} PROVE FALSE
  OBVIOUS
<1> bad \subseteq SUBSET S
  OBVIOUS
<1> HIDE DEF bad
<1>1. PICK T \in bad : \A U \in bad : U \subseteq T => U = T
  BY LeastSet
<1> USE DEF bad
<1>2. T # {}
  <2> SUFFICES ASSUME T = {} PROVE FALSE
    OBVIOUS
  <2>1. image(T) = {}
    OBVIOUS
  <2>2. SumOf(v, T) = SumOf(w, image(T))
    BY <2>1, SumEmpty
  <2>3. QED
    BY <2>2
<1>3. PICK a \in T : TRUE
  BY <1>2
<1> DEFINE Q == T \ {a}
<1>4. Q \in SUBSET S /\ Q # T /\ a \notin Q /\ Q \cup {a} = T /\ a \in S
  OBVIOUS
<1>5. SumOf(v, Q) = SumOf(w, image(Q))
  BY <1>1, <1>4
<1>6. /\ IsFiniteSet(Q) /\ IsFiniteSet(image(Q))
      /\ image(T) = image(Q) \cup {r[a]} /\ r[a] \notin image(Q)
  <2>1. IsFiniteSet(Q)
    BY <1>4, FS_Subset
  <2>2. IsFiniteSet({r[x] : x \in Q})
    BY <2>1, FiniteImage
  <2>3. image(T) = image(Q) \cup {r[a]}
    BY <1>4
  <2>4. \A x \in Q : r[x] # r[a]
    BY <1>4
  <2>5. QED
    BY <2>1, <2>2, <2>3, <2>4
<1>7. SumOf(v, Q \cup {a}) = SumOf(v, Q) + v[a]
  <2>1. (\A x \in Q \cup {a} : v[x] \in Int) /\ IsFiniteSet(Q) /\ a \notin Q
    BY <1>4, <1>6
  <2> HIDE DEF Q, bad
  <2>2. QED
    BY <2>1, SumAdds
<1>8. ASSUME NEW y \in image(Q) \cup {r[a]}
      PROVE  w[y] \in Int
  <2>1. PICK x \in T : y = r[x]
    BY <1>4
  <2>2. x \in S /\ w[r[x]] = v[x] /\ v[x] \in Int
    BY <1>4
  <2>3. QED
    BY <2>1, <2>2
<1>9. SumOf(w, image(Q) \cup {r[a]}) = SumOf(w, image(Q)) + w[r[a]]
  <2> DEFINE A == image(Q)
             b == r[a]
  <2>1. IsFiniteSet(A) /\ b \notin A /\ \A x \in A \cup {b} : w[x] \in Int
    BY <1>6, <1>8
  <2> HIDE DEF A, b
  <2>2. SumOf(w, A \cup {b}) = SumOf(w, A) + w[b]
    BY <2>1, SumAdds
  <2>3. QED
    BY <2>2 DEF A, b
<1>10. v[a] = w[r[a]]
  BY <1>4
<1>11. SumOf(v, T) = SumOf(w, image(T))
  BY <1>4, <1>5, <1>6, <1>7, <1>9, <1>10
<1>12. QED
  BY <1>11

\* Equal weights add up to their number times one.
LEMMA SumConstant ==
    ASSUME NEW S, IsFiniteSet(S), NEW c \in Int, NEW w, \A x \in S : w[x] = c
    PROVE  SumOf(w, S) = c * Cardinality(S)
<1> DEFINE bad == {T \in SUBSET S : SumOf(w, T) # c * Cardinality(T)}
<1> SUFFICES ASSUME bad # {} PROVE FALSE
  OBVIOUS
<1> bad \subseteq SUBSET S
  OBVIOUS
<1> HIDE DEF bad
<1>1. PICK T \in bad : \A U \in bad : U \subseteq T => U = T
  BY LeastSet
<1> USE DEF bad
<1>2. T # {}
  <2> SUFFICES ASSUME T = {} PROVE FALSE
    OBVIOUS
  <2>1. SumOf(w, T) = 0 /\ Cardinality(T) = 0
    BY SumEmpty, FS_EmptySet
  <2>2. c * 0 = 0
    OBVIOUS
  <2>3. QED
    BY <2>1, <2>2
<1>3. PICK a \in T : TRUE
  BY <1>2
<1> DEFINE Q == T \ {a}
           k == Cardinality(Q)
<1>4. Q \in SUBSET S /\ Q # T /\ a \notin Q /\ Q \cup {a} = T /\ a \in S
  OBVIOUS
<1>5. SumOf(w, Q) = c * k
  BY <1>1, <1>4
<1>6. IsFiniteSet(Q)
  BY <1>4, FS_Subset
<1>7. k \in Nat /\ Cardinality(Q \cup {a}) = k + 1
  BY <1>4, <1>6, FS_CardinalityType, FS_AddElement
<1>8. SumOf(w, Q \cup {a}) = SumOf(w, Q) + c
  <2>1. w[a] = c /\ \A x \in Q \cup {a} : w[x] \in Int
    BY <1>4
  <2>2. SumOf(w, Q \cup {a}) = SumOf(w, Q) + w[a]
    BY <1>4, <1>6, <2>1, SumAdds
  <2>3. QED
    BY <2>1, <2>2
<1>9. SumOf(w, T) = c * k + c /\ Cardinality(T) = k + 1
  BY <1>4, <1>5, <1>7, <1>8
<1> HIDE DEF k
<1>10. c * (k + 1) = c * k + c
  BY <1>7
<1>11. QED
  BY <1>9, <1>10
=============================================================================
