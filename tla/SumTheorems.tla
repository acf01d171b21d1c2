----------------------------- MODULE SumTheorems -----------------------------
(***************************************************************************)
(* What the sum of a function over a finite set is worth, for the modules  *)
(* that add up loads and deliveries with MapThenSumSet.  The fold of the   *)
(* library is a recursive function on the subsets; its equations come from *)
(* an induction on their size, stated with sets of numbers.                *)
(***************************************************************************)
EXTENDS Integers, FiniteSets, FiniteSetsExt, FiniteSetTheorems,
        WellFoundedInduction, TLAPS

Any(s) == CHOOSE x \in s : TRUE

Total(f, S) == MapThenSumSet(LAMBDA x : f[x], S)

\* g is the partial sums of f over the sets of D.
Sums(g, f, D) ==
  g = [s \in D |-> IF s = {} THEN 0 ELSE f[Any(s)] + g[s \ {Any(s)}]]

Upto(S, n) == {s \in SUBSET S : Cardinality(s) <= n}

Partial(f, S) == CHOOSE g : Sums(g, f, SUBSET S)

\* Functions to the natural numbers: h is at most f but for m, where it is at
\* most d more.
AtMost(h, f, S, m, d) ==
  \A x \in S : /\ f[x] \in Nat /\ h[x] \in Nat
               /\ h[x] <= IF x = m THEN f[x] + d ELSE f[x]

-----------------------------------------------------------------------------
(* Induction. *)

\* A set of natural numbers that is not empty has a least one.
LEMMA LeastNumber ==
  ASSUME NEW T, T \subseteq Nat, T # {}
  PROVE  \E n \in T : \A k \in T : n <= k
<1>1. \E n \in T : \A k \in T : <<k, n>> \notin OpToRel(<, Nat)
  BY WFMin, NatLessThanWellFounded
<1>2. PICK n \in T : \A k \in T : <<k, n>> \notin OpToRel(<, Nat)
  BY <1>1
<1>3. \A k \in T : ~(k < n)
  BY <1>2 DEF OpToRel
<1> QED
  BY <1>3

\* A set that has 0, and the successor of what it has, has every number.
LEMMA AllNumbers ==
  ASSUME NEW T, 0 \in T, \A n \in Nat : n \in T => n + 1 \in T
  PROVE  \A n \in Nat : n \in T
<1> SUFFICES ASSUME {n \in Nat : n \notin T} # {} PROVE FALSE
  OBVIOUS
<1>1. PICK n \in {n \in Nat : n \notin T} : \A k \in {k \in Nat : k \notin T} : n <= k
  BY LeastNumber
<1>2. n # 0 /\ n - 1 \in Nat
  BY <1>1
<1>3. n - 1 \in T
  BY <1>1, <1>2
<1>4. n - 1 + 1 \in T
  BY <1>2, <1>3
<1> QED
  BY <1>1, <1>4

-----------------------------------------------------------------------------
(* The partial sums. *)

\* Taking the chosen element away leaves a smaller set.
LEMMA WithoutAny ==
  ASSUME NEW S, IsFiniteSet(S), NEW s \in SUBSET S, s # {}
  PROVE  /\ Any(s) \in s
         /\ s \ {Any(s)} \in SUBSET S
         /\ Cardinality(s) \in Nat
         /\ Cardinality(s \ {Any(s)}) = Cardinality(s) - 1
<1>1. Any(s) \in s
  BY DEF Any
<1>2. IsFiniteSet(s)
  BY FS_Subset
<1>3. Cardinality(s) \in Nat /\ Cardinality(s \ {Any(s)}) = Cardinality(s) - 1
  BY <1>1, <1>2, FS_CardinalityType, FS_RemoveElement
<1> QED
  BY <1>1, <1>3

LEMMA AllUpto ==
  ASSUME NEW S, IsFiniteSet(S)
  PROVE  /\ Cardinality(S) \in Nat
         /\ Upto(S, Cardinality(S)) = SUBSET S
         /\ Upto(S, 0) = {{}}
<1>1. Cardinality(S) \in Nat
  BY FS_CardinalityType
<1>2. \A s \in SUBSET S : IsFiniteSet(s) /\ Cardinality(s) \in Nat
                          /\ Cardinality(s) <= Cardinality(S)
  BY FS_Subset, FS_CardinalityType
<1>3. Upto(S, Cardinality(S)) = SUBSET S
  BY <1>2 DEF Upto
<1>4. \A s \in SUBSET S : Cardinality(s) <= 0 <=> s = {}
  BY <1>2, FS_EmptySet
<1> QED
  BY <1>1, <1>3, <1>4 DEF Upto

\* The recursion of the fold has a solution.
LEMMA SumsExist ==
  ASSUME NEW S, IsFiniteSet(S), NEW f
  PROVE  Sums(Partial(f, S), f, SUBSET S)
<1> DEFINE T == {n \in Nat : \E g : Sums(g, f, Upto(S, n))}
<1>1. 0 \in T
  <2>1. Sums([s \in {{}} |-> 0], f, {{}})
    BY DEF Sums
  <2> QED
    BY <2>1, AllUpto
<1>2. ASSUME NEW n \in Nat, n \in T PROVE n + 1 \in T
  <2>1. PICK g : Sums(g, f, Upto(S, n))
    BY <1>2
  <2> DEFINE h == [s \in Upto(S, n + 1) |->
                     IF s = {} THEN 0 ELSE f[Any(s)] + g[s \ {Any(s)}]]
  <2>2. ASSUME NEW s \in Upto(S, n + 1), s # {}
        PROVE  s \ {Any(s)} \in Upto(S, n)
    BY <2>2, WithoutAny DEF Upto
  <2>3. \A s \in Upto(S, n) : s \in Upto(S, n + 1)
    <3>1. \A s \in SUBSET S : Cardinality(s) \in Nat
      BY FS_Subset, FS_CardinalityType
    <3> QED
      BY <3>1 DEF Upto
  <2>4. ASSUME NEW s \in Upto(S, n) PROVE h[s] = g[s]
    <3>1. g[s] = IF s = {} THEN 0 ELSE f[Any(s)] + g[s \ {Any(s)}]
      BY <2>1, Zenon DEF Sums
    <3> QED
      BY <3>1, <2>3
  <2>5. \A s \in Upto(S, n + 1) :
          h[s] = IF s = {} THEN 0 ELSE f[Any(s)] + h[s \ {Any(s)}]
    BY <2>2, <2>4
  <2>6. h = [s \in Upto(S, n + 1) |->
               IF s = {} THEN 0 ELSE f[Any(s)] + h[s \ {Any(s)}]]
    BY <2>5
  <2>7. Sums(h, f, Upto(S, n + 1))
    BY <2>6 DEF Sums
  <2> HIDE DEF h
  <2> QED
    BY <2>7
<1>3. Cardinality(S) \in T
  <2> HIDE DEF T
  <2> QED
    BY <1>1, <1>2, AllNumbers, AllUpto
<1>4. \E g : Sums(g, f, SUBSET S)
  <2>1. PICK g : Sums(g, f, Upto(S, Cardinality(S)))
    BY <1>3
  <2>2. Upto(S, Cardinality(S)) = SUBSET S
    BY AllUpto
  <2> HIDE DEF T
  <2>3. Sums(g, f, SUBSET S)
    BY <2>1, <2>2
  <2> QED
    BY <2>3
<1> QED
  BY <1>4 DEF Partial

LEMMA TotalIs ==
  ASSUME NEW f, NEW S
  PROVE  Total(f, S) = Partial(f, S)[S]
BY DEF Total, MapThenSumSet, MapThenFoldSet, Sums, Any, Partial

\* The partial sum of a set that is not empty, by its chosen element.
LEMMA PartialOf ==
  ASSUME NEW S, IsFiniteSet(S), NEW f, NEW s \in SUBSET S
  PROVE  Partial(f, S)[s] =
           IF s = {} THEN 0 ELSE f[Any(s)] + Partial(f, S)[s \ {Any(s)}]
<1>1. PICK g : g = Partial(f, S)
  OBVIOUS
<1>2. g = [r \in SUBSET S |-> IF r = {} THEN 0 ELSE f[Any(r)] + g[r \ {Any(r)}]]
  <2>1. Sums(g, f, SUBSET S)
    BY SumsExist, <1>1
  <2> QED
    BY <2>1 DEF Sums
<1>3. g[s] = IF s = {} THEN 0 ELSE f[Any(s)] + g[s \ {Any(s)}]
  BY <1>2, Zenon
<1> QED
  BY <1>1, <1>3

-----------------------------------------------------------------------------
(* The sums. *)

\* The sum of what is at most d more at one place is at most d more; and sums
\* of natural numbers are natural numbers.
LEMMA PartialsGrow ==
  ASSUME NEW S, IsFiniteSet(S), NEW f, NEW h, NEW m, NEW d \in Nat,
         AtMost(h, f, S, m, d)
  PROVE  \A s \in SUBSET S :
           /\ Partial(f, S)[s] \in Nat /\ Partial(h, S)[s] \in Nat
           /\ Partial(h, S)[s] <= Partial(f, S)[s] + IF m \in s THEN d ELSE 0
<1>1. PICK F : F = Partial(f, S)
  OBVIOUS
<1>2. PICK H : H = Partial(h, S)
  OBVIOUS
<1> DEFINE Fine(s) == /\ F[s] \in Nat /\ H[s] \in Nat
                      /\ H[s] <= F[s] + IF m \in s THEN d ELSE 0
           T == {n \in Nat : \A s \in Upto(S, n) : Fine(s)}
<1>3. Fine({})
  <2>1. Partial(f, S)[{}] = 0 /\ Partial(h, S)[{}] = 0
    BY PartialOf
  <2>2. F[{}] = 0 /\ H[{}] = 0
    BY <2>1, <1>1, <1>2
  <2> QED
    BY <2>2
<1>4. 0 \in T
  BY <1>3, AllUpto
<1>5. ASSUME NEW n \in Nat, n \in T PROVE n + 1 \in T
  <2> SUFFICES ASSUME NEW s \in Upto(S, n + 1), s # {} PROVE Fine(s)
    <3>1. n + 1 \in Nat
      OBVIOUS
    <3> HIDE DEF Fine
    <3> QED
      BY <1>3, <3>1
  <2>1. PICK x : x = Any(s)
    OBVIOUS
  <2>2. PICK r : r = s \ {x}
    OBVIOUS
  <2>3. x \in s /\ x \in S /\ r \in Upto(S, n)
    BY <2>1, <2>2, WithoutAny DEF Upto
  <2>4. Fine(r)
    BY <2>3, <1>5
  <2>5. F[s] = f[x] + F[r] /\ H[s] = h[x] + H[r]
    BY <2>1, <2>2, <1>1, <1>2, PartialOf DEF Upto
  <2>6. f[x] \in Nat /\ h[x] \in Nat
    BY <2>3 DEF AtMost
  <2>7. CASE x = m
    <3>1. m \in s /\ m \notin r /\ h[x] <= f[x] + d
      BY <2>7, <2>2, <2>3 DEF AtMost
    <3> QED
      BY <3>1, <2>4, <2>5, <2>6
  <2>8. CASE x # m
    <3>1. (m \in s <=> m \in r) /\ h[x] <= f[x]
      BY <2>8, <2>2, <2>3 DEF AtMost
    <3> QED
      BY <3>1, <2>4, <2>5, <2>6
  <2> QED
    BY <2>7, <2>8
<1>6. Cardinality(S) \in T
  <2> HIDE DEF T
  <2> QED
    BY <1>4, <1>5, AllNumbers, AllUpto
<1>7. \A s \in SUBSET S : Fine(s)
  BY <1>6, AllUpto
<1> QED
  BY <1>1, <1>2, <1>7

LEMMA TotalGrows ==
  ASSUME NEW S, IsFiniteSet(S), NEW f, NEW h, NEW m, NEW d \in Nat,
         AtMost(h, f, S, m, d)
  PROVE  /\ Total(f, S) \in Nat /\ Total(h, S) \in Nat
         /\ Total(h, S) <= Total(f, S) + d
<1>1. S \in SUBSET S
  OBVIOUS
<1>2. \A s \in SUBSET S :
        /\ Partial(f, S)[s] \in Nat /\ Partial(h, S)[s] \in Nat
        /\ Partial(h, S)[s] <= Partial(f, S)[s] + IF m \in s THEN d ELSE 0
  BY PartialsGrow, Zenon
<1>3. /\ Partial(f, S)[S] \in Nat /\ Partial(h, S)[S] \in Nat
      /\ Partial(h, S)[S] <= Partial(f, S)[S] + IF m \in S THEN d ELSE 0
  BY <1>1, <1>2
<1> QED
  BY <1>3, TotalIs

LEMMA TotalIsNat ==
  ASSUME NEW S, IsFiniteSet(S), NEW f, \A x \in S : f[x] \in Nat
  PROVE  Total(f, S) \in Nat
<1>1. AtMost(f, f, S, 0, 0)
  BY DEF AtMost
<1> QED
  BY <1>1, TotalGrows

\* The sum of nothing but zeros.
LEMMA TotalOfZeros ==
  ASSUME NEW S, IsFiniteSet(S), NEW f, \A x \in S : f[x] = 0
  PROVE  Total(f, S) = 0
<1> DEFINE T == {n \in Nat : \A s \in Upto(S, n) : Partial(f, S)[s] = 0}
<1>1. Partial(f, S)[{}] = 0
  BY PartialOf
<1>2. 0 \in T
  BY <1>1, AllUpto
<1>3. ASSUME NEW n \in Nat, n \in T PROVE n + 1 \in T
  <2> SUFFICES ASSUME NEW s \in Upto(S, n + 1), s # {}
               PROVE  Partial(f, S)[s] = 0
    BY <1>1
  <2>1. Any(s) \in S /\ s \ {Any(s)} \in Upto(S, n)
    BY WithoutAny DEF Upto
  <2>2. Partial(f, S)[s] = f[Any(s)] + Partial(f, S)[s \ {Any(s)}]
    BY PartialOf DEF Upto
  <2>3. f[Any(s)] = 0 /\ Partial(f, S)[s \ {Any(s)}] = 0
    BY <2>1, <1>3
  <2> QED
    BY <2>2, <2>3
<1>4. Cardinality(S) \in T
  <2> HIDE DEF T
  <2> QED
    BY <1>2, <1>3, AllNumbers, AllUpto
<1> QED
  BY <1>4, AllUpto, TotalIs
=============================================================================
