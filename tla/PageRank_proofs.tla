-------------------------- MODULE PageRank_proofs --------------------------
(***************************************************************************)
(* Two things about PageRank, for any simple graph, any team and any       *)
(* number of iterations: pr_spmv computes the scores of the serial push    *)
(* iteration whatever the schedule, and both kernels stop only where the   *)
(* verifier, which runs another iteration, finds next to no change.        *)
(*                                                                         *)
(* The second is an argument about numbers.  While pr runs, the scores and *)
(* the contributions are a mixture of two iterations; the invariant keeps  *)
(* the scores r the iteration began with, and says that every contribution *)
(* that was added up was that of the old score or that of the new one of   *)
(* its vertex, so that error is all that the next iteration can add up to, *)
(* shrunk by kDamp and blurred by rounding.                                *)
(***************************************************************************)
EXTENDS PageRank, FiniteSetTheorems, WellFoundedInduction, TLAPS

-----------------------------------------------------------------------------
\* A set of numbers that is not empty has a least one.
LEMMA LeastNat == ASSUME NEW T, T \subseteq Nat, T # {} PROVE \E n \in T : \A m \in T : n <= m
<1> DEFINE Below(n) == 0 .. (n - 1)
           R == StrictSubsetOrdering(Nat)
           S == FiniteSubsetsOf(Nat)
           D == {Below(n) : n \in T}
<1>1. IsWellFoundedOn(R, S)
  BY FS_StrictSubsetOrderingWellFounded
<1>2. \A n \in T : Below(n) \in S
  BY FS_Interval DEF FiniteSubsetsOf
<1>3. D \subseteq S /\ D # {}
  BY <1>2
<1> HIDE DEF S, R, D
<1>4. PICK d \in D : \A x \in D : ~(<<x, d>> \in R)
  BY <1>1, <1>3, WFMin
<1>5. PICK n \in T : d = Below(n)
  BY <1>4 DEF D
<1>6. \A m \in T : n <= m
  <2> SUFFICES ASSUME NEW m \in T, m < n PROVE FALSE
    OBVIOUS
  <2>1. Below(m) \subseteq Below(n) /\ Below(m) # Below(n)
    <3>1. m \in Below(n) /\ m \notin Below(m)
      OBVIOUS
    <3> QED
      BY <3>1
  <2>2. <<Below(m), d>> \in R
    BY <1>5, <2>1 DEF R, StrictSubsetOrdering
  <2> QED
    BY <2>2, <1>4 DEF D
<1> QED
  BY <1>6

\* Induction up to n, over a set instead of a predicate.
LEMMA Upwards ==
  ASSUME NEW n \in Nat, NEW T, 0 \in T, \A k \in 1 .. n : k - 1 \in T => k \in T
  PROVE  \A k \in 0 .. n : k \in T
<1> DEFINE C == (0 .. n) \ T
<1> SUFFICES ASSUME C # {} PROVE FALSE
  OBVIOUS
<1>0. C \subseteq Nat
  OBVIOUS
<1>1. PICK k \in C : \A m \in C : k <= m
  <2> HIDE DEF C
  <2> QED
    BY <1>0, LeastNat
<1>2. k # 0 /\ k - 1 \in 0 .. n
  BY <1>1
<1>3. k - 1 \in T
  BY <1>1, <1>2
<1> QED
  BY <1>1, <1>2, <1>3

-----------------------------------------------------------------------------
(* A sum is the number of units in it: f[k] of them for every k.            *)

Pile(f, k) == {k} \X (1 .. f[k])
Units(f, S) == UNION {Pile(f, k) : k \in S}

LEMMA PileIs ==
  ASSUME NEW f, NEW k, f[k] \in Nat
  PROVE  IsFiniteSet(Pile(f, k)) /\ Cardinality(Pile(f, k)) = f[k]
<1> DEFINE n == f[k]
           h == [m \in 1 .. n |-> <<k, m>>]
<1>1. n \in Nat
  OBVIOUS
<1> HIDE DEF n
<1>2. IsFiniteSet(1 .. n) /\ Cardinality(1 .. n) = n
  BY <1>1, FS_Interval
<1>3. h \in Bijection(1 .. n, {k} \X (1 .. n))
  <2>1. \A m \in 1 .. n : h[m] = <<k, m>> /\ h[m] \in {k} \X (1 .. n)
    OBVIOUS
  <2>2. h \in [1 .. n -> {k} \X (1 .. n)]
    OBVIOUS
  <2>3. \A p \in {k} \X (1 .. n) : p[2] \in 1 .. n /\ h[p[2]] = p
    OBVIOUS
  <2>4. \A m, j \in 1 .. n : h[m] = h[j] => m = j
    OBVIOUS
  <2> HIDE DEF h
  <2>5. h \in Injection(1 .. n, {k} \X (1 .. n))
    BY <2>2, <2>4 DEF Injection, IsInjective
  <2>6. h \in Surjection(1 .. n, {k} \X (1 .. n))
    <3>1. \A p \in {k} \X (1 .. n) : \E m \in 1 .. n : h[m] = p
      BY <2>3
    <3> QED
      BY <2>2, <3>1 DEF Surjection
  <2> QED
    BY <2>5, <2>6 DEF Bijection
<1>4. ExistsBijection(1 .. n, {k} \X (1 .. n))
  BY <1>3 DEF ExistsBijection
<1>5. IsFiniteSet({k} \X (1 .. n)) /\ Cardinality({k} \X (1 .. n)) = n
  BY <1>2, <1>4, FS_Bijection
<1> QED
  BY <1>5 DEF Pile, n

LEMMA UnitsFinite ==
  ASSUME NEW f, NEW S, IsFiniteSet(S), \A k \in S : f[k] \in Nat
  PROVE  IsFiniteSet(Units(f, S)) /\ Cardinality(Units(f, S)) \in Nat
<1> DEFINE R == {Pile(f, k) : k \in S}
           h == [k \in S |-> Pile(f, k)]
<1>1. h \in Surjection(S, R)
  BY DEF Surjection
<1> HIDE DEF h
<1>2. IsFiniteSet(R)
  <2> HIDE DEF R
  <2> QED
    BY <1>1, FS_Surjection
<1>3. \A r \in R : IsFiniteSet(r)
  BY PileIs
<1> HIDE DEF R
<1>4. IsFiniteSet(UNION R)
  BY <1>2, <1>3, FS_UNION
<1> QED
  BY <1>4, FS_CardinalityType DEF R, Units

LEMMA UnitsUnion ==
  ASSUME NEW f, NEW A, NEW B, IsFiniteSet(A), IsFiniteSet(B), A \cap B = {},
         \A k \in A \cup B : f[k] \in Nat
  PROVE  Cardinality(Units(f, A \cup B)) = Cardinality(Units(f, A)) + Cardinality(Units(f, B))
<1> DEFINE X == Units(f, A)
           Y == Units(f, B)
<1>1. Units(f, A \cup B) = X \cup Y
  BY DEF Units
<1>2. X \cap Y = {}
  BY DEF Units, Pile
<1>3. /\ IsFiniteSet(X) /\ IsFiniteSet(Y)
      /\ Cardinality(X) \in Nat /\ Cardinality(Y) \in Nat
  BY UnitsFinite
<1> HIDE DEF X, Y
<1>4. Cardinality(X \cup Y) = Cardinality(X) + Cardinality(Y) - Cardinality(X \cap Y)
  BY <1>3, FS_Union
<1>5. Cardinality(X \cap Y) = 0
  BY <1>2, FS_EmptySet
<1>6. Cardinality(X \cup Y) = Cardinality(X) + Cardinality(Y)
  BY <1>3, <1>4, <1>5
<1> QED
  BY <1>1, <1>6 DEF X, Y

LEMMA UnitsOne ==
  ASSUME NEW f, NEW k, f[k] \in Nat
  PROVE  Cardinality(Units(f, {k})) = f[k]
<1>1. Units(f, {k}) = Pile(f, k)
  BY DEF Units
<1> QED
  BY <1>1, PileIs

\* The recursive definition that MapThenSumSet is made of.
Sums(f, S, h) ==
  h = [r \in SUBSET S |-> IF r = {} THEN 0
                          ELSE f[CHOOSE x \in r : TRUE] + h[r \ {CHOOSE x \in r : TRUE}]]

LEMMA UnitsAreSums ==
  ASSUME NEW f, NEW S, IsFiniteSet(S), \A k \in S : f[k] \in Nat
  PROVE  Sums(f, S, [r \in SUBSET S |-> Cardinality(Units(f, r))])
<1> DEFINE h == [r \in SUBSET S |-> Cardinality(Units(f, r))]
<1>1. ASSUME NEW r \in SUBSET S
      PROVE  h[r] = IF r = {} THEN 0
                    ELSE f[CHOOSE x \in r : TRUE] + h[r \ {CHOOSE x \in r : TRUE}]
  <2>1. CASE r = {}
    <3>1. Units(f, {}) = {}
      BY DEF Units
    <3> QED
      BY <2>1, <3>1, FS_EmptySet
  <2>2. CASE r # {}
    <3> DEFINE x == CHOOSE x \in r : TRUE
               q == r \ {x}
    <3>1. x \in r
      BY <2>2
    <3> HIDE DEF x
    <3>2. r = q \cup {x} /\ q \cap {x} = {} /\ q \in SUBSET S /\ x \in S
      BY <3>1
    <3>3. IsFiniteSet(q) /\ IsFiniteSet({x})
      BY <3>2, FS_Subset, FS_Singleton
    <3>4. \A k \in q \cup {x} : f[k] \in Nat
      BY <3>2
    <3> HIDE DEF q
    <3>5. Cardinality(Units(f, q \cup {x})) = Cardinality(Units(f, q)) + Cardinality(Units(f, {x}))
      BY <3>2, <3>3, <3>4, UnitsUnion
    <3>6. Cardinality(Units(f, {x})) = f[x]
      BY <3>4, UnitsOne
    <3>7. Cardinality(Units(f, q)) \in Nat
      BY <3>3, <3>4, UnitsFinite
    <3>8. h[r] = f[x] + h[q]
      BY <3>2, <3>4, <3>5, <3>6, <3>7
    <3> QED
      BY <2>2, <3>8 DEF q, x
  <2> QED
    BY <2>1, <2>2
<1>2. h = [r \in SUBSET S |-> h[r]]
  OBVIOUS
<1> HIDE DEF h
<1>3. Sums(f, S, h)
  BY <1>1, <1>2 DEF Sums
<1> QED
  BY <1>3 DEF h

\* There is only one solution.
LEMMA SumsAreUnits ==
  ASSUME NEW f, NEW S, IsFiniteSet(S), \A k \in S : f[k] \in Nat, NEW h, Sums(f, S, h)
  PROVE  h[S] = Cardinality(Units(f, S))
<1> DEFINE c == Cardinality(S)
           T == {n \in 0 .. c : \A r \in SUBSET S : Cardinality(r) = n => h[r] = Cardinality(Units(f, r))}
<1>0. \A r \in SUBSET S : h[r] = IF r = {} THEN 0
                                 ELSE f[CHOOSE x \in r : TRUE] + h[r \ {CHOOSE x \in r : TRUE}]
  BY DEF Sums
<1>1. /\ c \in Nat
      /\ \A r \in SUBSET S : IsFiniteSet(r) /\ Cardinality(r) \in Nat /\ Cardinality(r) <= c
  BY FS_CardinalityType, FS_Subset
<1> DEFINE w == [r \in SUBSET S |-> Cardinality(Units(f, r))]
<1>2. Sums(f, S, w)
  BY UnitsAreSums
<1>3. \A r \in SUBSET S : w[r] = IF r = {} THEN 0
                                 ELSE f[CHOOSE x \in r : TRUE] + w[r \ {CHOOSE x \in r : TRUE}]
  <2> HIDE DEF w
  <2> QED
    BY <1>2 DEF Sums
<1>4. 0 \in T
  <2>1. ASSUME NEW r \in SUBSET S, Cardinality(r) = 0 PROVE h[r] = w[r]
    <3>1. r = {}
      BY <1>1, <2>1, FS_EmptySet
    <3> HIDE DEF w
    <3> QED
      BY <1>0, <1>3, <3>1
  <2>2. 0 \in 0 .. c
    BY <1>1
  <2> QED
    BY <2>1, <2>2
<1>5. ASSUME NEW n \in 1 .. c, n - 1 \in T PROVE n \in T
  <2>1. ASSUME NEW r \in SUBSET S, Cardinality(r) = n PROVE h[r] = w[r]
    <3> DEFINE x == CHOOSE x \in r : TRUE
               q == r \ {x}
    <3>1. r # {}
      BY <1>1, <2>1, FS_EmptySet
    <3>2. x \in r
      BY <3>1
    <3> HIDE DEF x
    <3>3. q \in SUBSET S /\ Cardinality(q) = n - 1
      BY <1>1, <2>1, <3>2, FS_RemoveElement
    <3>4. h[q] = w[q]
      BY <1>5, <3>3
    <3> HIDE DEF w, q
    <3>5. h[r] = f[x] + h[q]
      BY <1>0, <3>1 DEF x, q
    <3>6. w[r] = f[x] + w[q]
      BY <1>3, <3>1 DEF x, q
    <3> QED
      BY <3>4, <3>5, <3>6
  <2>2. n \in 0 .. c
    BY <1>1, <1>5
  <2> QED
    BY <2>1, <2>2
<1> HIDE DEF T
<1>6. \A n \in 0 .. c : n \in T
  BY <1>1, <1>4, <1>5, Upwards
<1>7. c \in T
  BY <1>1, <1>6
<1> QED
  BY <1>7 DEF T


Total(f, S) == Cardinality(Units(f, S))

\* Induction over the subsets of a finite set, over a set of sets.
LEMMA SetUpwards ==
  ASSUME NEW S, IsFiniteSet(S), NEW T, {} \in T,
         \A A \in SUBSET S : \A x \in S \ A : A \in T => A \cup {x} \in T
  PROVE  S \in T
<1> DEFINE c == Cardinality(S)
           N == {n \in 0 .. c : \A A \in SUBSET S : Cardinality(A) = n => A \in T}
<1>1. /\ c \in Nat
      /\ \A A \in SUBSET S : IsFiniteSet(A) /\ Cardinality(A) \in Nat /\ Cardinality(A) <= c
  BY FS_CardinalityType, FS_Subset
<1> HIDE DEF c
<1>2. 0 \in N
  BY SMTT(30), <1>1, FS_EmptySet
<1>3. \A n \in 1 .. c : n - 1 \in N => n \in N
  <2> SUFFICES ASSUME NEW n \in 1 .. c, n - 1 \in N, NEW A \in SUBSET S, Cardinality(A) = n
               PROVE  A \in T
    BY <1>1
  <2>1. A # {}
    <3>1. Cardinality({}) = 0 /\ n # 0
      BY <1>1, FS_EmptySet
    <3> QED
      BY ONLY <3>1, Cardinality(A) = n
  <2>2. PICK x \in A : TRUE
    BY <2>1
  <2>3. Cardinality(A \ {x}) = n - 1
    BY <1>1, FS_RemoveElement
  <2>4. A \ {x} \in T
    BY <2>3
  <2>5. A \ {x} \in SUBSET S /\ x \in S \ (A \ {x}) /\ (A \ {x}) \cup {x} = A
    BY <2>2
  <2> QED
    BY <2>4, <2>5
<1> HIDE DEF N
<1>4. \A n \in 0 .. c : n \in N
  BY <1>1, <1>2, <1>3, Upwards
<1>5. c \in N
  BY <1>1, <1>4
<1> QED
  BY <1>5 DEF N, c

LEMMA TotalSteps ==
  ASSUME NEW f, NEW S, IsFiniteSet(S), \A k \in S : f[k] \in Nat
  PROVE  /\ Total(f, {}) = 0
         /\ \A A \in SUBSET S : Total(f, A) \in Nat
         /\ \A A \in SUBSET S : \A x \in S \ A : Total(f, A \cup {x}) = Total(f, A) + f[x]
<1>1. Total(f, {}) = 0
  BY FS_EmptySet DEF Total, Units
<1>2. \A A \in SUBSET S : IsFiniteSet(A)
  BY FS_Subset
<1>3. ASSUME NEW A \in SUBSET S PROVE Total(f, A) \in Nat
  BY <1>2, UnitsFinite DEF Total
<1>4. ASSUME NEW A \in SUBSET S, NEW x \in S \ A
      PROVE  Total(f, A \cup {x}) = Total(f, A) + f[x]
  <2>1. /\ IsFiniteSet(A) /\ IsFiniteSet({x}) /\ A \cap {x} = {}
        /\ \A k \in A \cup {x} : f[k] \in Nat
    BY <1>2
  <2>2. Cardinality(Units(f, A \cup {x})) = Cardinality(Units(f, A)) + Cardinality(Units(f, {x}))
    BY <2>1, UnitsUnion
  <2>3. Cardinality(Units(f, {x})) = f[x]
    BY UnitsOne
  <2> QED
    BY <2>2, <2>3 DEF Total
<1> QED
  BY <1>1, <1>3, <1>4

LEMMA TotalSame ==
  ASSUME NEW f, NEW h, NEW S, \A k \in S : f[k] = h[k]
  PROVE  Total(f, S) = Total(h, S)
<1>1. \A k \in S : Pile(f, k) = Pile(h, k)
  BY DEF Pile
<1> QED
  BY <1>1 DEF Total, Units

\* What is left out of a sum, and put back.
LEMMA TotalWithout ==
  ASSUME NEW f, NEW S, IsFiniteSet(S), \A k \in S : f[k] \in Nat, NEW x \in S
  PROVE  /\ Total(f, S) = Total(f, S \ {x}) + f[x]
         /\ Total(f, S) \in Nat /\ Total(f, S \ {x}) \in Nat
<1>1. (S \ {x}) \cup {x} = S /\ S \ {x} \in SUBSET S /\ x \in S \ (S \ {x})
  OBVIOUS
<1>2. Total(f, (S \ {x}) \cup {x}) = Total(f, S \ {x}) + f[x]
  <2>1. \A A \in SUBSET S : \A y \in S \ A : Total(f, A \cup {y}) = Total(f, A) + f[y]
    BY TotalSteps
  <2> QED
    BY ONLY <1>1, <2>1
<1>3. Total(f, S) \in Nat /\ Total(f, S \ {x}) \in Nat
  BY <1>1, TotalSteps
<1> QED
  BY <1>1, <1>2, <1>3

LEMMA TotalSum ==
  ASSUME NEW f, NEW h, NEW q, NEW S, IsFiniteSet(S),
         \A k \in S : f[k] \in Nat /\ h[k] \in Nat /\ q[k] \in Nat /\ f[k] <= h[k] + q[k]
  PROVE  Total(f, S) <= Total(h, S) + Total(q, S)
<1> DEFINE T == {A \in SUBSET S : Total(f, A) <= Total(h, A) + Total(q, A)}
<1>1. {} \in T
  BY TotalSteps
<1>2. ASSUME NEW A \in SUBSET S, NEW x \in S \ A, A \in T PROVE A \cup {x} \in T
  <2>1. /\ Total(f, A \cup {x}) = Total(f, A) + f[x] /\ Total(f, A) \in Nat
        /\ Total(h, A \cup {x}) = Total(h, A) + h[x] /\ Total(h, A) \in Nat
        /\ Total(q, A \cup {x}) = Total(q, A) + q[x] /\ Total(q, A) \in Nat
    BY TotalSteps
  <2>2. f[x] <= h[x] + q[x] /\ f[x] \in Nat /\ h[x] \in Nat /\ q[x] \in Nat
    OBVIOUS
  <2>3. Total(f, A) <= Total(h, A) + Total(q, A)
    BY <1>2
  <2> QED
    BY <2>1, <2>2, <2>3
<1> HIDE DEF T
<1>3. S \in T
  BY <1>1, <1>2, SetUpwards
<1> QED
  BY <1>3 DEF T

LEMMA TotalDamped ==
  ASSUME NEW f, NEW h, NEW S, IsFiniteSet(S),
         \A k \in S : f[k] \in Nat /\ h[k] \in Nat /\ 20 * f[k] <= 17 * h[k] + 20
  PROVE  20 * Total(f, S) <= 17 * Total(h, S) + 20 * Cardinality(S)
<1> DEFINE T == {A \in SUBSET S : 20 * Total(f, A) <= 17 * Total(h, A) + 20 * Cardinality(A)}
<1>1. {} \in T
  <2>1. Total(f, {}) = 0 /\ Total(h, {}) = 0 /\ Cardinality({}) = 0
    BY TotalSteps, FS_EmptySet
  <2> QED
    BY <2>1
<1>2. ASSUME NEW A \in SUBSET S, NEW x \in S \ A, A \in T PROVE A \cup {x} \in T
  <2>1. /\ Total(f, A \cup {x}) = Total(f, A) + f[x] /\ Total(f, A) \in Nat
        /\ Total(h, A \cup {x}) = Total(h, A) + h[x] /\ Total(h, A) \in Nat
    BY TotalSteps
  <2>2. 20 * f[x] <= 17 * h[x] + 20 /\ f[x] \in Nat /\ h[x] \in Nat
    OBVIOUS
  <2>3. 20 * Total(f, A) <= 17 * Total(h, A) + 20 * Cardinality(A)
    BY <1>2
  <2>4. IsFiniteSet(A)
    BY FS_Subset
  <2>5. Cardinality(A \cup {x}) = Cardinality(A) + 1 /\ Cardinality(A) \in Nat
    BY <2>4, FS_AddElement, FS_CardinalityType
  <2> QED
    BY <2>1, <2>2, <2>3, <2>5
<1> HIDE DEF T
<1>3. S \in T
  BY <1>1, <1>2, SetUpwards
<1> QED
  BY <1>3 DEF T

\* A sum of sums, added up the other way.
LEMMA TotalExchange ==
  ASSUME NEW S, NEW N, NEW R, NEW q, NEW b, IsFiniteSet(S), IsFiniteSet(N),
         \A x \in S : /\ q[x] \in Nat /\ b[x] \in Nat
                      /\ R[x] \subseteq N /\ q[x] * Cardinality(R[x]) <= b[x]
  PROVE  Total([n \in N |-> Total(q, {x \in S : n \in R[x]})], N) <= Total(b, S)
<1> DEFINE I(A) == [n \in N |-> Total(q, {x \in A : n \in R[x]})]
           T == {A \in SUBSET S : Total(I(A), N) <= Total(b, A)}
<1>0. ASSUME NEW A \in SUBSET S, NEW n \in N PROVE I(A)[n] \in Nat
  <2>1. {x \in A : n \in R[x]} \in SUBSET S
    OBVIOUS
  <2>2. Total(q, {x \in A : n \in R[x]}) \in Nat
    BY <2>1, TotalSteps
  <2> QED
    BY <2>2
<1>1. {} \in T
  <2>1. ASSUME NEW n \in N PROVE I({})[n] = 0
    <3>1. {x \in {} : n \in R[x]} = {}
      OBVIOUS
    <3>2. Total(q, {}) = 0
      BY TotalSteps
    <3> QED
      BY <3>1, <3>2
  <2>2. \A n \in N : Pile(I({}), n) = {}
    BY <2>1 DEF Pile
  <2>3. Total(I({}), N) = 0
    BY <2>2, FS_EmptySet DEF Total, Units
  <2>4. Total(b, {}) = 0
    BY TotalSteps
  <2> QED
    BY <2>3, <2>4
<1>2. ASSUME NEW A \in SUBSET S, NEW x \in S \ A, A \in T PROVE A \cup {x} \in T
  <2> DEFINE w == [n \in N |-> IF n \in R[x] THEN q[x] ELSE 0]
             f == I(A \cup {x})
             h == I(A)
  <2>1. q[x] \in Nat /\ b[x] \in Nat /\ R[x] \subseteq N /\ q[x] * Cardinality(R[x]) <= b[x]
    OBVIOUS
  <2>2. ASSUME NEW n \in N PROVE f[n] = h[n] + w[n]
    <3> DEFINE B == {y \in A : n \in R[y]}
    <3>0. f[n] = Total(q, {y \in A \cup {x} : n \in R[y]}) /\ h[n] = Total(q, B)
      OBVIOUS
    <3> HIDE DEF f, h
    <3>1. B \in SUBSET S /\ x \in S \ B
      OBVIOUS
    <3>2. Total(q, B \cup {x}) = Total(q, B) + q[x] /\ Total(q, B) \in Nat
      BY ZenonT(60), <3>1, TotalSteps
    <3>3. CASE n \in R[x]
      <4>1. {y \in A \cup {x} : n \in R[y]} = B \cup {x}
        BY <3>3
      <4> QED
        BY <3>0, <3>2, <3>3, <4>1
    <3>4. CASE n \notin R[x]
      <4>1. {y \in A \cup {x} : n \in R[y]} = B
        BY <3>4
      <4>2. w[n] = 0
        BY <3>4
      <4>3. f[n] = Total(q, B)
        BY <3>0, <4>1
      <4> HIDE DEF w, B
      <4> QED
        BY ONLY <3>0, <3>2, <4>2, <4>3
    <3> QED
      BY <3>3, <3>4
  <2>3. \A n \in N : w[n] \in Nat
    BY <2>1
  <2>4. \A n \in N : f[n] \in Nat /\ h[n] \in Nat
    BY <1>0
  <2>5. Total(w, N) = Cardinality(R[x]) * q[x]
    <3>1. \A n \in N : Pile(w, n) = IF n \in R[x] THEN {n} \X (1 .. q[x]) ELSE {}
      BY DEF Pile
    <3> HIDE DEF w
    <3>2. Units(w, N) = R[x] \X (1 .. q[x])
      BY <2>1, <3>1 DEF Units
    <3>3. IsFiniteSet(R[x]) /\ IsFiniteSet(1 .. q[x]) /\ Cardinality(1 .. q[x]) = q[x]
      <4>1. IsFiniteSet(R[x])
        BY <2>1, FS_Subset
      <4> DEFINE m == q[x]
      <4>2. m \in Nat
        BY <2>1
      <4> HIDE DEF m
      <4>3. IsFiniteSet(1 .. m) /\ Cardinality(1 .. m) = m
        BY <4>2, FS_Interval
      <4> QED
        BY <4>1, <4>3 DEF m
    <3> QED
      BY <3>2, <3>3, FS_Product DEF Total
  <2> HIDE DEF f, h, w
  <2>6. Total(f, N) <= Total(h, N) + Total(w, N)
    <3>1. \A n \in N : f[n] \in Nat /\ h[n] \in Nat /\ w[n] \in Nat /\ f[n] <= h[n] + w[n]
      BY <2>2, <2>3, <2>4
    <3> QED
      BY <3>1, TotalSum
  <2>7. Total(b, A \cup {x}) = Total(b, A) + b[x] /\ Total(b, A) \in Nat
    BY TotalSteps
  <2>8. Total(f, N) \in Nat /\ Total(h, N) \in Nat /\ Total(w, N) \in Nat
    <3>1. N \in SUBSET N
      OBVIOUS
    <3> QED
      BY <2>3, <2>4, <3>1, TotalSteps
  <2>9. Total(h, N) <= Total(b, A)
    BY <1>2 DEF h
  <2>10. Total(w, N) <= b[x]
    <3>1. IsFiniteSet(R[x])
      BY <2>1, FS_Subset
    <3>2. Cardinality(R[x]) \in Nat
      BY <3>1, FS_CardinalityType
    <3> QED
      BY <2>1, <2>5, <3>2
  <2>11. Total(f, N) <= Total(b, A \cup {x})
    BY <2>1, <2>6, <2>7, <2>8, <2>9, <2>10
  <2> QED
    BY <2>11 DEF f
<1> DEFINE all == I(S)
<1>3. S \in T
  <2> HIDE DEF T
  <2> QED
    BY <1>1, <1>2, SetUpwards
<1> QED
  BY <1>3

-----------------------------------------------------------------------------
(* The scores of serial iterations.                                         *)

First == [n \in Nodes |-> init_score]

\* h[m] are the scores after m iterations, up to n.
Follows(n, h) == h = [m \in 0 .. n |-> IF m = 0 THEN First ELSE Pushed(h[m - 1])]

LEMMA FollowsExists == ASSUME NEW n \in Nat PROVE \E h : Follows(n, h)
<1> DEFINE T == {m \in 0 .. n : \E h : Follows(m, h)}
<1>1. 0 \in T
  <2> DEFINE h == [m \in 0 .. 0 |-> First]
  <2>1. Follows(0, h)
    BY DEF Follows
  <2> QED
    BY <2>1
<1>2. \A k \in 1 .. n : k - 1 \in T => k \in T
  <2> SUFFICES ASSUME NEW k \in 1 .. n, k - 1 \in T PROVE k \in T
    OBVIOUS
  <2>1. PICK h : Follows(k - 1, h)
    OBVIOUS
  <2> DEFINE f == [m \in 0 .. k |-> IF m = k THEN Pushed(h[k - 1]) ELSE h[m]]
  <2>2. ASSUME NEW m \in 0 .. k
        PROVE  f[m] = IF m = 0 THEN First ELSE Pushed(f[m - 1])
    <3>1. CASE m = k
      BY <3>1
    <3>2. CASE m # k
      <4>1. m \in 0 .. k - 1 /\ f[m] = h[m] /\ (m # 0 => f[m - 1] = h[m - 1])
        BY <3>2
      <4>2. h[m] = IF m = 0 THEN First ELSE Pushed(h[m - 1])
        BY <2>1, <4>1 DEF Follows
      <4> QED
        BY <4>1, <4>2
    <3> QED
      BY <3>1, <3>2
  <2>3. f = [m \in 0 .. k |-> f[m]]
    OBVIOUS
  <2> HIDE DEF f
  <2>4. Follows(k, f)
    BY <2>2, <2>3 DEF Follows
  <2> QED
    BY <2>4
<1> HIDE DEF T
<1>3. \A k \in 0 .. n : k \in T
  BY <1>1, <1>2, Upwards
<1>4. n \in T
  BY <1>3
<1> QED
  BY <1>4 DEF T

LEMMA FollowsUnique ==
  ASSUME NEW n \in Nat, NEW N \in Nat, NEW h, NEW f, n <= N, Follows(n, h), Follows(N, f)
  PROVE  \A m \in 0 .. n : h[m] = f[m]
<1> DEFINE T == {m \in 0 .. n : h[m] = f[m]}
<1>1. \A m \in 0 .. n : /\ h[m] = IF m = 0 THEN First ELSE Pushed(h[m - 1])
                        /\ f[m] = IF m = 0 THEN First ELSE Pushed(f[m - 1])
  BY DEF Follows
<1>2. 0 \in T
  BY <1>1
<1>3. \A k \in 1 .. n : k - 1 \in T => k \in T
  BY <1>1
<1> HIDE DEF T
<1>4. \A m \in 0 .. n : m \in T
  BY <1>2, <1>3, Upwards
<1> QED
  BY <1>4 DEF T

IsAfter(f) == f = [k \in Nat |-> IF k = 0 THEN First ELSE Pushed(f[k - 1])]
After == CHOOSE f : IsAfter(f)

\* The function that Reproducible chooses solves its equation.
LEMMA AfterIs == After[0] = First /\ \A k \in Nat : After[k + 1] = Pushed(After[k])
<1> DEFINE H(k) == CHOOSE h : Follows(k, h)
           f == [k \in Nat |-> H(k)[k]]
<1>1. \A k \in Nat : Follows(k, H(k))
  BY FollowsExists
<1>2. ASSUME NEW k \in Nat PROVE f[k] = IF k = 0 THEN First ELSE Pushed(f[k - 1])
  <2>1. H(k)[k] = IF k = 0 THEN First ELSE Pushed(H(k)[k - 1])
    <3> DEFINE h == H(k)
    <3>1. Follows(k, h) /\ k \in 0 .. k
      BY <1>1
    <3> HIDE DEF h
    <3>2. h[k] = IF k = 0 THEN First ELSE Pushed(h[k - 1])
      BY <3>1 DEF Follows
    <3> QED
      BY <3>2 DEF h
  <2>2. CASE k = 0
    BY <2>1, <2>2
  <2>3. CASE k # 0
    <3>1. k - 1 \in Nat /\ k - 1 <= k /\ k - 1 \in 0 .. k - 1
      BY <2>3
    <3>2. Follows(k, H(k)) /\ Follows(k - 1, H(k - 1))
      BY <1>1, <3>1
    <3> HIDE DEF H
    <3>3. H(k - 1)[k - 1] = H(k)[k - 1]
      BY <3>1, <3>2, FollowsUnique
    <3> QED
      BY <2>1, <2>3, <3>1, <3>3
  <2> QED
    BY <2>2, <2>3
<1>3. f = [k \in Nat |-> f[k]]
  OBVIOUS
<1> HIDE DEF f
<1>4. IsAfter(f)
  BY <1>2, <1>3 DEF IsAfter
<1>5. IsAfter(After)
  BY <1>4 DEF After
<1>6. \A k \in Nat : After[k] = IF k = 0 THEN First ELSE Pushed(After[k - 1])
  <2> DEFINE A == After
  <2>1. IsAfter(A)
    BY <1>5
  <2> HIDE DEF A
  <2>2. \A k \in Nat : A[k] = IF k = 0 THEN First ELSE Pushed(A[k - 1])
    BY <2>1 DEF IsAfter
  <2> QED
    BY <2>2 DEF A
<1> QED
  BY <1>6

LEMMA AfterSame == ASSUME UNCHANGED g PROVE After' = After
BY DEF After, IsAfter, First, Pushed, Contribution, HasOutEdge, out_degree, MapThenSumSet, MapThenFoldSet

-----------------------------------------------------------------------------
(* One iteration.                                                           *)

Into(n) == {x \in Nodes : HasOutEdge(g, x, n)}
Contributions(s) == [x \in Nodes |-> Contribution(s[x], x)]

LEMMA Quotient == ASSUME NEW n \in Nat, NEW m \in Nat \ {0} PROVE n \div m \in Nat
<1> DEFINE q == n \div m
           r == n % m
<1>1. q \in Int /\ r \in 0 .. (m - 1) /\ n = m * q + r
  OBVIOUS
<1>2. q >= 0
  <2> SUFFICES ASSUME q <= -1 PROVE FALSE
    BY <1>1
  <2> HIDE DEF q, r
  <2>1. m * q <= m * (-1)
    BY <1>1
  <2> QED
    BY <1>1, <2>1
<1> QED
  BY <1>1, <1>2

LEMMA DampedNat == ASSUME NEW x \in Nat PROVE Damped(x) \in Nat /\ Damped(x) <= x
<1>1. 17 * x \in Nat /\ 20 \in Nat \ {0}
  OBVIOUS
<1>2. Damped(x) \in Nat
  BY <1>1, Quotient DEF Damped
<1>3. Damped(x) <= x
  BY DEF Damped
<1> QED
  BY <1>2, <1>3

LEMMA StartScores == init_score \in Nat /\ base_score \in Nat
<1>1. NumNodes \in Nat \ {0} /\ One \in Nat
  BY NumNodesAssumption, NumbersAssumption
<1>2. One - Damped(One) \in Nat
  BY <1>1, DampedNat
<1> QED
  BY <1>1, <1>2, Quotient DEF init_score, base_score

LEMMA ContributionNat ==
  ASSUME g \in Graphs, NEW s \in Nat, NEW n \in Nodes
  PROVE  Contribution(s, n) \in Nat
<1>1. g.out[n] \in Seq(Nodes)
  BY GraphsAssumption DEF IsGraph
<1>2. out_degree(g, n) \in Nat
  BY <1>1 DEF out_degree
<1> QED
  BY <1>2, Quotient DEF Contribution

LEMMA NodesFinite == IsFiniteSet(Nodes) /\ \A S \in SUBSET Nodes : IsFiniteSet(S)
<1>1. IsFiniteSet(Nodes)
  BY NumNodesAssumption, FS_Interval DEF Nodes
<1> QED
  BY <1>1, FS_Subset

\* A score after a serial iteration, with the sum as the size of a set.
LEMMA PushedIs ==
  ASSUME g \in Graphs, NEW s \in [Nodes -> Nat]
  PROVE  /\ Contributions(s) \in [Nodes -> Nat]
         /\ Pushed(s) \in [Nodes -> Nat]
         /\ \A n \in Nodes :
              Pushed(s)[n] = base_score + Damped(Total(Contributions(s), Into(n)))
<1> DEFINE F == Contributions(s)
           sums(n) == MapThenSumSet(LAMBDA x : Contribution(s[x], x),
                                    {x \in Nodes : HasOutEdge(g, x, n)})
<1>1. F \in [Nodes -> Nat]
  BY ContributionNat DEF Contributions
<1>2. ASSUME NEW n \in Nodes
      PROVE  /\ sums(n) = Total(F, Into(n))
             /\ Total(F, Into(n)) \in Nat
  <2> DEFINE S == Into(n)
             P(h) == h = [r \in SUBSET S |-> IF r = {} THEN 0
                            ELSE Contribution(s[CHOOSE x \in r : TRUE], CHOOSE x \in r : TRUE)
                                 + h[r \ {CHOOSE x \in r : TRUE}]]
             c == CHOOSE h : P(h)
  <2>1. sums(n) = c[S]
    BY DEF MapThenSumSet, MapThenFoldSet, Into
  <2>2. IsFiniteSet(S) /\ S \subseteq Nodes /\ \A k \in S : F[k] \in Nat
    BY <1>1, NodesFinite DEF Into
  <2> HIDE DEF S
  <2>3. \A x \in S : F[x] = Contribution(s[x], x)
    BY <2>2 DEF Contributions
  <2> HIDE DEF F
  <2>4. \A r \in SUBSET S : r # {} => (CHOOSE x \in r : TRUE) \in S
    OBVIOUS
  <2>5. ASSUME NEW h PROVE P(h) <=> Sums(F, S, h)
    <3>1. \A r \in SUBSET S :
             (IF r = {} THEN 0 ELSE Contribution(s[CHOOSE x \in r : TRUE], CHOOSE x \in r : TRUE)
                                    + h[r \ {CHOOSE x \in r : TRUE}])
             = (IF r = {} THEN 0 ELSE F[CHOOSE x \in r : TRUE] + h[r \ {CHOOSE x \in r : TRUE}])
      BY <2>3, <2>4
    <3> QED
      BY <3>1 DEF Sums
  <2>6. Sums(F, S, [r \in SUBSET S |-> Total(F, r)])
    BY <2>2, UnitsAreSums DEF Total
  <2> HIDE DEF P
  <2>7. P(c)
    BY <2>5, <2>6
  <2>8. Sums(F, S, c)
    BY <2>5, <2>7
  <2> HIDE DEF c
  <2>9. c[S] = Total(F, S)
    BY <2>2, <2>8, SumsAreUnits DEF Total
  <2>10. Total(F, S) \in Nat
    BY <2>2, UnitsFinite DEF Total
  <2> QED
    BY <2>1, <2>9, <2>10 DEF S
<1>3. Pushed(s) = [n \in Nodes |-> base_score + Damped(sums(n))]
  BY DEF Pushed
<1> HIDE DEF sums, F
<1>4. \A n \in Nodes : base_score + Damped(sums(n)) \in Nat
  BY <1>2, StartScores, DampedNat
<1>5. Pushed(s) \in [Nodes -> Nat]
  BY <1>3, <1>4
<1>6. \A n \in Nodes : Pushed(s)[n] = base_score + Damped(Total(F, Into(n)))
  BY <1>2, <1>3
<1> QED
  BY <1>1, <1>5, <1>6 DEF F

LEMMA AfterType == ASSUME g \in Graphs, NEW n \in Nat PROVE After[n] \in [Nodes -> Nat]
<1> DEFINE T == {k \in 0 .. n : After[k] \in [Nodes -> Nat]}
<1>1. 0 \in T
  BY AfterIs, StartScores DEF First
<1>2. \A k \in 1 .. n : k - 1 \in T => k \in T
  <2> SUFFICES ASSUME NEW k \in 1 .. n, k - 1 \in T PROVE k \in T
    OBVIOUS
  <2>1. k - 1 \in Nat /\ (k - 1) + 1 = k
    OBVIOUS
  <2>2. After[k] = Pushed(After[k - 1])
    BY <2>1, AfterIs
  <2> QED
    BY <2>2, PushedIs
<1> HIDE DEF T
<1>3. \A k \in 0 .. n : k \in T
  BY <1>1, <1>2, Upwards
<1>4. n \in T
  BY <1>3
<1> QED
  BY <1>4 DEF T

-----------------------------------------------------------------------------
(* The invariant.                                                           *)

\* The in-neighbours among the first k - 1 entries of n's in-list.
Seen(n, k) == {g.inv[n][j] : j \in 1 .. (k - 1)}

Types ==
  /\ g \in Graphs
  /\ scores \in [Nodes -> Nat] /\ outgoing_contrib \in [Nodes -> Nat]
  /\ iter \in Nat /\ phase \in {"contrib", "pull", "done"}
  /\ todo \subseteq Nodes
  /\ pc \in [Threads -> {"idle", "pull"}]
  /\ u \in [Threads -> Nodes] /\ i \in [Threads -> Nat] /\ incoming_total \in [Threads -> Nat]

\* Between the iterations, and in one: the vertices no thread holds or may still take are done.
Between == phase # "pull" => /\ scheme = "spmv" => scores = After[iter]
                             /\ \A t \in Threads : pc[t] = "idle"

Within ==
  phase = "pull" /\ scheme = "spmv" =>
    /\ outgoing_contrib = Contributions(After[iter])
    /\ \A n \in Nodes \ todo :
         (\A t \in Threads : pc[t] = "pull" => u[t] # n) => scores[n] = After[iter + 1][n]

Partial(t) ==
  /\ u[t] \notin todo /\ i[t] \in 1 .. (in_degree(g, u[t]) + 1)
  /\ scheme = "spmv" =>
       incoming_total[t] = Total(outgoing_contrib, Seen(u[t], i[t]))

Private == \A t \in Threads : pc[t] = "pull" =>
             Partial(t) /\ \A o \in Threads : pc[o] = "pull" /\ u[o] = u[t] => o = t

Fresh == \A t \in Threads : pc[t] = "idle" => incoming_total[t] = 0

IInv == Types /\ Between /\ Within /\ Private /\ Fresh

LEMMA SeenMore ==
  ASSUME g \in Graphs, NEW n \in Nodes, NEW k \in 1 .. in_degree(g, n)
  PROVE  /\ g.inv[n][k] \in Nodes
         /\ g.inv[n][k] \notin Seen(n, k)
         /\ Seen(n, k + 1) = Seen(n, k) \cup {g.inv[n][k]}
         /\ Seen(n, k) \subseteq Nodes
<1>1. g.inv[n] \in Seq(Nodes)
  BY GraphsAssumption DEF IsGraph
<1>2. Len(g.inv[n]) \in Nat /\ \A j \in 1 .. Len(g.inv[n]) : g.inv[n][j] \in Nodes
  BY <1>1
<1>3. \A a, b \in 1 .. Len(g.inv[n]) : g.inv[n][a] = g.inv[n][b] => a = b
  BY GraphsAssumption DEF IsSimple, in_degree
<1>4. k \in Nat /\ 1 .. ((k + 1) - 1) = (1 .. (k - 1)) \cup {k}
  BY <1>2 DEF in_degree
<1>5. k \in 1 .. Len(g.inv[n]) /\ 1 .. (k - 1) \subseteq 1 .. Len(g.inv[n]) /\ k \notin 1 .. (k - 1)
  BY <1>2 DEF in_degree
<1>6. Seen(n, k + 1) = Seen(n, k) \cup {g.inv[n][k]}
  BY <1>4 DEF Seen
<1>7. g.inv[n][k] \notin Seen(n, k)
  BY <1>3, <1>5 DEF Seen
<1>8. Seen(n, k) \subseteq Nodes
  BY <1>2, <1>5 DEF Seen
<1> QED
  BY <1>2, <1>5, <1>6, <1>7, <1>8

LEMMA SeenAll ==
  ASSUME g \in Graphs, NEW n \in Nodes
  PROVE  Seen(n, in_degree(g, n) + 1) = Into(n) /\ Seen(n, 1) = {} /\ in_degree(g, n) \in Nat
<1>1. g.inv[n] \in Seq(Nodes)
  BY GraphsAssumption DEF IsGraph
<1>2. Len(g.inv[n]) \in Nat /\ \A j \in 1 .. Len(g.inv[n]) : g.inv[n][j] \in Nodes
  BY <1>1
<1>3. \A x \in Nodes : HasOutEdge(g, x, n) <=> HasInEdge(g, n, x)
  BY GraphsAssumption DEF IsGraph
<1>4. (in_degree(g, n) + 1) - 1 = Len(g.inv[n])
  BY <1>2 DEF in_degree
<1>5. Seen(n, in_degree(g, n) + 1) = {g.inv[n][j] : j \in 1 .. Len(g.inv[n])}
  BY <1>4 DEF Seen
<1>6. Into(n) = {g.inv[n][j] : j \in 1 .. Len(g.inv[n])}
  BY <1>2, <1>3 DEF Into, HasInEdge, in_degree
<1> QED
  BY <1>2, <1>5, <1>6 DEF in_degree, Seen

LEMMA InitInv == Init => IInv
<1> SUFFICES ASSUME Init PROVE IInv
  OBVIOUS
<1>1. 0 \in Nodes
  BY NumNodesAssumption DEF Nodes
<1>2. scores \in [Nodes -> Nat] /\ scores = After[0]
  BY StartScores, AfterIs DEF Init, First
<1>3. Types
  BY <1>1, <1>2 DEF Init, Types
<1>4. Between /\ Within /\ Private /\ Fresh
  BY <1>2 DEF Init, Between, Within, Private, Fresh
<1> QED
  BY <1>3, <1>4 DEF IInv

LEMMA ContributeKeeps == IInv /\ Contribute => IInv'
<1> SUFFICES ASSUME IInv, Contribute PROVE IInv'
  OBVIOUS
<1>0. g' = g /\ g \in Graphs /\ iter' = iter /\ iter \in Nat /\ After' = After /\ phase' = "pull"
  BY AfterSame DEF IInv, Types, Contribute
<1>1. outgoing_contrib' = Contributions(scores)
  BY DEF Contribute, Contributions
<1>2. outgoing_contrib' \in [Nodes -> Nat]
  BY <1>1, PushedIs DEF IInv, Types
<1>3. Types'
  BY <1>0, <1>2 DEF IInv, Types, Contribute, locals
<1>4. \A t \in Threads : pc'[t] = "idle"
  BY DEF IInv, Between, Contribute, locals
<1>5. Between' /\ Private' /\ Fresh'
  BY <1>0, <1>4 DEF IInv, Between, Private, Fresh, Contribute, locals
<1>6. scheme = "spmv" => scores = After[iter]
  BY DEF IInv, Between, Contribute
<1>7. Contributions(After[iter])' = Contributions(After[iter])
  BY <1>0 DEF Contributions, Contribution, out_degree
<1>8. Within'
  BY <1>0, <1>1, <1>6, <1>7 DEF Within, Contribute
<1> QED
  BY <1>3, <1>5, <1>8 DEF IInv

LEMMA EndIterationKeeps == IInv /\ EndIteration => IInv'
<1> SUFFICES ASSUME IInv, EndIteration PROVE IInv'
  OBVIOUS
<1>0. /\ g' = g /\ g \in Graphs /\ iter' = iter + 1 /\ iter \in Nat /\ After' = After
      /\ phase = "pull" /\ todo = {} /\ scores' = scores /\ scheme' = scheme
      /\ scores \in [Nodes -> Nat]
  BY AfterSame DEF IInv, Types, EndIteration
<1>1. \A t \in Threads : pc[t] = "idle" /\ pc'[t] = "idle"
  BY DEF EndIteration, locals
<1>2. Types'
  BY <1>0 DEF IInv, Types, EndIteration, locals
<1>3. scheme = "spmv" => scores = After[iter + 1]
  <2> SUFFICES ASSUME scheme = "spmv" PROVE scores = After[iter + 1]
    OBVIOUS
  <2>1. \A n \in Nodes : scores[n] = After[iter + 1][n]
    BY <1>0, <1>1 DEF IInv, Within
  <2>2. After[iter + 1] \in [Nodes -> Nat]
    BY <1>0, AfterType
  <2> QED
    BY <1>0, <2>1, <2>2
<1>4. Between' /\ Private' /\ Fresh'
  BY <1>0, <1>1, <1>3 DEF IInv, Between, Private, Fresh, EndIteration, locals
<1>5. phase' = "pull" => scheme # "spmv"
  BY DEF EndIteration
<1>6. Within'
  BY <1>0, <1>5 DEF Within
<1> QED
  BY <1>2, <1>4, <1>6 DEF IInv

LEMMA ClaimKeeps == ASSUME NEW t \in Threads PROVE IInv /\ Claim(t) => IInv'
<1> SUFFICES ASSUME IInv, Claim(t) PROVE IInv'
  OBVIOUS
<1>0. /\ g' = g /\ g \in Graphs /\ iter' = iter /\ After' = After /\ scheme' = scheme
      /\ phase' = phase /\ phase = "pull" /\ pc[t] = "idle" /\ scores' = scores
      /\ outgoing_contrib' = outgoing_contrib /\ incoming_total' = incoming_total
  BY AfterSame DEF IInv, Types, Claim
<1>1. PICK n \in todo : todo' = todo \ {n} /\ u' = [u EXCEPT ![t] = n]
  BY DEF Claim
<1>2. n \in Nodes /\ Types
  BY DEF IInv, Types
<1>3. /\ u'[t] = n /\ i'[t] = 1 /\ pc'[t] = "pull"
      /\ \A o \in Threads : o # t => u'[o] = u[o] /\ i'[o] = i[o] /\ pc'[o] = pc[o]
  BY <1>1, <1>2 DEF Claim, Types
<1>4. Types'
  BY <1>0, <1>1, <1>2 DEF Types, Claim
<1>5. Between'
  BY <1>0 DEF Between
<1>6. Contributions(After[iter])' = Contributions(After[iter])
  BY <1>0 DEF Contributions, Contribution, out_degree
<1>7. Within'
  <2> SUFFICES ASSUME scheme = "spmv" PROVE Within'
    BY <1>0 DEF Within
  <2>1. outgoing_contrib' = Contributions(After[iter])'
    BY <1>0, <1>6 DEF IInv, Within
  <2>2. ASSUME NEW x \in Nodes \ todo', \A o \in Threads : pc'[o] = "pull" => u'[o] # x
        PROVE  scores'[x] = After'[iter' + 1][x]
    <3>1. x # n /\ x \in Nodes \ todo
      BY <1>1, <1>3, <2>2
    <3>2. \A o \in Threads : pc[o] = "pull" => u[o] # x
      BY <1>0, <1>3, <2>2
    <3>3. scores[x] = After[iter + 1][x]
      BY <1>0, <3>1, <3>2 DEF IInv, Within
    <3> QED
      BY <1>0, <3>3
  <2> QED
    BY <2>1, <2>2 DEF Within
<1>8. Private'
  <2> SUFFICES ASSUME NEW o \in Threads, pc'[o] = "pull"
               PROVE  Partial(o)' /\ \A p \in Threads : pc'[p] = "pull" /\ u'[p] = u'[o] => p = o
    BY DEF Private
  <2>1. \A p \in Threads : p # t /\ pc'[p] = "pull" => Partial(p) /\ u[p] # n /\ u[p] = u'[p]
    BY <1>1, <1>3 DEF IInv, Private, Partial
  <2>2. CASE o = t
    <3>1. in_degree(g, n) \in Nat /\ Seen(n, 1) = {}
      BY <1>0, <1>2, SeenAll
    <3>2. incoming_total[t] = 0 /\ Total(outgoing_contrib, {}) = 0
      BY <1>0, FS_EmptySet DEF IInv, Fresh, Total, Units
    <3>3. Seen(u[t], i[t])' = Seen(n, 1)
      BY <1>0, <1>3 DEF Seen
    <3>4. n \notin todo' /\ 1 \in 1 .. (in_degree(g, n) + 1)
      BY <1>1, <3>1
    <3>5. Partial(t)'
      BY <1>0, <1>3, <3>1, <3>2, <3>3, <3>4 DEF Partial
    <3> QED
      BY <1>3, <2>1, <2>2, <3>5
  <2>3. CASE o # t
    <3>1. Partial(o) /\ u'[o] = u[o] /\ i'[o] = i[o]
      BY <1>3, <2>1, <2>3
    <3>2. Seen(u[o], i[o])' = Seen(u[o], i[o])
      BY <1>0, <3>1 DEF Seen
    <3>3. Partial(o)'
      BY <1>0, <1>1, <3>1, <3>2 DEF Partial
    <3>4. \A p \in Threads : pc'[p] = "pull" /\ u'[p] = u'[o] => p = o
      <4> SUFFICES ASSUME NEW p \in Threads, pc'[p] = "pull", u'[p] = u'[o] PROVE p = o
        OBVIOUS
      <4>1. p # t
        BY <1>3, <2>1, <2>3
      <4> QED
        BY <1>3, <2>3, <4>1 DEF IInv, Private
    <3> QED
      BY <3>3, <3>4
  <2> QED
    BY <2>2, <2>3
<1>9. Fresh'
  BY <1>0, <1>3 DEF IInv, Fresh
<1> QED
  BY <1>4, <1>5, <1>7, <1>8, <1>9 DEF IInv

LEMMA PullKeeps == ASSUME NEW t \in Threads PROVE IInv /\ Pull(t) => IInv'
<1> SUFFICES ASSUME IInv, Pull(t) PROVE IInv'
  OBVIOUS
<1>0. /\ g' = g /\ g \in Graphs /\ iter' = iter /\ After' = After /\ scheme' = scheme
      /\ phase' = phase /\ pc' = pc /\ u' = u /\ scores' = scores /\ todo' = todo
      /\ outgoing_contrib' = outgoing_contrib /\ pc[t] = "pull" /\ Types
      /\ outgoing_contrib \in [Nodes -> Nat] /\ u[t] \in Nodes
  BY AfterSame DEF IInv, Types, Pull
<1> DEFINE n == u[t]
           k == i[t]
           x == g.inv[n][k]
<1>1. k \in 1 .. in_degree(g, n) /\ in_degree(g, n) \in Nat /\ Partial(t)
  BY <1>0, SeenAll DEF IInv, Private, Partial, Pull
<1>2. /\ x \in Nodes /\ x \notin Seen(n, k)
      /\ Seen(n, k + 1) = Seen(n, k) \cup {x}
      /\ Seen(n, k) \subseteq Nodes
  BY <1>0, <1>1, SeenMore
<1>3. /\ i'[t] = k + 1 /\ incoming_total'[t] = incoming_total[t] + outgoing_contrib[x]
      /\ \A o \in Threads : o # t => i'[o] = i[o] /\ incoming_total'[o] = incoming_total[o]
  BY <1>0 DEF Types, Pull
<1>4. outgoing_contrib[x] \in Nat /\ k + 1 \in Nat /\ incoming_total[t] \in Nat
  BY <1>0, <1>1, <1>2 DEF Types
<1>5. Types'
  BY <1>0, <1>4 DEF Types, Pull
<1>6. Contributions(After[iter])' = Contributions(After[iter])
  BY <1>0 DEF Contributions, Contribution, out_degree
<1>7. Between' /\ Within' /\ Fresh'
  BY <1>0, <1>3, <1>6 DEF IInv, Between, Within, Fresh
<1>8. ASSUME NEW o \in Threads, pc[o] = "pull" PROVE Partial(o)'
  <2>1. CASE o = t
    <3>1. Seen(u[t], i[t])' = Seen(n, k + 1)
      BY <1>0, <1>3 DEF Seen
    <3>2. ASSUME scheme = "spmv"
          PROVE  incoming_total'[t] = Total(outgoing_contrib, Seen(n, k + 1))
      <4>1. incoming_total[t] = Total(outgoing_contrib, Seen(n, k))
        BY <1>1, <3>2 DEF Partial
      <4> DEFINE A == Seen(n, k)
                 f == outgoing_contrib
                 y == x
      <4>2. /\ IsFiniteSet(A) /\ IsFiniteSet({y}) /\ A \cap {y} = {}
            /\ \A z \in A \cup {y} : f[z] \in Nat
        BY <1>0, <1>2, NodesFinite
      <4>3. Seen(n, k + 1) = A \cup {y} /\ f[y] \in Nat
        BY <1>2, <1>4
      <4>4. incoming_total'[t] = Total(f, A) + f[y]
        BY <1>3, <4>1
      <4> HIDE DEF A, f, y
      <4>5. Total(f, A \cup {y}) = Total(f, A) + Total(f, {y})
        BY <4>2, UnitsUnion DEF Total
      <4>6. Total(f, {y}) = f[y]
        BY <4>3, UnitsOne DEF Total
      <4>7. incoming_total'[t] = Total(f, Seen(n, k + 1))
        BY <4>3, <4>4, <4>5, <4>6
      <4> QED
        BY <4>7 DEF f
    <3>3. k + 1 \in 1 .. (in_degree(g, n) + 1) /\ n \notin todo
      BY <1>1 DEF Partial
    <3> HIDE DEF k
    <3> QED
      BY <1>0, <1>3, <2>1, <3>1, <3>2, <3>3 DEF Partial
  <2>2. CASE o # t
    <3>1. Partial(o) /\ i'[o] = i[o] /\ incoming_total'[o] = incoming_total[o]
      BY <1>3, <1>8, <2>2 DEF IInv, Private
    <3>2. Seen(u[o], i[o])' = Seen(u[o], i[o])
      BY <1>0, <3>1 DEF Seen
    <3> QED
      BY <1>0, <3>1, <3>2 DEF Partial
  <2> QED
    BY <2>1, <2>2
<1>9. Private'
  BY <1>0, <1>8 DEF IInv, Private
<1> QED
  BY <1>5, <1>7, <1>9 DEF IInv

LEMMA StoreKeeps == ASSUME NEW t \in Threads PROVE IInv /\ Store(t) => IInv'
<1> SUFFICES ASSUME IInv, Store(t) PROVE IInv'
  OBVIOUS
<1> DEFINE n == u[t]
           new == base_score + Damped(incoming_total[t])
<1>0. /\ g' = g /\ g \in Graphs /\ iter' = iter /\ After' = After /\ scheme' = scheme
      /\ phase' = phase /\ todo' = todo /\ pc[t] = "pull" /\ Types
      /\ outgoing_contrib \in [Nodes -> Nat] /\ n \in Nodes /\ iter \in Nat
      /\ incoming_total[t] \in Nat
  BY AfterSame DEF IInv, Types, Store
<1>1. 0 \in Nodes
  BY NumNodesAssumption DEF Nodes
<1>2. new \in Nat
  BY <1>0, StartScores, DampedNat
<1>3. scores' = [scores EXCEPT ![n] = new]
  BY DEF Store
<1>4. Contribution(new, n) \in Nat
  BY <1>0, <1>2, ContributionNat
<1>5. outgoing_contrib' = IF scheme = "spmv" THEN outgoing_contrib
                          ELSE [outgoing_contrib EXCEPT ![n] = Contribution(new, n)]
  BY DEF Store
<1> HIDE DEF new
<1>6. /\ pc'[t] = "idle" /\ incoming_total'[t] = 0
      /\ \A o \in Threads : o # t => /\ pc'[o] = pc[o] /\ u'[o] = u[o] /\ i'[o] = i[o]
                                      /\ incoming_total'[o] = incoming_total[o]
  BY <1>0 DEF Types, Store, Return
<1>7. Types'
  <2>1. scores' \in [Nodes -> Nat]
    BY <1>0, <1>2, <1>3 DEF Types
  <2>2. outgoing_contrib' \in [Nodes -> Nat]
    BY <1>0, <1>4, <1>5
  <2>3. /\ pc' \in [Threads -> {"idle", "pull"}]
        /\ u' \in [Threads -> Nodes] /\ i' \in [Threads -> Nat]
        /\ incoming_total' \in [Threads -> Nat]
    BY <1>0, <1>1 DEF Types, Store, Return
  <2> QED
    BY <1>0, <2>1, <2>2, <2>3 DEF Types
<1>8. Fresh'
  BY <1>6 DEF IInv, Fresh
<1>9. Partial(t) /\ \A o \in Threads : pc[o] = "pull" /\ u[o] = n => o = t
  BY <1>0 DEF IInv, Private
<1>10. phase = "pull"
  BY <1>0 DEF IInv, Between
<1>11. Between'
  BY <1>0, <1>10 DEF Between
<1>12. Private'
  <2> SUFFICES ASSUME NEW o \in Threads, pc'[o] = "pull"
               PROVE  Partial(o)' /\ \A p \in Threads : pc'[p] = "pull" /\ u'[p] = u'[o] => p = o
    BY DEF Private
  <2>1. o # t /\ pc[o] = "pull" /\ Partial(o)
    BY <1>6 DEF IInv, Private
  <2>2. u'[o] = u[o] /\ i'[o] = i[o] /\ incoming_total'[o] = incoming_total[o]
    BY <1>6, <2>1
  <2>3. Seen(u[o], i[o])' = Seen(u[o], i[o])
    BY <1>0, <2>2 DEF Seen
  <2>4. Partial(o)'
    BY <1>0, <1>5, <2>1, <2>2, <2>3 DEF Partial
  <2>5. \A p \in Threads : pc'[p] = "pull" => p # t /\ pc[p] = "pull" /\ u'[p] = u[p]
    BY <1>6
  <2>6. \A p \in Threads : pc'[p] = "pull" /\ u'[p] = u'[o] => p = o
    BY <2>1, <2>2, <2>5 DEF IInv, Private
  <2> QED
    BY <2>4, <2>6
<1>13. ASSUME scheme = "spmv" PROVE new = After[iter + 1][n]
  <2> DEFINE s == After[iter]
  <2>1. i[t] = in_degree(g, n) + 1
    <3>1. in_degree(g, n) \in Nat /\ i[t] \in 1 .. (in_degree(g, n) + 1)
      BY <1>0, <1>9, SeenAll DEF Partial
    <3> QED
      BY <3>1 DEF Store
  <2>2. Seen(n, i[t]) = Into(n)
    BY <1>0, <2>1, SeenAll
  <2>3. incoming_total[t] = Total(outgoing_contrib, Into(n))
    BY <1>9, <1>13, <2>2 DEF Partial
  <2>4. outgoing_contrib = Contributions(s)
    BY <1>10, <1>13 DEF IInv, Within
  <2>5. s \in [Nodes -> Nat]
    BY <1>0, AfterType
  <2>6. After[iter + 1] = Pushed(s)
    BY <1>0, AfterIs
  <2> HIDE DEF s
  <2>7. Pushed(s)[n] = base_score + Damped(Total(Contributions(s), Into(n)))
    BY <1>0, <2>5, PushedIs
  <2> QED
    BY <2>3, <2>4, <2>6, <2>7 DEF new
<1>14. Contributions(After[iter])' = Contributions(After[iter])
  BY <1>0 DEF Contributions, Contribution, out_degree
<1>15. Within'
  <2> SUFFICES ASSUME scheme = "spmv" PROVE Within'
    BY <1>0 DEF Within
  <2>1. outgoing_contrib' = Contributions(After[iter])'
    BY <1>5, <1>10, <1>14 DEF IInv, Within
  <2>2. ASSUME NEW x \in Nodes \ todo', \A o \in Threads : pc'[o] = "pull" => u'[o] # x
        PROVE  scores'[x] = After'[iter' + 1][x]
    <3>1. CASE x = n
      BY <1>0, <1>3, <1>13, <3>1 DEF Types
    <3>2. CASE x # n
      <4>1. \A o \in Threads : pc[o] = "pull" => u[o] # x
        BY <1>6, <2>2, <3>2
      <4>2. scores[x] = After[iter + 1][x]
        BY <1>0, <1>10, <2>2, <4>1 DEF IInv, Within
      <4> QED
        BY <1>0, <1>3, <2>2, <3>2, <4>2 DEF Types
    <3> QED
      BY <3>1, <3>2
  <2> QED
    BY <2>1, <2>2 DEF Within
<1> QED
  BY <1>7, <1>8, <1>11, <1>12, <1>15 DEF IInv

LEMMA NextKeeps == IInv /\ [Next]_vars => IInv'
<1> SUFFICES ASSUME IInv, [Next]_vars PROVE IInv'
  OBVIOUS
<1>1. CASE Contribute
  BY <1>1, ContributeKeeps
<1>2. CASE EndIteration
  BY <1>2, EndIterationKeeps
<1>3. ASSUME NEW t \in Threads, Claim(t) PROVE IInv'
  BY <1>3, ClaimKeeps
<1>4. ASSUME NEW t \in Threads, Pull(t) PROVE IInv'
  BY <1>4, PullKeeps
<1>5. ASSUME NEW t \in Threads, Store(t) PROVE IInv'
  BY <1>5, StoreKeeps
<1>6. CASE UNCHANGED vars
  <2>1. UNCHANGED <<scheme, g, scores, outgoing_contrib, iter, phase, todo, pc, u, i, incoming_total>>
    BY <1>6 DEF vars
  <2>2. After' = After
    BY <2>1, AfterSame
  <2>3. Types' /\ Between' /\ Fresh'
    BY <2>1, <2>2 DEF IInv, Types, Between, Fresh
  <2>4. Contributions(After[iter])' = Contributions(After[iter])
    BY <2>1, <2>2 DEF Contributions, Contribution, out_degree
  <2>5. Within'
    BY <2>1, <2>2, <2>4 DEF IInv, Within
  <2>6. Private'
    <3>1. ASSUME NEW t \in Threads, pc[t] = "pull" PROVE Partial(t)'
      <4>1. Partial(t) /\ Seen(u[t], i[t])' = Seen(u[t], i[t])
        BY <2>1, <3>1 DEF IInv, Private, Seen
      <4>2. Total(outgoing_contrib, Seen(u[t], i[t]))' = Total(outgoing_contrib, Seen(u[t], i[t]))
        BY <2>1, <4>1 DEF Total, Units, Pile
      <4> QED
        BY <2>1, <4>1, <4>2 DEF Partial, in_degree
    <3> QED
      BY <2>1, <3>1 DEF IInv, Private
  <2> QED
    BY <2>3, <2>5, <2>6 DEF IInv
<1> QED
  BY <1>1, <1>2, <1>3, <1>4, <1>5, <1>6 DEF Next

(***************************************************************************)
(* The variables of both kernels keep their types: scores, contributions   *)
(* and sums are numbers, and positions stay in the in-lists.               *)
(***************************************************************************)
THEOREM Typing == Spec => []Types
<1>1. IInv => Types
  BY DEF IInv
<1> QED
  BY <1>1, InitInv, NextKeeps, PTL DEF Spec

(***************************************************************************)
(* The schedule of the pull loop of pr_spmv does not show in the scores.   *)
(***************************************************************************)
THEOREM Reproducibility == Spec => []Reproducible
<1>1. IInv => Reproducible
  <2> SUFFICES ASSUME IInv, scheme = "spmv" /\ phase # "pull" PROVE Reproducible
    BY DEF Reproducible
  <2>1. scores = After[iter]
    BY DEF IInv, Between
  <2>2. After = CHOOSE f : f = [k \in Nat |-> IF k = 0 THEN [n \in Nodes |-> init_score]
                                              ELSE Pushed(f[k - 1])]
    BY DEF After, IsAfter, First
  <2> QED
    BY <2>1, <2>2 DEF Reproducible
<1> QED
  BY <1>1, InitInv, NextKeeps, PTL DEF Spec

-----------------------------------------------------------------------------
(* What rounding and mixing can do.                                         *)

LEMMA AbsIs == ASSUME NEW x \in Int PROVE Abs(x) \in Nat /\ (Abs(x) = x \/ Abs(x) = -x)
BY DEF Abs

\* Rounding moves a damped difference by one at most.
LEMMA DampedNear ==
  ASSUME NEW a \in Nat, NEW b \in Nat, NEW q \in Nat, a <= b + q, b <= a + q
  PROVE  20 * Abs(Damped(a) - Damped(b)) <= 17 * q + 20
<1>1. Damped(a) \in Nat /\ Damped(b) \in Nat
  BY DampedNat
<1>2. /\ 20 * Damped(a) <= 17 * a /\ 17 * a < 20 * Damped(a) + 20
      /\ 20 * Damped(b) <= 17 * b /\ 17 * b < 20 * Damped(b) + 20
  BY DEF Damped
<1>3. Damped(a) - Damped(b) \in Int
  BY <1>1
<1>4. \/ Abs(Damped(a) - Damped(b)) = Damped(a) - Damped(b)
      \/ Abs(Damped(a) - Damped(b)) = -(Damped(a) - Damped(b))
  BY <1>3, AbsIs
<1> QED
  BY <1>1, <1>2, <1>4

\* And a quotient, in multiples of its divisor.
LEMMA QuotientNear ==
  ASSUME NEW a \in Nat, NEW b \in Nat, NEW m \in Nat \ {0}
  PROVE  Abs((a \div m) - (b \div m)) * m <= Abs(a - b) + m
<1> DEFINE qa == a \div m
           qb == b \div m
           q == Abs(qa - qb)
<1>1. qa \in Nat /\ qb \in Nat
  BY Quotient
<1>2. m * qa <= a /\ a < m * qa + m /\ m * qb <= b /\ b < m * qb + m
  <2>1. \A n \in Nat : m * (n \div m) + (n % m) = n /\ n % m \in 0 .. (m - 1)
    OBVIOUS
  <2>2. m * qa + (a % m) = a /\ a % m \in 0 .. (m - 1)
    BY <2>1
  <2>3. m * qb + (b % m) = b /\ b % m \in 0 .. (m - 1)
    BY <2>1
  <2>4. m * qa \in Nat /\ m * qb \in Nat
    BY <1>1
  <2> HIDE DEF qa, qb
  <2> QED
    BY <2>2, <2>3, <2>4
<1> HIDE DEF qa, qb
<1>3. m * qa \in Nat /\ m * qb \in Nat
  BY <1>1
<1>4. a - b \in Int /\ qa - qb \in Int
  BY <1>1
<1>5. Abs(a - b) >= a - b /\ Abs(a - b) >= b - a
  BY <1>4 DEF Abs
<1>6. q = qa - qb \/ q = qb - qa
  BY <1>1, <1>4 DEF Abs
<1>7. (qa - qb) * m = m * qa - m * qb /\ (qb - qa) * m = m * qb - m * qa
  BY <1>1
<1>8. q * m = m * qa - m * qb \/ q * m = m * qb - m * qa
  BY <1>6, <1>7
<1>9. q * m <= Abs(a - b) + m
  <2> DEFINE x == m * qa
             y == m * qb
             z == q * m
             w == Abs(a - b)
  <2>1. x \in Nat /\ y \in Nat /\ w \in Nat /\ w >= a - b /\ w >= b - a
    BY <1>3, <1>4, <1>5, AbsIs
  <2>2. x <= a /\ a < x + m /\ y <= b /\ b < y + m /\ (z = x - y \/ z = y - x)
    BY <1>2, <1>8
  <2> HIDE DEF x, y, z, w
  <2>3. z <= w + m
    BY <2>1, <2>2
  <2> QED
    BY <2>3 DEF z, w
<1> QED
  BY <1>9 DEF qa, qb

Degrees == [x \in Nodes |-> out_degree(g, x)]
Targets(x) == {n \in Nodes : HasOutEdge(g, x, n)}

LEMMA DegreesAre ==
  ASSUME g \in Graphs, NEW x \in Nodes
  PROVE  out_degree(g, x) \in Nat /\ Cardinality(Targets(x)) <= out_degree(g, x)
<1>1. g.out[x] \in Seq(Nodes)
  BY GraphsAssumption DEF IsGraph
<1> DEFINE m == out_degree(g, x)
           h == [j \in 1 .. m |-> g.out[x][j]]
<1>2. m \in Nat /\ \A j \in 1 .. m : g.out[x][j] \in Nodes
  BY <1>1 DEF out_degree
<1>3. h \in Surjection(1 .. m, Targets(x))
  <2>1. \A n \in Targets(x) : \E j \in 1 .. m : h[j] = n
    BY DEF Targets, HasOutEdge
  <2>2. \A j \in 1 .. m : h[j] \in Targets(x)
    BY <1>2 DEF Targets, HasOutEdge
  <2>3. h \in [1 .. m -> Targets(x)]
    BY <2>2
  <2> HIDE DEF h
  <2> QED
    BY <2>1, <2>3 DEF Surjection
<1> HIDE DEF m, h
<1>4. IsFiniteSet(1 .. m) /\ Cardinality(1 .. m) = m
  BY <1>2, FS_Interval
<1>5. Cardinality(Targets(x)) <= Cardinality(1 .. m)
  BY <1>3, <1>4, FS_Surjection
<1>6. Cardinality(Targets(x)) <= m
  BY <1>4, <1>5
<1> QED
  BY <1>2, <1>6 DEF m

LEMMA EdgesAre ==
  ASSUME g \in Graphs
  PROVE  /\ Total(Degrees, Nodes) \in Nat
         /\ num_edges_directed(g) \in Nat /\ Total(Degrees, Nodes) <= num_edges_directed(g) + 1
<1> DEFINE entries == Cardinality(UNION {{x} \X (1 .. out_degree(g, x)) : x \in Nodes})
<1>1. entries = Total(Degrees, Nodes)
  <2>1. \A x \in Nodes : Pile(Degrees, x) = {x} \X (1 .. out_degree(g, x))
    BY DEF Pile, Degrees
  <2> QED
    BY <2>1 DEF Total, Units
<1>2. \A x \in Nodes : Degrees[x] \in Nat
  BY DegreesAre DEF Degrees
<1>3. Nodes \in SUBSET Nodes
  OBVIOUS
<1>4. Total(Degrees, Nodes) \in Nat
  BY <1>2, <1>3, NodesFinite, TotalSteps
<1>5. num_edges_directed(g) = IF g.directed THEN entries ELSE 2 * (entries \div 2)
  BY DEF num_edges_directed
<1> HIDE DEF entries
<1> QED
  BY <1>1, <1>4, <1>5

\* The change of the score of each vertex, and of its contribution.
Changes(s, r) == [n \in Nodes |-> Abs(s[n] - r[n])]
Shifts(s, r) == [x \in Nodes |-> Abs(Contribution(s[x], x) - Contribution(r[x], x))]

\* What a vertex gives to all its out-neighbours changes as much as its score does.
LEMMA ShiftsAre ==
  ASSUME g \in Graphs, NEW s \in [Nodes -> Nat], NEW r \in [Nodes -> Nat], NEW x \in Nodes
  PROVE  /\ Changes(s, r)[x] \in Nat /\ Shifts(s, r)[x] \in Nat
         /\ Shifts(s, r)[x] * Cardinality(Targets(x)) <= Changes(s, r)[x] + out_degree(g, x)
<1> DEFINE m == out_degree(g, x)
           c == Cardinality(Targets(x))
           q == Shifts(s, r)[x]
           b == Changes(s, r)[x]
<1>1. m \in Nat /\ c <= m /\ c \in Nat
  <2>1. IsFiniteSet(Targets(x))
    BY NodesFinite DEF Targets
  <2> QED
    BY <2>1, DegreesAre, FS_CardinalityType
<1>2. s[x] \in Nat /\ r[x] \in Nat /\ b = Abs(s[x] - r[x])
  BY DEF Changes
<1>3. Contribution(s[x], x) \in Nat /\ Contribution(r[x], x) \in Nat
  BY <1>2, ContributionNat
<1>4. q = Abs(Contribution(s[x], x) - Contribution(r[x], x)) /\ q \in Nat
  BY <1>3, AbsIs DEF Shifts
<1>5. b \in Nat
  BY <1>2, AbsIs
<1>6. CASE m = 0
  <2>1. c = 0
    BY <1>1, <1>6
  <2> HIDE DEF c, q, b
  <2>2. q * c = 0
    BY <1>4, <2>1
  <2> QED
    BY <1>1, <1>4, <1>5, <2>2 DEF c, q, b
<1>7. CASE m # 0
  <2>1. m \in Nat \ {0}
    BY <1>1, <1>7
  <2>2. q = Abs((s[x] \div m) - (r[x] \div m))
    BY <1>4, <1>7 DEF Contribution
  <2>3. q * m <= b + m
    <3> HIDE DEF m
    <3> QED
      BY <1>2, <2>1, <2>2, QuotientNear
  <2> HIDE DEF c, q, b, m
  <2>4. q * c <= q * m
    BY <1>1, <1>4
  <2>5. q * c \in Nat /\ q * m \in Nat
    BY <1>1, <1>4
  <2>6. q * c <= b + m
    BY <1>1, <1>5, <2>3, <2>4, <2>5
  <2> QED
    BY <1>4, <1>5, <2>6 DEF c, q, b, m
<1> QED
  BY <1>6, <1>7

\* What each score of the next iteration may be off, added up.
LEMMA ShiftsTotal ==
  ASSUME g \in Graphs, NEW s \in [Nodes -> Nat], NEW r \in [Nodes -> Nat]
  PROVE  /\ Total([n \in Nodes |-> Total(Shifts(s, r), Into(n))], Nodes)
              <= Total(Changes(s, r), Nodes) + Total(Degrees, Nodes)
         /\ Total(Changes(s, r), Nodes) \in Nat
         /\ Total([n \in Nodes |-> Total(Shifts(s, r), Into(n))], Nodes) \in Nat
         /\ \A n \in Nodes : Total(Shifts(s, r), Into(n)) \in Nat
<1> DEFINE q == Shifts(s, r)
           d == Changes(s, r)
           R == [x \in Nodes |-> Targets(x)]
           b == [x \in Nodes |-> d[x] + Degrees[x]]
           off == [n \in Nodes |-> Total(q, Into(n))]
<1>1. ASSUME NEW x \in Nodes
      PROVE  /\ q[x] \in Nat /\ d[x] \in Nat /\ Degrees[x] \in Nat /\ b[x] \in Nat
             /\ b[x] <= d[x] + Degrees[x]
             /\ R[x] \subseteq Nodes /\ q[x] * Cardinality(R[x]) <= b[x]
  <2>1. /\ q[x] \in Nat /\ d[x] \in Nat
        /\ q[x] * Cardinality(Targets(x)) <= d[x] + out_degree(g, x)
    BY ShiftsAre
  <2>2. Degrees[x] = out_degree(g, x) /\ Degrees[x] \in Nat
    BY DegreesAre DEF Degrees
  <2>3. R[x] = Targets(x) /\ R[x] \subseteq Nodes
    BY DEF Targets
  <2>4. b[x] = d[x] + Degrees[x]
    OBVIOUS
  <2> HIDE DEF q, d, b, R
  <2> QED
    BY <2>1, <2>2, <2>3, <2>4
<1>2. off = [n \in Nodes |-> Total(q, {x \in Nodes : n \in R[x]})]
  <2>1. \A n \in Nodes : {x \in Nodes : n \in R[x]} = Into(n)
    BY DEF Into, Targets
  <2> QED
    BY <2>1
<1>3. Nodes \in SUBSET Nodes /\ \A n \in Nodes : Into(n) \in SUBSET Nodes
  BY DEF Into
<1>4. \A n \in Nodes : off[n] = Total(q, Into(n))
  OBVIOUS
<1> HIDE DEF q, d, R, b, off
<1>5. Total(off, Nodes) <= Total(b, Nodes)
  <2>1. Total([n \in Nodes |-> Total(q, {x \in Nodes : n \in R[x]})], Nodes) <= Total(b, Nodes)
    BY <1>1, NodesFinite, TotalExchange
  <2> QED
    BY <1>2, <2>1
<1>6. Total(b, Nodes) <= Total(d, Nodes) + Total(Degrees, Nodes)
  BY <1>1, NodesFinite, TotalSum
<1>7. \A n \in Nodes : Total(q, Into(n)) \in Nat
  BY <1>1, <1>3, NodesFinite, TotalSteps
<1>8. Total(d, Nodes) \in Nat /\ Total(b, Nodes) \in Nat /\ Total(Degrees, Nodes) \in Nat
  BY <1>1, <1>3, NodesFinite, TotalSteps
<1>9. Total(off, Nodes) \in Nat
  BY <1>3, <1>4, <1>7, NodesFinite, TotalSteps
<1>10. Total(off, Nodes) <= Total(d, Nodes) + Total(Degrees, Nodes)
  BY <1>5, <1>6, <1>8, <1>9
<1> QED
  BY <1>7, <1>8, <1>9, <1>10 DEF off, q, d

Errors(s) == [n \in Nodes |-> Abs(Pushed(s)[n] - s[n])]

LEMMA ErrorsAre ==
  ASSUME g \in Graphs, NEW s \in [Nodes -> Nat]
  PROVE  /\ \A n \in Nodes : Errors(s)[n] \in Nat
         /\ TotalError(s) = Total(Errors(s), Nodes) /\ TotalError(s) \in Nat
<1> DEFINE F == Errors(s)
           S == Nodes
           P(h) == h = [r \in SUBSET S |-> IF r = {} THEN 0
                          ELSE Abs(Pushed(s)[CHOOSE x \in r : TRUE] - s[CHOOSE x \in r : TRUE])
                               + h[r \ {CHOOSE x \in r : TRUE}]]
           c == CHOOSE h : P(h)
<1>1. TotalError(s) = c[S]
  BY DEF TotalError, MapThenSumSet, MapThenFoldSet
<1>2. \A n \in Nodes : F[n] \in Nat
  <2> SUFFICES ASSUME NEW n \in Nodes PROVE F[n] \in Nat
    OBVIOUS
  <2>1. Pushed(s)[n] \in Nat /\ s[n] \in Nat
    BY PushedIs
  <2>2. Pushed(s)[n] - s[n] \in Int
    BY <2>1
  <2> QED
    BY <2>2, AbsIs DEF Errors
<1>3. \A x \in S : F[x] = Abs(Pushed(s)[x] - s[x])
  BY DEF Errors
<1>4. IsFiniteSet(S) /\ S \in SUBSET S /\ \A k \in S : F[k] \in Nat
  BY <1>2, NodesFinite
<1> HIDE DEF F, S
<1>5. \A r \in SUBSET S : r # {} => (CHOOSE x \in r : TRUE) \in S
  OBVIOUS
<1>6. ASSUME NEW h PROVE P(h) <=> Sums(F, S, h)
  <2>1. \A r \in SUBSET S :
           (IF r = {} THEN 0
            ELSE Abs(Pushed(s)[CHOOSE x \in r : TRUE] - s[CHOOSE x \in r : TRUE])
                 + h[r \ {CHOOSE x \in r : TRUE}])
           = (IF r = {} THEN 0 ELSE F[CHOOSE x \in r : TRUE] + h[r \ {CHOOSE x \in r : TRUE}])
    BY <1>3, <1>5
  <2> QED
    BY <2>1 DEF Sums
<1>7. Sums(F, S, [r \in SUBSET S |-> Total(F, r)])
  BY <1>4, UnitsAreSums DEF Total
<1> HIDE DEF P
<1>8. P(c)
  BY <1>6, <1>7
<1>9. Sums(F, S, c)
  BY <1>6, <1>8
<1> HIDE DEF c
<1>10. c[S] = Total(F, S)
  BY <1>4, <1>9, SumsAreUnits DEF Total
<1>11. Total(F, S) \in Nat
  BY <1>4, TotalSteps
<1>12. TotalError(s) = Total(F, S)
  BY <1>1, <1>10 DEF Total
<1> QED
  BY <1>4, <1>11, <1>12 DEF F, S

\* c is made of contributions before and after the iteration.
Mix(c, s, r) ==
  /\ c \in [Nodes -> Nat]
  /\ \A x \in Nodes : c[x] = Contribution(r[x], x) \/ c[x] = Contribution(s[x], x)

\* A score made of mixed contributions, against the next iteration's.
LEMMA MixNear ==
  ASSUME g \in Graphs, NEW s \in [Nodes -> Nat], NEW r \in [Nodes -> Nat],
         NEW c, Mix(c, s, r), NEW n \in Nodes, s[n] = base_score + Damped(Total(c, Into(n)))
  PROVE  20 * Errors(s)[n] <= 17 * Total(Shifts(s, r), Into(n)) + 20
<1> DEFINE f == Contributions(s)
           q == Shifts(s, r)
           A == Into(n)
<1>1. IsFiniteSet(A) /\ A \in SUBSET A /\ A \subseteq Nodes
  BY NodesFinite DEF Into
<1>2. ASSUME NEW x \in Nodes
      PROVE  /\ f[x] \in Nat /\ c[x] \in Nat /\ q[x] \in Nat
             /\ f[x] <= c[x] + q[x] /\ c[x] <= f[x] + q[x]
  <2> DEFINE k == Contribution(s[x], x)
             l == Contribution(r[x], x)
  <2>1. k \in Nat /\ l \in Nat
    BY ContributionNat
  <2>2. f[x] = k /\ q[x] = Abs(k - l) /\ (c[x] = l \/ c[x] = k)
    BY DEF Contributions, Shifts, Mix
  <2> HIDE DEF k, l, f, q
  <2>3. q[x] \in Nat /\ (q[x] = k - l \/ q[x] = -(k - l))
    BY <2>1, <2>2, AbsIs
  <2> QED
    BY <2>1, <2>2, <2>3
<1>3. Pushed(s)[n] = base_score + Damped(Total(f, A))
  BY PushedIs DEF Total
<1>4. Errors(s)[n] = Abs(Pushed(s)[n] - s[n])
  BY DEF Errors
<1> HIDE DEF f, q, A
<1>5. Total(f, A) \in Nat /\ Total(c, A) \in Nat /\ Total(q, A) \in Nat
  BY <1>1, <1>2, TotalSteps
<1>6. Total(f, A) <= Total(c, A) + Total(q, A)
  BY <1>1, <1>2, TotalSum
<1>7. Total(c, A) <= Total(f, A) + Total(q, A)
  BY <1>1, <1>2, TotalSum
<1>8. s[n] = base_score + Damped(Total(c, A))
  BY DEF A
<1>9. base_score \in Nat /\ Damped(Total(f, A)) \in Nat /\ Damped(Total(c, A)) \in Nat
  BY <1>5, StartScores, DampedNat
<1>10. Pushed(s)[n] - s[n] = Damped(Total(f, A)) - Damped(Total(c, A))
  BY <1>3, <1>8, <1>9
<1>11. 20 * Abs(Damped(Total(f, A)) - Damped(Total(c, A))) <= 17 * Total(q, A) + 20
  BY <1>5, <1>6, <1>7, DampedNear
<1> QED
  BY <1>4, <1>10, <1>11 DEF q, A

(* The next iteration would move the scores by kDamp times what this one    *)
(* moved them, but for rounding.                                            *)
LEMMA Contraction ==
  ASSUME g \in Graphs, NEW s \in [Nodes -> Nat], NEW r \in [Nodes -> Nat],
         \A n \in Nodes : \E c : Mix(c, s, r) /\ s[n] = base_score + Damped(Total(c, Into(n)))
  PROVE  20 * (TotalError(s) - Slack) <= 17 * Total(Changes(s, r), Nodes)
<1> DEFINE f == Errors(s)
           off == [n \in Nodes |-> Total(Shifts(s, r), Into(n))]
<1>1. \A n \in Nodes : 20 * f[n] <= 17 * off[n] + 20
  <2> SUFFICES ASSUME NEW n \in Nodes PROVE 20 * f[n] <= 17 * off[n] + 20
    OBVIOUS
  <2>1. PICK c : Mix(c, s, r) /\ s[n] = base_score + Damped(Total(c, Into(n)))
    OBVIOUS
  <2>2. off[n] = Total(Shifts(s, r), Into(n))
    OBVIOUS
  <2> HIDE DEF off
  <2> QED
    BY <2>1, <2>2, MixNear
<1>2. /\ Total(off, Nodes) <= Total(Changes(s, r), Nodes) + Total(Degrees, Nodes)
      /\ Total(Changes(s, r), Nodes) \in Nat /\ Total(off, Nodes) \in Nat
      /\ \A n \in Nodes : off[n] \in Nat
  BY ShiftsTotal
<1>3. /\ \A n \in Nodes : f[n] \in Nat
      /\ TotalError(s) = Total(f, Nodes) /\ TotalError(s) \in Nat
  BY ErrorsAre
<1> HIDE DEF f, off
<1>4. 20 * Total(f, Nodes) <= 17 * Total(off, Nodes) + 20 * Cardinality(Nodes)
  BY <1>1, <1>2, <1>3, NodesFinite, TotalDamped
<1>5. Cardinality(Nodes) = NumNodes /\ NumNodes \in Nat \ {0}
  <2>1. NumNodes \in Nat \ {0}
    BY NumNodesAssumption
  <2>2. Cardinality(0 .. (NumNodes - 1)) = NumNodes
    BY <2>1, FS_Interval
  <2> QED
    BY <2>1, <2>2 DEF Nodes
<1>6. /\ Total(Degrees, Nodes) \in Nat /\ num_edges_directed(g) \in Nat
      /\ Total(Degrees, Nodes) <= num_edges_directed(g) + 1
  BY EdgesAre
<1>7. Slack = num_edges_directed(g) + 2 * NumNodes
  BY DEF Slack
<1> QED
  BY <1>2, <1>3, <1>4, <1>5, <1>6, <1>7

\* A score that is off by the whole mass shows, whatever the others are.
LEMMA OffShows ==
  ASSUME g \in Graphs, NEW s \in [Nodes -> Nat], NEW n \in Nodes
  PROVE  TotalError([s EXCEPT ![n] = @ + One]) >= One - TotalError(s)
<1> DEFINE r == [s EXCEPT ![n] = @ + One]
<1>1. r \in [Nodes -> Nat] /\ r[n] = s[n] + One /\ \A x \in Nodes \ {n} : r[x] = s[x]
  BY NumbersAssumption
<1> HIDE DEF r
<1>2. Pushed(r)[n] = Pushed(s)[n] /\ Pushed(s)[n] \in Nat
  <2>1. Into(n) \subseteq Nodes \ {n}
    BY GraphsAssumption DEF IsSimple, Into
  <2>2. \A x \in Into(n) : Contributions(r)[x] = Contributions(s)[x]
    BY <1>1, <2>1 DEF Contributions
  <2>3. Total(Contributions(r), Into(n)) = Total(Contributions(s), Into(n))
    BY <2>2, TotalSame
  <2>4. /\ Pushed(r)[n] = base_score + Damped(Total(Contributions(r), Into(n)))
        /\ Pushed(s)[n] = base_score + Damped(Total(Contributions(s), Into(n)))
        /\ Pushed(s)[n] \in Nat
    BY <1>1, PushedIs DEF Total
  <2> QED
    BY <2>3, <2>4
<1>3. /\ Errors(r)[n] = Abs(Pushed(s)[n] - (s[n] + One))
      /\ Errors(s)[n] = Abs(Pushed(s)[n] - s[n])
  BY <1>1, <1>2 DEF Errors
<1>4. Errors(r)[n] + Errors(s)[n] >= One
  <2>1. Pushed(s)[n] \in Nat /\ s[n] \in Nat /\ One \in Nat
    BY <1>2, NumbersAssumption
  <2> QED
    BY <1>3, <2>1 DEF Abs
<1>5. ASSUME NEW f \in [Nodes -> Nat] PROVE Total(f, Nodes) \in Nat /\ f[n] <= Total(f, Nodes)
  <2>1. /\ Total(f, Nodes) = Total(f, Nodes \ {n}) + f[n]
        /\ Total(f, Nodes) \in Nat /\ Total(f, Nodes \ {n}) \in Nat
    BY NodesFinite, TotalWithout
  <2> QED
    BY <2>1
<1>6. /\ Errors(r) \in [Nodes -> Nat] /\ TotalError(r) = Total(Errors(r), Nodes)
      /\ Errors(s) \in [Nodes -> Nat] /\ TotalError(s) = Total(Errors(s), Nodes)
  <2>1. \A t \in [Nodes -> Nat] : Errors(t) = [m \in Nodes |-> Errors(t)[m]]
    BY DEF Errors
  <2>2. /\ \A m \in Nodes : Errors(r)[m] \in Nat /\ Errors(s)[m] \in Nat
        /\ TotalError(r) = Total(Errors(r), Nodes) /\ TotalError(s) = Total(Errors(s), Nodes)
    BY <1>1, ErrorsAre
  <2> QED
    BY <1>1, <2>1, <2>2
<1>7. /\ TotalError(r) \in Nat /\ Errors(r)[n] <= TotalError(r)
      /\ TotalError(s) \in Nat /\ Errors(s)[n] <= TotalError(s)
  BY <1>5, <1>6
<1>8. Errors(r)[n] \in Nat /\ Errors(s)[n] \in Nat /\ One \in Nat
  BY <1>6, NumbersAssumption
<1>9. TotalError(r) >= One - TotalError(s)
  BY <1>4, <1>7, <1>8
<1> QED
  BY <1>9 DEF r

-----------------------------------------------------------------------------
(* The scores while they are a mixture of two iterations'.                  *)

Finished(n) == n \notin todo /\ \A t \in Threads : pc[t] = "pull" => u[t] # n

\* The iteration began with the scores r.
Begun(r) ==
  /\ r \in [Nodes -> Nat]
  /\ error = Total(Changes(scores, r), Nodes)
  /\ Mix(outgoing_contrib, scores, r)
  /\ \A n \in Nodes :
       IF Finished(n) THEN \E c : Mix(c, scores, r) /\ scores[n] = base_score + Damped(Total(c, Into(n)))
                      ELSE scores[n] = r[n]
  /\ \A t \in Threads : pc[t] = "pull" =>
       \E c : Mix(c, scores, r) /\ incoming_total[t] = Total(c, Seen(u[t], i[t]))

Mixed ==
  /\ scheme \in {"gs", "spmv"} /\ error \in Nat
  /\ phase = "pull" => \E r : Begun(r)
  /\ phase = "pull" /\ scheme = "gs" => outgoing_contrib = Contributions(scores)

Settled == phase = "done" => 20 * (TotalError(scores) - Slack) <= 17 * error

MInv == IInv /\ Mixed /\ Settled /\ epsilon \in Nat

LEMMA NoChange ==
  ASSUME NEW s \in [Nodes -> Nat] PROVE Total(Changes(s, s), Nodes) = 0
<1>1. \A n \in Nodes : Pile(Changes(s, s), n) = {}
  BY DEF Pile, Changes, Abs
<1>2. Units(Changes(s, s), Nodes) = {}
  BY <1>1 DEF Units
<1> QED
  BY <1>2, FS_EmptySet DEF Total

\* TotalError depends on the graph and the scores only.
LEMMA SettledStays ==
  ASSUME Settled, IInv, UNCHANGED <<g, scores, error>>, phase' = "done" => phase = "done"
  PROVE  Settled'
<1>1. ASSUME phase' = "done" PROVE 20 * (TotalError(scores)' - Slack') <= 17 * error'
  <2>1. Slack' = Slack
    BY DEF Slack, num_edges_directed, out_degree
  <2>2. TotalError(scores)' = TotalError(scores)
    BY DEF TotalError, Pushed, Contribution, HasOutEdge, out_degree, MapThenSumSet, MapThenFoldSet
  <2> QED
    BY <1>1, <2>1, <2>2 DEF Settled
<1> QED
  BY <1>1 DEF Settled

LEMMA MixedInit == Init => MInv
<1> SUFFICES ASSUME Init PROVE MInv
  OBVIOUS
<1>1. IInv
  BY InitInv
<1>2. Mixed /\ Settled /\ epsilon \in Nat
  BY NumbersAssumption DEF Init, Mixed, Settled
<1> QED
  BY <1>1, <1>2 DEF MInv

LEMMA ContributeMixes == MInv /\ Contribute => MInv'
<1> SUFFICES ASSUME MInv, Contribute PROVE MInv'
  OBVIOUS
<1>0. /\ g' = g /\ g \in Graphs /\ scores' = scores /\ scores \in [Nodes -> Nat]
      /\ phase' = "pull" /\ todo' = Nodes /\ error' = 0 /\ scheme' = scheme /\ epsilon' = epsilon
  BY DEF MInv, IInv, Types, Contribute
<1>1. IInv'
  BY ContributeKeeps DEF MInv
<1>2. \A t \in Threads : pc'[t] = "idle"
  BY DEF MInv, IInv, Between, Contribute, locals
<1>3. outgoing_contrib' = Contributions(scores)
  BY DEF Contribute, Contributions
<1>4. Contributions(scores)' = Contributions(scores)
  BY <1>0 DEF Contributions, Contribution, out_degree
<1>5. Begun(scores)'
  <2>1. error' = Total(Changes(scores, scores), Nodes)
    BY <1>0, NoChange
  <2>2. Contributions(scores) \in [Nodes -> Nat]
    BY <1>0, PushedIs
  <2>3. Mix(outgoing_contrib, scores, scores)'
    BY <1>0, <1>3, <2>2 DEF Mix, Contributions, Contribution, out_degree
  <2>4. \A n \in Nodes : ~Finished(n)'
    BY <1>0 DEF Finished
  <2>5. Changes(scores, scores)' = Changes(scores, scores)
    BY <1>0 DEF Changes
  <2>6. Total(Changes(scores, scores), Nodes)' = Total(Changes(scores, scores), Nodes)
    BY <2>5 DEF Total, Units, Pile
  <2> QED
    BY <1>0, <1>2, <2>1, <2>3, <2>4, <2>6 DEF Begun
<1>6. Mixed'
  BY <1>0, <1>3, <1>4, <1>5 DEF MInv, Mixed
<1>7. Settled'
  BY <1>0 DEF Settled
<1> QED
  BY <1>0, <1>1, <1>6, <1>7 DEF MInv

LEMMA EndIterationSettles == MInv /\ EndIteration => MInv'
<1> SUFFICES ASSUME MInv, EndIteration PROVE MInv'
  OBVIOUS
<1>0. /\ g' = g /\ g \in Graphs /\ scores' = scores /\ scores \in [Nodes -> Nat]
      /\ outgoing_contrib' = outgoing_contrib /\ phase = "pull" /\ todo = {} /\ pc' = pc
      /\ scheme' = scheme /\ epsilon' = epsilon
  BY DEF MInv, IInv, Types, EndIteration, locals
<1>1. IInv'
  BY EndIterationKeeps DEF MInv
<1>2. \A t \in Threads : pc[t] = "idle"
  BY DEF EndIteration
<1>3. PICK r : Begun(r)
  BY <1>0 DEF MInv, Mixed
<1>4. 20 * (TotalError(scores) - Slack) <= 17 * error
  <2>1. \A n \in Nodes : Finished(n)
    BY <1>0, <1>2 DEF Finished
  <2>2. /\ r \in [Nodes -> Nat]
        /\ \A n \in Nodes : \E c : /\ Mix(c, scores, r)
                                   /\ scores[n] = base_score + Damped(Total(c, Into(n)))
    BY <1>3, <2>1 DEF Begun
  <2>3. 20 * (TotalError(scores) - Slack) <= 17 * Total(Changes(scores, r), Nodes)
    BY <1>0, <2>2, Contraction
  <2> QED
    BY <1>3, <2>3 DEF Begun
<1>5. phase' = "done" => error' = error
  BY <1>0 DEF EndIteration
<1>6. Settled'
  <2>1. ASSUME phase' = "done" PROVE 20 * (TotalError(scores)' - Slack') <= 17 * error'
    <3>1. Slack' = Slack
      BY <1>0 DEF Slack, num_edges_directed, out_degree
    <3>2. TotalError(scores)' = TotalError(scores)
      BY <1>0 DEF TotalError, Pushed, Contribution, HasOutEdge, out_degree, MapThenSumSet, MapThenFoldSet
    <3> QED
      BY <1>4, <1>5, <2>1, <3>1, <3>2
  <2> QED
    BY <2>1 DEF Settled
<1>7. ASSUME phase' = "pull"
      PROVE  Begun(scores)' /\ (scheme' = "gs" => outgoing_contrib' = Contributions(scores)')
  <2>1. scheme = "gs" /\ error' = 0 /\ todo' = Nodes
    BY <1>7 DEF MInv, Mixed, EndIteration
  <2>2. outgoing_contrib' = Contributions(scores)
    BY <1>0, <2>1 DEF MInv, Mixed
  <2>3. Contributions(scores)' = Contributions(scores)
    BY <1>0 DEF Contributions, Contribution, out_degree
  <2>4. Contributions(scores) \in [Nodes -> Nat]
    BY <1>0, PushedIs
  <2>5. Mix(outgoing_contrib, scores, scores)'
    BY <1>0, <2>2, <2>4 DEF Mix, Contributions, Contribution, out_degree
  <2>6. \A n \in Nodes : ~Finished(n)'
    BY <2>1 DEF Finished
  <2>7. Total(Changes(scores, scores), Nodes)' = 0
    <3>1. Changes(scores, scores)' = Changes(scores, scores)
      BY <1>0 DEF Changes
    <3>2. Total(Changes(scores, scores), Nodes)' = Total(Changes(scores, scores), Nodes)
      BY <3>1 DEF Total, Units, Pile
    <3> QED
      BY <1>0, <3>2, NoChange
  <2> QED
    BY <1>0, <1>2, <2>1, <2>2, <2>3, <2>5, <2>6, <2>7 DEF Begun
<1>8. error' \in Nat
  BY DEF MInv, Mixed, EndIteration
<1>9. Mixed'
  BY <1>0, <1>7, <1>8 DEF MInv, Mixed
<1> QED
  BY <1>0, <1>1, <1>6, <1>9 DEF MInv

LEMMA ClaimMixes == ASSUME NEW t \in Threads PROVE MInv /\ Claim(t) => MInv'
<1> SUFFICES ASSUME MInv, Claim(t) PROVE MInv'
  OBVIOUS
<1>0. /\ g' = g /\ g \in Graphs /\ scores' = scores /\ scores \in [Nodes -> Nat]
      /\ outgoing_contrib' = outgoing_contrib /\ phase = "pull" /\ phase' = phase
      /\ scheme' = scheme /\ epsilon' = epsilon /\ error' = error /\ pc[t] = "idle"
      /\ incoming_total' = incoming_total
  BY DEF MInv, IInv, Types, Claim
<1>1. IInv'
  BY ClaimKeeps DEF MInv
<1>2. PICK r : Begun(r)
  BY <1>0 DEF MInv, Mixed
<1>3. PICK n \in todo : todo' = todo \ {n} /\ u' = [u EXCEPT ![t] = n]
  BY DEF Claim
<1>4. n \in Nodes /\ Types
  BY DEF MInv, IInv, Types
<1>5. /\ u'[t] = n /\ i'[t] = 1 /\ pc'[t] = "pull"
      /\ \A o \in Threads : o # t => u'[o] = u[o] /\ i'[o] = i[o] /\ pc'[o] = pc[o]
  BY <1>3, <1>4 DEF Claim, Types
<1>6. \A m \in Nodes : Finished(m)' <=> Finished(m)
  BY <1>0, <1>3, <1>5 DEF Finished
<1>7. \A c : Mix(c, scores, r)' <=> Mix(c, scores, r)
  BY <1>0 DEF Mix, Contribution, out_degree
<1>8. \A c, m : Total(c, Into(m))' = Total(c, Into(m))
  BY <1>0 DEF Total, Units, Pile, Into, HasOutEdge, out_degree
<1>9. ASSUME NEW o \in Threads, pc'[o] = "pull"
      PROVE  \E c : Mix(c, scores, r)' /\ incoming_total'[o] = Total(c, Seen(u[o], i[o]))'
  <2>1. CASE o = t
    <3>1. incoming_total[t] = 0
      BY <1>0 DEF MInv, IInv, Fresh
    <3>2. Seen(u[t], i[t])' = {}
      BY <1>5 DEF Seen
    <3>3. PICK c : c = outgoing_contrib
      OBVIOUS
    <3>4. Mix(c, scores, r)'
      BY <1>2, <1>7, <3>3 DEF Begun
    <3>5. Total(c, Seen(u[t], i[t]))' = 0
      BY <3>2, FS_EmptySet DEF Total, Units
    <3> QED
      BY <1>0, <2>1, <3>1, <3>4, <3>5
  <2>2. CASE o # t
    <3>1. PICK c : Mix(c, scores, r) /\ incoming_total[o] = Total(c, Seen(u[o], i[o]))
      BY <1>2, <1>5, <1>9, <2>2 DEF Begun
    <3>2. Total(c, Seen(u[o], i[o]))' = Total(c, Seen(u[o], i[o]))
      <4>1. Seen(u[o], i[o])' = Seen(u[o], i[o])
        BY <1>0, <1>5, <2>2 DEF Seen
      <4> QED
        BY <4>1 DEF Total, Units, Pile
    <3> QED
      BY <1>0, <1>7, <3>1, <3>2
  <2> QED
    BY <2>1, <2>2
<1>10. Begun(r)'
  <2>1. r \in [Nodes -> Nat] /\ error' = Total(Changes(scores, r), Nodes)'
    BY <1>0, <1>2 DEF Begun, Changes, Total, Units, Pile
  <2>2. Mix(outgoing_contrib, scores, r)'
    BY <1>0, <1>2 DEF Begun, Mix, Contribution, out_degree
  <2>3. ASSUME NEW m \in Nodes
        PROVE  IF Finished(m)' THEN \E c : /\ Mix(c, scores, r)'
                                           /\ scores'[m] = base_score + Damped(Total(c, Into(m))')
               ELSE scores'[m] = r[m]
    BY <1>0, <1>2, <1>6, <1>7, <1>8 DEF Begun
  <2>4. \A x : Damped(x)' = Damped(x)
    BY DEF Damped
  <2> QED
    BY <1>9, <2>1, <2>2, <2>3, <2>4 DEF Begun
<1>11. Contributions(scores)' = Contributions(scores)
  BY <1>0 DEF Contributions, Contribution, out_degree
<1>12. Mixed'
  BY <1>0, <1>10, <1>11 DEF MInv, Mixed
<1>13. Settled'
  BY <1>0 DEF Settled
<1> QED
  BY <1>0, <1>1, <1>12, <1>13 DEF MInv

LEMMA PullMixes == ASSUME NEW t \in Threads PROVE MInv /\ Pull(t) => MInv'
<1> SUFFICES ASSUME MInv, Pull(t) PROVE MInv'
  OBVIOUS
<1>0. /\ g' = g /\ g \in Graphs /\ scores' = scores /\ scores \in [Nodes -> Nat]
      /\ outgoing_contrib' = outgoing_contrib /\ phase' = phase /\ todo' = todo /\ pc' = pc
      /\ u' = u /\ scheme' = scheme /\ epsilon' = epsilon /\ error' = error
      /\ pc[t] = "pull" /\ Types /\ u[t] \in Nodes
  BY DEF MInv, IInv, Types, Pull
<1>1. IInv'
  BY PullKeeps DEF MInv
<1>2. phase = "pull"
  BY <1>0 DEF MInv, IInv, Between
<1>3. PICK r : Begun(r)
  BY <1>2 DEF MInv, Mixed
<1> DEFINE n == u[t]
           k == i[t]
           x == g.inv[n][k]
<1>4. k \in 1 .. in_degree(g, n) /\ in_degree(g, n) \in Nat
  BY <1>0, SeenAll DEF MInv, IInv, Private, Partial, Pull
<1>5. /\ x \in Nodes /\ x \notin Seen(n, k)
      /\ Seen(n, k + 1) = Seen(n, k) \cup {x}
      /\ Seen(n, k) \subseteq Nodes
  BY <1>0, <1>4, SeenMore
<1>6. /\ i'[t] = k + 1 /\ incoming_total'[t] = incoming_total[t] + outgoing_contrib[x]
      /\ \A o \in Threads : o # t => i'[o] = i[o] /\ incoming_total'[o] = incoming_total[o]
  BY <1>0 DEF Types, Pull
<1>7. \A c : Mix(c, scores, r)' <=> Mix(c, scores, r)
  BY <1>0 DEF Mix, Contribution, out_degree
<1>8. ASSUME NEW o \in Threads, pc'[o] = "pull"
      PROVE  \E c : Mix(c, scores, r)' /\ incoming_total'[o] = Total(c, Seen(u[o], i[o]))'
  <2>1. PICK c : Mix(c, scores, r) /\ incoming_total[o] = Total(c, Seen(u[o], i[o]))
    BY <1>0, <1>3, <1>8 DEF Begun
  <2>2. CASE o = t
    <3> DEFINE y == outgoing_contrib[x]
    <3>1. PICK b : b = [c EXCEPT ![x] = y]
      OBVIOUS
    <3>2. y \in Nat /\ (y = Contribution(r[x], x) \/ y = Contribution(scores[x], x))
      BY SMTT(30), <1>3, <1>5 DEF Begun, Mix
    <3>3. /\ b \in [Nodes -> Nat] /\ b[x] = y /\ \A z \in Nodes : z # x => b[z] = c[z]
      BY SMTT(30), <1>5, <2>1, <3>1, <3>2 DEF Mix
    <3>4. Mix(b, scores, r)
      BY <2>1, <3>2, <3>3 DEF Mix
    <3> DEFINE A == Seen(n, k)
               w == x
    <3>5. w \in Nodes /\ A \subseteq Nodes /\ w \notin A /\ Seen(n, k + 1) = A \cup {w}
      BY <1>5
    <3>6. \A z \in A : b[z] = c[z]
      BY <3>3, <3>5
    <3>7. Total(b, A) = Total(c, A)
      BY <3>6, TotalSame
    <3>8. Total(b, A \cup {w}) = Total(b, A) + b[w]
      <4>1. A \in SUBSET Nodes /\ w \in Nodes \ A /\ \A z \in Nodes : b[z] \in Nat
        BY SMTT(30), <3>3, <3>5
      <4> HIDE DEF A, w
      <4> QED
        BY <4>1, NodesFinite, TotalSteps
    <3>9. incoming_total'[t] = Total(b, Seen(n, k + 1))
      BY <1>6, <2>1, <2>2, <3>3, <3>5, <3>7, <3>8
    <3>10. Total(b, Seen(u[t], i[t]))' = Total(b, Seen(n, k + 1))
      <4>1. Seen(u[t], i[t])' = Seen(n, k + 1)
        BY <1>0, <1>6 DEF Seen
      <4> QED
        BY <4>1 DEF Total, Units, Pile
    <3> QED
      BY <1>7, <2>2, <3>4, <3>9, <3>10
  <2>3. CASE o # t
    <3>1. Total(c, Seen(u[o], i[o]))' = Total(c, Seen(u[o], i[o]))
      <4>1. Seen(u[o], i[o])' = Seen(u[o], i[o])
        BY <1>0, <1>6, <2>3 DEF Seen
      <4> QED
        BY <4>1 DEF Total, Units, Pile
    <3> QED
      BY <1>6, <1>7, <2>1, <2>3, <3>1
  <2> QED
    BY <2>2, <2>3
<1>9. Begun(r)'
  <2>1. r \in [Nodes -> Nat] /\ error' = Total(Changes(scores, r), Nodes)'
    BY <1>0, <1>3 DEF Begun, Changes, Total, Units, Pile
  <2>2. Mix(outgoing_contrib, scores, r)'
    BY <1>0, <1>3 DEF Begun, Mix, Contribution, out_degree
  <2>3. \A m \in Nodes : Finished(m)' <=> Finished(m)
    BY <1>0 DEF Finished
  <2>4. \A c, m : Total(c, Into(m))' = Total(c, Into(m))
    BY <1>0 DEF Total, Units, Pile, Into, HasOutEdge, out_degree
  <2>5. ASSUME NEW m \in Nodes
        PROVE  IF Finished(m)' THEN \E c : /\ Mix(c, scores, r)'
                                           /\ scores'[m] = base_score + Damped(Total(c, Into(m))')
               ELSE scores'[m] = r[m]
    BY <1>0, <1>3, <1>7, <2>3, <2>4 DEF Begun
  <2> QED
    BY <1>8, <2>1, <2>2, <2>5 DEF Begun
<1>10. Contributions(scores)' = Contributions(scores)
  BY <1>0 DEF Contributions, Contribution, out_degree
<1>11. Mixed'
  BY <1>0, <1>9, <1>10 DEF MInv, Mixed
<1>12. Settled'
  BY <1>0, <1>2 DEF Settled
<1> QED
  BY <1>0, <1>1, <1>11, <1>12 DEF MInv

LEMMA StoreMixes == ASSUME NEW t \in Threads PROVE MInv /\ Store(t) => MInv'
<1> SUFFICES ASSUME MInv, Store(t) PROVE MInv'
  OBVIOUS
<1> DEFINE n == u[t]
           new == base_score + Damped(incoming_total[t])
<1>0. /\ g' = g /\ g \in Graphs /\ scores \in [Nodes -> Nat] /\ n \in Nodes
      /\ phase' = phase /\ todo' = todo /\ scheme' = scheme /\ epsilon' = epsilon
      /\ pc[t] = "pull" /\ Types /\ incoming_total[t] \in Nat
      /\ outgoing_contrib \in [Nodes -> Nat] /\ scheme \in {"gs", "spmv"}
  BY DEF MInv, IInv, Types, Mixed, Store
<1>1. IInv'
  BY StoreKeeps DEF MInv
<1>2. phase = "pull"
  BY <1>0 DEF MInv, IInv, Between
<1>3. PICK r : Begun(r)
  BY <1>2 DEF MInv, Mixed
<1>4. new \in Nat
  BY <1>0, StartScores, DampedNat
<1>5. scores' = [scores EXCEPT ![n] = new] /\ error' = error + Abs(new - scores[n])
  BY DEF Store
<1>6. outgoing_contrib' = IF scheme = "spmv" THEN outgoing_contrib
                          ELSE [outgoing_contrib EXCEPT ![n] = Contribution(new, n)]
  BY DEF Store
<1>7. n \notin todo /\ ~Finished(n) /\ \A o \in Threads : pc[o] = "pull" /\ u[o] = n => o = t
  BY <1>0 DEF MInv, IInv, Private, Partial, Finished
<1>8. Seen(n, i[t]) = Into(n)
  <2>1. in_degree(g, n) \in Nat /\ i[t] \in 1 .. (in_degree(g, n) + 1)
    BY <1>0, SeenAll DEF MInv, IInv, Private, Partial
  <2>2. i[t] = in_degree(g, n) + 1
    BY <2>1 DEF Store
  <2> QED
    BY <1>0, <2>2, SeenAll
<1> HIDE DEF new
<1>9. /\ pc'[t] = "idle"
      /\ \A o \in Threads : o # t => /\ pc'[o] = pc[o] /\ u'[o] = u[o] /\ i'[o] = i[o]
                                     /\ incoming_total'[o] = incoming_total[o]
  BY <1>0 DEF Types, Store, Return
<1>10. scores' \in [Nodes -> Nat] /\ scores'[n] = new /\ \A x \in Nodes : x # n => scores'[x] = scores[x]
  BY <1>0, <1>4, <1>5
<1>11. /\ r \in [Nodes -> Nat] /\ scores[n] = r[n]
       /\ error = Total(Changes(scores, r), Nodes)
  BY <1>0, <1>3, <1>7 DEF Begun
<1>12. ASSUME NEW c, Mix(c, scores, r) PROVE Mix(c, scores, r)'
  <2>1. c \in [Nodes -> Nat]
    BY <1>12 DEF Mix
  <2>2. ASSUME NEW x \in Nodes
        PROVE  c[x] = Contribution(r[x], x)' \/ c[x] = Contribution(scores[x], x)'
    <3>1. c[x] = Contribution(r[x], x) \/ c[x] = Contribution(scores[x], x)
      BY <1>12 DEF Mix
    <3>2. x = n => c[x] = Contribution(r[x], x)
      BY <1>11, <3>1
    <3>3. x # n => scores'[x] = scores[x]
      BY <1>10
    <3> QED
      BY <1>0, <3>1, <3>2, <3>3 DEF Contribution, out_degree
  <2> QED
    BY <2>1, <2>2 DEF Mix
<1>13. Mix(outgoing_contrib, scores, r)'
  <2>1. Contribution(new, n) \in Nat
    BY <1>0, <1>4, ContributionNat
  <2>2. outgoing_contrib' \in [Nodes -> Nat]
    BY <1>0, <1>6, <2>1
  <2>3. ASSUME NEW x \in Nodes
        PROVE  outgoing_contrib'[x] = Contribution(r[x], x)'
                 \/ outgoing_contrib'[x] = Contribution(scores[x], x)'
    <3>1. /\ outgoing_contrib[x] = Contribution(r[x], x)
              \/ outgoing_contrib[x] = Contribution(scores[x], x)
      BY <1>3 DEF Begun, Mix
    <3>2. CASE x = n
      <4>1. outgoing_contrib'[n] = outgoing_contrib[n] \/ outgoing_contrib'[n] = Contribution(new, n)
        BY <1>0, <1>6
      <4> QED
        BY <1>0, <1>10, <1>11, <3>1, <3>2, <4>1 DEF Contribution, out_degree
    <3>3. CASE x # n
      <4>1. outgoing_contrib'[x] = outgoing_contrib[x] /\ scores'[x] = scores[x]
        BY <1>0, <1>6, <1>10, <3>3
      <4> QED
        BY <1>0, <3>1, <4>1 DEF Contribution, out_degree
    <3> QED
      BY <3>2, <3>3
  <2> QED
    BY <2>2, <2>3 DEF Mix
<1>14. error' = Total(Changes(scores, r), Nodes)' /\ error' \in Nat
  <2>1. PICK f : f = Changes(scores, r)
    OBVIOUS
  <2>2. PICK h : h = Changes(scores, r)'
    OBVIOUS
  <2>3. \A x \in Nodes : f[x] \in Nat /\ h[x] \in Nat
    <3> SUFFICES ASSUME NEW x \in Nodes PROVE f[x] \in Nat /\ h[x] \in Nat
      OBVIOUS
    <3>1. scores[x] - r[x] \in Int /\ scores'[x] - r[x] \in Int
      BY <1>0, <1>10, <1>11
    <3>2. f[x] = Abs(scores[x] - r[x]) /\ h[x] = Abs(scores'[x] - r[x])
      BY <2>1, <2>2 DEF Changes, Abs
    <3> QED
      BY <3>1, <3>2, AbsIs
  <2>4. \A x \in Nodes \ {n} : h[x] = f[x]
    BY <1>10, <2>1, <2>2 DEF Changes, Abs
  <2>5. f[n] = 0 /\ h[n] = Abs(new - scores[n])
    <3>1. f[n] = Abs(scores[n] - r[n]) /\ h[n] = Abs(scores'[n] - r[n])
      BY <1>0, <2>1, <2>2 DEF Changes, Abs
    <3>2. scores[n] - r[n] = 0 /\ scores'[n] - r[n] = new - scores[n]
      BY <1>0, <1>10, <1>11
    <3> QED
      BY <3>1, <3>2 DEF Abs
  <2>6. Total(h, Nodes \ {n}) = Total(f, Nodes \ {n})
    BY <2>4, TotalSame
  <2>7. /\ Total(f, Nodes) = Total(f, Nodes \ {n}) + f[n]
        /\ Total(h, Nodes) = Total(h, Nodes \ {n}) + h[n]
        /\ Total(f, Nodes \ {n}) \in Nat /\ Total(h, Nodes \ {n}) \in Nat
        /\ Total(h, Nodes) \in Nat
    BY <1>0, <2>3, NodesFinite, TotalWithout
  <2>8. error = Total(f, Nodes) /\ error' = error + Abs(new - scores[n])
    BY <1>5, <1>11, <2>1
  <2>9. error' = Total(h, Nodes)
    BY <2>3, <2>5, <2>6, <2>7, <2>8
  <2>10. Total(Changes(scores, r), Nodes)' = Total(h, Nodes)
    BY <2>2 DEF Total, Units, Pile
  <2> QED
    BY <2>7, <2>9, <2>10
<1>15. \A m \in Nodes : Finished(m)' <=> (m = n \/ Finished(m))
  BY <1>0, <1>7, <1>9 DEF Finished
<1>16. \A c, m : Total(c, Into(m))' = Total(c, Into(m))
  BY <1>0 DEF Total, Units, Pile, Into, HasOutEdge, out_degree
<1>17. ASSUME NEW m \in Nodes
       PROVE  IF Finished(m)' THEN \E c : /\ Mix(c, scores, r)'
                                          /\ scores'[m] = base_score + Damped(Total(c, Into(m))')
              ELSE scores'[m] = r[m]
  <2>1. CASE m = n
    <3>1. PICK c : Mix(c, scores, r) /\ incoming_total[t] = Total(c, Seen(n, i[t]))
      BY <1>0, <1>3 DEF Begun
    <3>2. Mix(c, scores, r)' /\ scores'[n] = base_score + Damped(Total(c, Into(n)))
      BY <1>8, <1>10, <1>12, <3>1 DEF new
    <3> QED
      BY <1>15, <1>16, <2>1, <3>2
  <2>2. CASE m # n /\ Finished(m)
    <3>1. PICK c : Mix(c, scores, r) /\ scores[m] = base_score + Damped(Total(c, Into(m)))
      BY <1>3, <2>2 DEF Begun
    <3>2. Mix(c, scores, r)' /\ scores'[m] = base_score + Damped(Total(c, Into(m))')
      BY <1>10, <1>12, <1>16, <2>2, <3>1
    <3> QED
      BY <1>15, <2>2, <3>2
  <2>3. CASE m # n /\ ~Finished(m)
    <3>1. scores[m] = r[m] /\ scores'[m] = scores[m]
      BY <1>3, <1>10, <2>3 DEF Begun
    <3> QED
      BY <1>15, <2>3, <3>1
  <2> QED
    BY <2>1, <2>2, <2>3
<1>18. ASSUME NEW o \in Threads, pc'[o] = "pull"
       PROVE  \E c : Mix(c, scores, r)' /\ incoming_total'[o] = Total(c, Seen(u[o], i[o]))'
  <2>1. o # t /\ pc[o] = "pull"
    BY <1>9, <1>18
  <2>2. PICK c : Mix(c, scores, r) /\ incoming_total[o] = Total(c, Seen(u[o], i[o]))
    BY <1>3, <2>1 DEF Begun
  <2>3. Seen(u[o], i[o])' = Seen(u[o], i[o])
    BY <1>0, <1>9, <2>1 DEF Seen
  <2>4. Total(c, Seen(u[o], i[o]))' = Total(c, Seen(u[o], i[o]))
    BY <2>3 DEF Total, Units, Pile
  <2> QED
    BY <1>9, <1>12, <2>1, <2>2, <2>4
<1>19. Begun(r)'
  BY <1>11, <1>13, <1>14, <1>17, <1>18 DEF Begun
<1>20. ASSUME scheme = "gs" PROVE outgoing_contrib' = Contributions(scores)'
  <2>1. outgoing_contrib = Contributions(scores)
    BY <1>2, <1>20 DEF MInv, Mixed
  <2>2. outgoing_contrib' = [outgoing_contrib EXCEPT ![n] = Contribution(new, n)]
    BY <1>6, <1>20
  <2>3. ASSUME NEW x \in Nodes PROVE outgoing_contrib'[x] = Contribution(scores[x], x)'
    <3>1. outgoing_contrib[x] = Contribution(scores[x], x)
      BY <2>1 DEF Contributions
    <3>2. CASE x = n
      BY <1>0, <1>10, <2>2, <3>2 DEF Contribution, out_degree
    <3>3. CASE x # n
      <4>1. outgoing_contrib'[x] = outgoing_contrib[x] /\ scores'[x] = scores[x]
        BY <1>0, <1>10, <2>2, <3>3
      <4> QED
        BY <1>0, <3>1, <4>1 DEF Contribution, out_degree
    <3> QED
      BY <3>2, <3>3
  <2>4. outgoing_contrib' = [x \in Nodes |-> outgoing_contrib'[x]]
    BY <1>0, <2>2
  <2> QED
    BY <2>3, <2>4 DEF Contributions
<1>21. Mixed'
  BY <1>0, <1>14, <1>19, <1>20 DEF Mixed
<1>22. Settled'
  BY <1>0, <1>2 DEF Settled
<1> QED
  BY <1>0, <1>1, <1>21, <1>22 DEF MInv

LEMMA NextMixes == MInv /\ [Next]_vars => MInv'
<1> SUFFICES ASSUME MInv, [Next]_vars PROVE MInv'
  OBVIOUS
<1>1. CASE Contribute
  BY <1>1, ContributeMixes
<1>2. CASE EndIteration
  BY <1>2, EndIterationSettles
<1>3. ASSUME NEW t \in Threads, Claim(t) PROVE MInv'
  BY <1>3, ClaimMixes
<1>4. ASSUME NEW t \in Threads, Pull(t) PROVE MInv'
  BY <1>4, PullMixes
<1>5. ASSUME NEW t \in Threads, Store(t) PROVE MInv'
  BY <1>5, StoreMixes
<1>6. CASE UNCHANGED vars
  <2>1. /\ UNCHANGED <<scheme, g, epsilon, scores, outgoing_contrib, iter, error, phase, todo>>
        /\ UNCHANGED <<pc, u, i, incoming_total>>
    BY <1>6 DEF vars
  <2>2. IInv'
    BY <1>6, NextKeeps DEF MInv
  <2>3. Settled'
    <3>1. Settled /\ IInv
      BY DEF MInv
    <3> QED
      BY <2>1, <3>1, SettledStays
  <2>4. \A c, r : Mix(c, scores, r)' <=> Mix(c, scores, r)
    BY <2>1 DEF Mix, Contribution, out_degree
  <2>5. \A c, m : Total(c, Into(m))' = Total(c, Into(m))
    BY <2>1 DEF Total, Units, Pile, Into, HasOutEdge, out_degree
  <2>6. \A c : \A t \in Threads : Total(c, Seen(u[t], i[t]))' = Total(c, Seen(u[t], i[t]))
    BY <2>1 DEF Total, Units, Pile, Seen
  <2>7. \A r : Total(Changes(scores, r), Nodes)' = Total(Changes(scores, r), Nodes)
    BY <2>1 DEF Total, Units, Pile, Changes
  <2>8. \A m \in Nodes : Finished(m)' <=> Finished(m)
    BY <2>1 DEF Finished
  <2>9. ASSUME NEW r, Begun(r) PROVE Begun(r)'
    <3>1. Mix(outgoing_contrib, scores, r)'
      BY <2>1, <2>9 DEF Begun, Mix, Contribution, out_degree
    <3>2. r \in [Nodes -> Nat] /\ error' = Total(Changes(scores, r), Nodes)'
      BY <2>1, <2>7, <2>9 DEF Begun
    <3>3. ASSUME NEW m \in Nodes
          PROVE  IF Finished(m)' THEN \E c : /\ Mix(c, scores, r)'
                                             /\ scores'[m] = base_score + Damped(Total(c, Into(m))')
                 ELSE scores'[m] = r[m]
      BY <2>1, <2>4, <2>5, <2>8, <2>9 DEF Begun
    <3>4. \A t \in Threads : pc'[t] = "pull" =>
            \E c : Mix(c, scores, r)' /\ incoming_total'[t] = Total(c, Seen(u[t], i[t]))'
      BY <2>1, <2>4, <2>6, <2>9 DEF Begun
    <3> QED
      BY <3>1, <3>2, <3>3, <3>4 DEF Begun
  <2>10. Contributions(scores)' = Contributions(scores)
    BY <2>1 DEF Contributions, Contribution, out_degree
  <2>11. Mixed'
    BY <2>1, <2>9, <2>10 DEF MInv, Mixed
  <2> QED
    BY <2>1, <2>2, <2>3, <2>11 DEF MInv
<1> QED
  BY <1>1, <1>2, <1>3, <1>4, <1>5, <1>6 DEF Next

(***************************************************************************)
(* A kernel that stops has settled: what the last iteration was made of,   *)
(* old or new contributions, does not matter, the verifier accepts the     *)
(* scores it left and no scores that are off by the whole mass.            *)
(***************************************************************************)
THEOREM Settling == Spec => []StopsSettled
<1>1. MInv => StopsSettled
  <2> SUFFICES ASSUME MInv, phase = "done" PROVE StopsSettled
    BY DEF StopsSettled
  <2>1. 20 * (TotalError(scores) - Slack) <= 17 * error
    BY DEF MInv, Settled
  <2>2. /\ g \in Graphs /\ scores \in [Nodes -> Nat] /\ error \in Nat /\ epsilon \in Nat
        /\ TotalError(scores) \in Nat /\ One \in Nat
    BY ErrorsAre, NumbersAssumption DEF MInv, IInv, Types, Mixed
  <2>3. Slack \in Nat
    BY <2>2, EdgesAre, NumNodesAssumption DEF Slack
  <2>4. error < epsilon /\ epsilon > 10 * Slack => PRVerifier(scores, epsilon)
    BY <2>1, <2>2, <2>3 DEF PRVerifier
  <2>5. ASSUME 20 * (epsilon + Slack) + 17 * error <= 20 * One, NEW n \in Nodes
        PROVE  ~PRVerifier([scores EXCEPT ![n] = @ + One], epsilon)
    <3> DEFINE s == [scores EXCEPT ![n] = @ + One]
    <3>1. TotalError(s) >= One - TotalError(scores)
      BY <2>2, OffShows
    <3>2. s \in [Nodes -> Nat]
      BY <2>2
    <3>3. TotalError(s) \in Nat
      BY <2>2, <3>2, ErrorsAre
    <3> HIDE DEF s
    <3>4. ~PRVerifier(s, epsilon)
      BY <2>1, <2>2, <2>3, <2>5, <3>1, <3>3 DEF PRVerifier
    <3> QED
      BY <3>4 DEF s
  <2> QED
    BY <2>1, <2>4, <2>5 DEF StopsSettled
<1> QED
  BY <1>1, MixedInit, NextMixes, PTL DEF Spec
=============================================================================
