------------------------- MODULE Counting_proofs -------------------------
(***************************************************************************)
(* Counts: of edges, into the lists of the builder; of shortest paths, in  *)
(* betweenness centrality.                                                 *)
(*                                                                         *)
(* A sum is taken as the size of a set of units, so that sums over parts   *)
(* are sizes of disjoint sets; nothing is said about the order in which a  *)
(* fold, a list or a race visits what is added up.                         *)
(*                                                                         *)
(* Builder: prefix sums are exact, and the parallel MakeCSR never tears a  *)
(* list, for any edge list, any number of threads and any size of a block. *)
(* The invariant keeps accounts: what is free in the list of a vertex is   *)
(* exactly what is still owed to it, by edges no thread has taken and by   *)
(* threads that have taken an edge and not reserved its slot.  That the    *)
(* account opens right is what the degrees and their prefix sums are for.  *)
(*                                                                         *)
(* Benchmark: in every trial the search has counted the shortest paths to  *)
(* a level when it is expanded, for any simple graph, team and number of   *)
(* sources.  The invariant keeps accounts again: to the count of a vertex  *)
(* of the level being built have been added the counts of exactly those    *)
(* neighbours whose successor bit is set and whose addition is not under   *)
(* way, and edges dealt with have their bits; so at the barrier the count  *)
(* is the sum over all the neighbours one level up.                        *)
(*                                                                         *)
(* The verifier never rejects: its serial search and the parallel one are  *)
(* the same because depths and counts of a complete search are determined  *)
(* by the walks; its dependencies are those that were accumulated because  *)
(* they are determined by those one level down; its sources are the same   *)
(* because the draws it has before it are those that led the kernel to     *)
(* its sources.                                                            *)
(***************************************************************************)
EXTENDS Builder, Benchmark, FiniteSetTheorems, SequenceTheorems, WellFoundedInduction, TLAPS

-----------------------------------------------------------------------------
\* A set of numbers that is not empty has a least one.
LEMMA LeastNat == ASSUME NEW T, T \subseteq Nat, T # {} PROVE \E n \in T : \A m \in T : n <= m
<1> DEFINE Below(n) == 0 .. (n - 1)
           R == StrictSubsetOrdering(Nat)
           S == FiniteSubsetsOf(Nat)
           D == {Below(n) : n \in T}
<1>1. IsWellFoundedOn(R, S)
  BY FS_StrictSubsetOrderingWellFounded
<1>2. \A n \in T : Below(n) \in S
  BY FS_Interval DEF FiniteSubsetsOf
<1>3. D \subseteq S /\ D # {}
  BY <1>2
<1> HIDE DEF S, R, D
<1>4. PICK degs \in D : \A x \in D : ~(<<x, degs>> \in R)
  BY <1>1, <1>3, WFMin
<1>5. PICK n \in T : degs = Below(n)
  BY <1>4 DEF D
<1>6. \A m \in T : n <= m
  <2> SUFFICES ASSUME NEW m \in T, m < n PROVE FALSE
    OBVIOUS
  <2>1. Below(m) \subseteq Below(n) /\ Below(m) # Below(n)
    <3>1. m \in Below(n) /\ m \notin Below(m)
      OBVIOUS
    <3> QED
      BY <3>1
  <2>2. <<Below(m), degs>> \in R
    BY <1>5, <2>1 DEF R, StrictSubsetOrdering
  <2> QED
    BY <2>2, <1>4 DEF D
<1> QED
  BY <1>6

\* Induction up to n, over a set instead of a predicate.
LEMMA Upwards ==
  ASSUME NEW n \in Nat, NEW T, 0 \in T, \A k \in 1 .. n : k - 1 \in T => k \in T
  PROVE  \A k \in 0 .. n : k \in T
<1> DEFINE C == (0 .. n) \ T
<1> SUFFICES ASSUME C # {} PROVE FALSE
  OBVIOUS
<1>1. C \subseteq Nat
  OBVIOUS
<1>2. PICK k \in C : \A m \in C : k <= m
  <2> HIDE DEF C
  <2> QED
    BY <1>1, LeastNat
<1>3. k # 0 /\ k - 1 \in 0 .. n
  BY <1>2
<1>4. k - 1 \in T
  BY <1>2, <1>3
<1> QED
  BY <1>2, <1>3, <1>4

-----------------------------------------------------------------------------
(* A sum is the number of units in it: f[k] of them for every k.            *)

Pile(f, k) == {k} \X (1 .. f[k])
Units(f, S) == UNION {Pile(f, k) : k \in S}

LEMMA PileIs ==
  ASSUME NEW f, NEW k, f[k] \in Nat
  PROVE  IsFiniteSet(Pile(f, k)) /\ Cardinality(Pile(f, k)) = f[k]
<1> DEFINE n == f[k]
           h == [a \in 1 .. n |-> <<k, a>>]
<1>1. n \in Nat
  OBVIOUS
<1> HIDE DEF n
<1>2. IsFiniteSet(1 .. n) /\ Cardinality(1 .. n) = n
  BY <1>1, FS_Interval
<1>3. h \in Bijection(1 .. n, {k} \X (1 .. n))
  <2>1. \A a \in 1 .. n : h[a] = <<k, a>> /\ h[a] \in {k} \X (1 .. n)
    OBVIOUS
  <2>2. h \in [1 .. n -> {k} \X (1 .. n)]
    OBVIOUS
  <2>3. \A p \in {k} \X (1 .. n) : p[2] \in 1 .. n /\ h[p[2]] = p
    OBVIOUS
  <2>4. \A a, j \in 1 .. n : h[a] = h[j] => a = j
    OBVIOUS
  <2> HIDE DEF h
  <2>5. h \in Injection(1 .. n, {k} \X (1 .. n))
    BY <2>2, <2>4 DEF Injection, IsInjective
  <2>6. h \in Surjection(1 .. n, {k} \X (1 .. n))
    <3>1. \A p \in {k} \X (1 .. n) : \E a \in 1 .. n : h[a] = p
      BY <2>3
    <3> QED
      BY <2>2, <3>1 DEF Surjection
  <2> QED
    BY <2>5, <2>6 DEF Bijection
<1>4. ExistsBijection(1 .. n, {k} \X (1 .. n))
  BY <1>3 DEF ExistsBijection
<1>5. IsFiniteSet({k} \X (1 .. n)) /\ Cardinality({k} \X (1 .. n)) = n
  BY <1>2, <1>4, FS_Bijection
<1> QED
  BY <1>5 DEF Pile, n

LEMMA UnitsFinite ==
  ASSUME NEW f, NEW S, IsFiniteSet(S), \A k \in S : f[k] \in Nat
  PROVE  IsFiniteSet(Units(f, S)) /\ Cardinality(Units(f, S)) \in Nat
<1> DEFINE R == {Pile(f, k) : k \in S}
           h == [k \in S |-> Pile(f, k)]
<1>1. h \in Surjection(S, R)
  BY DEF Surjection
<1> HIDE DEF h
<1>2. IsFiniteSet(R)
  <2> HIDE DEF R
  <2> QED
    BY <1>1, FS_Surjection
<1>3. \A r \in R : IsFiniteSet(r)
  BY PileIs
<1> HIDE DEF R
<1>4. IsFiniteSet(UNION R)
  BY <1>2, <1>3, FS_UNION
<1> QED
  BY <1>4, FS_CardinalityType DEF R, Units

LEMMA UnitsUnion ==
  ASSUME NEW f, NEW A, NEW B, IsFiniteSet(A), IsFiniteSet(B), A \cap B = {},
         \A k \in A \cup B : f[k] \in Nat
  PROVE  Cardinality(Units(f, A \cup B)) = Cardinality(Units(f, A)) + Cardinality(Units(f, B))
<1> DEFINE X == Units(f, A)
           Y == Units(f, B)
<1>1. Units(f, A \cup B) = X \cup Y
  BY DEF Units
<1>2. X \cap Y = {}
  BY DEF Units, Pile
<1>3. /\ IsFiniteSet(X) /\ IsFiniteSet(Y)
      /\ Cardinality(X) \in Nat /\ Cardinality(Y) \in Nat
  BY UnitsFinite
<1> HIDE DEF X, Y
<1>4. Cardinality(X \cup Y) = Cardinality(X) + Cardinality(Y) - Cardinality(X \cap Y)
  BY <1>3, FS_Union
<1>5. Cardinality(X \cap Y) = 0
  BY <1>2, FS_EmptySet
<1>6. Cardinality(X \cup Y) = Cardinality(X) + Cardinality(Y)
  BY <1>3, <1>4, <1>5
<1> QED
  BY <1>1, <1>6 DEF X, Y

LEMMA UnitsOne ==
  ASSUME NEW f, NEW k, f[k] \in Nat
  PROVE  Cardinality(Units(f, {k})) = f[k]
<1>1. Units(f, {k}) = Pile(f, k)
  BY DEF Units
<1> QED
  BY <1>1, PileIs

\* The recursive definition that MapThenSumSet is made of.
Sums(f, S, h) ==
  h = [r \in SUBSET S |-> IF r = {} THEN 0
                          ELSE f[CHOOSE x \in r : TRUE] + h[r \ {CHOOSE x \in r : TRUE}]]

LEMMA UnitsAreSums ==
  ASSUME NEW f, NEW S, IsFiniteSet(S), \A k \in S : f[k] \in Nat
  PROVE  Sums(f, S, [r \in SUBSET S |-> Cardinality(Units(f, r))])
<1> DEFINE h == [r \in SUBSET S |-> Cardinality(Units(f, r))]
<1>1. ASSUME NEW r \in SUBSET S
      PROVE  h[r] = IF r = {} THEN 0
                    ELSE f[CHOOSE x \in r : TRUE] + h[r \ {CHOOSE x \in r : TRUE}]
  <2>1. CASE r = {}
    <3>1. Units(f, {}) = {}
      BY DEF Units
    <3> QED
      BY <2>1, <3>1, FS_EmptySet
  <2>2. CASE r # {}
    <3> DEFINE x == CHOOSE x \in r : TRUE
               q == r \ {x}
    <3>1. x \in r
      BY <2>2
    <3> HIDE DEF x
    <3>2. r = q \cup {x} /\ q \cap {x} = {} /\ q \in SUBSET S /\ x \in S
      BY <3>1
    <3>3. IsFiniteSet(q) /\ IsFiniteSet({x})
      BY <3>2, FS_Subset, FS_Singleton
    <3>4. \A k \in q \cup {x} : f[k] \in Nat
      BY <3>2
    <3> HIDE DEF q
    <3>5. Cardinality(Units(f, q \cup {x})) = Cardinality(Units(f, q)) + Cardinality(Units(f, {x}))
      BY <3>2, <3>3, <3>4, UnitsUnion
    <3>6. Cardinality(Units(f, {x})) = f[x]
      BY <3>4, UnitsOne
    <3>7. Cardinality(Units(f, q)) \in Nat
      BY <3>3, <3>4, UnitsFinite
    <3>8. h[r] = f[x] + h[q]
      BY <3>2, <3>4, <3>5, <3>6, <3>7
    <3> QED
      BY <2>2, <3>8 DEF q, x
  <2> QED
    BY <2>1, <2>2
<1>2. h = [r \in SUBSET S |-> h[r]]
  OBVIOUS
<1> HIDE DEF h
<1>3. Sums(f, S, h)
  BY <1>1, <1>2 DEF Sums
<1> QED
  BY <1>3 DEF h

\* There is only one solution.
LEMMA SumsAreUnits ==
  ASSUME NEW f, NEW S, IsFiniteSet(S), \A k \in S : f[k] \in Nat, NEW h, Sums(f, S, h)
  PROVE  h[S] = Cardinality(Units(f, S))
<1> DEFINE c == Cardinality(S)
           T == {n \in 0 .. c : \A r \in SUBSET S : Cardinality(r) = n => h[r] = Cardinality(Units(f, r))}
<1>1. \A r \in SUBSET S : h[r] = IF r = {} THEN 0
                                 ELSE f[CHOOSE x \in r : TRUE] + h[r \ {CHOOSE x \in r : TRUE}]
  BY DEF Sums
<1>2. /\ c \in Nat
      /\ \A r \in SUBSET S : IsFiniteSet(r) /\ Cardinality(r) \in Nat /\ Cardinality(r) <= c
  BY FS_CardinalityType, FS_Subset
<1> DEFINE w == [r \in SUBSET S |-> Cardinality(Units(f, r))]
<1>3. Sums(f, S, w)
  BY UnitsAreSums
<1>4. \A r \in SUBSET S : w[r] = IF r = {} THEN 0
                                 ELSE f[CHOOSE x \in r : TRUE] + w[r \ {CHOOSE x \in r : TRUE}]
  <2> HIDE DEF w
  <2> QED
    BY <1>3 DEF Sums
<1>5. 0 \in T
  <2>1. ASSUME NEW r \in SUBSET S, Cardinality(r) = 0 PROVE h[r] = w[r]
    <3>1. r = {}
      BY <1>2, <2>1, FS_EmptySet
    <3> HIDE DEF w
    <3> QED
      BY <1>1, <1>4, <3>1
  <2>2. 0 \in 0 .. c
    BY <1>2
  <2> QED
    BY <2>1, <2>2
<1>6. ASSUME NEW n \in 1 .. c, n - 1 \in T PROVE n \in T
  <2>1. ASSUME NEW r \in SUBSET S, Cardinality(r) = n PROVE h[r] = w[r]
    <3> DEFINE x == CHOOSE x \in r : TRUE
               q == r \ {x}
    <3>1. r # {}
      BY <1>2, <2>1, FS_EmptySet
    <3>2. x \in r
      BY <3>1
    <3> HIDE DEF x
    <3>3. q \in SUBSET S /\ Cardinality(q) = n - 1
      BY <1>2, <2>1, <3>2, FS_RemoveElement
    <3>4. h[q] = w[q]
      BY <1>6, <3>3
    <3> HIDE DEF w, q
    <3>5. h[r] = f[x] + h[q]
      BY <1>1, <3>1 DEF x, q
    <3>6. w[r] = f[x] + w[q]
      BY <1>4, <3>1 DEF x, q
    <3> QED
      BY <3>4, <3>5, <3>6
  <2>2. n \in 0 .. c
    BY <1>2, <1>6
  <2> QED
    BY <2>1, <2>2
<1> HIDE DEF T
<1>7. \A n \in 0 .. c : n \in T
  BY <1>2, <1>5, <1>6, Upwards
<1>8. c \in T
  BY <1>2, <1>7
<1> QED
  BY <1>8 DEF T

LEMMA SumFromIs ==
  ASSUME NEW f, NEW first \in Int, NEW end \in Int, \A k \in first .. (end - 1) : f[k] \in Nat
  PROVE  SumFrom(f, first, end) = Cardinality(Units(f, first .. (end - 1)))
<1> DEFINE S == first .. (end - 1)
           h == CHOOSE h : Sums(f, S, h)
<1>1. SumFrom(f, first, end) = h[S]
  BY DEF SumFrom, MapThenSumSet, MapThenFoldSet, Sums
<1>2. IsFiniteSet(S) /\ \A k \in S : f[k] \in Nat
  BY FS_Interval
<1> HIDE DEF S
<1>3. Sums(f, S, [r \in SUBSET S |-> Cardinality(Units(f, r))])
  BY <1>2, UnitsAreSums
<1>4. Sums(f, S, h)
  BY <1>3
<1> HIDE DEF h
<1> QED
  BY <1>1, <1>2, <1>4, SumsAreUnits DEF S

-----------------------------------------------------------------------------
LEMMA SumFromNat ==
  ASSUME NEW f, NEW first \in Int, NEW end \in Int, \A k \in first .. (end - 1) : f[k] \in Nat
  PROVE  SumFrom(f, first, end) \in Nat
<1> DEFINE S == first .. (end - 1)
<1>1. SumFrom(f, first, end) = Cardinality(Units(f, S))
  BY SumFromIs
<1>2. IsFiniteSet(S)
  BY FS_Interval
<1> HIDE DEF S
<1>3. \A k \in S : f[k] \in Nat
  BY DEF S
<1> QED
  BY <1>1, <1>2, <1>3, UnitsFinite

LEMMA SumFromNone ==
  ASSUME NEW f, NEW first \in Int, NEW end \in Int, end <= first
  PROVE  SumFrom(f, first, end) = 0
<1>1. first .. (end - 1) = {}
  OBVIOUS
<1>2. Units(f, {}) = {}
  BY DEF Units
<1> QED
  BY <1>1, <1>2, SumFromIs, FS_EmptySet

\* A sum can be cut anywhere.
LEMMA SumFromCut ==
  ASSUME NEW f, NEW first \in Int, NEW mid \in Int, NEW end \in Int, first <= mid, mid <= end,
         \A k \in first .. (end - 1) : f[k] \in Nat
  PROVE  SumFrom(f, first, end) = SumFrom(f, first, mid) + SumFrom(f, mid, end)
<1> DEFINE A == first .. (mid - 1)
           B == mid .. (end - 1)
<1>1. A \cup B = first .. (end - 1) /\ A \cap B = {}
  OBVIOUS
<1>2. IsFiniteSet(A) /\ IsFiniteSet(B)
  BY FS_Interval
<1>3. /\ SumFrom(f, first, mid) = Cardinality(Units(f, A))
      /\ SumFrom(f, mid, end) = Cardinality(Units(f, B))
      /\ SumFrom(f, first, end) = Cardinality(Units(f, A \cup B))
  BY ZenonT(60), <1>1, SumFromIs
<1>4. \A k \in A \cup B : f[k] \in Nat
  BY <1>1
<1> HIDE DEF A, B
<1> QED
  BY <1>1, <1>2, <1>3, <1>4, UnitsUnion

LEMMA SumFromOne ==
  ASSUME NEW f, NEW k \in Int, f[k] \in Nat
  PROVE  SumFrom(f, k, k + 1) = f[k]
<1> DEFINE n == k + 1
<1>1. n \in Int /\ k .. (n - 1) = {k}
  OBVIOUS
<1> HIDE DEF n
<1>2. \A j \in k .. (n - 1) : f[j] \in Nat
  BY <1>1
<1>3. SumFrom(f, k, n) = Cardinality(Units(f, k .. (n - 1)))
  BY <1>1, <1>2, SumFromIs
<1>4. SumFrom(f, k, n) = f[k]
  BY <1>1, <1>3, UnitsOne
<1> QED
  BY <1>4 DEF n

-----------------------------------------------------------------------------
\* What a quotient says about the multiples of its divisor.
LEMMA Division ==
  ASSUME NEW n \in Nat, NEW m \in Nat \ {0}
  PROVE  LET q == n \div m IN q \in Nat /\ q * m \in Nat /\ q * m <= n /\ n < q * m + m
<1> DEFINE q == n \div m
           r == n % m
<1>1. q \in Int /\ r \in 0 .. (m - 1) /\ n = m * q + r
  OBVIOUS
<1>2. q >= 0
  <2> SUFFICES ASSUME q <= -1 PROVE FALSE
    BY <1>1
  <2> HIDE DEF q, r
  <2>1. m * q <= m * (-1)
    BY <1>1
  <2> QED
    BY <1>1, <2>1
<1> HIDE DEF q, r
<1>3. q * m = m * q /\ m * q \in Int
  BY <1>1
<1>4. q \in Nat /\ q * m \in Nat /\ q * m <= n /\ n < q * m + m
  <2>1. m * q >= 0
    BY <1>1, <1>2
  <2> QED
    BY <1>1, <1>2, <1>3, <2>1
<1> QED
  BY <1>4 DEF q

LEMMA Multiples ==
  ASSUME NEW a \in Nat, NEW b \in Nat, NEW m \in Nat \ {0}
  PROVE  /\ a * m \in Nat /\ (a + 1) * m = a * m + m
         /\ a <= b => a * m <= b * m
         /\ a * m < b * m + m => a <= b
<1>1. a * m \in Nat /\ b * m \in Nat /\ (a + 1) * m = a * m + m /\ (b + 1) * m = b * m + m
  OBVIOUS
<1>2. \A c, n \in Nat : c <= n => c * m <= n * m
  <2> TAKE c \in Nat, n \in Nat
  <2> HAVE c <= n
  <2>1. n - c \in Nat /\ (n - c) * m \in Nat
    OBVIOUS
  <2>2. (n - c) * m = n * m - c * m
    OBVIOUS
  <2>3. c * m \in Nat /\ n * m \in Nat
    OBVIOUS
  <2> QED
    BY ONLY <2>1, <2>2, <2>3
<1>3. a <= b => a * m <= b * m
  BY <1>2
<1>4. a * m < b * m + m => a <= b
  <2> SUFFICES ASSUME a * m < b * m + m, b + 1 <= a PROVE FALSE
    OBVIOUS
  <2>1. (b + 1) * m <= a * m
    <3>1. b + 1 \in Nat
      OBVIOUS
    <3> QED
      BY ONLY <1>2, <3>1, a \in Nat, b + 1 <= a
  <2> QED
    BY <1>1, <2>1
<1> QED
  BY <1>1, <1>3, <1>4

(***************************************************************************)
(* ParallelPrefixSum, whatever the size of a block and wherever the last   *)
(* block ends: element k is the sum of the elements below it.              *)
(***************************************************************************)
THEOREM PrefixSums ==
  ASSUME NEW degs \in [Nodes -> Nat]
  PROVE  ParallelPrefixSum(degs) = [k \in 0 .. NumNodes |-> SumFrom(degs, 0, k)]
<1> DEFINE size == NumNodes
           B == block_size
           num_blocks == (size + B - 1) \div B
           block_end(b) == MinOf((b + 1) * B, size)
           local_sums == [b \in 0 .. (num_blocks - 1) |-> SumFrom(degs, b * B, block_end(b))]
           bulk_prefix == [b \in 0 .. num_blocks |-> SumFrom(local_sums, 0, b)]
           F == [k \in 0 .. size |->
                   IF k = size THEN bulk_prefix[num_blocks]
                   ELSE bulk_prefix[k \div B] + SumFrom(degs, (k \div B) * B, k)]
<1>1. ParallelPrefixSum(degs) = F
  BY DEF ParallelPrefixSum
<1>2. size \in Nat \ {0} /\ B \in Nat \ {0} /\ size + B - 1 \in Nat
  BY NumNodesAssumption, BlockAssumption
<1>3. /\ num_blocks \in Nat /\ num_blocks * B \in Nat
      /\ num_blocks * B <= size + B - 1 /\ size - 1 < num_blocks * B
  <2>1. LET q == (size + B - 1) \div B
        IN  q \in Nat /\ q * B \in Nat /\ q * B <= size + B - 1 /\ size + B - 1 < q * B + B
    BY <1>2, Division
  <2> HIDE DEF size, B
  <2> QED
    BY <1>2, <2>1
<1>4. \A a, j \in Int : 0 <= a /\ a <= j /\ j <= size => \A k \in a .. (j - 1) : degs[k] \in Nat
  BY <1>2 DEF Nodes
<1> HIDE DEF size, B, num_blocks
\* A block begins below the end of the array.
<1>5. \A b \in 0 .. (num_blocks - 1) : /\ b \in Nat /\ b * B \in Nat /\ b * B < size
                                       /\ (b + 1) * B = b * B + B
  <2> TAKE b \in 0 .. (num_blocks - 1)
  <2>1. b \in Nat /\ b + 1 \in Nat /\ b + 1 <= num_blocks
    BY <1>3
  <2>2. b * B \in Nat /\ (b + 1) * B = b * B + B
    BY <1>2, <2>1, Multiples
  <2>3. (b + 1) * B <= num_blocks * B
    BY ONLY <1>2, <1>3, <2>1, Multiples
  <2> QED
    BY <1>2, <1>3, <2>1, <2>2, <2>3
<1>6. \A b \in 0 .. (num_blocks - 1) :
        /\ block_end(b) \in Nat /\ b * B <= block_end(b) /\ block_end(b) <= size
        /\ local_sums[b] = SumFrom(degs, b * B, block_end(b)) /\ local_sums[b] \in Nat
  <2> TAKE b \in 0 .. (num_blocks - 1)
  <2>1. block_end(b) \in Nat /\ b * B <= block_end(b) /\ block_end(b) <= size
    BY <1>2, <1>5 DEF MinOf
  <2>2. b * B \in Nat
    BY <1>5
  <2> HIDE DEF block_end
  <2>3. SumFrom(degs, b * B, block_end(b)) \in Nat
    <3> DEFINE a == b * B
               j == block_end(b)
    <3>1. a \in Int /\ j \in Int /\ 0 <= a /\ a <= j /\ j <= size
      BY <2>1, <2>2
    <3> HIDE DEF a, j
    <3>2. SumFrom(degs, a, j) \in Nat
      BY <1>4, <3>1, SumFromNat
    <3> QED
      BY <3>2 DEF a, j
  <2> QED
    BY <2>1, <2>3
<1> HIDE DEF local_sums
<1> DEFINE Upto(b) == MinOf(b * B, size)
           T == {b \in 0 .. num_blocks : SumFrom(local_sums, 0, b) = SumFrom(degs, 0, Upto(b))}
<1>7. 0 \in T
  <2>1. Upto(0) = 0
    BY <1>2 DEF MinOf
  <2>2. SumFrom(local_sums, 0, 0) = 0 /\ SumFrom(degs, 0, 0) = 0
    BY SumFromNone
  <2> QED
    BY <1>3, <2>1, <2>2
<1>8. ASSUME NEW c \in 1 .. num_blocks, c - 1 \in T PROVE c \in T
  <2> DEFINE b == c - 1
  <2>1. b \in 0 .. (num_blocks - 1) /\ c = b + 1 /\ b \in Nat /\ b \in T
    BY <1>3, <1>8
  <2> HIDE DEF b
  <2>2. Upto(b) = b * B /\ Upto(c) = block_end(b)
    BY <1>2, <1>5, <2>1 DEF MinOf
  <2>3. /\ block_end(b) \in Nat /\ b * B <= block_end(b) /\ block_end(b) <= size /\ b * B \in Nat
        /\ local_sums[b] = SumFrom(degs, b * B, block_end(b)) /\ local_sums[b] \in Nat
    BY <1>5, <1>6, <2>1
  <2> HIDE DEF block_end, Upto
  <2>4. SumFrom(local_sums, 0, c) = SumFrom(local_sums, 0, b) + SumFrom(local_sums, b, c)
    <3>1. \A k \in 0 .. (c - 1) : local_sums[k] \in Nat
      BY <1>3, <1>6
    <3> QED
      BY <2>1, <3>1, SumFromCut
  <2>5. SumFrom(local_sums, b, c) = local_sums[b]
    BY <2>1, <2>3, SumFromOne
  <2>6. SumFrom(degs, 0, block_end(b)) = SumFrom(degs, 0, b * B) + SumFrom(degs, b * B, block_end(b))
    <3> DEFINE a == b * B
               j == block_end(b)
    <3>1. a \in Int /\ j \in Int /\ 0 <= a /\ a <= j /\ j <= size /\ 0 \in Int /\ 0 <= 0 /\ 0 <= j
      BY <2>3
    <3> HIDE DEF a, j
    <3>2. SumFrom(degs, 0, j) = SumFrom(degs, 0, a) + SumFrom(degs, a, j)
      <4>1. \A k \in 0 .. (j - 1) : degs[k] \in Nat
        BY <1>4, <3>1
      <4> QED
        BY <3>1, <4>1, SumFromCut
    <3> QED
      BY <3>2 DEF a, j
  <2>7. SumFrom(local_sums, 0, b) = SumFrom(degs, 0, Upto(b))
    BY <2>1
  <2> QED
    BY <2>2, <2>3, <2>4, <2>5, <2>6, <2>7
<1> HIDE DEF T
<1>9. \A b \in 0 .. num_blocks : b \in T
  BY <1>3, <1>7, <1>8, Upwards
<1>10. \A b \in 0 .. num_blocks : bulk_prefix[b] = SumFrom(degs, 0, Upto(b))
  BY <1>9 DEF T
<1> HIDE DEF bulk_prefix
<1>11. ASSUME NEW k \in 0 .. size PROVE F[k] = SumFrom(degs, 0, k)
  <2>1. CASE k = size
    <3>1. Upto(num_blocks) = size
      BY <1>2, <1>3 DEF MinOf
    <3>2. num_blocks \in 0 .. num_blocks
      BY <1>3
    <3> QED
      BY <1>10, <2>1, <3>1, <3>2
  <2>2. CASE k # size
    <3> DEFINE b == k \div B
    <3>1. k \in Nat /\ k < size
      BY <1>2, <2>2
    <3>2. b \in Nat /\ b * B \in Nat /\ b * B <= k /\ k < b * B + B
      BY <1>2, <3>1, Division
    <3> HIDE DEF b
    <3>3. b \in 0 .. num_blocks
      <4>1. b * B < num_blocks * B + B
        BY <1>2, <1>3, <3>1, <3>2
      <4>2. b <= num_blocks
        BY ONLY <1>2, <1>3, <3>2, <4>1, Multiples
      <4> QED
        BY <1>3, <3>2, <4>2
    <3>4. Upto(b) = b * B
      BY <1>2, <3>1, <3>2 DEF MinOf
    <3>5. SumFrom(degs, 0, k) = SumFrom(degs, 0, b * B) + SumFrom(degs, b * B, k)
      <4> DEFINE a == b * B
      <4>1. a \in Int /\ k \in Int /\ 0 <= a /\ a <= k /\ k <= size /\ 0 \in Int /\ 0 <= 0 /\ 0 <= k
        BY <3>1, <3>2
      <4> HIDE DEF a
      <4>2. SumFrom(degs, 0, k) = SumFrom(degs, 0, a) + SumFrom(degs, a, k)
        <5>1. \A n \in 0 .. (k - 1) : degs[n] \in Nat
          BY <1>4, <4>1
        <5> QED
          BY <4>1, <5>1, SumFromCut
      <4> QED
        BY <4>2 DEF a
    <3>6. F[k] = bulk_prefix[b] + SumFrom(degs, b * B, k)
      BY <2>2 DEF b
    <3> QED
      BY <1>10, <3>3, <3>4, <3>5, <3>6
  <2> QED
    BY <2>1, <2>2
<1>12. F = [k \in 0 .. size |-> SumFrom(degs, 0, k)]
  BY <1>11
<1> QED
  BY <1>1, <1>12 DEF size, B, num_blocks, local_sums, bulk_prefix

-----------------------------------------------------------------------------
(* The invariant.                                                           *)

Edge == [u : Nodes, v : Nodes, w : Nat]
Entry == [v : Int, w : Int]

Placing == phase \in {"out", "in"}

index == csr[phase].index
placed == csr[phase].neighs

\* The ends of an edge that MakeCSR places.
Sides == IF symmetrize THEN {"u", "v"} ELSE IF phase = "in" THEN {"v"} ELSE {"u"}

\* Thread t has still to reserve a slot for end s of its edge.
Owes(t, s) == \/ pc[t] = "reserve" /\ side[t] = s
              \/ symmetrize /\ pc[t] # "idle" /\ side[t] = "u" /\ s = "v"

\* The slots still to be reserved in the list of x, for ends s.
OwedEdges(x, s) == {k \in todo : s \in Sides /\ el[k][s] = x}
OwedThreads(x, s) == {t \in Threads : Owes(t, s) /\ e[t][s] = x}
Owed(x, s) == Cardinality(OwedEdges(x, s)) + Cardinality(OwedThreads(x, s))

Types ==
  /\ symmetrize \in BOOLEAN /\ in_place \in BOOLEAN
  /\ pc \in [Threads -> {"idle", "reserve", "store"}]
  /\ e \in [Threads -> Edge]
  /\ side \in [Threads -> {"u", "v"}]
  /\ slot \in [Threads -> Int]
  /\ ~Placing => \A t \in Threads : pc[t] = "idle"
  /\ phase \in {"start", "out", "in"} => el \in Seq(Edge) /\ csr \in [out : {csr.out}, in : {csr.in}]
  /\ Placing => ~in_place
  /\ phase = "in" => ~symmetrize

\* The CSR that is being filled.
Lists ==
  /\ offsets \in [0 .. NumNodes -> Nat]
  /\ csr[phase] \in [index : {index}, neighs : {placed}]
  /\ index \in [0 .. NumNodes -> Nat]
  /\ placed \in [0 .. (index[NumNodes] - 1) -> Entry]
  /\ \A x, y \in 0 .. NumNodes : x <= y => index[x] <= index[y]

\* What is free in a list is what is owed.
Account ==
  /\ todo \subseteq DOMAIN el
  /\ \A x \in Nodes :
       /\ \A s \in {"u", "v"} : IsFiniteSet(OwedEdges(x, s)) /\ IsFiniteSet(OwedThreads(x, s))
       /\ index[x] <= offsets[x]
       /\ offsets[x] + Owed(x, "u") + Owed(x, "v") = index[x + 1]
       /\ \A k \in offsets[x] .. (index[x + 1] - 1) : placed[k] = Unset

Reserved ==
  \A t \in Threads : pc[t] = "store" =>
    LET x == e[t][side[t]]
    IN  /\ slot[t] \in index[x] .. (offsets[x] - 1)
        /\ placed[slot[t]] = Unset
        /\ \A s \in Threads \ {t} : pc[s] = "store" => slot[s] # slot[t]

IInv == Types /\ (Placing => Lists /\ Account /\ Reserved)

-----------------------------------------------------------------------------
\* What a store into a slot changes.
LEMMA StoredAt ==
  ASSUME NEW c, NEW dir \in {"out", "in"}, NEW k, NEW x,
         c \in [out : {c.out}, in : {c.in}],
         c[dir] \in [index : {c[dir].index}, neighs : {c[dir].neighs}]
  PROVE  LET after == [c EXCEPT ![dir].neighs[k] = x]
         IN  /\ after \in [out : {after.out}, in : {after.in}]
             /\ after[dir] \in [index : {after[dir].index}, neighs : {after[dir].neighs}]
             /\ after[dir].index = c[dir].index
             /\ after[dir].neighs = [c[dir].neighs EXCEPT ![k] = x]
<1> DEFINE ns == [c[dir].neighs EXCEPT ![k] = x]
           r == [c[dir] EXCEPT !.neighs = ns]
           after == [c EXCEPT ![dir] = r]
<1> HIDE DEF ns
<1>1. r \in [index : {r.index}, neighs : {r.neighs}] /\ r.index = c[dir].index /\ r.neighs = ns
  OBVIOUS
<1> HIDE DEF r
<1>2. after \in [out : {after.out}, in : {after.in}] /\ after[dir] = r
  <2>1. CASE dir = "out"
    BY <2>1
  <2>2. CASE dir = "in"
    BY <2>2
  <2> QED
    BY <2>1, <2>2
<1> HIDE DEF after
<1>3. /\ after \in [out : {after.out}, in : {after.in}]
      /\ after[dir] \in [index : {after[dir].index}, neighs : {after[dir].neighs}]
      /\ after[dir].index = c[dir].index /\ after[dir].neighs = ns
  BY <1>1, <1>2
<1> QED
  BY <1>3 DEF after, r, ns

LEMMA InitInv == Init => IInv
<1> SUFFICES ASSUME Init PROVE IInv
  OBVIOUS
<1>1. PICK input \in Inputs : /\ el = input.edges
                              /\ symmetrize = input.symmetrize
                              /\ in_place = input.in_place
  BY DEF Init
<1>2. /\ el \in Seq([u : Nodes, v : Nodes, w : Nat])
      /\ symmetrize \in BOOLEAN /\ in_place \in BOOLEAN
  BY <1>1, InputsAssumption
<1>3. NoEdge \in Edge
  BY NumNodesAssumption DEF NoEdge, Edge, Nodes
<1>4. phase = "start" /\ ~Placing
  BY DEF Init, Placing
<1>5. csr \in [out : {csr.out}, in : {csr.in}]
  BY DEF Init, Fresh
<1>6. /\ pc = [t \in Threads |-> "idle"]
      /\ e = [t \in Threads |-> NoEdge]
      /\ side = [t \in Threads |-> "u"]
      /\ slot = [t \in Threads |-> 0]
  BY DEF Init, Fresh
<1>7. Types
  <2>1. e \in [Threads -> Edge]
    BY <1>3, <1>6
  <2>2. /\ pc \in [Threads -> {"idle", "reserve", "store"}]
        /\ side \in [Threads -> {"u", "v"}]
        /\ slot \in [Threads -> Int]
        /\ \A t \in Threads : pc[t] = "idle"
    BY <1>6
  <2> QED
    BY <1>2, <1>4, <1>5, <2>1, <2>2 DEF Types, Edge
<1> QED
  BY <1>4, <1>7 DEF IInv

\* The prefix sums of degrees: lists next to each other, as long as the degrees say.
LEMMA SumsOfDegrees ==
  ASSUME NEW degs \in [Nodes -> Nat]
  PROVE  LET sums == ParallelPrefixSum(degs)
         IN  /\ sums \in [0 .. NumNodes -> Nat]
             /\ \A x \in Nodes : sums[x + 1] = sums[x] + degs[x]
             /\ \A x, y \in 0 .. NumNodes : x <= y => sums[x] <= sums[y]
<1> DEFINE sums == [k \in 0 .. NumNodes |-> SumFrom(degs, 0, k)]
<1>1. ParallelPrefixSum(degs) = sums
  BY PrefixSums
<1>2. NumNodes \in Nat \ {0}
  BY NumNodesAssumption
<1>3. \A a, j \in Nat : j <= NumNodes => \A k \in a .. (j - 1) : degs[k] \in Nat
  BY <1>2 DEF Nodes
<1>4. ASSUME NEW x \in 0 .. NumNodes PROVE SumFrom(degs, 0, x) \in Nat
  <2>0. x \in Nat /\ x <= NumNodes /\ 0 \in Nat
    BY <1>2
  <2>1. \A k \in 0 .. (x - 1) : degs[k] \in Nat
    BY ONLY <1>3, <2>0
  <2> QED
    BY <1>2, <2>1, SumFromNat
<1>5. ASSUME NEW x \in 0 .. NumNodes, NEW y \in 0 .. NumNodes, x <= y
      PROVE  /\ SumFrom(degs, x, y) \in Nat
             /\ SumFrom(degs, 0, y) = SumFrom(degs, 0, x) + SumFrom(degs, x, y)
  <2>0. x \in Nat /\ y \in Nat /\ y <= NumNodes /\ 0 \in Nat
    BY <1>2
  <2>1. x \in Int /\ y \in Int /\ 0 \in Int /\ 0 <= x
    OBVIOUS
  <2>2. \A k \in 0 .. (y - 1) : degs[k] \in Nat
    BY ONLY <1>3, <2>0
  <2>3. \A k \in x .. (y - 1) : degs[k] \in Nat
    BY ONLY <1>3, <2>0
  <2>4. SumFrom(degs, x, y) \in Nat
    BY <2>1, <2>3, SumFromNat
  <2>5. SumFrom(degs, 0, y) = SumFrom(degs, 0, x) + SumFrom(degs, x, y)
    BY <1>5, <2>1, <2>2, SumFromCut
  <2> QED
    BY <2>4, <2>5
<1>6. ASSUME NEW x \in Nodes PROVE sums[x + 1] = sums[x] + degs[x]
  <2>1. x \in 0 .. NumNodes /\ x + 1 \in 0 .. NumNodes /\ x <= x + 1 /\ x \in Int /\ degs[x] \in Nat
    BY <1>2 DEF Nodes
  <2>2. SumFrom(degs, 0, x + 1) = SumFrom(degs, 0, x) + SumFrom(degs, x, x + 1)
    BY <1>5, <2>1
  <2>3. SumFrom(degs, x, x + 1) = degs[x]
    BY <2>1, SumFromOne
  <2> QED
    BY <2>1, <2>2, <2>3
<1>7. sums \in [0 .. NumNodes -> Nat]
  BY <1>4
<1>8. \A x, y \in 0 .. NumNodes : x <= y => sums[x] <= sums[y]
  BY <1>4, <1>5
<1> HIDE DEF sums
<1> QED
  BY <1>1, <1>6, <1>7, <1>8

EndsAt(x, s) == {k \in DOMAIN el : el[k][s] = x}

LEMMA EndsFinite ==
  ASSUME el \in Seq(Edge), NEW x, NEW s
  PROVE  IsFiniteSet(EndsAt(x, s)) /\ Cardinality(EndsAt(x, s)) \in Nat
<1>1. DOMAIN el = 1 .. Len(el) /\ Len(el) \in Int
  OBVIOUS
<1>2. IsFiniteSet(DOMAIN el)
  BY <1>1, FS_Interval
<1>3. EndsAt(x, s) \in SUBSET DOMAIN el
  BY DEF EndsAt
<1>4. IsFiniteSet(EndsAt(x, s))
  BY ONLY <1>2, <1>3, FS_Subset
<1> QED
  BY <1>4, FS_CardinalityType

\* A CSR is begun: every end of every edge is owed, and the lists have that room.
LEMMA MakeCSRHolds ==
  ASSUME Types, el \in Seq(Edge), csr \in [out : {csr.out}, in : {csr.in}],
         ~in_place, \A t \in Threads : pc[t] = "idle",
         NEW dir \in {"out", "in"}, dir = "in" => ~symmetrize,
         MakeCSR(dir), UNCHANGED <<el, symmetrize, in_place, locals>>
  PROVE  IInv'
<1> DEFINE D == CountDegrees(el, symmetrize, in_place, dir = "in")
           sums == ParallelPrefixSum(D)
           none == [k \in 0 .. (sums[NumNodes] - 1) |-> Unset]
           c == [index |-> sums, neighs |-> none]
           S == IF symmetrize THEN {"u", "v"} ELSE IF dir = "in" THEN {"v"} ELSE {"u"}
           Card(x, s) == IF s \in S THEN Cardinality(EndsAt(x, s)) ELSE 0
<1>1. /\ offsets' = sums
      /\ csr' = [csr EXCEPT ![dir] = c]
      /\ todo' = DOMAIN el
      /\ phase' = dir
  BY DEF MakeCSR
<1>2. /\ el' = el /\ symmetrize' = symmetrize /\ in_place' = in_place
      /\ pc' = pc /\ e' = e /\ side' = side /\ slot' = slot
  BY DEF locals
<1>3. symmetrize \in BOOLEAN
  BY DEF Types
<1>4. \A x \in Nodes : D[x] = Card(x, "u") + Card(x, "v")
  <2> TAKE x \in Nodes
  <2> DEFINE U == Cardinality({k \in DOMAIN el : el[k].u = x})
             V == Cardinality({k \in DOMAIN el : el[k].v = x})
  <2>1. U = Cardinality(EndsAt(x, "u")) /\ V = Cardinality(EndsAt(x, "v"))
    BY DEF EndsAt
  <2>2. U \in Nat /\ V \in Nat
    BY <2>1, EndsFinite
  <2>3. D[x] = (IF symmetrize \/ ~(dir = "in") THEN U ELSE 0)
               + (IF (symmetrize /\ ~in_place) \/ (~symmetrize /\ dir = "in") THEN V ELSE 0)
    BY DEF CountDegrees
  <2> HIDE DEF U, V, D
  <2>4. CASE symmetrize
    BY <2>1, <2>2, <2>3, <2>4
  <2>5. CASE ~symmetrize /\ dir = "in"
    BY <2>1, <2>2, <2>3, <2>5
  <2>6. CASE ~symmetrize /\ dir = "out"
    BY <2>1, <2>2, <2>3, <2>6
  <2> QED
    BY <1>3, <2>4, <2>5, <2>6
<1>5. \A x \in Nodes : Card(x, "u") \in Nat /\ Card(x, "v") \in Nat
  BY EndsFinite
<1>6. D \in [Nodes -> Nat]
  <2>1. D = [n \in Nodes |-> D[n]]
    BY DEF CountDegrees
  <2> HIDE DEF D
  <2> QED
    BY <1>4, <1>5, <2>1
<1>7. /\ sums \in [0 .. NumNodes -> Nat]
      /\ \A x \in Nodes : sums[x + 1] = sums[x] + D[x]
      /\ \A x, y \in 0 .. NumNodes : x <= y => sums[x] <= sums[y]
  <2> HIDE DEF D
  <2> QED
    BY <1>6, SumsOfDegrees
<1> HIDE DEF D, sums, none
<1>8. /\ csr' \in [out : {csr'.out}, in : {csr'.in}]
      /\ csr'[dir] = c
  <2> HIDE DEF c
  <2>1. CASE dir = "out"
    BY <1>1, <2>1
  <2>2. CASE dir = "in"
    BY <1>1, <2>2
  <2> QED
    BY <2>1, <2>2
<1>9. /\ csr'[dir].index = sums /\ csr'[dir].neighs = none
      /\ csr'[dir] \in [index : {sums}, neighs : {none}]
  BY <1>8
<1>10. Placing' /\ index' = sums /\ placed' = none
  BY <1>1, <1>9 DEF Placing, index, placed
<1>11. Types'
  BY <1>1, <1>2, <1>8, <1>10 DEF Types
<1>12. Lists'
  <2>1. NumNodes \in 0 .. NumNodes
    BY NumNodesAssumption
  <2>2. Unset \in Entry
    BY DEF Unset, Entry
  <2>3. none \in [0 .. (sums[NumNodes] - 1) -> Entry]
    BY <2>2 DEF none
  <2>4. csr'[phase'] \in [index : {index'}, neighs : {placed'}]
    BY <1>1, <1>9, <1>10
  <2> QED
    BY <1>1, <1>7, <1>10, <2>3, <2>4 DEF Lists
<1>13. Account'
  <2>1. todo' \subseteq DOMAIN el'
    BY <1>1, <1>2
  <2>2. Sides' = S
    BY <1>1, <1>2 DEF Sides
  <2>3. ASSUME NEW x \in Nodes, NEW s \in {"u", "v"}
        PROVE  /\ OwedThreads(x, s)' = {}
               /\ OwedEdges(x, s)' = IF s \in S THEN EndsAt(x, s) ELSE {}
    <3>1. OwedThreads(x, s)' = {}
      BY <1>2 DEF OwedThreads, Owes
    <3>2. OwedEdges(x, s)' = {k \in DOMAIN el : s \in S /\ el[k][s] = x}
      BY <1>1, <1>2, <2>2 DEF OwedEdges
    <3> QED
      BY <3>1, <3>2 DEF EndsAt
  <2>4. ASSUME NEW x \in Nodes, NEW s \in {"u", "v"}
        PROVE  /\ IsFiniteSet(OwedEdges(x, s)') /\ IsFiniteSet(OwedThreads(x, s)')
               /\ Owed(x, s)' = Card(x, s)
    <3>0. IsFiniteSet({}) /\ Cardinality({}) = 0
      BY FS_EmptySet
    <3>1. IsFiniteSet(OwedEdges(x, s)') /\ IsFiniteSet(OwedThreads(x, s)')
      <4>1. IsFiniteSet(EndsAt(x, s))
        BY EndsFinite
      <4>2. OwedEdges(x, s)' = EndsAt(x, s) \/ OwedEdges(x, s)' = {}
        BY <2>3
      <4>3. OwedThreads(x, s)' = {}
        BY <2>3
      <4> QED
        BY ONLY <3>0, <4>1, <4>2, <4>3
    <3>2. Cardinality(OwedEdges(x, s)') = Card(x, s) /\ Cardinality(OwedThreads(x, s)') = 0
      BY <2>3, <3>0
    <3>3. Owed(x, s)' = Cardinality(OwedEdges(x, s)') + Cardinality(OwedThreads(x, s)')
      BY DEF Owed
    <3>4. Card(x, s) \in Nat
      BY <1>5
    <3> HIDE DEF Card
    <3> QED
      BY <3>1, <3>2, <3>3, <3>4
  <2>5. ASSUME NEW x \in Nodes
        PROVE  /\ \A s \in {"u", "v"} : IsFiniteSet(OwedEdges(x, s)') /\ IsFiniteSet(OwedThreads(x, s)')
               /\ index'[x] <= offsets'[x]
               /\ offsets'[x] + Owed(x, "u")' + Owed(x, "v")' = index'[x + 1]
               /\ \A k \in offsets'[x] .. (index'[x + 1] - 1) : placed'[k] = Unset
    <3>1. x \in 0 .. NumNodes /\ x + 1 \in 0 .. NumNodes /\ NumNodes \in 0 .. NumNodes /\ x + 1 <= NumNodes
      BY NumNodesAssumption DEF Nodes
    <3>2. /\ sums[x] \in Nat /\ sums[x + 1] \in Nat /\ sums[NumNodes] \in Nat
          /\ sums[x + 1] <= sums[NumNodes]
      BY <1>7, <3>1
    <3>3. offsets'[x] + Owed(x, "u")' + Owed(x, "v")' = index'[x + 1]
      <4>1. Owed(x, "u")' = Card(x, "u") /\ Owed(x, "v")' = Card(x, "v")
        BY <2>4
      <4>2. offsets'[x] = sums[x] /\ index'[x + 1] = sums[x + 1]
        BY <1>1, <1>10
      <4>3. D[x] = Card(x, "u") + Card(x, "v") /\ sums[x + 1] = sums[x] + D[x]
        BY <1>4, <1>7
      <4>4. Card(x, "u") \in Nat /\ Card(x, "v") \in Nat
        BY <1>5
      <4> HIDE DEF Card
      <4> QED
        BY <3>2, <4>1, <4>2, <4>3, <4>4
    <3>4. \A k \in offsets'[x] .. (index'[x + 1] - 1) : placed'[k] = Unset
      BY <1>1, <1>10, <3>2 DEF none
    <3> QED
      BY <1>1, <1>10, <2>4, <3>2, <3>3, <3>4
  <2> QED
    BY <2>1, <2>5 DEF Account
<1>14. Reserved'
  BY <1>2 DEF Reserved
<1> QED
  BY <1>11, <1>12, <1>13, <1>14 DEF IInv

\* Where the lists are: one after the other, each filled up to its offset.
LEMMA Room ==
  ASSUME Lists, Account
  PROVE  /\ \A x \in Nodes : /\ x \in 0 .. NumNodes /\ x + 1 \in 0 .. NumNodes
                             /\ index[x] \in Nat /\ offsets[x] \in Nat /\ index[x + 1] \in Nat
                             /\ index[x] <= offsets[x] /\ offsets[x] <= index[x + 1]
                             /\ index[NumNodes] \in Nat /\ index[x + 1] <= index[NumNodes]
         /\ \A x \in Nodes, s \in {"u", "v"} :
              /\ Cardinality(OwedEdges(x, s)) \in Nat /\ Cardinality(OwedThreads(x, s)) \in Nat
              /\ Owed(x, s) \in Nat
         /\ \A x, y \in Nodes : x < y => offsets[x] <= index[y] /\ index[x + 1] <= index[y]
<1>1. ASSUME NEW x \in Nodes, NEW s \in {"u", "v"}
      PROVE  /\ Cardinality(OwedEdges(x, s)) \in Nat /\ Cardinality(OwedThreads(x, s)) \in Nat
             /\ Owed(x, s) \in Nat
  <2>1. IsFiniteSet(OwedEdges(x, s)) /\ IsFiniteSet(OwedThreads(x, s))
    BY DEF Account
  <2>2. Cardinality(OwedEdges(x, s)) \in Nat /\ Cardinality(OwedThreads(x, s)) \in Nat
    BY <2>1, FS_CardinalityType
  <2> QED
    BY <2>2 DEF Owed
<1>2. ASSUME NEW x \in Nodes
      PROVE  /\ x \in 0 .. NumNodes /\ x + 1 \in 0 .. NumNodes
             /\ index[x] \in Nat /\ offsets[x] \in Nat /\ index[x + 1] \in Nat
             /\ index[x] <= offsets[x] /\ offsets[x] <= index[x + 1]
             /\ index[NumNodes] \in Nat /\ index[x + 1] <= index[NumNodes]
  <2>1. /\ x \in 0 .. NumNodes /\ x + 1 \in 0 .. NumNodes /\ NumNodes \in 0 .. NumNodes
        /\ x + 1 <= NumNodes
    BY NumNodesAssumption DEF Nodes
  <2>2. /\ index[x] \in Nat /\ offsets[x] \in Nat /\ index[x + 1] \in Nat
        /\ index[NumNodes] \in Nat /\ index[x + 1] <= index[NumNodes]
    BY <2>1 DEF Lists
  <2>3. index[x] <= offsets[x] /\ offsets[x] + Owed(x, "u") + Owed(x, "v") = index[x + 1]
    BY DEF Account
  <2>4. Owed(x, "u") \in Nat /\ Owed(x, "v") \in Nat
    BY <1>1
  <2>5. offsets[x] <= index[x + 1]
    BY <2>2, <2>3, <2>4
  <2> QED
    BY <2>1, <2>2, <2>3, <2>5
<1>3. ASSUME NEW x \in Nodes, NEW y \in Nodes, x < y
      PROVE  offsets[x] <= index[y] /\ index[x + 1] <= index[y]
  <2>1. x + 1 \in 0 .. NumNodes /\ y \in 0 .. NumNodes /\ x + 1 <= y
    BY <1>2, <1>3
  <2>2. index[x + 1] <= index[y]
    BY <2>1 DEF Lists
  <2> QED
    BY <1>2, <2>1, <2>2
<1> QED
  BY <1>1, <1>2, <1>3

LEMMA ClaimKeeps ==
  ASSUME IInv, NEW t \in Threads, Claim(t)
  PROVE  IInv'
<1>1. Placing /\ pc[t] = "idle" /\ Types /\ Lists /\ Account /\ Reserved
  BY DEF Claim, Placing, IInv
<1>2. PICK k \in todo : todo' = todo \ {k} /\ e' = [e EXCEPT ![t] = el[k]]
  BY DEF Claim
<1>3. /\ side' = [side EXCEPT ![t] = IF symmetrize \/ phase = "out" THEN "u" ELSE "v"]
      /\ pc' = [pc EXCEPT ![t] = "reserve"]
      /\ UNCHANGED <<el, symmetrize, in_place, phase, offsets, csr, slot>>
  BY DEF Claim
<1>4. k \in DOMAIN el /\ el[k] \in Edge
  BY <1>1, <1>2 DEF Placing, Types, Account
<1>5. phase \in {"out", "in"} /\ (phase = "in" => ~symmetrize) /\ symmetrize \in BOOLEAN
  BY <1>1 DEF Placing, Types
<1>6. Placing' /\ index' = index /\ placed' = placed /\ Sides' = Sides
  BY <1>1, <1>3 DEF Placing, index, placed, Sides
<1>7. Types'
  <2>1. /\ e \in [Threads -> Edge] /\ side \in [Threads -> {"u", "v"}]
        /\ pc \in [Threads -> {"idle", "reserve", "store"}]
    BY <1>1 DEF Types
  <2>2. e' \in [Threads -> Edge]
    BY <1>2, <1>4, <2>1
  <2>3. /\ side' \in [Threads -> {"u", "v"}]
        /\ pc' \in [Threads -> {"idle", "reserve", "store"}]
    BY <1>3, <2>1
  <2> QED
    BY <1>1, <1>3, <1>6, <2>2, <2>3 DEF Types
<1>8. Lists'
  BY <1>1, <1>3, <1>6 DEF Lists
<1>9. \A r \in Threads : r # t => pc'[r] = pc[r] /\ e'[r] = e[r] /\ side'[r] = side[r]
  BY <1>1, <1>2, <1>3 DEF Types
<1>10. pc'[t] = "reserve" /\ e'[t] = el[k] /\ side'[t] = IF symmetrize \/ phase = "out" THEN "u" ELSE "v"
  BY <1>1, <1>2, <1>3 DEF Types
<1>11. \A s \in {"u", "v"} : ~Owes(t, s) /\ (Owes(t, s)' <=> s \in Sides)
  BY <1>1, <1>3, <1>5, <1>10 DEF Owes, Sides
<1>12. \A r \in Threads \ {t} : \A s : Owes(r, s)' <=> Owes(r, s)
  BY <1>3, <1>9 DEF Owes
<1>13. ASSUME NEW x \in Nodes, NEW s \in {"u", "v"}
       PROVE  /\ IsFiniteSet(OwedEdges(x, s)') /\ IsFiniteSet(OwedThreads(x, s)')
              /\ Owed(x, s)' = Owed(x, s)
  <2> DEFINE E == OwedEdges(x, s)
             H == OwedThreads(x, s)
  <2>1. IsFiniteSet(E) /\ IsFiniteSet(H)
    BY <1>1 DEF Account
  <2>2. Cardinality(E) \in Nat /\ Cardinality(H) \in Nat
    BY <2>1, FS_CardinalityType
  <2>3. t \notin H
    BY <1>11 DEF OwedThreads
  <2>4. CASE s \in Sides /\ el[k][s] = x
    <3>1. E' = E \ {k} /\ k \in E
      BY <1>2, <1>3, <1>6, <2>4 DEF OwedEdges
    <3>2. H' = H \cup {t}
      BY <1>9, <1>10, <1>11, <1>12, <2>4 DEF OwedThreads
    <3>3. IsFiniteSet(E \ {k}) /\ Cardinality(E \ {k}) = Cardinality(E) - 1
      BY <2>1, <3>1, FS_RemoveElement
    <3>4. IsFiniteSet(H \cup {t}) /\ Cardinality(H \cup {t}) = Cardinality(H) + 1
      BY <2>1, <2>3, FS_AddElement
    <3>5. Owed(x, s)' = Cardinality(E \ {k}) + Cardinality(H \cup {t})
      BY <3>1, <3>2 DEF Owed
    <3>6. Owed(x, s) = Cardinality(E) + Cardinality(H)
      BY DEF Owed
    <3> HIDE DEF E, H
    <3>7. Owed(x, s)' = Owed(x, s)
      BY <2>2, <3>3, <3>4, <3>5, <3>6
    <3> QED
      BY <3>1, <3>2, <3>3, <3>4, <3>7 DEF E, H
  <2>5. CASE ~(s \in Sides /\ el[k][s] = x)
    <3>1. E' = E
      BY <1>2, <1>3, <1>6, <2>5 DEF OwedEdges
    <3>2. H' = H
      BY <1>9, <1>10, <1>11, <1>12, <2>5 DEF OwedThreads
    <3> QED
      BY <2>1, <3>1, <3>2 DEF Owed
  <2> QED
    BY <2>4, <2>5
<1>14. Account'
  <2>1. todo' \subseteq DOMAIN el'
    BY <1>1, <1>2, <1>3 DEF Account
  <2>2. ASSUME NEW x \in Nodes
        PROVE  /\ \A s \in {"u", "v"} : IsFiniteSet(OwedEdges(x, s)') /\ IsFiniteSet(OwedThreads(x, s)')
               /\ index'[x] <= offsets'[x]
               /\ offsets'[x] + Owed(x, "u")' + Owed(x, "v")' = index'[x + 1]
               /\ \A j \in offsets'[x] .. (index'[x + 1] - 1) : placed'[j] = Unset
    <3>1. Owed(x, "u")' = Owed(x, "u") /\ Owed(x, "v")' = Owed(x, "v")
      BY <1>13
    <3>2. /\ index[x] <= offsets[x]
          /\ offsets[x] + Owed(x, "u") + Owed(x, "v") = index[x + 1]
          /\ \A j \in offsets[x] .. (index[x + 1] - 1) : placed[j] = Unset
      BY <1>1 DEF Account
    <3> QED
      BY <1>3, <1>6, <1>13, <3>1, <3>2
  <2> QED
    BY <2>1, <2>2 DEF Account
<1>15. Reserved'
  <2> SUFFICES ASSUME NEW r \in Threads, pc'[r] = "store"
               PROVE  LET x == e'[r][side'[r]]
                      IN  /\ slot'[r] \in index'[x] .. (offsets'[x] - 1)
                          /\ placed'[slot'[r]] = Unset
                          /\ \A s \in Threads \ {r} : pc'[s] = "store" => slot'[s] # slot'[r]
    BY DEF Reserved
  <2>1. r # t /\ pc[r] = "store" /\ e'[r] = e[r] /\ side'[r] = side[r]
    BY <1>9, <1>10
  <2>2. \A s \in Threads : pc'[s] = "store" => pc[s] = "store"
    BY <1>9, <1>10
  <2>3. LET x == e[r][side[r]]
        IN  /\ slot[r] \in index[x] .. (offsets[x] - 1)
            /\ placed[slot[r]] = Unset
            /\ \A s \in Threads \ {r} : pc[s] = "store" => slot[s] # slot[r]
    BY <1>1, <2>1 DEF Reserved
  <2> QED
    BY <1>3, <1>6, <2>1, <2>2, <2>3
<1> QED
  BY <1>7, <1>8, <1>14, <1>15 DEF IInv

LEMMA ReserveKeeps ==
  ASSUME IInv, NEW t \in Threads, Reserve(t)
  PROVE  IInv'
<1> DEFINE s0 == side[t]
           x0 == e[t][s0]
<1>1. pc[t] = "reserve" /\ Types /\ Placing /\ Lists /\ Account /\ Reserved
  BY DEF Reserve, IInv, Types
<1>2. /\ slot' = [slot EXCEPT ![t] = offsets[x0]]
      /\ offsets' = [offsets EXCEPT ![x0] = @ + 1]
      /\ pc' = [pc EXCEPT ![t] = "store"]
      /\ UNCHANGED <<el, symmetrize, in_place, phase, csr, todo, e, side>>
  BY DEF Reserve
<1>3. s0 \in {"u", "v"} /\ x0 \in Nodes
  <2>1. s0 \in {"u", "v"} /\ e[t] \in Edge
    BY <1>1 DEF Types
  <2>2. e[t].u \in Nodes /\ e[t].v \in Nodes
    BY <2>1 DEF Edge
  <2> QED
    BY <2>1, <2>2
<1>4. Placing' /\ index' = index /\ placed' = placed /\ Sides' = Sides
  BY <1>1, <1>2 DEF Placing, index, placed, Sides
<1>5. /\ \A x \in Nodes : /\ x \in 0 .. NumNodes /\ x + 1 \in 0 .. NumNodes
                          /\ index[x] \in Nat /\ offsets[x] \in Nat /\ index[x + 1] \in Nat
                          /\ index[x] <= offsets[x] /\ offsets[x] <= index[x + 1]
      /\ \A x \in Nodes, s \in {"u", "v"} :
           /\ Cardinality(OwedEdges(x, s)) \in Nat /\ Cardinality(OwedThreads(x, s)) \in Nat
           /\ Owed(x, s) \in Nat
      /\ \A x, y \in Nodes : x < y => offsets[x] <= index[y] /\ index[x + 1] <= index[y]
  BY <1>1, Room
<1>6. /\ pc'[t] = "store" /\ slot'[t] = offsets[x0]
      /\ \A r \in Threads : r # t => pc'[r] = pc[r] /\ slot'[r] = slot[r]
  BY <1>1, <1>2 DEF Types
<1>7. \A x \in Nodes : offsets'[x] = IF x = x0 THEN offsets[x] + 1 ELSE offsets[x]
  BY <1>1, <1>2, <1>5 DEF Lists
<1> HIDE DEF x0, s0
<1>8. Types'
  <2>1. slot \in [Threads -> Int] /\ pc \in [Threads -> {"idle", "reserve", "store"}]
    BY <1>1 DEF Types
  <2>2. offsets[x0] \in Int
    BY <1>3, <1>5
  <2>3. slot' \in [Threads -> Int] /\ pc' \in [Threads -> {"idle", "reserve", "store"}]
    BY <1>2, <2>1, <2>2
  <2> QED
    BY <1>1, <1>2, <1>4, <2>3 DEF Types
<1>9. Lists'
  <2>1. offsets \in [0 .. NumNodes -> Nat] /\ offsets[x0] + 1 \in Nat
    BY <1>1, <1>3, <1>5 DEF Lists
  <2>2. offsets' \in [0 .. NumNodes -> Nat]
    BY <1>2, <2>1
  <2> QED
    BY <1>1, <1>2, <1>4, <2>2 DEF Lists
\* What is owed: one slot less, in the list of x0.
<1>10. /\ Owes(t, s0)
       /\ \A r \in Threads, s \in {"u", "v"} :
            Owes(r, s)' <=> Owes(r, s) /\ ~(r = t /\ s = s0)
  <2>1. Owes(t, s0)
    BY <1>1 DEF Owes, s0
  <2>2. \A r \in Threads, s \in {"u", "v"} : r # t => (Owes(r, s)' <=> Owes(r, s))
    BY <1>2, <1>6 DEF Owes
  <2>3. \A s \in {"u", "v"} : Owes(t, s)' <=> Owes(t, s) /\ s # s0
    BY <1>1, <1>2, <1>3, <1>6 DEF Owes, s0
  <2> QED
    BY <2>1, <2>2, <2>3
<1>11. ASSUME NEW x \in Nodes, NEW s \in {"u", "v"}
       PROVE  /\ IsFiniteSet(OwedEdges(x, s)') /\ IsFiniteSet(OwedThreads(x, s)')
              /\ Owed(x, s)' = IF x = x0 /\ s = s0 THEN Owed(x, s) - 1 ELSE Owed(x, s)
              /\ x = x0 /\ s = s0 => Owed(x, s) >= 1
  <2> DEFINE E == OwedEdges(x, s)
             H == OwedThreads(x, s)
  <2>1. IsFiniteSet(E) /\ IsFiniteSet(H)
    BY <1>1 DEF Account
  <2>2. Cardinality(E) \in Nat /\ Cardinality(H) \in Nat
    BY <2>1, FS_CardinalityType
  <2>3. E' = E
    BY <1>2, <1>4 DEF OwedEdges
  <2>4. Owed(x, s) = Cardinality(E) + Cardinality(H)
    BY DEF Owed
  <2>5. Owed(x, s)' = Cardinality(E') + Cardinality(H')
    BY DEF Owed
  <2>6. CASE x = x0 /\ s = s0
    <3>1. H' = H \ {t} /\ t \in H
      BY <1>2, <1>10, <2>6 DEF OwedThreads, x0
    <3>2. IsFiniteSet(H \ {t}) /\ Cardinality(H \ {t}) = Cardinality(H) - 1
      BY <2>1, <3>1, FS_RemoveElement
    <3>3. Cardinality(H \ {t}) \in Nat
      BY <3>2, FS_CardinalityType
    <3> HIDE DEF E, H
    <3>4. Owed(x, s)' = Owed(x, s) - 1 /\ Owed(x, s) >= 1
      BY <2>2, <2>3, <2>4, <2>5, <3>1, <3>2, <3>3
    <3> QED
      BY <2>1, <2>3, <2>6, <3>1, <3>2, <3>4 DEF E, H
  <2>7. CASE ~(x = x0 /\ s = s0)
    <3>1. H' = H
      BY <1>2, <1>10, <2>7 DEF OwedThreads, x0
    <3> HIDE DEF E, H
    <3> QED
      BY <2>1, <2>3, <2>4, <2>5, <2>7, <3>1 DEF E, H
  <2> QED
    BY <2>6, <2>7
<1>12. offsets[x0] + 1 <= index[x0 + 1]
  <2>1. offsets[x0] + Owed(x0, "u") + Owed(x0, "v") = index[x0 + 1]
    BY <1>1, <1>3 DEF Account
  <2>2. Owed(x0, s0) >= 1 /\ Owed(x0, "u") \in Nat /\ Owed(x0, "v") \in Nat
    BY <1>3, <1>5, <1>11
  <2>3. offsets[x0] \in Nat /\ index[x0 + 1] \in Nat
    BY <1>3, <1>5
  <2> QED
    BY <1>3, <2>1, <2>2, <2>3
<1>13. Account'
  <2>1. todo' \subseteq DOMAIN el'
    BY <1>1, <1>2 DEF Account
  <2>2. ASSUME NEW x \in Nodes
        PROVE  /\ \A s \in {"u", "v"} : IsFiniteSet(OwedEdges(x, s)') /\ IsFiniteSet(OwedThreads(x, s)')
               /\ index'[x] <= offsets'[x]
               /\ offsets'[x] + Owed(x, "u")' + Owed(x, "v")' = index'[x + 1]
               /\ \A j \in offsets'[x] .. (index'[x + 1] - 1) : placed'[j] = Unset
    <3>1. /\ index[x] <= offsets[x]
          /\ offsets[x] + Owed(x, "u") + Owed(x, "v") = index[x + 1]
          /\ \A j \in offsets[x] .. (index[x + 1] - 1) : placed[j] = Unset
      BY <1>1 DEF Account
    <3>2. /\ offsets[x] \in Nat /\ index[x] \in Nat /\ index[x + 1] \in Nat
          /\ Owed(x, "u") \in Nat /\ Owed(x, "v") \in Nat
      BY <1>5
    <3>3. offsets'[x] >= offsets[x] /\ offsets'[x] \in Nat
      BY <1>7, <3>2
    <3>4. offsets'[x] + Owed(x, "u")' + Owed(x, "v")' = index'[x + 1]
      <4>1. Owed(x, "u")' = IF x = x0 /\ "u" = s0 THEN Owed(x, "u") - 1 ELSE Owed(x, "u")
        BY <1>11
      <4>2. Owed(x, "v")' = IF x = x0 /\ "v" = s0 THEN Owed(x, "v") - 1 ELSE Owed(x, "v")
        BY <1>11
      <4>3. offsets'[x] = (IF x = x0 THEN offsets[x] + 1 ELSE offsets[x]) /\ index'[x + 1] = index[x + 1]
        BY <1>4, <1>7
      <4> QED
        BY <1>3, <3>1, <3>2, <4>1, <4>2, <4>3
    <3>5. \A j \in offsets'[x] .. (index'[x + 1] - 1) : placed'[j] = Unset
      BY <1>4, <3>1, <3>2, <3>3
    <3>6. index'[x] <= offsets'[x]
      BY <1>4, <3>1, <3>2, <3>3
    <3> QED
      BY <1>11, <3>4, <3>5, <3>6
  <2> QED
    BY <2>1, <2>2 DEF Account
<1>14. ASSUME NEW r \in Threads, r # t, pc[r] = "store"
       PROVE  /\ e[r][side[r]] \in Nodes
              /\ slot[r] \in index[e[r][side[r]]] .. (offsets[e[r][side[r]]] - 1)
              /\ placed[slot[r]] = Unset
              /\ slot[r] # offsets[x0]
  <2> DEFINE y == e[r][side[r]]
  <2>1. y \in Nodes
    <3>1. side[r] \in {"u", "v"} /\ e[r] \in Edge
      BY <1>1 DEF Types
    <3>2. e[r].u \in Nodes /\ e[r].v \in Nodes
      BY <3>1 DEF Edge
    <3> QED
      BY <3>1, <3>2
  <2>2. slot[r] \in index[y] .. (offsets[y] - 1) /\ placed[slot[r]] = Unset
    BY <1>1, <1>14 DEF Reserved
  <2> HIDE DEF y
  <2>3. slot[r] # offsets[x0]
    <3>0. x0 \in Int /\ y \in Int
      BY <1>3, <2>1, NumNodesAssumption DEF Nodes
    <3>1. CASE y = x0
      BY <1>3, <1>5, <2>1, <2>2, <3>1
    <3>2. CASE y < x0
      <4>1. offsets[y] <= index[x0] /\ index[x0] <= offsets[x0]
        BY <1>3, <1>5, <2>1, <3>2
      <4>2. offsets[y] \in Nat /\ index[x0] \in Nat /\ offsets[x0] \in Nat /\ index[y] \in Nat
        BY <1>3, <1>5, <2>1
      <4> QED
        BY <2>2, <4>1, <4>2
    <3>3. CASE x0 < y
      <4>1. index[x0 + 1] <= index[y]
        BY <1>3, <1>5, <2>1, <3>3
      <4>2. index[x0 + 1] \in Nat /\ index[y] \in Nat /\ offsets[x0] \in Nat /\ offsets[y] \in Nat
        BY <1>3, <1>5, <2>1
      <4> QED
        BY <1>12, <2>2, <4>1, <4>2
    <3> QED
      BY <3>0, <3>1, <3>2, <3>3
  <2> QED
    BY <2>1, <2>2, <2>3 DEF y
<1>15. Reserved'
  <2> SUFFICES ASSUME NEW r \in Threads, pc'[r] = "store"
               PROVE  LET x == e'[r][side'[r]]
                      IN  /\ slot'[r] \in index'[x] .. (offsets'[x] - 1)
                          /\ placed'[slot'[r]] = Unset
                          /\ \A s \in Threads \ {r} : pc'[s] = "store" => slot'[s] # slot'[r]
    BY DEF Reserved
  <2>1. CASE r = t
    <3>1. slot'[r] = offsets[x0] /\ e'[r][side'[r]] = x0
      BY <1>2, <1>6, <2>1 DEF x0, s0
    <3>2. offsets[x0] \in index'[x0] .. (offsets'[x0] - 1)
      BY <1>3, <1>4, <1>5, <1>7
    <3>3. placed'[offsets[x0]] = Unset
      <4>1. \A j \in offsets[x0] .. (index[x0 + 1] - 1) : placed[j] = Unset
        BY <1>1, <1>3 DEF Account
      <4> QED
        BY <1>3, <1>4, <1>5, <1>12, <4>1
    <3>4. \A s \in Threads \ {r} : pc'[s] = "store" => slot'[s] # offsets[x0]
      BY <1>6, <1>14, <2>1
    <3> QED
      BY <3>1, <3>2, <3>3, <3>4
  <2>2. CASE r # t
    <3> DEFINE y == e[r][side[r]]
    <3>1. pc[r] = "store" /\ slot'[r] = slot[r] /\ e'[r][side'[r]] = y
      BY <1>2, <1>6, <2>2
    <3>2. /\ y \in Nodes /\ slot[r] \in index[y] .. (offsets[y] - 1)
          /\ placed[slot[r]] = Unset /\ slot[r] # offsets[x0]
      BY <1>14, <2>2, <3>1
    <3>3. \A s \in Threads \ {r} : pc[s] = "store" => slot[s] # slot[r]
      BY <1>1, <3>1 DEF Reserved
    <3> HIDE DEF y
    <3>4. \A s \in Threads \ {r} : pc'[s] = "store" => slot'[s] # slot[r]
      BY <1>6, <3>2, <3>3
    <3>5. slot[r] \in index'[y] .. (offsets'[y] - 1)
      <4>1. /\ offsets[y] \in Nat /\ index[y] \in Nat /\ index'[y] = index[y]
            /\ (offsets'[y] = offsets[y] \/ offsets'[y] = offsets[y] + 1)
        BY <1>4, <1>5, <1>7, <3>2
      <4> QED
        BY <3>2, <4>1
    <3>6. placed'[slot[r]] = Unset
      BY <1>4, <3>2
    <3> QED
      BY <3>1, <3>4, <3>5, <3>6
  <2> QED
    BY <2>1, <2>2
<1> QED
  BY <1>8, <1>9, <1>13, <1>15 DEF IInv

LEMMA StoreKeeps ==
  ASSUME IInv, NEW t \in Threads, Store(t)
  PROVE  IInv'
<1> DEFINE x0 == e[t][side[t]]
           k0 == slot[t]
<1>1. pc[t] = "store" /\ Types /\ Placing /\ Lists /\ Account /\ Reserved
  BY DEF Store, IInv, Types
<1>2. /\ csr' = [csr EXCEPT ![phase].neighs[k0] = OtherEnd(t)]
      /\ slot' = [slot EXCEPT ![t] = 0]
      /\ UNCHANGED <<el, symmetrize, in_place, phase, offsets, todo>>
  BY DEF Store
<1>3. \/ /\ symmetrize /\ side[t] = "u"
         /\ pc' = [pc EXCEPT ![t] = "reserve"]
         /\ side' = [side EXCEPT ![t] = "v"]
         /\ e' = e
      \/ /\ ~(symmetrize /\ side[t] = "u")
         /\ pc' = [pc EXCEPT ![t] = "idle"]
         /\ side' = [side EXCEPT ![t] = "u"]
         /\ e' = [e EXCEPT ![t] = NoEdge]
  BY DEF Store, EndIteration
<1>4. e[t] \in Edge /\ side[t] \in {"u", "v"} /\ x0 \in Nodes
  <2>1. e[t] \in Edge /\ side[t] \in {"u", "v"}
    BY <1>1 DEF Types
  <2>2. e[t].u \in Nodes /\ e[t].v \in Nodes
    BY <2>1 DEF Edge
  <2> QED
    BY <2>1, <2>2
<1>5. OtherEnd(t) \in Entry
  <2> DEFINE y == e[t][IF side[t] = "u" THEN "v" ELSE "u"]
             w == e[t].w
  <2>1. e[t].u \in Int /\ e[t].v \in Int /\ w \in Int
    BY <1>4, NumNodesAssumption DEF Edge, Nodes
  <2>2. y \in Int
    BY <1>4, <2>1
  <2>3. OtherEnd(t) = [v |-> y, w |-> w]
    BY DEF OtherEnd
  <2> HIDE DEF y, w
  <2> QED
    BY <2>1, <2>2, <2>3 DEF Entry
<1>6. /\ csr' \in [out : {csr'.out}, in : {csr'.in}]
      /\ csr'[phase] \in [index : {csr'[phase].index}, neighs : {csr'[phase].neighs}]
      /\ csr'[phase].index = csr[phase].index
      /\ csr'[phase].neighs = [csr[phase].neighs EXCEPT ![k0] = OtherEnd(t)]
  <2> DEFINE x == OtherEnd(t)
  <2>1. /\ phase \in {"out", "in"}
        /\ csr \in [out : {csr.out}, in : {csr.in}]
        /\ csr[phase] \in [index : {csr[phase].index}, neighs : {csr[phase].neighs}]
    BY <1>1 DEF Types, Lists, Placing, index, placed
  <2> HIDE DEF x, k0
  <2>2. csr' = [csr EXCEPT ![phase].neighs[k0] = x]
    BY <1>2 DEF x
  <2> QED
    BY <2>1, <2>2, StoredAt DEF x
<1>7. /\ Placing' /\ index' = index /\ Sides' = Sides
      /\ placed' = [placed EXCEPT ![k0] = OtherEnd(t)]
  BY <1>1, <1>2, <1>6 DEF Placing, index, placed, Sides
<1>8. /\ \A x \in Nodes : /\ index[x] \in Nat /\ offsets[x] \in Nat /\ index[x + 1] \in Nat
                          /\ index[x] <= offsets[x] /\ offsets[x] <= index[x + 1]
                          /\ index[NumNodes] \in Nat /\ index[x + 1] <= index[NumNodes]
      /\ \A x, y \in Nodes : x < y => offsets[x] <= index[y] /\ index[x + 1] <= index[y]
  BY <1>1, Room
<1>9. k0 \in index[x0] .. (offsets[x0] - 1) /\ k0 \in 0 .. (index[NumNodes] - 1)
  <2>1. k0 \in index[x0] .. (offsets[x0] - 1)
    BY <1>1 DEF Reserved
  <2>2. /\ index[x0] \in Nat /\ offsets[x0] \in Nat /\ index[x0 + 1] \in Nat /\ index[NumNodes] \in Nat
        /\ offsets[x0] <= index[x0 + 1] /\ index[x0 + 1] <= index[NumNodes]
    BY <1>4, <1>8
  <2> QED
    BY <2>1, <2>2
<1>10. /\ pc'[t] # "store"
       /\ \A r \in Threads : r # t => /\ pc'[r] = pc[r] /\ side'[r] = side[r] /\ e'[r] = e[r]
                                      /\ slot'[r] = slot[r]
  BY <1>1, <1>2, <1>3 DEF Types
<1>11. /\ placed'[k0] = OtherEnd(t)
       /\ \A k \in 0 .. (index[NumNodes] - 1) : k # k0 => placed'[k] = placed[k]
  BY <1>1, <1>7, <1>9 DEF Lists
<1>12. Types'
  <2>1. /\ pc \in [Threads -> {"idle", "reserve", "store"}]
        /\ side \in [Threads -> {"u", "v"}] /\ e \in [Threads -> Edge] /\ slot \in [Threads -> Int]
    BY <1>1 DEF Types
  <2>2. NoEdge \in Edge
    BY NumNodesAssumption DEF NoEdge, Edge, Nodes
  <2>3. /\ pc' \in [Threads -> {"idle", "reserve", "store"}]
        /\ side' \in [Threads -> {"u", "v"}] /\ slot' \in [Threads -> Int]
    BY <1>2, <1>3, <2>1
  <2>4. e' \in [Threads -> Edge]
    BY <1>3, <2>1, <2>2
  <2> QED
    BY <1>1, <1>2, <1>6, <1>7, <2>3, <2>4 DEF Types
<1>13. Lists'
  <2>1. placed' \in [0 .. (index[NumNodes] - 1) -> Entry]
    BY <1>1, <1>5, <1>7, <1>9 DEF Lists
  <2>2. csr'[phase'] \in [index : {index'}, neighs : {placed'}]
    BY <1>2, <1>6 DEF index, placed
  <2> QED
    BY <1>1, <1>2, <1>7, <2>1, <2>2 DEF Lists
<1>14. \A r \in Threads, s \in {"u", "v"} : /\ Owes(r, s)' <=> Owes(r, s)
                                            /\ Owes(r, s) => e'[r][s] = e[r][s]
  <2> TAKE r \in Threads, s \in {"u", "v"}
  <2>0. symmetrize \in BOOLEAN
    BY <1>1 DEF Types
  <2>1. CASE r # t
    BY <1>2, <1>10, <2>1 DEF Owes
  <2>2. CASE r = t /\ symmetrize /\ side[t] = "u"
    <3>1. pc'[t] = "reserve" /\ side'[t] = "v" /\ e' = e
      BY <1>1, <1>3, <2>2 DEF Types
    <3> QED
      BY <1>1, <1>2, <2>2, <3>1 DEF Owes
  <2>3. CASE r = t /\ ~(symmetrize /\ side[t] = "u")
    <3>1. pc'[t] = "idle"
      BY <1>1, <1>3, <2>3 DEF Types
    <3> QED
      BY <1>1, <1>2, <2>3, <3>1 DEF Owes
  <2> QED
    BY <2>1, <2>2, <2>3
<1>15. ASSUME NEW x \in Nodes, NEW s \in {"u", "v"}
       PROVE  OwedEdges(x, s)' = OwedEdges(x, s) /\ OwedThreads(x, s)' = OwedThreads(x, s)
  <2>1. OwedEdges(x, s)' = OwedEdges(x, s)
    BY <1>2, <1>7 DEF OwedEdges
  <2>2. OwedThreads(x, s)' = OwedThreads(x, s)
    BY <1>14 DEF OwedThreads
  <2> QED
    BY <2>1, <2>2
<1>16. Account'
  <2>1. todo' \subseteq DOMAIN el'
    BY <1>1, <1>2 DEF Account
  <2>2. ASSUME NEW x \in Nodes
        PROVE  /\ \A s \in {"u", "v"} : IsFiniteSet(OwedEdges(x, s)') /\ IsFiniteSet(OwedThreads(x, s)')
               /\ index'[x] <= offsets'[x]
               /\ offsets'[x] + Owed(x, "u")' + Owed(x, "v")' = index'[x + 1]
               /\ \A j \in offsets'[x] .. (index'[x + 1] - 1) : placed'[j] = Unset
    <3>1. /\ \A s \in {"u", "v"} : IsFiniteSet(OwedEdges(x, s)) /\ IsFiniteSet(OwedThreads(x, s))
          /\ index[x] <= offsets[x]
          /\ offsets[x] + Owed(x, "u") + Owed(x, "v") = index[x + 1]
          /\ \A j \in offsets[x] .. (index[x + 1] - 1) : placed[j] = Unset
      BY <1>1 DEF Account
    <3>2. Owed(x, "u")' = Owed(x, "u") /\ Owed(x, "v")' = Owed(x, "v")
      BY <1>15 DEF Owed
    <3>3. ASSUME NEW j \in offsets[x] .. (index[x + 1] - 1) PROVE placed'[j] = Unset
      <4>1. /\ index[x] \in Nat /\ offsets[x] \in Nat /\ index[x + 1] \in Nat /\ index[NumNodes] \in Nat
            /\ index[x + 1] <= index[NumNodes] /\ index[x0] \in Nat /\ offsets[x0] \in Nat
            /\ x \in Int /\ x0 \in Int
        BY <1>4, <1>8, NumNodesAssumption DEF Nodes
      <4> HIDE DEF x0, k0
      <4>2. j # k0
        <5>1. CASE x = x0
          BY <1>9, <4>1, <5>1
        <5>2. CASE x < x0
          <6>1. index[x + 1] <= index[x0]
            BY <1>4, <1>8, <5>2
          <6> QED
            BY <1>9, <4>1, <6>1
        <5>3. CASE x0 < x
          <6>1. offsets[x0] <= index[x]
            BY <1>4, <1>8, <5>3
          <6> QED
            BY <1>9, <3>1, <4>1, <6>1
        <5> QED
          BY <4>1, <5>1, <5>2, <5>3
      <4>3. j \in 0 .. (index[NumNodes] - 1)
        BY <4>1
      <4> QED
        BY <1>11, <3>1, <4>2, <4>3
    <3> QED
      BY <1>2, <1>7, <1>15, <3>1, <3>2, <3>3
  <2> QED
    BY <2>1, <2>2 DEF Account
<1>17. Reserved'
  <2> SUFFICES ASSUME NEW r \in Threads, pc'[r] = "store"
               PROVE  LET x == e'[r][side'[r]]
                      IN  /\ slot'[r] \in index'[x] .. (offsets'[x] - 1)
                          /\ placed'[slot'[r]] = Unset
                          /\ \A s \in Threads \ {r} : pc'[s] = "store" => slot'[s] # slot'[r]
    BY DEF Reserved
  <2> DEFINE y == e[r][side[r]]
  <2>1. r # t /\ pc[r] = "store" /\ slot'[r] = slot[r] /\ e'[r][side'[r]] = y
    BY <1>10
  <2>2. y \in Nodes
    <3>1. side[r] \in {"u", "v"} /\ e[r] \in Edge
      BY <1>1 DEF Types
    <3>2. e[r].u \in Nodes /\ e[r].v \in Nodes
      BY <3>1 DEF Edge
    <3> QED
      BY <3>1, <3>2
  <2>3. /\ slot[r] \in index[y] .. (offsets[y] - 1) /\ placed[slot[r]] = Unset
        /\ \A s \in Threads \ {r} : pc[s] = "store" => slot[s] # slot[r]
    BY <1>1, <2>1 DEF Reserved
  <2> HIDE DEF y
  <2>4. slot[r] # k0
    BY <1>1, <2>1, <2>3
  <2>5. slot[r] \in 0 .. (index[NumNodes] - 1)
    <3>1. /\ index[y] \in Nat /\ offsets[y] \in Nat /\ index[y + 1] \in Nat /\ index[NumNodes] \in Nat
          /\ offsets[y] <= index[y + 1] /\ index[y + 1] <= index[NumNodes]
      BY <1>8, <2>2
    <3> QED
      BY <2>3, <3>1
  <2>6. placed'[slot[r]] = Unset
    BY <1>11, <2>3, <2>4, <2>5
  <2>7. \A s \in Threads \ {r} : pc'[s] = "store" => slot'[s] # slot[r]
    BY <1>10, <2>3
  <2> QED
    BY <1>2, <1>7, <2>1, <2>3, <2>6, <2>7
<1> QED
  BY <1>12, <1>13, <1>16, <1>17 DEF IInv

-----------------------------------------------------------------------------
LEMMA StartKeeps == ASSUME IInv, Start PROVE IInv'
<1>1. /\ phase = "start" /\ ~in_place /\ MakeCSR("out")
      /\ UNCHANGED <<el, symmetrize, in_place, locals>>
  BY DEF Start
<1>2. /\ Types /\ el \in Seq(Edge) /\ csr \in [out : {csr.out}, in : {csr.in}]
      /\ \A t \in Threads : pc[t] = "idle"
  BY <1>1 DEF IInv, Types, Placing
<1> QED
  BY <1>1, <1>2, MakeCSRHolds

LEMMA InvertKeeps == ASSUME IInv, Invert PROVE IInv'
<1>1. /\ phase = "out" /\ ~symmetrize /\ MakeCSR("in")
      /\ UNCHANGED <<el, symmetrize, in_place, locals>>
      /\ \A t \in Threads : pc[t] = "idle"
  BY DEF Invert, LoopDone
<1>2. /\ Types /\ el \in Seq(Edge) /\ csr \in [out : {csr.out}, in : {csr.in}] /\ ~in_place
  BY <1>1 DEF IInv, Types, Placing
<1> QED
  BY <1>1, <1>2, MakeCSRHolds

\* Every other step is one of a single thread, before or after the parallel loops.
LEMMA SerialKeeps == ASSUME IInv, SquishGraph \/ MakeCSRInPlace PROVE IInv'
<1>1. /\ phase' \notin {"start", "out", "in"}
      /\ UNCHANGED <<symmetrize, in_place, locals>>
      /\ ~Placing \/ LoopDone
  <2>1. CASE SquishGraph
    BY <2>1 DEF SquishGraph
  <2>2. CASE Preprocess
    BY <2>2 DEF Preprocess, Placing
  <2>3. CASE Overwrite
    BY <2>3 DEF Overwrite, Placing
  <2>4. CASE FinishDirected
    BY <2>4 DEF FinishDirected, Placing
  <2>5. CASE ReallocFails
    BY <2>5 DEF ReallocFails, Placing
  <2>6. CASE MakeRoom
    BY <2>6 DEF MakeRoom, Placing
  <2>7. CASE AddInverse
    BY <2>7 DEF AddInverse, Placing
  <2>8. CASE NextRow
    BY <2>8 DEF NextRow, Placing
  <2>9. CASE FinishSymmetrized
    BY <2>9 DEF FinishSymmetrized, Placing
  <2> QED
    BY <2>1, <2>2, <2>3, <2>4, <2>5, <2>6, <2>7, <2>8, <2>9 DEF MakeCSRInPlace
<1>2. \A t \in Threads : pc[t] = "idle"
  BY <1>1 DEF IInv, Types, LoopDone
<1>3. ~Placing'
  BY <1>1 DEF Placing
<1> QED
  BY <1>1, <1>2, <1>3 DEF IInv, Types, locals

LEMMA NextKeeps == IInv /\ [MakeGraphFromEL]_builder_vars => IInv'
<1> SUFFICES ASSUME IInv, [MakeGraphFromEL]_builder_vars PROVE IInv'
  OBVIOUS
<1>1. CASE Start
  BY <1>1, StartKeeps
<1>2. ASSUME NEW t \in Threads, Claim(t) PROVE IInv'
  BY <1>2, ClaimKeeps
<1>3. ASSUME NEW t \in Threads, Reserve(t) PROVE IInv'
  BY <1>3, ReserveKeeps
<1>4. ASSUME NEW t \in Threads, Store(t) PROVE IInv'
  BY <1>4, StoreKeeps
<1>5. CASE Invert
  BY <1>5, InvertKeeps
<1>6. CASE SquishGraph \/ MakeCSRInPlace
  BY <1>6, SerialKeeps
<1>7. CASE UNCHANGED builder_vars
  <2>1. /\ el' = el /\ symmetrize' = symmetrize /\ in_place' = in_place /\ phase' = phase
        /\ offsets' = offsets /\ csr' = csr /\ todo' = todo
        /\ pc' = pc /\ e' = e /\ side' = side /\ slot' = slot
    BY <1>7 DEF builder_vars, locals
  <2>2. Placing' = Placing /\ index' = index /\ placed' = placed /\ Sides' = Sides
    BY <2>1 DEF Placing, index, placed, Sides
  <2>3. Types'
    BY <2>1, <2>2 DEF IInv, Types
  <2>4. ASSUME Placing, NEW x, NEW s
        PROVE  OwedEdges(x, s)' = OwedEdges(x, s) /\ OwedThreads(x, s)' = OwedThreads(x, s)
    BY <2>1, <2>2 DEF OwedEdges, OwedThreads, Owes
  <2>5. ASSUME Placing PROVE Lists' /\ Reserved'
    BY <2>1, <2>2, <2>5 DEF IInv, Lists, Reserved
  <2>6. ASSUME Placing PROVE Account'
    BY <2>1, <2>2, <2>4, <2>6 DEF IInv, Account, Owed
  <2> QED
    BY <2>2, <2>3, <2>5, <2>6 DEF IInv
<1> QED
  BY <1>1, <1>2, <1>3, <1>4, <1>5, <1>6, <1>7 DEF MakeGraphFromEL

(***************************************************************************)
(* The lists are never torn: for any edge list, number of threads and size *)
(* of a block, a reserved slot lies in the list of its vertex, is empty    *)
(* and has one owner.                                                      *)
(***************************************************************************)
THEOREM RowsPrivacy == Spec => []RowsPrivate
<1>1. ASSUME IInv, NEW t \in Threads, pc[t] = "store"
      PROVE  LET x == e[t][side[t]]
             IN  /\ slot[t] \in csr[phase].index[x] .. (csr[phase].index[x+1] - 1)
                 /\ csr[phase].neighs[slot[t]] = Unset
                 /\ \A s \in Threads \ {t} : pc[s] = "store" => slot[s] # slot[t]
  <2> DEFINE x == e[t][side[t]]
  <2>1. Lists /\ Account /\ Reserved /\ side[t] \in {"u", "v"} /\ e[t] \in Edge
    BY <1>1 DEF IInv, Types
  <2>2. e[t].u \in Nodes /\ e[t].v \in Nodes
    BY <2>1 DEF Edge
  <2>3. x \in Nodes
    BY <2>1, <2>2
  <2>4. /\ slot[t] \in index[x] .. (offsets[x] - 1) /\ placed[slot[t]] = Unset
        /\ \A s \in Threads \ {t} : pc[s] = "store" => slot[s] # slot[t]
    BY <1>1, <2>1 DEF Reserved
  <2> HIDE DEF x
  <2>5. /\ index[x] \in Nat /\ offsets[x] \in Nat /\ index[x + 1] \in Nat
        /\ offsets[x] <= index[x + 1]
    BY <2>1, <2>3, Room
  <2>6. slot[t] \in index[x] .. (index[x + 1] - 1)
    BY <2>4, <2>5
  <2> QED
    BY <2>4, <2>6 DEF x, index, placed
<1>2. IInv => RowsPrivate
  BY <1>1 DEF RowsPrivate
<1> QED
  BY <1>2, InitInv, NextKeeps, PTL DEF Spec

Total(f, S) == Cardinality(Units(f, S))

LEMMA TotalMore ==
  ASSUME NEW f, NEW S, IsFiniteSet(S), \A k \in S : f[k] \in Nat, NEW A \in SUBSET S
  PROVE  /\ Total(f, {}) = 0
         /\ Total(f, A) \in Nat /\ Total(f, S) \in Nat /\ Total(f, A) <= Total(f, S)
         /\ \A x \in S \ A : Total(f, A \cup {x}) = Total(f, A) + f[x]
         /\ \A x \in A : f[x] <= Total(f, S)
<1>1. IsFiniteSet(A) /\ IsFiniteSet(S \ A)
  BY FS_Subset
<1>2. /\ IsFiniteSet(Units(f, S)) /\ Total(f, S) \in Nat
      /\ IsFiniteSet(Units(f, A)) /\ Total(f, A) \in Nat
  BY <1>1, UnitsFinite DEF Total
<1>3. Units(f, A) \subseteq Units(f, S)
  BY DEF Units
<1>4. Total(f, A) <= Total(f, S)
  BY <1>2, <1>3, FS_Subset DEF Total
<1>5. Total(f, {}) = 0
  BY FS_EmptySet DEF Total, Units
<1>6. ASSUME NEW x \in S \ A PROVE Total(f, A \cup {x}) = Total(f, A) + f[x]
  <2>1. IsFiniteSet({x}) /\ A \cap {x} = {} /\ \A k \in A \cup {x} : f[k] \in Nat
    BY FS_Singleton
  <2>2. Cardinality(Units(f, A \cup {x})) = Cardinality(Units(f, A)) + Cardinality(Units(f, {x}))
    BY <1>1, <2>1, UnitsUnion
  <2>3. Cardinality(Units(f, {x})) = f[x]
    BY UnitsOne
  <2> QED
    BY <2>2, <2>3 DEF Total
<1>7. ASSUME NEW x \in A PROVE f[x] <= Total(f, S)
  <2>1. Units(f, {x}) \subseteq Units(f, S)
    BY DEF Units
  <2>2. Cardinality(Units(f, {x})) = f[x]
    BY UnitsOne
  <2> QED
    BY <1>2, <2>1, <2>2, FS_Subset DEF Total
<1> QED
  BY <1>2, <1>4, <1>5, <1>6, <1>7

LEMMA TotalSame ==
  ASSUME NEW f, NEW h, NEW S, \A k \in S : f[k] = h[k]
  PROVE  Total(f, S) = Total(h, S)
<1>1. \A k \in S : Pile(f, k) = Pile(h, k)
  BY DEF Pile
<1> QED
  BY <1>1 DEF Total, Units

\* A sum is not changed by leaving out what is 0.
LEMMA TotalZero ==
  ASSUME NEW f, NEW S, NEW A \in SUBSET S, \A k \in S \ A : f[k] = 0
  PROVE  Total(f, A) = Total(f, S)
<1>1. \A k \in S \ A : Pile(f, k) = {}
  BY DEF Pile
<1>2. Units(f, A) = Units(f, S)
  BY <1>1 DEF Units
<1> QED
  BY <1>2 DEF Total

\* A sum that is not 0 has a part that is not.
LEMMA TotalPart ==
  ASSUME NEW f, NEW S, \A k \in S : f[k] \in Nat, Total(f, S) # 0
  PROVE  \E k \in S : f[k] > 0
<1> SUFFICES ASSUME \A k \in S : f[k] = 0 PROVE FALSE
  OBVIOUS
<1>1. \A k \in S : Pile(f, k) = {}
  BY DEF Pile
<1>2. Units(f, S) = {}
  BY <1>1 DEF Units
<1> QED
  BY <1>2, FS_EmptySet DEF Total

-----------------------------------------------------------------------------
(* The walks that Distance and PathCount are about.                         *)

\* The neighbours with an edge to n, and those among the first k entries of its in-list.
Into(gr, n) == {x \in Nodes : HasOutEdge(gr, x, n)}
Seen(gr, n, k) == {gr.inv[n][j] : j \in 1 .. k}

\* The sum that Walks is made of.
Inner(gr, w, l, z) ==
  LET sum[j \in 0 .. in_degree(gr, z)] ==
        IF j = 0 THEN 0 ELSE sum[j - 1] + w[l - 1][gr.inv[z][j]]
  IN  sum[in_degree(gr, z)]

LEMMA NodesFinite == IsFiniteSet(Nodes) /\ \A S \in SUBSET Nodes : IsFiniteSet(S)
<1>1. IsFiniteSet(Nodes)
  BY NumNodesAssumption, FS_Interval DEF Nodes
<1> QED
  BY <1>1, FS_Subset

LEMMA ListsAre ==
  ASSUME NEW gr \in Graphs, NEW n \in Nodes
  PROVE  /\ in_degree(gr, n) \in Nat /\ out_degree(gr, n) \in Nat
         /\ \A j \in 1 .. in_degree(gr, n) : gr.inv[n][j] \in Nodes
         /\ \A j \in 1 .. out_degree(gr, n) : gr.out[n][j] \in Nodes
         /\ \A j, k \in 1 .. in_degree(gr, n) : gr.inv[n][j] = gr.inv[n][k] => j = k
         /\ \A j, k \in 1 .. out_degree(gr, n) : gr.out[n][j] = gr.out[n][k] => j = k
         /\ Seen(gr, n, in_degree(gr, n)) = Into(gr, n)
<1>1. IsGraph(gr) /\ IsSimple(gr)
  BY GraphsAssumption
<1>2. gr.inv[n] \in Seq(Nodes) /\ gr.out[n] \in Seq(Nodes)
  BY <1>1 DEF IsGraph
<1>3. /\ in_degree(gr, n) \in Nat /\ out_degree(gr, n) \in Nat
      /\ \A j \in 1 .. in_degree(gr, n) : gr.inv[n][j] \in Nodes
      /\ \A j \in 1 .. out_degree(gr, n) : gr.out[n][j] \in Nodes
  BY <1>2 DEF in_degree, out_degree
<1>4. Seen(gr, n, in_degree(gr, n)) = {x \in Nodes : HasInEdge(gr, n, x)}
  BY <1>3 DEF Seen, HasInEdge
<1>5. \A x \in Nodes : HasInEdge(gr, n, x) <=> HasOutEdge(gr, x, n)
  BY <1>1 DEF IsGraph
<1> QED
  BY <1>1, <1>3, <1>4, <1>5 DEF IsSimple, Into

\* The sum over the in-list is the sum over the neighbours.
LEMMA InnerIs ==
  ASSUME NEW gr \in Graphs, NEW z \in Nodes, NEW c \in [Nodes -> Nat],
         NEW w, NEW l, \A x \in Nodes : w[l - 1][x] = c[x]
  PROVE  Inner(gr, w, l, z) = Total(c, Into(gr, z)) /\ Total(c, Into(gr, z)) \in Nat
<1> DEFINE m == in_degree(gr, z)
           P(h) == h = [j \in 0 .. m |-> IF j = 0 THEN 0 ELSE h[j - 1] + w[l - 1][gr.inv[z][j]]]
           f == [j \in 0 .. m |-> Total(c, Seen(gr, z, j))]
           sum == CHOOSE h : P(h)
<1>1. Inner(gr, w, l, z) = sum[m]
  BY DEF Inner
<1>2. m \in Nat /\ \A j \in 1 .. m : gr.inv[z][j] \in Nodes
  BY ListsAre
<1>3. \A j, k \in 1 .. m : gr.inv[z][j] = gr.inv[z][k] => j = k
  BY ListsAre
<1>4. Seen(gr, z, m) = Into(gr, z)
  BY ListsAre
<1> HIDE DEF m
<1>5. ASSUME NEW j \in 0 .. m
      PROVE  f[j] = IF j = 0 THEN 0 ELSE f[j - 1] + w[l - 1][gr.inv[z][j]]
  <2>1. CASE j = 0
    <3>1. Seen(gr, z, 0) = {}
      BY DEF Seen
    <3>2. Total(c, {}) = 0
      BY FS_EmptySet DEF Total, Units
    <3> QED
      BY <1>2, <2>1, <3>1, <3>2
  <2>2. CASE j # 0
    <3> DEFINE A == Seen(gr, z, j - 1)
               x == gr.inv[z][j]
    <3>1. j \in 1 .. m /\ j - 1 \in 0 .. m
      BY <1>2, <2>2
    <3>2. x \in Nodes
      BY <1>2, <3>1
    <3>3. A \subseteq Nodes /\ x \notin A /\ A \cup {x} = Seen(gr, z, j)
      <4>1. \A k \in 1 .. (j - 1) : k \in 1 .. m /\ k # j
        BY <1>2, <3>1
      <4>2. \A k \in 1 .. j : k \in 1 .. (j - 1) \/ k = j
        BY <1>2, <3>1
      <4>3. \A k \in 1 .. (j - 1) : k \in 1 .. j
        BY <1>2, <3>1
      <4>4. j \in 1 .. j
        BY <3>1
      <4> QED
        BY <1>2, <1>3, <3>1, <4>1, <4>2, <4>3, <4>4 DEF Seen
    <3> HIDE DEF A, x
    <3>4. Total(c, A \cup {x}) = Total(c, A) + c[x]
      BY <3>2, <3>3, NodesFinite, TotalMore
    <3>5. c[x] = w[l - 1][x]
      BY <3>2
    <3>6. f[j] = Total(c, Seen(gr, z, j)) /\ f[j - 1] = Total(c, A)
      BY <3>1 DEF A
    <3> QED
      BY <2>2, <3>3, <3>4, <3>5, <3>6 DEF x
  <2> QED
    BY <2>1, <2>2
<1>6. f = [j \in 0 .. m |-> f[j]]
  OBVIOUS
<1>7. f[m] = Total(c, Into(gr, z))
  BY <1>2, <1>4
<1> HIDE DEF f
<1>8. P(f)
  BY <1>5, <1>6
<1> HIDE DEF P
<1>9. P(sum)
  BY <1>8
<1> HIDE DEF sum
<1>10. \A j \in 0 .. m : sum[j] = IF j = 0 THEN 0 ELSE sum[j - 1] + w[l - 1][gr.inv[z][j]]
  <2>1. sum = [j \in 0 .. m |-> IF j = 0 THEN 0 ELSE sum[j - 1] + w[l - 1][gr.inv[z][j]]]
    BY <1>9 DEF P
  <2> QED
    BY <2>1
<1> DEFINE T == {j \in 0 .. m : sum[j] = f[j]}
<1>11. 0 \in T
  BY <1>2, <1>5, <1>10
<1>12. \A k \in 1 .. m : k - 1 \in T => k \in T
  BY <1>2, <1>5, <1>10
<1> HIDE DEF T
<1>13. \A k \in 0 .. m : k \in T
  BY <1>2, <1>11, <1>12, Upwards
<1>14. sum[m] = f[m]
  BY <1>2, <1>13 DEF T
<1>15. Total(c, Into(gr, z)) \in Nat
  BY NodesFinite, TotalMore DEF Into
<1> QED
  BY <1>1, <1>7, <1>14, <1>15 DEF m

\* What Walks chooses.
IsWalks(gr, s, k, w) ==
  w = [l \in 0 .. k |->
        [z \in Nodes |-> IF l = 0 THEN (IF z = s THEN 1 ELSE 0) ELSE Inner(gr, w, l, z)]]

LEMMA WalksAre ==
  ASSUME NEW gr, NEW s, NEW k \in Nat, NEW w, IsWalks(gr, s, k, w)
  PROVE  \A l \in 0 .. k :
           w[l] = [z \in Nodes |-> IF l = 0 THEN (IF z = s THEN 1 ELSE 0) ELSE Inner(gr, w, l, z)]
<1> DEFINE F(l) == [z \in Nodes |-> IF l = 0 THEN (IF z = s THEN 1 ELSE 0) ELSE Inner(gr, w, l, z)]
<1>1. w = [l \in 0 .. k |-> F(l)]
  BY DEF IsWalks
<1> HIDE DEF F
<1>2. \A l \in 0 .. k : w[l] = F(l)
  BY <1>1
<1> QED
  BY <1>2 DEF F

LEMMA WalksUnique ==
  ASSUME NEW gr \in Graphs, NEW s \in Nodes, NEW k \in Nat, NEW n \in 0 .. k,
         NEW h, NEW f, IsWalks(gr, s, n, h), IsWalks(gr, s, k, f)
  PROVE  \A l \in 0 .. n : h[l] = f[l] /\ h[l] \in [Nodes -> Nat]
<1> DEFINE T == {l \in 0 .. n : h[l] = f[l] /\ h[l] \in [Nodes -> Nat]}
<1>1. n \in Nat /\ \A l \in 0 .. n : l \in 0 .. k
  OBVIOUS
<1>2. \A l \in 0 .. n :
        h[l] = [z \in Nodes |-> IF l = 0 THEN (IF z = s THEN 1 ELSE 0) ELSE Inner(gr, h, l, z)]
  BY <1>1, WalksAre
<1>3. \A l \in 0 .. n :
        f[l] = [z \in Nodes |-> IF l = 0 THEN (IF z = s THEN 1 ELSE 0) ELSE Inner(gr, f, l, z)]
  <2>1. \A l \in 0 .. k :
          f[l] = [z \in Nodes |-> IF l = 0 THEN (IF z = s THEN 1 ELSE 0) ELSE Inner(gr, f, l, z)]
    BY WalksAre
  <2> QED
    BY <1>1, <2>1
<1>4. 0 \in T
  <2>1. 0 \in 0 .. n
    BY <1>1
  <2>2. h[0] = [z \in Nodes |-> IF z = s THEN 1 ELSE 0]
    BY <1>2, <2>1
  <2>3. f[0] = [z \in Nodes |-> IF z = s THEN 1 ELSE 0]
    BY <1>3, <2>1
  <2>4. [z \in Nodes |-> IF z = s THEN 1 ELSE 0] \in [Nodes -> Nat]
    OBVIOUS
  <2> QED
    BY <2>1, <2>2, <2>3, <2>4
<1>5. ASSUME NEW l \in 1 .. n, l - 1 \in T PROVE l \in T
  <2> DEFINE c == h[l - 1]
  <2>1. c \in [Nodes -> Nat] /\ \A x \in Nodes : h[l - 1][x] = c[x] /\ f[l - 1][x] = c[x]
    BY <1>5
  <2> HIDE DEF c
  <2>2. ASSUME NEW z \in Nodes
        PROVE  /\ Inner(gr, h, l, z) = Total(c, Into(gr, z)) /\ Inner(gr, f, l, z) = Total(c, Into(gr, z))
               /\ Total(c, Into(gr, z)) \in Nat
    BY <2>1, InnerIs
  <2>3. l \in 0 .. n /\ l # 0
    BY <1>1
  <2>4. h[l] = [z \in Nodes |-> Inner(gr, h, l, z)]
    BY <1>2, <2>3
  <2>5. f[l] = [z \in Nodes |-> Inner(gr, f, l, z)]
    BY <1>3, <2>3
  <2>6. [z \in Nodes |-> Inner(gr, h, l, z)] = [z \in Nodes |-> Inner(gr, f, l, z)]
    BY <2>2
  <2>7. [z \in Nodes |-> Inner(gr, h, l, z)] \in [Nodes -> Nat]
    BY <2>2
  <2> QED
    BY <2>3, <2>4, <2>5, <2>6, <2>7
<1> HIDE DEF T
<1>6. \A l \in 0 .. n : l \in T
  BY <1>1, <1>4, <1>5, Upwards
<1> QED
  BY <1>6 DEF T

LEMMA WalksExist ==
  ASSUME NEW gr \in Graphs, NEW s \in Nodes, NEW k \in Nat
  PROVE  \E w : IsWalks(gr, s, k, w)
<1> DEFINE T == {n \in 0 .. k : \E w : IsWalks(gr, s, n, w)}
<1>1. 0 \in T
  <2> DEFINE w == [l \in 0 .. 0 |-> [z \in Nodes |-> IF z = s THEN 1 ELSE 0]]
  <2>1. w = [l \in 0 .. 0 |->
              [z \in Nodes |-> IF l = 0 THEN (IF z = s THEN 1 ELSE 0) ELSE Inner(gr, w, l, z)]]
    <3> HIDE DEF w
    <3>1. [l \in 0 .. 0 |-> [z \in Nodes |-> IF z = s THEN 1 ELSE 0]]
          = [l \in 0 .. 0 |->
              [z \in Nodes |-> IF l = 0 THEN (IF z = s THEN 1 ELSE 0) ELSE Inner(gr, w, l, z)]]
      OBVIOUS
    <3> QED
      BY <3>1 DEF w
  <2> HIDE DEF w
  <2>2. IsWalks(gr, s, 0, w)
    BY <2>1 DEF IsWalks
  <2> QED
    BY <2>2
<1>2. ASSUME NEW n \in 1 .. k, n - 1 \in T PROVE n \in T
  <2>1. PICK h : IsWalks(gr, s, n - 1, h)
    BY <1>2
  <2> DEFINE F == [z \in Nodes |-> Inner(gr, h, n, z)]
             w == [l \in 0 .. n |-> IF l = n THEN F ELSE h[l]]
  <2>2. n - 1 \in Nat /\ n - 1 \in 0 .. (n - 1) /\ n \in Nat /\ n # 0
    OBVIOUS
  <2>3. \A l \in 0 .. (n - 1) : h[l] \in [Nodes -> Nat]
    BY <2>1, <2>2, WalksUnique
  <2>4. \A l \in 0 .. (n - 1) :
          h[l] = [z \in Nodes |-> IF l = 0 THEN (IF z = s THEN 1 ELSE 0) ELSE Inner(gr, h, l, z)]
    BY <2>1, <2>2, WalksAre
  <2>5. \A l \in 0 .. (n - 1) : w[l] = h[l]
    BY <2>2
  <2>6. w[n] = F
    BY <2>2
  <2>7. w = [l \in 0 .. n |-> w[l]]
    OBVIOUS
  <2> HIDE DEF w
  <2>8. ASSUME NEW l \in 1 .. n, NEW z \in Nodes PROVE Inner(gr, w, l, z) = Inner(gr, h, l, z)
    <3> DEFINE c == h[l - 1]
    <3>1. l - 1 \in 0 .. (n - 1)
      OBVIOUS
    <3>2. c \in [Nodes -> Nat] /\ \A x \in Nodes : h[l - 1][x] = c[x] /\ w[l - 1][x] = c[x]
      BY <2>3, <2>5, <3>1
    <3> HIDE DEF c
    <3> QED
      BY <3>2, InnerIs
  <2>9. ASSUME NEW l \in 0 .. n
        PROVE  w[l] = [z \in Nodes |-> IF l = 0 THEN (IF z = s THEN 1 ELSE 0) ELSE Inner(gr, w, l, z)]
    <3>1. CASE l = n
      <4>1. F = [z \in Nodes |-> Inner(gr, w, n, z)]
        BY <2>2, <2>8
      <4> HIDE DEF F
      <4> QED
        BY <2>2, <2>6, <3>1, <4>1
    <3>2. CASE l # n
      <4>1. l \in 0 .. (n - 1) /\ (l # 0 => l \in 1 .. n)
        BY <2>2, <3>2
      <4>2. w[l] = [z \in Nodes |-> IF l = 0 THEN (IF z = s THEN 1 ELSE 0) ELSE Inner(gr, h, l, z)]
        BY <2>4, <2>5, <4>1
      <4>3. l # 0 => \A z \in Nodes : Inner(gr, w, l, z) = Inner(gr, h, l, z)
        BY <2>8, <4>1
      <4> QED
        BY <4>2, <4>3
    <3> QED
      BY <3>1, <3>2
  <2>10. IsWalks(gr, s, n, w)
    <3> DEFINE G(l) == [z \in Nodes |-> IF l = 0 THEN (IF z = s THEN 1 ELSE 0) ELSE Inner(gr, w, l, z)]
    <3>1. \A l \in 0 .. n : w[l] = G(l)
      BY <2>9
    <3> HIDE DEF G
    <3>2. w = [l \in 0 .. n |-> G(l)]
      BY <2>7, <3>1
    <3> QED
      BY <3>2 DEF IsWalks, G
  <2>11. n \in 0 .. k
    BY <1>2
  <2> QED
    BY <2>10, <2>11
<1> HIDE DEF T
<1>3. \A n \in 0 .. k : n \in T
  BY <1>1, <1>2, Upwards
<1>4. k \in T
  BY <1>3
<1> QED
  BY <1>4 DEF T

\* Ways(gr, s)[k][y] is the number of walks of length k from s to y.
Ways(gr, s) == [k \in Nat |-> [y \in Nodes |-> Walks(gr, s, k, y)]]

(***************************************************************************)
(* A walk is a walk to a neighbour and one more edge.                      *)
(***************************************************************************)
LEMMA WaysAre ==
  ASSUME NEW gr \in Graphs, NEW s \in Nodes
  PROVE  /\ Ways(gr, s)[0] = [y \in Nodes |-> IF y = s THEN 1 ELSE 0]
         /\ \A k \in Nat : Ways(gr, s)[k] \in [Nodes -> Nat]
         /\ \A k \in Nat : \A y \in Nodes : Ways(gr, s)[k][y] = Walks(gr, s, k, y)
         /\ \A k \in Nat : \A y \in Nodes : Ways(gr, s)[k + 1][y] = Total(Ways(gr, s)[k], Into(gr, y))
<1> DEFINE w(k) == CHOOSE w : IsWalks(gr, s, k, w)
<1>1. \A k \in Nat : IsWalks(gr, s, k, w(k))
  BY WalksExist
<1>2. \A k \in Nat : \A y \in Nodes : Walks(gr, s, k, y) = w(k)[k][y]
  BY DEF Walks, IsWalks, Inner
<1> HIDE DEF w
<1>3. \A k \in Nat : w(k)[k] \in [Nodes -> Nat]
  <2> SUFFICES ASSUME NEW k \in Nat PROVE w(k)[k] \in [Nodes -> Nat]
    OBVIOUS
  <2>1. k \in 0 .. k
    OBVIOUS
  <2> QED
    BY <1>1, <2>1, WalksUnique
<1>4. \A k \in Nat : Ways(gr, s)[k] = w(k)[k]
  <2> SUFFICES ASSUME NEW k \in Nat PROVE Ways(gr, s)[k] = w(k)[k]
    OBVIOUS
  <2>1. Ways(gr, s)[k] = [y \in Nodes |-> Walks(gr, s, k, y)]
    BY DEF Ways
  <2>2. \A y \in Nodes : Walks(gr, s, k, y) = w(k)[k][y]
    BY <1>2
  <2>3. w(k)[k] \in [Nodes -> Nat]
    BY <1>3
  <2> QED
    BY <2>1, <2>2, <2>3
<1>5. Ways(gr, s)[0] = [y \in Nodes |-> IF y = s THEN 1 ELSE 0]
  <2>1. IsWalks(gr, s, 0, w(0)) /\ 0 \in 0 .. 0
    BY <1>1
  <2>2. w(0)[0] = [z \in Nodes |-> IF 0 = 0 THEN (IF z = s THEN 1 ELSE 0) ELSE Inner(gr, w(0), 0, z)]
    BY <2>1, WalksAre
  <2> QED
    BY <1>4, <2>2
<1>6. ASSUME NEW k \in Nat, NEW y \in Nodes
      PROVE  Ways(gr, s)[k + 1][y] = Total(Ways(gr, s)[k], Into(gr, y))
  <2> DEFINE n == k + 1
             c == w(k)[k]
             f == w(n)
  <2>1. n \in Nat /\ k \in 0 .. n /\ k \in 0 .. k /\ n \in 0 .. n /\ n # 0 /\ n - 1 = k
    OBVIOUS
  <2> HIDE DEF n
  <2>2. IsWalks(gr, s, n, f) /\ IsWalks(gr, s, k, w(k))
    BY <1>1, <2>1
  <2>3. w(k)[k] = f[k]
    <3> HIDE DEF f
    <3> QED
      BY <2>1, <2>2, WalksUnique
  <2>4. f[n] = [z \in Nodes |-> IF n = 0 THEN (IF z = s THEN 1 ELSE 0) ELSE Inner(gr, f, n, z)]
    <3> HIDE DEF f
    <3> QED
      BY <2>1, <2>2, WalksAre
  <2>5. c \in [Nodes -> Nat]
    BY <1>3
  <2> HIDE DEF f
  <2>6. \A x \in Nodes : f[n - 1][x] = c[x]
    BY <2>1, <2>3
  <2> HIDE DEF c
  <2>7. Inner(gr, f, n, y) = Total(c, Into(gr, y))
    BY <2>5, <2>6, InnerIs
  <2>8. f[n][y] = Total(c, Into(gr, y))
    BY <2>1, <2>4, <2>7
  <2>9. Ways(gr, s)[n] = f[n] /\ Ways(gr, s)[k] = c
    BY <1>4, <2>1 DEF f, c
  <2> QED
    BY <2>8, <2>9 DEF n
<1>7. \A k \in Nat : \A y \in Nodes : Ways(gr, s)[k][y] = Walks(gr, s, k, y)
  BY <1>2, <1>4
<1> QED
  BY <1>3, <1>4, <1>5, <1>6, <1>7

LEMMA DistanceIs ==
  ASSUME NEW gr \in Graphs, NEW s \in Nodes, NEW y \in Nodes, NEW k \in 0 .. (NumNodes - 1),
         Ways(gr, s)[k][y] > 0, \A l \in 0 .. (k - 1) : Ways(gr, s)[l][y] = 0
  PROVE  Distance[gr][s][y] = k /\ PathCount[gr][s][y] = Ways(gr, s)[k][y]
<1> DEFINE P(j) == /\ j < NumNodes => Walks(gr, s, j, y) > 0
                   /\ \A l \in 0 .. (j - 1) : Walks(gr, s, l, y) = 0
           D == CHOOSE j \in 0 .. NumNodes : P(j)
<1>1. NumNodes \in Nat /\ k \in Nat /\ k \in 0 .. NumNodes
  BY NumNodesAssumption
<1>2. \A l \in Nat : Ways(gr, s)[l][y] = Walks(gr, s, l, y)
  <2>1. \A l \in Nat : \A z \in Nodes : Ways(gr, s)[l][z] = Walks(gr, s, l, z)
    BY WaysAre
  <2> QED
    BY <2>1
<1>3. P(k)
  BY <1>1, <1>2
<1>4. D \in 0 .. NumNodes /\ P(D)
  <2> HIDE DEF P
  <2> QED
    BY <1>1, <1>3
<1>5. Distance[gr] = [t \in Nodes |-> [z \in Nodes |->
                        CHOOSE j \in 0 .. NumNodes :
                          /\ j < NumNodes => Walks(gr, t, j, z) > 0
                          /\ \A l \in 0 .. (j - 1) : Walks(gr, t, l, z) = 0]]
  BY DEF Distance
<1>6. Distance[gr][s][y] = D
  BY <1>5
<1> HIDE DEF D
<1>7. ~(D < k)
  <2> SUFFICES ASSUME D < k PROVE FALSE
    OBVIOUS
  <2>1. D \in 0 .. (k - 1) /\ D < NumNodes
    BY <1>1, <1>4
  <2> QED
    BY <1>3, <1>4, <2>1
<1>8. ~(k < D)
  <2> SUFFICES ASSUME k < D PROVE FALSE
    OBVIOUS
  <2>1. k \in 0 .. (D - 1) /\ k < NumNodes
    BY <1>1, <1>4
  <2> QED
    BY <1>3, <1>4, <2>1
<1>9. D = k
  BY <1>1, <1>4, <1>7, <1>8
<1>10. PathCount[gr] = [t \in Nodes |-> [z \in Nodes |-> Walks(gr, t, Distance[gr][t][z], z)]]
  BY DEF PathCount
<1>11. PathCount[gr][s][y] = Walks(gr, s, Distance[gr][s][y], y)
  BY <1>10
<1> QED
  BY <1>1, <1>2, <1>6, <1>9, <1>11

\* Positions in a list are numbers of edges.
LEMMA DegreeBound ==
  ASSUME NEW gr \in Graphs, NEW x \in Nodes
  PROVE  out_degree(gr, x) <= num_edges_directed(gr) /\ num_edges_directed(gr) \in Nat
<1> DEFINE f == [z \in Nodes |-> out_degree(gr, z)]
           entries == Cardinality(UNION {{z} \X (1 .. out_degree(gr, z)) : z \in Nodes})
<1>1. \A z \in Nodes : f[z] = out_degree(gr, z) /\ f[z] \in Nat
  BY ListsAre
<1>2. Units(f, Nodes) = UNION {{z} \X (1 .. out_degree(gr, z)) : z \in Nodes}
  BY DEF Units, Pile
<1>3. entries = Total(f, Nodes)
  BY <1>2 DEF Total
<1> HIDE DEF entries, f
<1>4. entries \in Nat /\ f[x] <= entries
  BY <1>1, <1>3, NodesFinite, TotalMore
<1>5. CASE gr.directed
  BY <1>1, <1>3, <1>4, <1>5 DEF num_edges_directed, entries
<1>6. CASE ~gr.directed
  <2>1. num_edges_directed(gr) = 2 * (entries \div 2)
    BY <1>6 DEF num_edges_directed, entries
  <2>2. 2 * (entries \div 2) >= entries - 1 /\ 2 * (entries \div 2) \in Nat
    BY <1>4
  <2>3. CASE f[x] = 0
    BY <1>1, <2>1, <2>2, <2>3
  <2>4. CASE f[x] # 0
    <3> DEFINE y == gr.out[x][1]
    <3>1. IsGraph(gr) /\ IsSimple(gr)
      BY GraphsAssumption
    <3>2. 1 \in 1 .. out_degree(gr, x)
      BY <1>1, <2>4
    <3>3. y \in Nodes
      BY <3>2, ListsAre
    <3> HIDE DEF y
    <3>4. HasOutEdge(gr, x, y)
      BY <3>2 DEF HasOutEdge, y
    <3>5. y # x
      BY <3>1, <3>4 DEF IsSimple
    <3>6. HasInEdge(gr, y, x) /\ gr.inv = gr.out
      BY <1>6, <3>1, <3>3, <3>4 DEF IsGraph
    <3>7. PICK j \in 1 .. in_degree(gr, y) : gr.inv[y][j] = x
      BY <3>6 DEF HasInEdge
    <3>8. in_degree(gr, y) = out_degree(gr, y)
      BY <3>6 DEF in_degree, out_degree
    <3>9. f[y] >= 1
      BY <1>1, <3>3, <3>7, <3>8
    <3>10. Total(f, {x} \cup {y}) = Total(f, {x}) + f[y]
      BY <1>1, <3>3, <3>5, NodesFinite, TotalMore
    <3>11. Total(f, {x}) = f[x]
      BY <1>1, UnitsOne DEF Total
    <3>12. Total(f, {x} \cup {y}) <= Total(f, Nodes)
      BY <1>1, <3>3, NodesFinite, TotalMore
    <3>13. f[y] \in Nat /\ f[x] \in Nat
      BY <1>1, <3>3
    <3>14. Total(f, {x} \cup {y}) = f[x] + f[y]
      BY <3>10, <3>11
    <3>15. f[x] + 1 <= entries
      BY ONLY <1>3, <1>4, <3>9, <3>12, <3>13, <3>14
    <3> QED
      BY <1>1, <1>4, <2>1, <2>2, <3>13, <3>15
  <2> QED
    BY <2>3, <2>4
<1> QED
  BY <1>5, <1>6

\* Who has a walk to a neighbour has a longer one.
LEMMA WaysGrow ==
  ASSUME NEW gr \in Graphs, NEW s \in Nodes, NEW k \in Nat, NEW x \in Nodes, NEW y \in Nodes,
         HasOutEdge(gr, x, y), Ways(gr, s)[k][x] > 0
  PROVE  Ways(gr, s)[k + 1][y] > 0
<1> DEFINE c == Ways(gr, s)[k]
<1>1. c \in [Nodes -> Nat] /\ Ways(gr, s)[k + 1][y] = Total(c, Into(gr, y))
  <2>1. /\ \A l \in Nat : Ways(gr, s)[l] \in [Nodes -> Nat]
        /\ \A l \in Nat : \A z \in Nodes : Ways(gr, s)[l + 1][z] = Total(Ways(gr, s)[l], Into(gr, z))
    BY WaysAre
  <2> QED
    BY <2>1
<1> HIDE DEF c
<1>2. x \in Into(gr, y) /\ Into(gr, y) \subseteq Nodes /\ IsFiniteSet(Into(gr, y))
  BY NodesFinite DEF Into
<1>3. c[x] <= Total(c, Into(gr, y)) /\ Total(c, Into(gr, y)) \in Nat
  BY <1>1, <1>2, TotalMore
<1>4. c[x] > 0 /\ c[x] \in Nat
  BY <1>1 DEF c
<1> QED
  BY <1>1, <1>3, <1>4

-----------------------------------------------------------------------------
(* The invariant of the parallel search.                                    *)

W == Ways(g, source)

\* Vertex x of the level that is expanded is in no thread's hands yet.
Waiting(x) == \E k \in pending : shared[k] = x

\* Edge j of x, of the level that is expanded, has been dealt with.
Passed(x, j) == /\ ~Waiting(x)
                /\ \A t \in Team : at[t] # "idle" /\ u[t] = x => j < i[t]

\* Edge j of x has its successor bit, and x's paths are still to be added.
Adding(x, j) == \E t \in Team : at[t] \in {"count", "add"} /\ u[t] = x /\ i[t] = j

\* The vertices whose paths have been added to those of n.
Counted(n) == {x \in Nodes : \E j \in 1 .. out_degree(g, x) :
                               g.out[x][j] = n /\ <<x, j>> \in succ /\ ~Adding(x, j)}

BTypes ==
  /\ g \in Graphs /\ sources \in Seq(Nodes)
  /\ depths \in [Nodes -> Int] /\ path_counts \in [Nodes -> Nat]
  /\ shared \in Seq(Nodes)
  /\ at \in [Team -> {"idle", "test", "cas", "retest", "succ", "count", "add"}]
  /\ u \in [Team -> Nodes] /\ i \in [Team -> Nat] /\ count \in [Team -> Nat]
  /\ part # "bfs" => \A t \in Team : at[t] = "idle"
  /\ stage # "kernel" => part = "done"

\* The queue holds the visited vertices, once each, level by level.
Queued ==
  /\ source \in Nodes /\ depth \in Nat \ {0} /\ out_start \in Nat /\ out_end \in Nat
  /\ out_end <= Len(shared)
  /\ pending \subseteq (out_start + 1) .. out_end
  /\ \A k, l \in 1 .. Len(shared) : shared[k] = shared[l] => k = l
  /\ \A n \in Nodes : depths[n] # -1 => \E k \in 1 .. Len(shared) : shared[k] = n
  /\ \A k \in 1 .. Len(shared) :
       IF k > out_end THEN depths[shared[k]] = depth
       ELSE IF k > out_start THEN depths[shared[k]] = depth - 1
       ELSE depths[shared[k]] \in 0 .. (depth - 2)

Busy ==
  \A t \in Team : at[t] # "idle" =>
    /\ depths[u[t]] = depth - 1 /\ ~Waiting(u[t])
    /\ i[t] \in 1 .. out_degree(g, u[t])
    /\ \A o \in Team : at[o] # "idle" /\ u[o] = u[t] => o = t
    /\ at[t] = "retest" => depths[v(t)] # -1
    /\ at[t] \in {"succ", "count", "add"} => depths[v(t)] = depth
    /\ at[t] \in {"count", "add"} => <<u[t], i[t]>> \in succ
    /\ at[t] = "add" => count[t] = W[depth - 1][u[t]]

\* A successor bit is that of an edge from one level to the next.
Bits ==
  \A p \in succ : \E x \in Nodes : \E j \in 1 .. out_degree(g, x) :
    /\ p = <<x, j>>
    /\ depths[x] \in 0 .. (depth - 1) /\ depths[g.out[x][j]] = depths[x] + 1
    /\ depths[x] = depth - 1 => Passed(x, j) \/ Adding(x, j)

\* What was dealt with leads to a visited vertex, and has its bit if that is one deeper.
Edges ==
  \A x \in Nodes : \A j \in 1 .. out_degree(g, x) :
    depths[x] \in 0 .. (depth - 2) \/ (depths[x] = depth - 1 /\ Passed(x, j)) =>
      /\ depths[g.out[x][j]] \in 0 .. (depths[x] + 1)
      /\ depths[g.out[x][j]] = depths[x] + 1 => <<x, j>> \in succ

Counts ==
  \A n \in Nodes :
    /\ depths[n] = -1 => path_counts[n] = 0
    /\ depths[n] \in 0 .. (depth - 1) => path_counts[n] = W[depths[n]][n]
    /\ depths[n] = depth => path_counts[n] = Total(W[depth - 1], Counted(n))

Reached ==
  /\ \A n \in Nodes : \A l \in 0 .. (depth - 1) : W[l][n] > 0 => depths[n] \in 0 .. l
  /\ \A n \in Nodes : depths[n] # -1 => depths[n] \in 0 .. depth /\ W[depths[n]][n] > 0
  /\ \A l \in 0 .. (depth - 1) : \E n \in Nodes : depths[n] = l

\* The successors the dependencies are accumulated over.
Successors ==
  succ = {p \in Nodes \X (1 .. num_edges_directed(g)) : OnShortestPath(p[1], p[2])}

Search == Queued /\ Busy /\ Bits /\ Edges /\ Counts /\ Reached

BInv == BTypes /\ (part = "bfs" => Search) /\ (part = "back" => Successors)

-----------------------------------------------------------------------------
LEMMA SameWays == ASSUME UNCHANGED <<g, sources>> PROVE W' = W /\ source' = source
<1>1. source' = source
  BY DEF source
<1> QED
  BY <1>1 DEF W

\* What holds of a thread inside an iteration.
LEMMA Inside ==
  ASSUME BInv, NEW t \in Team, at[t] # "idle"
  PROVE  /\ part = "bfs" /\ Search /\ depth \in Nat \ {0}
         /\ u[t] \in Nodes /\ v(t) \in Nodes /\ v(t) = g.out[u[t]][i[t]] /\ u[t] # v(t)
         /\ i[t] \in 1 .. out_degree(g, u[t]) /\ out_degree(g, u[t]) \in Nat
         /\ HasOutEdge(g, u[t], v(t))
         /\ depths[u[t]] = depth - 1 /\ ~Waiting(u[t]) /\ ~Passed(u[t], i[t])
<1>1. part = "bfs" /\ Search
  BY DEF BInv, BTypes
<1>2. depth \in Nat \ {0}
  BY <1>1 DEF Search, Queued
<1>3. u[t] \in Nodes /\ i[t] \in Nat /\ g \in Graphs
  BY DEF BInv, BTypes
<1>4. depths[u[t]] = depth - 1 /\ ~Waiting(u[t]) /\ i[t] \in 1 .. out_degree(g, u[t])
  BY <1>1 DEF Search, Busy
<1>5. v(t) = g.out[u[t]][i[t]]
  BY DEF v
<1>6. v(t) \in Nodes /\ out_degree(g, u[t]) \in Nat
  BY <1>3, <1>4, <1>5, ListsAre
<1>7. HasOutEdge(g, u[t], v(t))
  BY <1>4, <1>5 DEF HasOutEdge
<1>8. IsSimple(g)
  BY <1>3, GraphsAssumption
<1>9. u[t] # v(t)
  BY <1>3, <1>7, <1>8 DEF IsSimple
<1>10. ~Passed(u[t], i[t])
  BY <1>3 DEF Passed
<1> QED
  BY <1>1, <1>2, <1>3, <1>4, <1>5, <1>6, <1>7, <1>9, <1>10

\* A thread that stays at its edge passes nothing.
LEMMA PassedStays ==
  ASSUME BInv, NEW t \in Team, at[t] # "idle", NEW w, w # "idle", Goto(t, w),
         UNCHANGED <<pending, u, i>>, \A k \in pending : shared'[k] = shared[k]
  PROVE  \A x, j : Passed(x, j)' <=> Passed(x, j)
<1>1. at' = [at EXCEPT ![t] = w] /\ at \in [Team -> {"idle", "test", "cas", "retest", "succ", "count", "add"}]
  BY DEF Goto, BInv, BTypes
<1>2. \A o \in Team : at'[o] # "idle" <=> at[o] # "idle"
  BY <1>1
<1>3. \A x : Waiting(x)' <=> Waiting(x)
  BY DEF Waiting
<1> QED
  BY <1>2, <1>3 DEF Passed

\* A thread that moves on has passed its edge, and no other.
LEMMA PassedMoves ==
  ASSUME BInv, NEW t \in Team, at[t] # "idle", NextEdge(t), UNCHANGED <<g, pending, shared>>
  PROVE  \A x \in Nodes : \A j \in 1 .. out_degree(g, x) :
           Passed(x, j)' <=> Passed(x, j) \/ (x = u[t] /\ j = i[t])
<1> DEFINE n == out_degree(g, u[t])
<1>1. /\ at \in [Team -> {"idle", "test", "cas", "retest", "succ", "count", "add"}]
      /\ u \in [Team -> Nodes] /\ i \in [Team -> Nat]
  BY DEF BInv, BTypes
<1>2. i[t] \in 1 .. n /\ n \in Nat /\ ~Waiting(u[t])
  BY Inside
<1>3. \A o \in Team : at[o] # "idle" /\ u[o] = u[t] => o = t
  BY Inside DEF Search, Busy
<1>4. \/ /\ i[t] + 1 <= n
         /\ at' = [at EXCEPT ![t] = "test"] /\ u' = [u EXCEPT ![t] = u[t]]
         /\ i' = [i EXCEPT ![t] = i[t] + 1]
      \/ /\ ~(i[t] + 1 <= n)
         /\ at' = [at EXCEPT ![t] = "idle"] /\ u' = [u EXCEPT ![t] = 0]
         /\ i' = [i EXCEPT ![t] = 0]
  BY DEF NextEdge, EdgeOrEnd, Goto
<1>5. \A o \in Team \ {t} : at'[o] = at[o] /\ u'[o] = u[o] /\ i'[o] = i[o]
  BY <1>1, <1>4
<1>6. \A x : Waiting(x)' <=> Waiting(x)
  BY DEF Waiting
<1> SUFFICES ASSUME NEW x \in Nodes, NEW j \in 1 .. out_degree(g, x)
             PROVE  Passed(x, j)' <=> Passed(x, j) \/ (x = u[t] /\ j = i[t])
  OBVIOUS
<1>7. CASE x = u[t]
  <2>0. j \in 1 .. n
    BY <1>7
  <2>1. \A o \in Team \ {t} : ~(at[o] # "idle" /\ u[o] = x) /\ ~(at'[o] # "idle" /\ u'[o] = x)
    BY <1>3, <1>5, <1>7
  <2>2. Passed(x, j) <=> j < i[t]
    BY <1>2, <1>7, <2>1 DEF Passed
  <2>3. Passed(x, j)' <=> (at'[t] # "idle" /\ u'[t] = x => j < i'[t])
    BY <1>2, <1>6, <1>7, <2>1 DEF Passed
  <2>4. Passed(x, j)' <=> j < i[t] + 1
    <3>1. CASE i[t] + 1 <= n
      <4>1. at'[t] = "test" /\ u'[t] = x /\ i'[t] = i[t] + 1
        BY <1>1, <1>2, <1>4, <1>7, <3>1
      <4> QED
        BY <2>3, <4>1
    <3>2. CASE ~(i[t] + 1 <= n)
      <4>1. at'[t] = "idle"
        BY <1>1, <1>2, <1>4, <3>2
      <4>2. j < i[t] + 1
        BY <1>1, <1>2, <2>0, <3>2
      <4> QED
        BY <2>3, <4>1, <4>2
    <3> QED
      BY <3>1, <3>2
  <2> QED
    BY <1>2, <1>7, <2>0, <2>2, <2>4
<1>8. CASE x # u[t]
  <2>1. at'[t] # "idle" => u'[t] # x
    BY <1>1, <1>4, <1>8
  <2>2. \A o \in Team : (at'[o] # "idle" /\ u'[o] = x => j < i'[o])
                         <=> (at[o] # "idle" /\ u[o] = x => j < i[o])
    BY <1>5, <1>8, <2>1
  <2> QED
    BY <1>6, <1>8, <2>2 DEF Passed
<1> QED
  BY <1>7, <1>8

\* The types that are left after a step of a thread.
LEMMA ThreadTypes ==
  ASSUME BInv, NEW t \in Team, part = "bfs", stage = "kernel",
         UNCHANGED <<g, sources, part, stage, i, u>>,
         NEW w \in {"test", "cas", "retest", "succ", "count", "add"}, Goto(t, w),
         depths' \in [Nodes -> Int], path_counts' \in [Nodes -> Nat], shared' \in Seq(Nodes),
         count' \in [Team -> Nat]
  PROVE  BTypes'
BY DEF BInv, BTypes, Goto

LEMMA MoveTypes ==
  ASSUME BInv, NEW t \in Team, part = "bfs", stage = "kernel",
         UNCHANGED <<g, sources, depths, shared, part, stage>>,
         NEW x \in Nodes, NEW j \in Nat, EdgeOrEnd(t, x, j), path_counts' \in [Nodes -> Nat]
  PROVE  BTypes'
<1>1. 0 \in Nodes /\ 0 \in Nat
  BY NumNodesAssumption DEF Nodes
<1>2. /\ count' \in [Team -> Nat]
      /\ at' \in [Team -> {"idle", "test", "cas", "retest", "succ", "count", "add"}]
  <2>1. /\ count \in [Team -> Nat]
        /\ at \in [Team -> {"idle", "test", "cas", "retest", "succ", "count", "add"}]
    BY DEF BInv, BTypes
  <2> QED
    BY <1>1, <2>1 DEF EdgeOrEnd, Goto
<1>3. u' \in [Team -> Nodes] /\ i' \in [Team -> Nat]
  <2>1. u \in [Team -> Nodes] /\ i \in [Team -> Nat]
    BY DEF BInv, BTypes
  <2> QED
    BY <1>1, <2>1 DEF EdgeOrEnd
<1> QED
  BY <1>2, <1>3 DEF BInv, BTypes

-----------------------------------------------------------------------------
(* The steps of a thread.                                                   *)

LEMMA TakeVertexKeeps ==
  ASSUME BInv, stage = "kernel", stage' = stage, NEW t \in Team, TakeVertex(t)
  PROVE  BInv'
<1>1. part = "bfs" /\ at[t] = "idle" /\ Search
  BY DEF TakeVertex, BInv
<1>2. PICK k \in pending : pending' = pending \ {k} /\ EdgeOrEnd(t, shared[k], 1)
  BY DEF TakeVertex
<1>3. /\ UNCHANGED <<g, sources, depths, path_counts, succ, shared, part>>
      /\ UNCHANGED <<out_start, out_end, depth_index, depth>>
  BY DEF TakeVertex, bfs, levels
<1>4. /\ at \in [Team -> {"idle", "test", "cas", "retest", "succ", "count", "add"}]
      /\ u \in [Team -> Nodes] /\ i \in [Team -> Nat] /\ shared \in Seq(Nodes)
      /\ depths \in [Nodes -> Int] /\ path_counts \in [Nodes -> Nat] /\ g \in Graphs
  BY DEF BInv, BTypes
<1>5. /\ depth \in Nat \ {0} /\ out_start \in Nat /\ out_end \in Nat /\ out_end <= Len(shared)
      /\ k \in (out_start + 1) .. out_end /\ k \in 1 .. Len(shared)
      /\ pending \subseteq 1 .. Len(shared)
  <2>1. /\ depth \in Nat \ {0} /\ out_start \in Nat /\ out_end \in Nat /\ out_end <= Len(shared)
        /\ pending \subseteq (out_start + 1) .. out_end
    BY <1>1 DEF Search, Queued
  <2>2. Len(shared) \in Nat
    BY <1>4
  <2> QED
    BY <1>2, <2>1, <2>2
<1>6. PICK x \in Nodes : x = shared[k]
  BY <1>4, <1>5
<1> DEFINE n == out_degree(g, x)
<1>7. x \in Nodes /\ depths[x] = depth - 1
  <2>1. k > out_start /\ ~(k > out_end)
    BY <1>5
  <2> QED
    BY <1>1, <1>4, <1>5, <1>6, <2>1 DEF Search, Queued
<1>8. \A l \in pending : shared[l] = x => l = k
  BY <1>1, <1>5, <1>6 DEF Search, Queued
<1>9. n \in Nat
  BY <1>4, <1>7, ListsAre
<1>10. Waiting(x) /\ ~Waiting(x)'
  BY <1>2, <1>3, <1>8, <1>6 DEF Waiting
<1>11. \A y : y # x => (Waiting(y)' <=> Waiting(y))
  BY <1>2, <1>3, <1>6 DEF Waiting
<1>12. \/ /\ 1 <= n /\ at' = [at EXCEPT ![t] = "test"] /\ u' = [u EXCEPT ![t] = x]
          /\ i' = [i EXCEPT ![t] = 1]
       \/ /\ ~(1 <= n) /\ at' = [at EXCEPT ![t] = "idle"]
  BY <1>2, <1>6 DEF EdgeOrEnd, Goto
<1> HIDE DEF n
<1>13. \A o \in Team \ {t} : at'[o] = at[o] /\ u'[o] = u[o] /\ i'[o] = i[o] /\ count'[o] = count[o]
  BY <1>2, <1>4 DEF EdgeOrEnd, Goto
<1>14. at'[t] \notin {"retest", "succ", "count", "add"}
  BY <1>4, <1>12
<1>15. at'[t] # "idle" => u'[t] = x /\ i'[t] = 1 /\ 1 <= n
  BY <1>4, <1>12
<1>16. \A o \in Team : at[o] # "idle" => u[o] # x
  BY <1>1, <1>10 DEF Search, Busy
<1>17. W' = W /\ source' = source
  BY <1>3, SameWays
<1>18. BTypes'
  <2>1. EdgeOrEnd(t, x, 1)
    BY <1>2, <1>6
  <2> QED
    BY <1>1, <1>3, <1>4, <1>7, <2>1, MoveTypes
<1>19. \A y, j : Adding(y, j)' <=> Adding(y, j)
  <2>1. \A o \in Team : at'[o] \in {"count", "add"} <=> at[o] \in {"count", "add"}
    BY <1>1, <1>13, <1>14
  <2>2. \A o \in Team : at[o] \in {"count", "add"} => u'[o] = u[o] /\ i'[o] = i[o]
    BY <1>1, <1>13
  <2> QED
    BY <2>1, <2>2 DEF Adding
<1>20. \A y \in Nodes : \A j \in 1 .. out_degree(g, y) :
         /\ y # x => (Passed(y, j)' <=> Passed(y, j))
         /\ y = x => ~Passed(y, j)' /\ ~Passed(y, j)
  <2> SUFFICES ASSUME NEW y \in Nodes, NEW j \in 1 .. out_degree(g, y)
               PROVE  /\ y # x => (Passed(y, j)' <=> Passed(y, j))
                      /\ y = x => ~Passed(y, j)' /\ ~Passed(y, j)
    OBVIOUS
  <2>1. CASE y # x
    <3>1. \A o \in Team : (at'[o] # "idle" /\ u'[o] = y => j < i'[o]) <=> (at[o] # "idle" /\ u[o] = y => j < i[o])
      BY <1>1, <1>13, <1>15, <2>1
    <3> QED
      BY <1>11, <2>1, <3>1 DEF Passed
  <2>2. CASE y = x
    <3>1. 1 <= n /\ j >= 1
      BY <1>9, <2>2 DEF n
    <3>2. at'[t] # "idle" /\ u'[t] = x /\ i'[t] = 1
      BY <1>4, <1>12, <3>1
    <3> QED
      BY <1>10, <2>2, <3>1, <3>2 DEF Passed
  <2> QED
    BY <2>1, <2>2
<1>21. Queued'
  <2>1. pending' \subseteq (out_start + 1) .. out_end
    BY <1>1, <1>2 DEF Search, Queued
  <2> QED
    BY <1>1, <1>3, <1>17, <2>1 DEF Search, Queued
<1>22. Busy'
  <2> SUFFICES ASSUME NEW o \in Team, at'[o] # "idle"
               PROVE  /\ depths[u'[o]] = depth - 1 /\ ~Waiting(u[o])'
                      /\ i'[o] \in 1 .. out_degree(g, u'[o])
                      /\ \A q \in Team : at'[q] # "idle" /\ u'[q] = u'[o] => q = o
                      /\ at'[o] = "retest" => depths[v(o)'] # -1
                      /\ at'[o] \in {"succ", "count", "add"} => depths[v(o)'] = depth
                      /\ at'[o] \in {"count", "add"} => <<u'[o], i'[o]>> \in succ
                      /\ at'[o] = "add" => count'[o] = W[depth - 1][u'[o]]
    BY <1>3, <1>17 DEF Busy
  <2>1. CASE o = t
    <3>1. u'[o] = x /\ i'[o] = 1 /\ 1 <= n
      BY <1>15, <2>1
    <3>2. \A q \in Team : at'[q] # "idle" /\ u'[q] = x => q = t
      BY <1>13, <1>16
    <3>3. ~Waiting(u[o])'
      BY <1>10, <3>1 DEF Waiting
    <3> QED
      BY <1>7, <1>9, <1>14, <2>1, <3>1, <3>2, <3>3 DEF n
  <2>2. CASE o # t
    <3>1. at'[o] = at[o] /\ u'[o] = u[o] /\ i'[o] = i[o] /\ count'[o] = count[o] /\ u[o] # x
      BY <1>13, <1>16, <2>2
    <3>2. v(o)' = v(o)
      BY <1>3, <3>1 DEF v
    <3>3. \A q \in Team : at'[q] # "idle" /\ u'[q] = u[o] => q = o
      <4>1. \A q \in Team : at[q] # "idle" /\ u[q] = u[o] => q = o
        BY <1>1, <3>1 DEF Search, Busy
      <4> QED
        BY <1>13, <1>15, <3>1, <4>1
    <3>4. ~Waiting(u[o])'
      <4>1. ~Waiting(u[o])
        BY <1>1, <3>1 DEF Search, Busy
      <4>2. \A y : Waiting(y)' => Waiting(y)
        BY <1>10, <1>11
      <4> QED
        BY <3>1, <4>1, <1>2, <1>3 DEF Waiting
    <3> QED
      BY <1>1, <3>1, <3>2, <3>3, <3>4 DEF Search, Busy
  <2> QED
    BY <2>1, <2>2
<1>23. Bits'
  <2> SUFFICES ASSUME NEW p \in succ
               PROVE  \E y \in Nodes : \E j \in 1 .. out_degree(g, y) :
                        /\ p = <<y, j>>
                        /\ depths[y] \in 0 .. (depth - 1) /\ depths[g.out[y][j]] = depths[y] + 1
                        /\ depths[y] = depth - 1 => Passed(y, j)' \/ Adding(y, j)'
    BY <1>3 DEF Bits
  <2>0. PICK y \in Nodes : \E j \in 1 .. out_degree(g, y) :
                        /\ p = <<y, j>>
                        /\ depths[y] \in 0 .. (depth - 1) /\ depths[g.out[y][j]] = depths[y] + 1
                        /\ depths[y] = depth - 1 => Passed(y, j) \/ Adding(y, j)
    BY <1>1 DEF Search, Bits
  <2>1. PICK j \in 1 .. out_degree(g, y) :
                        /\ p = <<y, j>>
                        /\ depths[y] \in 0 .. (depth - 1) /\ depths[g.out[y][j]] = depths[y] + 1
                        /\ depths[y] = depth - 1 => Passed(y, j) \/ Adding(y, j)
    BY <2>0
  <2>2. Passed(y, j) => Passed(y, j)'
    BY <1>20
  <2> QED
    BY <1>19, <2>1, <2>2
<1>24. Edges'
  <2> SUFFICES ASSUME NEW y \in Nodes, NEW j \in 1 .. out_degree(g, y),
                      depths[y] \in 0 .. (depth - 2) \/ (depths[y] = depth - 1 /\ Passed(y, j)')
               PROVE  /\ depths[g.out[y][j]] \in 0 .. (depths[y] + 1)
                      /\ depths[g.out[y][j]] = depths[y] + 1 => <<y, j>> \in succ
    BY <1>3 DEF Edges
  <2>1. Passed(y, j)' => Passed(y, j)
    BY <1>20
  <2> QED
    BY <1>1, <2>1 DEF Search, Edges
<1>25. Counts'
  <2>1. \A m : Counted(m)' = Counted(m)
    BY <1>3, <1>19 DEF Counted
  <2> QED
    BY <1>1, <1>3, <1>17, <2>1 DEF Search, Counts
<1>26. Reached'
  BY <1>1, <1>3, <1>17 DEF Search, Reached
<1> QED
  BY <1>1, <1>3, <1>18, <1>21, <1>22, <1>23, <1>24, <1>25, <1>26 DEF BInv, Search

\* A thread that stays at its edge, and has found out more about it.
LEMMA StayKeeps ==
  ASSUME BInv, stage = "kernel", NEW t \in Team, at[t] # "idle",
         UNCHANGED <<g, sources, depths, path_counts, succ, shared, out_start, out_end, depth_index,
                     depth, part, pending, u, i, stage>>,
         NEW w \in {"test", "cas", "retest", "succ", "count", "add"}, Goto(t, w),
         w \in {"count", "add"} <=> at[t] \in {"count", "add"},
         w = "retest" => depths[v(t)] # -1,
         w \in {"succ", "count", "add"} => depths[v(t)] = depth,
         w \in {"count", "add"} => <<u[t], i[t]>> \in succ,
         w = "add" => count'[t] = W[depth - 1][u[t]],
         count' \in [Team -> Nat], \A o \in Team \ {t} : count'[o] = count[o]
  PROVE  BInv'
<1>1. part = "bfs" /\ Search
  BY Inside
<1>2. /\ at \in [Team -> {"idle", "test", "cas", "retest", "succ", "count", "add"}]
      /\ depths \in [Nodes -> Int] /\ path_counts \in [Nodes -> Nat] /\ shared \in Seq(Nodes)
  BY DEF BInv, BTypes
<1>3. at'[t] = w /\ \A o \in Team \ {t} : at'[o] = at[o]
  BY <1>2 DEF Goto
<1>4. BTypes'
  BY <1>1, <1>2, ThreadTypes
<1>5. W' = W /\ source' = source
  BY SameWays
<1>6. \A x, j : Passed(x, j)' <=> Passed(x, j)
  BY PassedStays
<1>7. \A x, j : Adding(x, j)' <=> Adding(x, j)
  <2>1. \A o \in Team : at'[o] \in {"count", "add"} <=> at[o] \in {"count", "add"}
    BY <1>3
  <2> QED
    BY <2>1 DEF Adding
<1>8. Queued'
  BY <1>1, <1>5 DEF Search, Queued
<1>9. Busy'
  <2> SUFFICES ASSUME NEW o \in Team, at'[o] # "idle"
               PROVE  /\ depths[u[o]] = depth - 1 /\ ~Waiting(u[o])'
                      /\ i[o] \in 1 .. out_degree(g, u[o])
                      /\ \A q \in Team : at'[q] # "idle" /\ u[q] = u[o] => q = o
                      /\ at'[o] = "retest" => depths[v(o)'] # -1
                      /\ at'[o] \in {"succ", "count", "add"} => depths[v(o)'] = depth
                      /\ at'[o] \in {"count", "add"} => <<u[o], i[o]>> \in succ
                      /\ at'[o] = "add" => count'[o] = W[depth - 1][u[o]]
    BY <1>5 DEF Busy
  <2>1. at[o] # "idle" /\ v(o)' = v(o)
    BY <1>3 DEF v
  <2>2. /\ depths[u[o]] = depth - 1 /\ ~Waiting(u[o])
        /\ i[o] \in 1 .. out_degree(g, u[o])
        /\ \A q \in Team : at[q] # "idle" /\ u[q] = u[o] => q = o
    BY <1>1, <2>1 DEF Search, Busy
  <2>3. ~Waiting(u[o])'
    BY <2>2 DEF Waiting
  <2>4. \A q \in Team : at'[q] # "idle" => at[q] # "idle"
    BY <1>3
  <2>5. CASE o = t
    BY <1>3, <2>1, <2>2, <2>3, <2>4, <2>5
  <2>6. CASE o # t
    <3>1. at'[o] = at[o] /\ count'[o] = count[o]
      BY <1>3, <2>6
    <3>2. /\ at[o] = "retest" => depths[v(o)] # -1
          /\ at[o] \in {"succ", "count", "add"} => depths[v(o)] = depth
          /\ at[o] \in {"count", "add"} => <<u[o], i[o]>> \in succ
          /\ at[o] = "add" => count[o] = W[depth - 1][u[o]]
      BY <1>1, <2>1 DEF Search, Busy
    <3> QED
      BY <2>1, <2>2, <2>3, <2>4, <3>1, <3>2
  <2> QED
    BY <2>5, <2>6
<1>10. Bits'
  BY <1>1, <1>6, <1>7 DEF Search, Bits
<1>11. Edges'
  BY <1>1, <1>6 DEF Search, Edges
<1>12. Counts'
  <2>1. \A m : Counted(m)' = Counted(m)
    BY <1>7 DEF Counted
  <2> QED
    BY <1>1, <1>5, <2>1 DEF Search, Counts
<1>13. Reached'
  BY <1>1, <1>5 DEF Search, Reached
<1> QED
  BY <1>1, <1>4, <1>8, <1>9, <1>10, <1>11, <1>12, <1>13 DEF BInv, Search

LEMMA TestKeeps ==
  ASSUME BInv, stage = "kernel", stage' = stage, NEW t \in Team, Test(t)
  PROVE  BInv'
<1>1. at[t] = "test" /\ Goto(t, IF depths[v(t)] = -1 THEN "cas" ELSE "retest")
  BY DEF Test
<1>2. /\ UNCHANGED <<g, sources, depths, path_counts, succ, shared, out_start, out_end, depth_index,
                     depth, part, pending, u, i>>
      /\ count' = count
  BY DEF Test, bfs, levels
<1>3. count \in [Team -> Nat]
  BY DEF BInv, BTypes
<1>4. CASE depths[v(t)] = -1
  <2>1. Goto(t, "cas")
    BY <1>1, <1>4
  <2> QED
    BY <1>1, <1>2, <1>3, <2>1, StayKeeps
<1>5. CASE depths[v(t)] # -1
  <2>1. Goto(t, "retest")
    BY <1>1, <1>5
  <2> QED
    BY <1>1, <1>2, <1>3, <1>5, <2>1, StayKeeps
<1> QED
  BY <1>4, <1>5

LEMMA ReadCountKeeps ==
  ASSUME BInv, stage = "kernel", stage' = stage, NEW t \in Team, ReadCount(t)
  PROVE  BInv'
<1>1. at[t] = "count" /\ Goto(t, "add") /\ count' = [count EXCEPT ![t] = path_counts[u[t]]]
  BY DEF ReadCount
<1>2. UNCHANGED <<g, sources, depths, path_counts, succ, shared, out_start, out_end, depth_index,
                  depth, part, pending, u, i>>
  BY DEF ReadCount, bfs, levels
<1>3. count \in [Team -> Nat] /\ path_counts \in [Nodes -> Nat]
  BY DEF BInv, BTypes
<1>4. Search /\ u[t] \in Nodes /\ depths[u[t]] = depth - 1 /\ depth \in Nat \ {0}
  BY <1>1, Inside
<1>5. depths[v(t)] = depth /\ <<u[t], i[t]>> \in succ
  BY <1>1, <1>4 DEF Search, Busy
<1>6. path_counts[u[t]] = W[depth - 1][u[t]]
  <2>1. depths[u[t]] \in 0 .. (depth - 1)
    BY <1>4
  <2>2. path_counts[u[t]] = W[depths[u[t]]][u[t]]
    BY <1>4, <2>1 DEF Search, Counts
  <2> QED
    BY <1>4, <2>2
<1>7. /\ count' \in [Team -> Nat] /\ count'[t] = W[depth - 1][u[t]]
      /\ \A o \in Team \ {t} : count'[o] = count[o]
  BY <1>1, <1>3, <1>4, <1>6
<1> QED
  BY <1>1, <1>2, <1>5, <1>7, StayKeeps

LEMMA CASKeeps ==
  ASSUME BInv, stage = "kernel", stage' = stage, NEW t \in Team, CAS(t)
  PROVE  BInv'
<1>1. at[t] = "cas" /\ Goto(t, "retest")
  BY DEF CAS
<1>2. /\ UNCHANGED <<g, sources, path_counts, succ, out_start, out_end, depth_index,
                     depth, part, pending, u, i>>
      /\ count' = count
  BY DEF CAS, levels
<1>3. /\ depths \in [Nodes -> Int] /\ path_counts \in [Nodes -> Nat] /\ shared \in Seq(Nodes)
      /\ at \in [Team -> {"idle", "test", "cas", "retest", "succ", "count", "add"}]
      /\ g \in Graphs /\ sources \in Seq(Nodes) /\ count \in [Team -> Nat]
  BY DEF BInv, BTypes
<1>4. CASE depths[v(t)] # -1
  <2>1. UNCHANGED <<depths, shared>>
    BY <1>4 DEF CAS
  <2> QED
    BY <1>1, <1>2, <1>3, <1>4, <2>1, StayKeeps
<1>5. CASE depths[v(t)] = -1
  <2> DEFINE y == v(t)
  <2>1. depths' = [depths EXCEPT ![y] = depth] /\ shared' = Append(shared, y)
    BY <1>5 DEF CAS
  <2>2. /\ part = "bfs" /\ Search /\ depth \in Nat \ {0} /\ u[t] \in Nodes /\ y \in Nodes
        /\ HasOutEdge(g, u[t], y) /\ depths[u[t]] = depth - 1
    BY <1>1, Inside
  <2>3. depths[y] = -1
    BY <1>5
  <2> HIDE DEF y
  <2>4. PICK z \in Nodes : z = y
    BY <2>2
  <2>5. depths' = [depths EXCEPT ![z] = depth] /\ shared' = Append(shared, z) /\ depths[z] = -1
    BY <2>1, <2>3, <2>4
  <2>6. /\ \A n \in Nodes : depths[n] # -1 => depths'[n] = depths[n]
        /\ \A n \in Nodes \ {z} : depths'[n] = depths[n]
        /\ depths'[z] = depth
    BY <1>3, <2>5
  <2>7. /\ Len(shared') = Len(shared) + 1 /\ Len(shared) \in Nat /\ shared'[Len(shared) + 1] = z
        /\ \A k \in 1 .. Len(shared) : shared'[k] = shared[k] /\ shared[k] \in Nodes
        /\ shared' \in Seq(Nodes)
    BY <1>3, <2>5
  <2>8. /\ out_start \in Nat /\ out_end \in Nat /\ out_end <= Len(shared)
        /\ pending \subseteq (out_start + 1) .. out_end
    BY <2>2 DEF Search, Queued
  <2>9. \A k \in pending : k \in 1 .. Len(shared)
    BY <2>7, <2>8
  <2>10. W' = W /\ source' = source
    BY <1>2, SameWays
  <2>11. \A x, j : Passed(x, j)' <=> Passed(x, j)
    BY <1>1, <1>2, <2>7, <2>9, PassedStays
  <2>12. at'[t] = "retest" /\ \A o \in Team \ {t} : at'[o] = at[o]
    BY <1>1, <1>3 DEF Goto
  <2>13. \A x, j : Adding(x, j)' <=> Adding(x, j)
    <3>1. \A o \in Team : at'[o] \in {"count", "add"} <=> at[o] \in {"count", "add"}
      BY <1>1, <2>12
    <3> QED
      BY <1>2, <3>1 DEF Adding
  <2>14. BTypes'
    <3>1. depths' \in [Nodes -> Int]
      BY <1>3, <2>2, <2>5
    <3> QED
      BY <1>1, <1>2, <1>3, <2>2, <2>7, <3>1, ThreadTypes
  <2>15. \A k \in 1 .. Len(shared) :
           /\ depths[shared[k]] # -1
           /\ depths'[shared[k]] = depths[shared[k]] /\ shared[k] # z
    <3> SUFFICES ASSUME NEW k \in 1 .. Len(shared)
                 PROVE  depths[shared[k]] # -1
      BY <2>5, <2>6, <2>7
    <3>1. IF k > out_end THEN depths[shared[k]] = depth
          ELSE IF k > out_start THEN depths[shared[k]] = depth - 1
          ELSE depths[shared[k]] \in 0 .. (depth - 2)
      BY <2>2 DEF Search, Queued
    <3> QED
      BY <2>2, <3>1
  <2>16. Queued'
    <3>1. \A k, l \in 1 .. Len(shared') : shared'[k] = shared'[l] => k = l
      <4>1. \A k, l \in 1 .. Len(shared) : shared[k] = shared[l] => k = l
        BY <2>2 DEF Search, Queued
      <4>2. \A k \in 1 .. Len(shared') : k \in 1 .. Len(shared) \/ k = Len(shared) + 1
        BY <2>7
      <4> QED
        BY <2>7, <2>15, <4>1, <4>2
    <3>2. \A n \in Nodes : depths'[n] # -1 => \E k \in 1 .. Len(shared') : shared'[k] = n
      <4> SUFFICES ASSUME NEW n \in Nodes, depths'[n] # -1
                   PROVE  \E k \in 1 .. Len(shared') : shared'[k] = n
        OBVIOUS
      <4>1. CASE n = z
        <5>1. Len(shared) + 1 \in 1 .. Len(shared')
          BY <2>7
        <5> QED
          BY <2>7, <4>1, <5>1
      <4>2. CASE n # z
        <5>1. PICK k \in 1 .. Len(shared) : shared[k] = n
          BY <2>2, <2>6, <4>2 DEF Search, Queued
        <5>2. k \in 1 .. Len(shared')
          BY <2>7
        <5> QED
          BY <2>7, <5>1, <5>2
      <4> QED
        BY <4>1, <4>2
    <3>3. \A k \in 1 .. Len(shared') :
            IF k > out_end THEN depths'[shared'[k]] = depth
            ELSE IF k > out_start THEN depths'[shared'[k]] = depth - 1
            ELSE depths'[shared'[k]] \in 0 .. (depth - 2)
      <4> SUFFICES ASSUME NEW k \in 1 .. Len(shared')
                   PROVE  IF k > out_end THEN depths'[shared'[k]] = depth
                          ELSE IF k > out_start THEN depths'[shared'[k]] = depth - 1
                          ELSE depths'[shared'[k]] \in 0 .. (depth - 2)
        OBVIOUS
      <4>1. CASE k \in 1 .. Len(shared)
        <5>1. IF k > out_end THEN depths[shared[k]] = depth
              ELSE IF k > out_start THEN depths[shared[k]] = depth - 1
              ELSE depths[shared[k]] \in 0 .. (depth - 2)
          BY <2>2, <4>1 DEF Search, Queued
        <5>2. shared'[k] = shared[k] /\ depths'[shared[k]] = depths[shared[k]]
          BY <2>7, <2>15, <4>1
        <5> QED
          BY <5>1, <5>2
      <4>2. CASE k \notin 1 .. Len(shared)
        <5>1. k = Len(shared) + 1 /\ k > out_end
          BY <2>7, <2>8, <4>2
        <5> QED
          BY <2>6, <2>7, <5>1
      <4> QED
        BY <4>1, <4>2
    <3>4. source \in Nodes /\ out_end <= Len(shared')
      BY <2>2, <2>7, <2>8 DEF Search, Queued
    <3> QED
      BY <1>2, <2>2, <2>8, <2>10, <3>1, <3>2, <3>3, <3>4 DEF Queued
  <2>17. Busy'
    <3> SUFFICES ASSUME NEW o \in Team, at'[o] # "idle"
                 PROVE  /\ depths'[u[o]] = depth - 1 /\ ~Waiting(u[o])'
                        /\ i[o] \in 1 .. out_degree(g, u[o])
                        /\ \A q \in Team : at'[q] # "idle" /\ u[q] = u[o] => q = o
                        /\ at'[o] = "retest" => depths'[v(o)'] # -1
                        /\ at'[o] \in {"succ", "count", "add"} => depths'[v(o)'] = depth
                        /\ at'[o] \in {"count", "add"} => <<u[o], i[o]>> \in succ
                        /\ at'[o] = "add" => count'[o] = W[depth - 1][u[o]]
      BY <1>2, <2>10 DEF Busy
    <3>1. at[o] # "idle" /\ v(o)' = v(o) /\ count'[o] = count[o]
      BY <1>1, <1>2, <2>12 DEF v
    <3>2. /\ depths[u[o]] = depth - 1 /\ ~Waiting(u[o])
          /\ i[o] \in 1 .. out_degree(g, u[o])
          /\ \A q \in Team : at[q] # "idle" /\ u[q] = u[o] => q = o
          /\ at[o] = "retest" => depths[v(o)] # -1
          /\ at[o] \in {"succ", "count", "add"} => depths[v(o)] = depth
          /\ at[o] \in {"count", "add"} => <<u[o], i[o]>> \in succ
          /\ at[o] = "add" => count[o] = W[depth - 1][u[o]]
      BY <2>2, <3>1 DEF Search, Busy
    <3>3. u[o] \in Nodes /\ v(o) \in Nodes
      BY <3>1, Inside
    <3>4. depths'[u[o]] = depth - 1
      BY <2>2, <2>6, <3>2, <3>3
    <3>5. ~Waiting(u[o])'
      BY <1>2, <2>7, <2>9, <3>2 DEF Waiting
    <3>6. depths[v(o)] # -1 => depths'[v(o)] = depths[v(o)]
      BY <2>6, <3>3
    <3>7. \A q \in Team : at'[q] # "idle" => at[q] # "idle"
      BY <1>1, <2>12
    <3>8. CASE o = t
      <4>1. v(o)' = z
        BY <2>4, <3>1, <3>8 DEF y
      <4>2. depths'[v(o)'] # -1
        BY <2>2, <2>6, <4>1
      <4> QED
        BY <2>12, <3>2, <3>4, <3>5, <3>7, <3>8, <4>2
    <3>9. CASE o # t
      <4>1. at'[o] = at[o]
        BY <2>12, <3>9
      <4>2. /\ at[o] = "retest" => depths'[v(o)] # -1
            /\ at[o] \in {"succ", "count", "add"} => depths'[v(o)] = depth
        BY <2>2, <3>2, <3>6
      <4> QED
        BY <3>1, <3>2, <3>4, <3>5, <3>7, <4>1, <4>2
    <3> QED
      BY <3>8, <3>9
  <2>18. Bits'
    <3> SUFFICES ASSUME NEW p \in succ
                 PROVE  \E x \in Nodes : \E j \in 1 .. out_degree(g, x) :
                          /\ p = <<x, j>>
                          /\ depths'[x] \in 0 .. (depth - 1) /\ depths'[g.out[x][j]] = depths'[x] + 1
                          /\ depths'[x] = depth - 1 => Passed(x, j)' \/ Adding(x, j)'
      BY <1>2 DEF Bits
    <3>1. PICK x \in Nodes : \E j \in 1 .. out_degree(g, x) :
                          /\ p = <<x, j>>
                          /\ depths[x] \in 0 .. (depth - 1) /\ depths[g.out[x][j]] = depths[x] + 1
                          /\ depths[x] = depth - 1 => Passed(x, j) \/ Adding(x, j)
      BY <2>2 DEF Search, Bits
    <3>2. PICK j \in 1 .. out_degree(g, x) :
                          /\ p = <<x, j>>
                          /\ depths[x] \in 0 .. (depth - 1) /\ depths[g.out[x][j]] = depths[x] + 1
                          /\ depths[x] = depth - 1 => Passed(x, j) \/ Adding(x, j)
      BY <3>1
    <3>3. g.out[x][j] \in Nodes
      BY <1>3, ListsAre
    <3>4. depths'[x] = depths[x]
      BY <2>2, <2>6, <3>2
    <3>5. depths'[g.out[x][j]] = depths[g.out[x][j]]
      <4>1. depths[g.out[x][j]] # -1
        BY <2>2, <3>2
      <4> QED
        BY <2>6, <3>3, <4>1
    <3> QED
      BY <2>11, <2>13, <3>2, <3>4, <3>5
  <2>19. Edges'
    <3> SUFFICES ASSUME NEW x \in Nodes, NEW j \in 1 .. out_degree(g, x),
                        depths'[x] \in 0 .. (depth - 2) \/ (depths'[x] = depth - 1 /\ Passed(x, j)')
                 PROVE  /\ depths'[g.out[x][j]] \in 0 .. (depths'[x] + 1)
                        /\ depths'[g.out[x][j]] = depths'[x] + 1 => <<x, j>> \in succ
      BY <1>2 DEF Edges
    <3>1. depths'[x] = depths[x]
      BY <2>2, <2>6
    <3>2. /\ depths[g.out[x][j]] \in 0 .. (depths[x] + 1)
          /\ depths[g.out[x][j]] = depths[x] + 1 => <<x, j>> \in succ
      BY <2>2, <2>11, <3>1 DEF Search, Edges
    <3>3. g.out[x][j] \in Nodes
      BY <1>3, ListsAre
    <3>4. depths'[g.out[x][j]] = depths[g.out[x][j]]
      <4>1. depths[g.out[x][j]] # -1
        BY <2>2, <3>2
      <4> QED
        BY <2>6, <3>3, <4>1
    <3> QED
      BY <3>1, <3>2, <3>4
  <2>20. Counts'
    <3>1. \A m : Counted(m)' = Counted(m)
      BY <1>2, <2>13 DEF Counted
    <3>2. Counted(z) = {}
      <4> SUFFICES ASSUME NEW x \in Nodes, NEW j \in 1 .. out_degree(g, x),
                          g.out[x][j] = z, <<x, j>> \in succ
                   PROVE  FALSE
        BY DEF Counted
      <4>1. PICK a \in Nodes : \E b \in 1 .. out_degree(g, a) :
              <<x, j>> = <<a, b>> /\ depths[a] \in 0 .. (depth - 1) /\ depths[g.out[a][b]] = depths[a] + 1
        BY <2>2 DEF Search, Bits
      <4>2. depths[x] \in 0 .. (depth - 1) /\ depths[z] = depths[x] + 1
        BY <4>1
      <4> QED
        BY <2>2, <2>5, <4>2
    <3>3. path_counts[z] = Total(W[depth - 1], Counted(z))
      <4>1. path_counts[z] = 0
        BY <2>2, <2>5 DEF Search, Counts
      <4>2. Total(W[depth - 1], {}) = 0
        BY FS_EmptySet DEF Total, Units
      <4> QED
        BY <3>2, <4>1, <4>2
    <3> SUFFICES ASSUME NEW n \in Nodes
                 PROVE  /\ depths'[n] = -1 => path_counts[n] = 0
                        /\ depths'[n] \in 0 .. (depth - 1) => path_counts[n] = W[depths'[n]][n]
                        /\ depths'[n] = depth => path_counts[n] = Total(W[depth - 1], Counted(n))
      BY <1>2, <2>10, <3>1 DEF Counts
    <3>4. CASE n = z
      BY <2>2, <2>6, <3>3, <3>4
    <3>5. CASE n # z
      <4>1. depths'[n] = depths[n]
        BY <2>6, <3>5
      <4> QED
        BY <2>2, <4>1 DEF Search, Counts
    <3> QED
      BY <3>4, <3>5
  <2>21. Reached'
    <3>1. \A n \in Nodes : depths[n] # -1 => depths[n] \in 0 .. depth /\ W[depths[n]][n] > 0
      BY <2>2 DEF Search, Reached
    <3>2. W[depth][z] > 0
      <4> DEFINE k == depth - 1
      <4>1. k \in Nat /\ k + 1 = depth
        BY <2>2
      <4>2. W[k][u[t]] > 0
        BY <2>2, <3>1
      <4>3. source \in Nodes
        BY <2>2 DEF Search, Queued
      <4> HIDE DEF k
      <4>4. Ways(g, source)[k + 1][z] > 0
        BY <1>3, <2>2, <2>4, <4>1, <4>2, <4>3, WaysGrow DEF W
      <4> QED
        BY <4>1, <4>4 DEF W
    <3>3. \A n \in Nodes : depths'[n] # -1 => depths'[n] \in 0 .. depth /\ W[depths'[n]][n] > 0
      <4>1. depth \in 0 .. depth
        BY <2>2
      <4> QED
        BY <2>6, <3>1, <3>2, <4>1
    <3>4. \A n \in Nodes : \A l \in 0 .. (depth - 1) : W[l][n] > 0 => depths'[n] \in 0 .. l
      <4> SUFFICES ASSUME NEW n \in Nodes, NEW l \in 0 .. (depth - 1), W[l][n] > 0
                   PROVE  depths'[n] \in 0 .. l
        OBVIOUS
      <4>1. depths[n] \in 0 .. l
        BY <2>2 DEF Search, Reached
      <4>2. depths[n] # -1
        BY <2>2, <4>1
      <4> QED
        BY <2>6, <4>1, <4>2
    <3>5. \A l \in 0 .. (depth - 1) : \E n \in Nodes : depths'[n] = l
      <4> SUFFICES ASSUME NEW l \in 0 .. (depth - 1) PROVE \E n \in Nodes : depths'[n] = l
        OBVIOUS
      <4>1. PICK n \in Nodes : depths[n] = l
        BY <2>2 DEF Search, Reached
      <4>2. depths[n] # -1
        BY <2>2, <4>1
      <4> QED
        BY <2>6, <4>1, <4>2
    <3> QED
      BY <1>2, <2>10, <3>3, <3>4, <3>5 DEF Reached
  <2> QED
    BY <1>2, <2>2, <2>14, <2>16, <2>17, <2>18, <2>19, <2>20, <2>21 DEF BInv, Search
<1> QED
  BY <1>4, <1>5

\* What a thread that moves on leaves of the invariant, but for the counts.
LEMMA MoveOn ==
  ASSUME BInv, stage = "kernel", NEW t \in Team, at[t] # "idle", NextEdge(t),
         UNCHANGED <<g, sources, depths, succ, shared, out_start, out_end, depth_index,
                     depth, part, pending, stage>>,
         path_counts' \in [Nodes -> Nat],
         depths[v(t)] \in 0 .. depth, depths[v(t)] = depth => <<u[t], i[t]>> \in succ
  PROVE  /\ BTypes' /\ Queued' /\ Busy' /\ Bits' /\ Edges' /\ Reached'
         /\ \A x \in Nodes : \A j \in 1 .. out_degree(g, x) :
              Adding(x, j)' <=> Adding(x, j) /\ ~(x = u[t] /\ j = i[t])
<1> DEFINE n == out_degree(g, u[t])
<1>1. /\ part = "bfs" /\ Search /\ depth \in Nat \ {0} /\ u[t] \in Nodes
      /\ depths[u[t]] = depth - 1 /\ v(t) = g.out[u[t]][i[t]] /\ i[t] \in 1 .. n /\ n \in Nat
      /\ ~Waiting(u[t])
  BY Inside
<1>2. /\ at \in [Team -> {"idle", "test", "cas", "retest", "succ", "count", "add"}]
      /\ u \in [Team -> Nodes] /\ i \in [Team -> Nat] /\ count \in [Team -> Nat]
  BY DEF BInv, BTypes
<1>3. EdgeOrEnd(t, u[t], i[t] + 1) /\ i[t] + 1 \in Nat
  BY <1>1 DEF NextEdge
<1>4. BTypes'
  BY <1>1, <1>3, MoveTypes
<1>5. \/ /\ i[t] + 1 <= n
         /\ at' = [at EXCEPT ![t] = "test"] /\ u' = [u EXCEPT ![t] = u[t]]
         /\ i' = [i EXCEPT ![t] = i[t] + 1]
      \/ /\ ~(i[t] + 1 <= n)
         /\ at' = [at EXCEPT ![t] = "idle"]
  BY <1>3 DEF EdgeOrEnd, Goto
<1>6. \A o \in Team \ {t} : at'[o] = at[o] /\ u'[o] = u[o] /\ i'[o] = i[o] /\ count'[o] = count[o]
  BY <1>2, <1>3 DEF EdgeOrEnd, Goto
<1>7. at'[t] \in {"test", "idle"}
  BY <1>2, <1>5
<1>8. at'[t] # "idle" => u'[t] = u[t] /\ i'[t] = i[t] + 1 /\ i[t] + 1 <= n
  BY <1>2, <1>5
<1>9. W' = W /\ source' = source
  BY SameWays
<1>10. \A x \in Nodes : \A j \in 1 .. out_degree(g, x) :
         Passed(x, j)' <=> Passed(x, j) \/ (x = u[t] /\ j = i[t])
  BY PassedMoves
<1>11. \A o \in Team : at[o] # "idle" /\ u[o] = u[t] => o = t
  BY <1>1 DEF Search, Busy
<1>12. \A x \in Nodes : \A j \in 1 .. out_degree(g, x) :
         Adding(x, j)' <=> Adding(x, j) /\ ~(x = u[t] /\ j = i[t])
  <2> SUFFICES ASSUME NEW x \in Nodes, NEW j \in 1 .. out_degree(g, x)
               PROVE  Adding(x, j)' <=> Adding(x, j) /\ ~(x = u[t] /\ j = i[t])
    OBVIOUS
  <2>1. Adding(x, j)' <=> \E o \in Team \ {t} : at[o] \in {"count", "add"} /\ u[o] = x /\ i[o] = j
    BY <1>6, <1>7 DEF Adding
  <2>2. CASE x = u[t] /\ j = i[t]
    BY <1>11, <2>1, <2>2
  <2>3. CASE ~(x = u[t] /\ j = i[t])
    BY <2>1, <2>3 DEF Adding
  <2> QED
    BY <2>2, <2>3
<1>13. Queued'
  BY <1>1, <1>9 DEF Search, Queued
<1>14. Busy'
  <2> SUFFICES ASSUME NEW o \in Team, at'[o] # "idle"
               PROVE  /\ depths[u'[o]] = depth - 1 /\ ~Waiting(u[o])'
                      /\ i'[o] \in 1 .. out_degree(g, u'[o])
                      /\ \A q \in Team : at'[q] # "idle" /\ u'[q] = u'[o] => q = o
                      /\ at'[o] = "retest" => depths[v(o)'] # -1
                      /\ at'[o] \in {"succ", "count", "add"} => depths[v(o)'] = depth
                      /\ at'[o] \in {"count", "add"} => <<u'[o], i'[o]>> \in succ
                      /\ at'[o] = "add" => count'[o] = W[depth - 1][u'[o]]
    BY <1>9 DEF Busy
  <2>1. \A q \in Team : at'[q] # "idle" => at[q] # "idle" /\ u'[q] = u[q]
    BY <1>6, <1>8
  <2>2. /\ depths[u[o]] = depth - 1 /\ ~Waiting(u[o])
        /\ \A q \in Team : at[q] # "idle" /\ u[q] = u[o] => q = o
    BY <1>1, <2>1 DEF Search, Busy
  <2>3. ~Waiting(u[o])'
    BY <2>1, <2>2 DEF Waiting
  <2>4. CASE o = t
    <3>1. i'[t] \in 1 .. n
      BY <1>1, <1>8, <2>4
    <3> QED
      BY <1>7, <2>1, <2>2, <2>3, <2>4, <3>1
  <2>5. CASE o # t
    <3>1. at'[o] = at[o] /\ u'[o] = u[o] /\ i'[o] = i[o] /\ count'[o] = count[o]
      BY <1>6, <2>5
    <3>2. v(o)' = v(o)
      BY <3>1 DEF v
    <3>3. /\ i[o] \in 1 .. out_degree(g, u[o])
          /\ at[o] = "retest" => depths[v(o)] # -1
          /\ at[o] \in {"succ", "count", "add"} => depths[v(o)] = depth
          /\ at[o] \in {"count", "add"} => <<u[o], i[o]>> \in succ
          /\ at[o] = "add" => count[o] = W[depth - 1][u[o]]
      BY <1>1, <2>1 DEF Search, Busy
    <3> QED
      BY <2>1, <2>2, <2>3, <3>1, <3>2, <3>3
  <2> QED
    BY <2>4, <2>5
<1>15. Bits'
  <2> SUFFICES ASSUME NEW p \in succ
               PROVE  \E x \in Nodes : \E j \in 1 .. out_degree(g, x) :
                        /\ p = <<x, j>>
                        /\ depths[x] \in 0 .. (depth - 1) /\ depths[g.out[x][j]] = depths[x] + 1
                        /\ depths[x] = depth - 1 => Passed(x, j)' \/ Adding(x, j)'
    BY DEF Bits
  <2>1. PICK x \in Nodes : \E j \in 1 .. out_degree(g, x) :
                        /\ p = <<x, j>>
                        /\ depths[x] \in 0 .. (depth - 1) /\ depths[g.out[x][j]] = depths[x] + 1
                        /\ depths[x] = depth - 1 => Passed(x, j) \/ Adding(x, j)
    BY <1>1 DEF Search, Bits
  <2>2. PICK j \in 1 .. out_degree(g, x) :
                        /\ p = <<x, j>>
                        /\ depths[x] \in 0 .. (depth - 1) /\ depths[g.out[x][j]] = depths[x] + 1
                        /\ depths[x] = depth - 1 => Passed(x, j) \/ Adding(x, j)
    BY <2>1
  <2>3. Passed(x, j) \/ Adding(x, j) => Passed(x, j)' \/ Adding(x, j)'
    BY <1>10, <1>12
  <2> QED
    BY <2>2, <2>3
<1>16. Edges'
  <2> SUFFICES ASSUME NEW x \in Nodes, NEW j \in 1 .. out_degree(g, x),
                      depths[x] \in 0 .. (depth - 2) \/ (depths[x] = depth - 1 /\ Passed(x, j)')
               PROVE  /\ depths[g.out[x][j]] \in 0 .. (depths[x] + 1)
                      /\ depths[g.out[x][j]] = depths[x] + 1 => <<x, j>> \in succ
    BY DEF Edges
  <2>1. CASE x = u[t] /\ j = i[t]
    BY <1>1, <2>1
  <2>2. CASE ~(x = u[t] /\ j = i[t])
    <3>1. Passed(x, j)' => Passed(x, j)
      BY <1>10, <2>2
    <3> QED
      BY <1>1, <3>1 DEF Search, Edges
  <2> QED
    BY <2>1, <2>2
<1>17. Reached'
  BY <1>1, <1>9 DEF Search, Reached
<1> QED
  BY <1>4, <1>12, <1>13, <1>14, <1>15, <1>16, <1>17

LEMMA RetestKeeps ==
  ASSUME BInv, stage = "kernel", stage' = stage, NEW t \in Team, Retest(t)
  PROVE  BInv'
<1>1. at[t] = "retest"
  BY DEF Retest
<1>2. UNCHANGED <<g, sources, depths, path_counts, succ, shared, out_start, out_end, depth_index,
                  depth, part, pending>>
  BY DEF Retest, bfs, levels
<1>3. count \in [Team -> Nat] /\ path_counts \in [Nodes -> Nat]
  BY DEF BInv, BTypes
<1>4. part = "bfs" /\ Search /\ depth \in Nat \ {0} /\ v(t) \in Nodes
  BY <1>1, Inside
<1>5. depths[v(t)] \in 0 .. depth
  <2>1. depths[v(t)] # -1
    BY <1>1, <1>4 DEF Search, Busy
  <2> QED
    BY <1>4, <2>1 DEF Search, Reached
<1>6. CASE depths[v(t)] = depth
  <2>1. Goto(t, "succ") /\ UNCHANGED <<u, i, count>>
    BY <1>6 DEF Retest
  <2> QED
    BY <1>1, <1>2, <1>3, <1>6, <2>1, StayKeeps
<1>7. CASE depths[v(t)] # depth
  <2>1. NextEdge(t)
    BY <1>7 DEF Retest
  <2>2. /\ BTypes' /\ Queued' /\ Busy' /\ Bits' /\ Edges' /\ Reached'
        /\ \A x \in Nodes : \A j \in 1 .. out_degree(g, x) :
             Adding(x, j)' <=> Adding(x, j) /\ ~(x = u[t] /\ j = i[t])
    BY <1>1, <1>2, <1>3, <1>5, <1>7, <2>1, MoveOn
  <2>3. ~Adding(u[t], i[t])
    BY <1>1, <1>4 DEF Adding, Search, Busy
  <2>4. \A x \in Nodes : \A j \in 1 .. out_degree(g, x) : Adding(x, j)' <=> Adding(x, j)
    BY <2>2, <2>3
  <2>5. \A m : Counted(m)' = Counted(m)
    BY <1>2, <2>4 DEF Counted
  <2>6. W' = W
    BY <1>2, SameWays
  <2>7. Counts'
    BY <1>2, <1>4, <2>5, <2>6 DEF Search, Counts
  <2> QED
    BY <1>2, <1>4, <2>2, <2>7 DEF BInv, Search
<1> QED
  BY <1>6, <1>7

LEMMA AddKeeps ==
  ASSUME BInv, stage = "kernel", stage' = stage, NEW t \in Team, Add(t)
  PROVE  BInv'
<1>1. at[t] = "add" /\ NextEdge(t) /\ path_counts' = [path_counts EXCEPT ![v(t)] = @ + count[t]]
  BY DEF Add
<1>2. UNCHANGED <<g, sources, depths, succ, shared, out_start, out_end, depth_index,
                  depth, part, pending>>
  BY DEF Add, levels
<1>3. count \in [Team -> Nat] /\ path_counts \in [Nodes -> Nat] /\ g \in Graphs
  BY DEF BInv, BTypes
<1>4. /\ part = "bfs" /\ Search /\ depth \in Nat \ {0} /\ v(t) \in Nodes /\ u[t] \in Nodes
      /\ v(t) = g.out[u[t]][i[t]] /\ i[t] \in 1 .. out_degree(g, u[t])
  BY <1>1, Inside
<1>5. depths[v(t)] = depth /\ <<u[t], i[t]>> \in succ /\ count[t] = W[depth - 1][u[t]]
  BY <1>1, <1>4 DEF Search, Busy
<1>6. path_counts' \in [Nodes -> Nat]
  BY <1>1, <1>3, <1>4
<1>7. /\ BTypes' /\ Queued' /\ Busy' /\ Bits' /\ Edges' /\ Reached'
      /\ \A x \in Nodes : \A j \in 1 .. out_degree(g, x) :
           Adding(x, j)' <=> Adding(x, j) /\ ~(x = u[t] /\ j = i[t])
  <2>1. depths[v(t)] \in 0 .. depth
    BY <1>4, <1>5
  <2> QED
    BY <1>1, <1>2, <1>5, <1>6, <2>1, MoveOn
<1>8. W' = W
  BY <1>2, SameWays
<1>9. \A j, k \in 1 .. out_degree(g, u[t]) : g.out[u[t]][j] = g.out[u[t]][k] => j = k
  BY <1>3, <1>4, ListsAre
<1>10. Adding(u[t], i[t])
  BY <1>1 DEF Adding
<1>11. \A m \in Nodes \ {v(t)} : Counted(m)' = Counted(m)
  <2> SUFFICES ASSUME NEW m \in Nodes \ {v(t)}, NEW x \in Nodes, NEW j \in 1 .. out_degree(g, x),
                      g.out[x][j] = m
               PROVE  Adding(x, j)' <=> Adding(x, j)
    BY <1>2 DEF Counted
  <2>1. ~(x = u[t] /\ j = i[t])
    BY <1>4
  <2> QED
    BY <1>7, <2>1
<1>12. Counted(v(t)) \subseteq Nodes /\ u[t] \notin Counted(v(t))
  BY <1>4, <1>9, <1>10 DEF Counted
<1>13. PICK y \in Nodes : y = v(t)
  BY <1>4
<1>14. Counted(y)' = Counted(y) \cup {u[t]}
  <2>1. ASSUME NEW x \in Nodes
        PROVE  x \in Counted(y)' <=> x \in Counted(y) \/ x = u[t]
    <3>1. CASE x = u[t]
      <4>1. PICK j \in 1 .. out_degree(g, x) : j = i[t]
        BY <1>4, <3>1
      <4>2. ~Adding(x, j)'
        BY <1>7, <3>1, <4>1
      <4>3. g.out[x][j] = y /\ <<x, j>> \in succ
        BY <1>4, <1>5, <1>13, <3>1, <4>1
      <4> QED
        BY <1>2, <3>1, <4>2, <4>3 DEF Counted
    <3>2. CASE x # u[t]
      <4>1. \A j \in 1 .. out_degree(g, x) : Adding(x, j)' <=> Adding(x, j)
        BY <1>7, <3>2
      <4> QED
        BY <1>2, <3>2, <4>1 DEF Counted
    <3> QED
      BY <3>1, <3>2
  <2>2. Counted(y)' \subseteq Nodes /\ Counted(y) \subseteq Nodes
    BY DEF Counted
  <2> QED
    BY <1>4, <2>1, <2>2
<1>15. Counts'
  <2> DEFINE c == W[depth - 1]
  <2>1. c \in [Nodes -> Nat]
    <3>1. source \in Nodes /\ depth - 1 \in Nat
      BY <1>4 DEF Search, Queued
    <3> QED
      BY <1>3, <3>1, WaysAre DEF W
  <2>2. Total(c, Counted(y) \cup {u[t]}) = Total(c, Counted(y)) + c[u[t]]
    <3> HIDE DEF c
    <3>1. Counted(y) \subseteq Nodes /\ u[t] \in Nodes \ Counted(y)
      BY <1>4, <1>12, <1>13
    <3>2. \A k \in Nodes : c[k] \in Nat
      BY <2>1
    <3> QED
      BY <3>1, <3>2, NodesFinite, TotalMore
  <2>3. path_counts[y] = Total(c, Counted(y))
    BY <1>4, <1>5, <1>13 DEF Search, Counts
  <2>4. path_counts'[y] = Total(c, Counted(y)')
    BY <1>1, <1>3, <1>5, <1>13, <1>14, <2>2, <2>3
  <2>5. \A n \in Nodes \ {y} : path_counts'[n] = path_counts[n]
    BY <1>1, <1>3, <1>13
  <2> SUFFICES ASSUME NEW n \in Nodes
               PROVE  /\ depths[n] = -1 => path_counts'[n] = 0
                      /\ depths[n] \in 0 .. (depth - 1) => path_counts'[n] = W[depths[n]][n]
                      /\ depths[n] = depth => path_counts'[n] = Total(c, Counted(n)')
    BY <1>2, <1>8 DEF Counts
  <2>6. CASE n = y
    <3>1. path_counts'[n] = Total(c, Counted(n)')
      BY <2>4, <2>6
    <3>2. depths[n] = depth
      BY <1>5, <1>13, <2>6
    <3> QED
      BY <1>4, <3>1, <3>2
  <2>7. CASE n # y
    <3>1. path_counts'[n] = path_counts[n] /\ Counted(n)' = Counted(n)
      BY <1>11, <1>13, <2>5, <2>7
    <3> QED
      BY <1>4, <3>1 DEF Search, Counts
  <2> QED
    BY <2>6, <2>7
<1> QED
  BY <1>2, <1>4, <1>7, <1>15 DEF BInv, Search

LEMMA SetSuccKeeps ==
  ASSUME BInv, stage = "kernel", stage' = stage, NEW t \in Team, SetSucc(t)
  PROVE  BInv'
<1>1. at[t] = "succ" /\ Goto(t, "count") /\ succ' = succ \cup {<<u[t], i[t]>>}
  BY DEF SetSucc
<1>2. UNCHANGED <<g, sources, depths, path_counts, shared, out_start, out_end, depth_index,
                  depth, part, pending, u, i, count>>
  BY DEF SetSucc, levels
<1>3. /\ depths \in [Nodes -> Int] /\ path_counts \in [Nodes -> Nat] /\ shared \in Seq(Nodes)
      /\ at \in [Team -> {"idle", "test", "cas", "retest", "succ", "count", "add"}]
      /\ g \in Graphs /\ sources \in Seq(Nodes) /\ count \in [Team -> Nat]
  BY DEF BInv, BTypes
<1>4. /\ part = "bfs" /\ Search /\ depth \in Nat \ {0} /\ v(t) \in Nodes /\ u[t] \in Nodes
      /\ v(t) = g.out[u[t]][i[t]] /\ i[t] \in 1 .. out_degree(g, u[t])
      /\ depths[u[t]] = depth - 1 /\ ~Passed(u[t], i[t])
  BY <1>1, Inside
<1>5. depths[v(t)] = depth
  BY <1>1, <1>4 DEF Search, Busy
<1>6. PICK x \in Nodes : x = u[t]
  BY <1>4
<1>7. PICK j \in 1 .. out_degree(g, x) : j = i[t]
  BY <1>4, <1>6
<1>8. succ' = succ \cup {<<x, j>>}
  BY <1>1, <1>6, <1>7
<1>9. at'[t] = "count" /\ \A o \in Team \ {t} : at'[o] = at[o]
  BY <1>1, <1>3 DEF Goto
<1>10. W' = W /\ source' = source
  BY <1>2, SameWays
<1>11. \A y, k : Passed(y, k)' <=> Passed(y, k)
  BY <1>1, <1>2, PassedStays
<1>12. \A y, k : Adding(y, k)' <=> Adding(y, k) \/ (y = x /\ k = j)
  <2> SUFFICES ASSUME NEW y, NEW k PROVE Adding(y, k)' <=> Adding(y, k) \/ (y = x /\ k = j)
    OBVIOUS
  <2>1. Adding(y, k) <=> \E o \in Team \ {t} : at[o] \in {"count", "add"} /\ u[o] = y /\ i[o] = k
    BY <1>1 DEF Adding
  <2>2. Adding(y, k)' <=> \/ \E o \in Team \ {t} : at[o] \in {"count", "add"} /\ u[o] = y /\ i[o] = k
                          \/ u[t] = y /\ i[t] = k
    BY <1>2, <1>9 DEF Adding
  <2> QED
    BY <1>6, <1>7, <2>1, <2>2
<1>13. ~Adding(x, j)
  <2>1. \A o \in Team : at[o] # "idle" /\ u[o] = u[t] => o = t
    BY <1>1, <1>4 DEF Search, Busy
  <2> QED
    BY <1>1, <1>6, <2>1 DEF Adding
<1>14. <<x, j>> \notin succ
  <2> SUFFICES ASSUME <<x, j>> \in succ PROVE FALSE
    OBVIOUS
  <2>1. PICK y \in Nodes : \E k \in 1 .. out_degree(g, y) :
          <<x, j>> = <<y, k>> /\ (depths[y] = depth - 1 => Passed(y, k) \/ Adding(y, k))
    BY <1>4 DEF Search, Bits
  <2>2. Passed(x, j) \/ Adding(x, j)
    BY <1>4, <1>6, <2>1
  <2> QED
    BY <1>4, <1>6, <1>7, <1>13, <2>2
<1>15. BTypes'
  BY <1>1, <1>2, <1>3, <1>4, ThreadTypes
<1>16. Queued'
  BY <1>2, <1>4, <1>10 DEF Search, Queued
<1>17. Busy'
  <2> SUFFICES ASSUME NEW o \in Team, at'[o] # "idle"
               PROVE  /\ depths[u[o]] = depth - 1 /\ ~Waiting(u[o])'
                      /\ i[o] \in 1 .. out_degree(g, u[o])
                      /\ \A q \in Team : at'[q] # "idle" /\ u[q] = u[o] => q = o
                      /\ at'[o] = "retest" => depths[v(o)'] # -1
                      /\ at'[o] \in {"succ", "count", "add"} => depths[v(o)'] = depth
                      /\ at'[o] \in {"count", "add"} => <<u[o], i[o]>> \in succ'
                      /\ at'[o] = "add" => count[o] = W[depth - 1][u[o]]
    BY <1>2, <1>10 DEF Busy
  <2>1. at[o] # "idle" /\ v(o)' = v(o)
    BY <1>1, <1>2, <1>9 DEF v
  <2>2. /\ depths[u[o]] = depth - 1 /\ ~Waiting(u[o])
        /\ i[o] \in 1 .. out_degree(g, u[o])
        /\ \A q \in Team : at[q] # "idle" /\ u[q] = u[o] => q = o
        /\ at[o] = "retest" => depths[v(o)] # -1
        /\ at[o] \in {"succ", "count", "add"} => depths[v(o)] = depth
        /\ at[o] \in {"count", "add"} => <<u[o], i[o]>> \in succ
        /\ at[o] = "add" => count[o] = W[depth - 1][u[o]]
    BY <1>4, <2>1 DEF Search, Busy
  <2>3. ~Waiting(u[o])'
    BY <1>2, <2>2 DEF Waiting
  <2>4. \A q \in Team : at'[q] # "idle" => at[q] # "idle"
    BY <1>1, <1>9
  <2>5. CASE o = t
    BY <1>5, <1>6, <1>7, <1>8, <1>9, <2>1, <2>2, <2>3, <2>4, <2>5
  <2>6. CASE o # t
    BY <1>8, <1>9, <2>1, <2>2, <2>3, <2>4, <2>6
  <2> QED
    BY <2>5, <2>6
<1>18. Bits'
  <2> SUFFICES ASSUME NEW p \in succ'
               PROVE  \E y \in Nodes : \E k \in 1 .. out_degree(g, y) :
                        /\ p = <<y, k>>
                        /\ depths[y] \in 0 .. (depth - 1) /\ depths[g.out[y][k]] = depths[y] + 1
                        /\ depths[y] = depth - 1 => Passed(y, k)' \/ Adding(y, k)'
    BY <1>2 DEF Bits
  <2>1. CASE p = <<x, j>>
    <3>1. Adding(x, j)'
      BY <1>12
    <3>2. depths[x] \in 0 .. (depth - 1) /\ depths[g.out[x][j]] = depths[x] + 1
      BY <1>4, <1>5, <1>6, <1>7
    <3> QED
      BY <2>1, <3>1, <3>2
  <2>2. CASE p # <<x, j>>
    <3>1. p \in succ
      BY <1>8, <2>2
    <3>2. PICK y \in Nodes : \E k \in 1 .. out_degree(g, y) :
                        /\ p = <<y, k>>
                        /\ depths[y] \in 0 .. (depth - 1) /\ depths[g.out[y][k]] = depths[y] + 1
                        /\ depths[y] = depth - 1 => Passed(y, k) \/ Adding(y, k)
      BY <1>4, <3>1 DEF Search, Bits
    <3> QED
      BY <1>11, <1>12, <3>2
  <2> QED
    BY <2>1, <2>2
<1>19. Edges'
  <2> SUFFICES ASSUME NEW y \in Nodes, NEW k \in 1 .. out_degree(g, y),
                      depths[y] \in 0 .. (depth - 2) \/ (depths[y] = depth - 1 /\ Passed(y, k)')
               PROVE  /\ depths[g.out[y][k]] \in 0 .. (depths[y] + 1)
                      /\ depths[g.out[y][k]] = depths[y] + 1 => <<y, k>> \in succ'
    BY <1>2 DEF Edges
  <2> QED
    BY <1>4, <1>8, <1>11 DEF Search, Edges
<1>20. Counts'
  <2>1. \A m : Counted(m)' = Counted(m)
    <3> SUFFICES ASSUME NEW m, NEW y \in Nodes, NEW k \in 1 .. out_degree(g, y)
                 PROVE  <<y, k>> \in succ' /\ ~Adding(y, k)' <=> <<y, k>> \in succ /\ ~Adding(y, k)
      BY <1>2 DEF Counted
    <3>1. CASE y = x /\ k = j
      BY <1>12, <1>14, <3>1
    <3>2. CASE ~(y = x /\ k = j)
      <4>1. <<y, k>> # <<x, j>>
        BY <3>2
      <4> QED
        BY <1>8, <1>12, <3>2, <4>1
    <3> QED
      BY <3>1, <3>2
  <2> QED
    BY <1>2, <1>4, <1>10, <2>1 DEF Search, Counts
<1>21. Reached'
  BY <1>2, <1>4, <1>10 DEF Search, Reached
<1> QED
  BY <1>2, <1>4, <1>15, <1>16, <1>17, <1>18, <1>19, <1>20, <1>21 DEF BInv, Search

-----------------------------------------------------------------------------
(* The barrier.                                                             *)

\* What is known when every thread has come to it.
LEMMA LevelWhole ==
  ASSUME BInv, part = "bfs", pending = {}, \A t \in Team : at[t] = "idle"
  PROVE  /\ \A x \in Nodes : \A j \in 1 .. out_degree(g, x) : Passed(x, j) /\ ~Adding(x, j)
         /\ \A n \in Nodes : W[depth][n] > 0 => depths[n] \in 0 .. depth
         /\ \A n \in Nodes : depths[n] = depth => path_counts[n] = W[depth][n]
<1>1. Search /\ g \in Graphs /\ depths \in [Nodes -> Int]
  BY DEF BInv, BTypes
<1>2. depth \in Nat \ {0} /\ source \in Nodes
  BY <1>1 DEF Search, Queued
<1>3. ASSUME NEW x \in Nodes, NEW j \in 1 .. out_degree(g, x) PROVE Passed(x, j) /\ ~Adding(x, j)
  BY DEF Passed, Adding, Waiting
<1> DEFINE k == depth - 1
           c == W[k]
<1>4. k \in Nat /\ k + 1 = depth
  BY <1>2
<1>5. c \in [Nodes -> Nat] /\ \A n \in Nodes : W[depth][n] = Total(c, Into(g, n))
  <2> HIDE DEF k
  <2>1. /\ \A l \in Nat : Ways(g, source)[l] \in [Nodes -> Nat]
        /\ \A l \in Nat : \A n \in Nodes : Ways(g, source)[l + 1][n] = Total(Ways(g, source)[l], Into(g, n))
    BY <1>1, <1>2, WaysAre
  <2> QED
    BY <1>4, <2>1 DEF W
<1> HIDE DEF c, k
\* Edges out of what has been expanded lead to what is visited.
<1>6. ASSUME NEW n \in Nodes, NEW x \in Into(g, n), c[x] > 0
      PROVE  /\ depths[n] \in 0 .. depth
             /\ depths[n] = depth => x \in Counted(n)
  <2>1. x \in Nodes /\ HasOutEdge(g, x, n)
    BY DEF Into
  <2>2. PICK j \in 1 .. out_degree(g, x) : g.out[x][j] = n
    BY <2>1 DEF HasOutEdge
  <2>3. depths[x] \in 0 .. k
    <3>1. k \in 0 .. (depth - 1)
      BY <1>2, <1>4
    <3> QED
      BY <1>1, <1>6, <2>1, <3>1 DEF Search, Reached, c
  <2>4. depths[x] \in 0 .. (depth - 2) \/ (depths[x] = depth - 1 /\ Passed(x, j))
    BY <1>3, <1>4, <2>1, <2>3
  <2>5. /\ depths[n] \in 0 .. (depths[x] + 1)
        /\ depths[n] = depths[x] + 1 => <<x, j>> \in succ
    BY <1>1, <2>1, <2>2, <2>4 DEF Search, Edges
  <2>6. depths[n] = depth => <<x, j>> \in succ /\ ~Adding(x, j)
    BY <1>2, <1>3, <1>4, <2>1, <2>3, <2>5
  <2>7. depths[n] = depth => x \in Counted(n)
    BY <2>1, <2>2, <2>6 DEF Counted
  <2>8. depths[n] \in 0 .. depth
    BY <1>2, <1>4, <2>3, <2>5
  <2> QED
    BY <2>7, <2>8
<1>7. ASSUME NEW n \in Nodes, W[depth][n] > 0 PROVE depths[n] \in 0 .. depth
  <2>1. Into(g, n) \subseteq Nodes
    BY DEF Into
  <2>2. Total(c, Into(g, n)) # 0
    BY <1>5, <1>7
  <2>3. \A x \in Into(g, n) : c[x] \in Nat
    BY <1>5, <2>1
  <2>4. PICK x \in Into(g, n) : c[x] > 0
    BY <2>2, <2>3, TotalPart
  <2> QED
    BY <1>6, <2>4
<1>8. ASSUME NEW n \in Nodes, depths[n] = depth PROVE path_counts[n] = W[depth][n]
  <2>1. path_counts[n] = Total(c, Counted(n))
    BY <1>1, <1>8 DEF Search, Counts, c, k
  <2>2. Into(g, n) \subseteq Nodes /\ Counted(n) \subseteq Into(g, n)
    BY DEF Into, Counted, HasOutEdge
  <2>3. \A x \in Into(g, n) \ Counted(n) : c[x] = 0
    <3>1. \A x \in Into(g, n) : c[x] \in Nat
      BY <1>5, <2>2
    <3> QED
      BY <1>6, <1>8, <3>1
  <2>4. Total(c, Counted(n)) = Total(c, Into(g, n))
    BY <2>2, <2>3, TotalZero
  <2> QED
    BY <1>5, <2>1, <2>4
<1> QED
  BY <1>3, <1>7, <1>8

LEMMA NextLevelKeeps ==
  ASSUME BInv, stage = "kernel", stage' = stage, EndLevel, out_end < Len(shared)
  PROVE  BInv'
<1>1. /\ part = "bfs" /\ pending = {} /\ \A t \in Team : at[t] = "idle"
      /\ out_start' = out_end /\ out_end' = Len(shared) /\ depth' = depth + 1
      /\ pending' = (out_end + 1) .. Len(shared) /\ part' = part
      /\ UNCHANGED <<g, sources, depths, path_counts, succ, shared, at, u, i, count>>
  BY DEF EndLevel, bfs, threadVars, Queued, BInv, Search, BTypes
<1>2. /\ Search /\ g \in Graphs /\ depths \in [Nodes -> Int] /\ shared \in Seq(Nodes)
  BY <1>1 DEF BInv, BTypes
<1>3. /\ depth \in Nat \ {0} /\ source \in Nodes /\ out_start \in Nat /\ out_end \in Nat
      /\ Len(shared) \in Nat
  BY <1>2 DEF Search, Queued
<1>4. /\ \A x \in Nodes : \A j \in 1 .. out_degree(g, x) : Passed(x, j) /\ ~Adding(x, j)
      /\ \A n \in Nodes : W[depth][n] > 0 => depths[n] \in 0 .. depth
      /\ \A n \in Nodes : depths[n] = depth => path_counts[n] = W[depth][n]
  BY <1>1, LevelWhole
<1>5. W' = W /\ source' = source
  BY <1>1, SameWays
<1>6. BTypes'
  BY <1>1 DEF BInv, BTypes
<1>7. \A k \in 1 .. Len(shared) :
        IF k > out_end THEN depths[shared[k]] = depth
        ELSE IF k > out_start THEN depths[shared[k]] = depth - 1
        ELSE depths[shared[k]] \in 0 .. (depth - 2)
  BY <1>2 DEF Search, Queued
<1>8. \A n \in Nodes : depths[n] # -1 => \E k \in 1 .. Len(shared) : shared[k] = n
  BY <1>2 DEF Search, Queued
<1>9. \A n \in Nodes : depths[n] # -1 => depths[n] \in 0 .. depth /\ W[depths[n]][n] > 0
  BY <1>2 DEF Search, Reached
<1>10. Queued'
  <2>1. \A k \in 1 .. Len(shared) :
          IF k > Len(shared) THEN depths[shared[k]] = depth + 1
          ELSE IF k > out_end THEN depths[shared[k]] = depth + 1 - 1
          ELSE depths[shared[k]] \in 0 .. (depth + 1 - 2)
    BY <1>3, <1>7
  <2>2. \A k, l \in 1 .. Len(shared) : shared[k] = shared[l] => k = l
    BY <1>2 DEF Search, Queued
  <2>3. depth + 1 \in Nat \ {0} /\ Len(shared) <= Len(shared)
    BY <1>3
  <2> QED
    BY <1>1, <1>3, <1>5, <1>8, <2>1, <2>2, <2>3 DEF Queued
<1>11. Busy'
  BY <1>1 DEF Busy
<1>12. depth' = depth + 1 /\ depth' - 1 = depth /\ depth' - 2 = depth - 1
  BY <1>1, <1>3
<1>13. Bits'
  <2> SUFFICES ASSUME NEW p \in succ
               PROVE  \E x \in Nodes : \E j \in 1 .. out_degree(g, x) :
                        /\ p = <<x, j>>
                        /\ depths[x] \in 0 .. (depth' - 1) /\ depths[g.out[x][j]] = depths[x] + 1
                        /\ depths[x] = depth' - 1 => Passed(x, j)' \/ Adding(x, j)'
    BY <1>1 DEF Bits
  <2>1. PICK x \in Nodes : \E j \in 1 .. out_degree(g, x) :
                        /\ p = <<x, j>>
                        /\ depths[x] \in 0 .. (depth - 1) /\ depths[g.out[x][j]] = depths[x] + 1
    BY <1>2 DEF Search, Bits
  <2>2. depths[x] \in 0 .. (depth' - 1) /\ depths[x] # depth' - 1
    BY <1>3, <1>12, <2>1
  <2> QED
    BY <2>1, <2>2
<1>14. Edges'
  <2> SUFFICES ASSUME NEW x \in Nodes, NEW j \in 1 .. out_degree(g, x),
                      \/ depths[x] \in 0 .. (depth' - 2)
                      \/ depths[x] = depth' - 1 /\ Passed(x, j)'
               PROVE  /\ depths[g.out[x][j]] \in 0 .. (depths[x] + 1)
                      /\ depths[g.out[x][j]] = depths[x] + 1 => <<x, j>> \in succ
    BY <1>1 DEF Edges
  <2>1. depths[x] # depth' - 1
    <3> SUFFICES ASSUME depths[x] = depth PROVE ~Passed(x, j)'
      BY <1>3, <1>12
    <3>1. PICK k \in 1 .. Len(shared) : shared[k] = x
      BY <1>3, <1>12, <1>8
    <3>2. k > out_end
      BY <1>3, <1>12, <1>7, <3>1
    <3>3. k \in pending'
      BY <1>1, <1>3, <1>12, <3>1, <3>2
    <3>4. Waiting(x)'
      BY <1>1, <3>1, <3>3 DEF Waiting
    <3> QED
      BY <3>4 DEF Passed
  <2>2. depths[x] \in 0 .. (depth - 2) \/ (depths[x] = depth - 1 /\ Passed(x, j))
    BY <1>3, <1>12, <1>4, <2>1
  <2> QED
    BY <1>2, <2>2 DEF Search, Edges
<1>15. Counts'
  <2> SUFFICES ASSUME NEW n \in Nodes
               PROVE  /\ depths[n] = -1 => path_counts[n] = 0
                      /\ depths[n] \in 0 .. (depth' - 1) => path_counts[n] = W[depths[n]][n]
                      /\ depths[n] # depth'
    BY <1>1, <1>5 DEF Counts
  <2>1. /\ depths[n] = -1 => path_counts[n] = 0
        /\ depths[n] \in 0 .. (depth - 1) => path_counts[n] = W[depths[n]][n]
    BY <1>2 DEF Search, Counts
  <2>2. depths[n] # depth'
    BY <1>3, <1>12, <1>9
  <2> QED
    BY <1>3, <1>12, <1>4, <2>1, <2>2
<1>16. Reached'
  <2>1. \A n \in Nodes : \A l \in 0 .. (depth' - 1) : W[l][n] > 0 => depths[n] \in 0 .. l
    <3> SUFFICES ASSUME NEW n \in Nodes, NEW l \in 0 .. (depth' - 1), W[l][n] > 0
                 PROVE  depths[n] \in 0 .. l
      OBVIOUS
    <3>1. CASE l = depth
      BY <1>4, <3>1
    <3>2. CASE l # depth
      <4>1. l \in 0 .. (depth - 1)
        BY <1>3, <1>12, <3>2
      <4> QED
        BY <1>2, <4>1 DEF Search, Reached
    <3> QED
      BY <3>1, <3>2
  <2>2. \A n \in Nodes : depths[n] # -1 => depths[n] \in 0 .. depth' /\ W[depths[n]][n] > 0
    BY <1>3, <1>12, <1>9
  <2>3. \A l \in 0 .. (depth' - 1) : \E n \in Nodes : depths[n] = l
    <3> SUFFICES ASSUME NEW l \in 0 .. (depth' - 1) PROVE \E n \in Nodes : depths[n] = l
      OBVIOUS
    <3>1. CASE l = depth
      <4>1. Len(shared) \in 1 .. Len(shared) /\ Len(shared) > out_end
        BY <1>3, <1>12
      <4>2. depths[shared[Len(shared)]] = depth /\ shared[Len(shared)] \in Nodes
        BY <1>2, <1>7, <4>1
      <4> QED
        BY <3>1, <4>2
    <3>2. CASE l # depth
      <4>1. l \in 0 .. (depth - 1)
        BY <1>3, <1>12, <3>2
      <4> QED
        BY <1>2, <4>1 DEF Search, Reached
    <3> QED
      BY <3>1, <3>2
  <2> QED
    BY <1>1, <1>5, <2>1, <2>2, <2>3 DEF Reached
<1> QED
  BY <1>1, <1>6, <1>10, <1>11, <1>13, <1>14, <1>15, <1>16 DEF BInv, Search

\* The queue is empty: every successor bit is there, and no other.
LEMMA LastLevelKeeps ==
  ASSUME BInv, stage = "kernel", stage' = stage, EndLevel, out_end = Len(shared)
  PROVE  BInv'
<1>1. /\ part = "bfs" /\ pending = {} /\ \A t \in Team : at[t] = "idle"
      /\ part' = "back"
      /\ UNCHANGED <<g, sources, depths, path_counts, succ, shared, at, u, i, count>>
  BY DEF EndLevel, bfs, threadVars, Queued, BInv, Search, BTypes
<1>2. /\ Search /\ g \in Graphs /\ depths \in [Nodes -> Int] /\ shared \in Seq(Nodes)
  BY <1>1 DEF BInv, BTypes
<1>3. /\ depth \in Nat \ {0} /\ out_start \in Nat /\ out_end \in Nat
  BY <1>2 DEF Search, Queued
<1>4. \A x \in Nodes : \A j \in 1 .. out_degree(g, x) : Passed(x, j) /\ ~Adding(x, j)
  BY <1>1, LevelWhole
<1>5. BTypes'
  BY <1>1 DEF BInv, BTypes
<1>6. ASSUME NEW n \in Nodes, depths[n] # -1 PROVE depths[n] \in 0 .. (depth - 1)
  <2>1. PICK k \in 1 .. Len(shared) : shared[k] = n
    BY <1>2, <1>6 DEF Search, Queued
  <2>2. IF k > out_end THEN depths[shared[k]] = depth
        ELSE IF k > out_start THEN depths[shared[k]] = depth - 1
        ELSE depths[shared[k]] \in 0 .. (depth - 2)
    BY <1>2 DEF Search, Queued
  <2> QED
    BY <1>3, <2>1, <2>2
<1>7. ASSUME NEW p \in succ
      PROVE  p \in Nodes \X (1 .. num_edges_directed(g)) /\ OnShortestPath(p[1], p[2])
  <2>1. PICK x \in Nodes : \E j \in 1 .. out_degree(g, x) :
                        /\ p = <<x, j>>
                        /\ depths[x] \in 0 .. (depth - 1) /\ depths[g.out[x][j]] = depths[x] + 1
    BY <1>2 DEF Search, Bits
  <2>2. PICK j \in 1 .. out_degree(g, x) :
                        /\ p = <<x, j>>
                        /\ depths[x] \in 0 .. (depth - 1) /\ depths[g.out[x][j]] = depths[x] + 1
    BY <2>1
  <2>3. out_degree(g, x) \in Nat /\ out_degree(g, x) <= num_edges_directed(g) /\ num_edges_directed(g) \in Nat
    BY <1>2, ListsAre, DegreeBound
  <2>4. j \in 1 .. num_edges_directed(g) /\ j <= out_degree(g, x) /\ depths[x] # -1
    BY <1>3, <2>2, <2>3
  <2> QED
    BY <2>2, <2>4 DEF OnShortestPath
<1>8. ASSUME NEW x \in Nodes, NEW j \in 1 .. num_edges_directed(g), OnShortestPath(x, j)
      PROVE  <<x, j>> \in succ
  <2>1. /\ j \in 1 .. out_degree(g, x) /\ depths[x] # -1 /\ depths[g.out[x][j]] = depths[x] + 1
    <3>1. out_degree(g, x) \in Nat /\ num_edges_directed(g) \in Nat
      BY <1>2, ListsAre, DegreeBound
    <3> QED
      BY <1>8, <3>1 DEF OnShortestPath
  <2>2. depths[x] \in 0 .. (depth - 2) \/ (depths[x] = depth - 1 /\ Passed(x, j))
    BY <1>3, <1>4, <1>6, <2>1
  <2> QED
    BY <1>2, <2>1, <2>2 DEF Search, Edges
<1>9. succ = {p \in Nodes \X (1 .. num_edges_directed(g)) : OnShortestPath(p[1], p[2])}
  BY <1>7, <1>8
<1>10. Successors'
  BY <1>1, <1>9 DEF Successors, OnShortestPath
<1> QED
  BY <1>1, <1>5, <1>10 DEF BInv

-----------------------------------------------------------------------------
(* The other steps.                                                         *)

LEMMA BeginKeeps ==
  ASSUME BInv, stage = "kernel", stage' = stage, NEW s \in Nodes, Begin(s)
  PROVE  BInv'
<1>1. /\ part = "pick" /\ part' = "bfs" /\ sources' = Append(sources, s)
      /\ depths' = [n \in Nodes |-> IF n = s THEN 0 ELSE -1]
      /\ path_counts' = [n \in Nodes |-> IF n = s THEN 1 ELSE 0]
      /\ shared' = <<s>> /\ succ' = {} /\ out_start' = 0 /\ out_end' = 1 /\ depth' = 1
      /\ pending' = {1} /\ UNCHANGED <<g, at, u, i, count>>
  BY DEF Begin, threadVars
<1>2. g \in Graphs /\ sources \in Seq(Nodes) /\ \A t \in Team : at[t] = "idle"
  BY <1>1 DEF BInv, BTypes
<1>3. sources' \in Seq(Nodes) /\ source' = s
  BY <1>1, <1>2 DEF source
<1>4. W'[0] = [y \in Nodes |-> IF y = s THEN 1 ELSE 0]
  BY <1>1, <1>2, <1>3, WaysAre DEF W
<1>5. /\ Len(shared') = 1 /\ shared'[1] = s /\ shared' \in Seq(Nodes)
      /\ \A k \in 1 .. 1 : k = 1
  BY <1>1
<1>6. BTypes'
  <2>1. depths' \in [Nodes -> Int] /\ path_counts' \in [Nodes -> Nat]
    BY <1>1
  <2> QED
    BY <1>1, <1>3, <1>5, <2>1 DEF BInv, BTypes
<1>7. Queued'
  <2>1. \A n \in Nodes : depths'[n] # -1 => n = s
    BY <1>1
  <2>2. depths'[s] = 0
    BY <1>1
  <2> QED
    BY <1>1, <1>3, <1>5, <2>1, <2>2 DEF Queued
<1>8. Busy' /\ Bits'
  BY <1>1, <1>2 DEF Busy, Bits
<1>9. Edges'
  <2>1. Waiting(s)'
    BY <1>1, <1>5 DEF Waiting
  <2> SUFFICES ASSUME NEW x \in Nodes, NEW j \in 1 .. out_degree(g, x),
                      depths'[x] \in 0 .. (depth' - 2) \/ (depths'[x] = depth' - 1 /\ Passed(x, j)')
               PROVE  FALSE
    BY <1>1 DEF Edges
  <2>2. depths'[x] = 0 /\ Passed(x, j)'
    BY <1>1
  <2>3. x = s
    BY <1>1, <2>2
  <2> QED
    BY <2>1, <2>2, <2>3 DEF Passed
<1>10. Counts'
  BY <1>1, <1>4 DEF Counts
<1>11. Reached'
  BY <1>1, <1>4 DEF Reached
<1> QED
  BY <1>1, <1>6, <1>7, <1>8, <1>9, <1>10, <1>11 DEF BInv, Search

\* What leaves the successors as they are, outside the search.
LEMMA AsideKeeps ==
  ASSUME BInv, part # "bfs", UNCHANGED <<g, succ, depths, path_counts, shared, at, u, i, count>>,
         sources' \in Seq(Nodes), part' # "bfs", part' = "back" => part = "back",
         stage' # "kernel" => part' = "done"
  PROVE  BInv'
<1>1. BTypes'
  BY DEF BInv, BTypes
<1>2. part' = "back" => Successors'
  BY DEF BInv, Successors, OnShortestPath
<1> QED
  BY <1>1, <1>2 DEF BInv

LEMMA LevelStepKeeps ==
  ASSUME BInv, stage = "kernel", stage' = stage, NEW t \in Team, LevelStep(t)
  PROVE  BInv'
BY TakeVertexKeeps, TestKeeps, CASKeeps, RetestKeeps, SetSuccKeeps, ReadCountKeeps, AddKeeps
   DEF LevelStep

LEMMA KernelKeeps ==
  ASSUME BInv, Kernel
  PROVE  BInv'
<1>1. stage = "kernel" /\ stage' = stage
  BY DEF Kernel, driverVars
<1>2. sources \in Seq(Nodes)
  BY DEF BInv, BTypes
<1>3. CASE \E t \in Team : LevelStep(t)
  BY <1>1, <1>3, LevelStepKeeps
<1>4. CASE EndLevel
  BY <1>1, <1>4, NextLevelKeeps, LastLevelKeeps DEF EndLevel
<1>5. CASE Accumulate
  BY <1>1, <1>2, <1>5, AsideKeeps DEF Accumulate, bfs, levels, threadVars
<1>6. CASE NextDepth
  BY <1>1, <1>2, <1>6, AsideKeeps DEF NextDepth, bfs, levels, threadVars
<1>7. CASE Normalize
  BY <1>1, <1>2, <1>7, AsideKeeps DEF Normalize, bfs, levels, threadVars
<1> QED
  BY <1>3, <1>4, <1>5, <1>6, <1>7 DEF Kernel, PBFS

LEMMA SameKeeps ==
  ASSUME BInv, UNCHANGED vars, stage' # "kernel" => part = "done"
  PROVE  BInv'
<1>1. UNCHANGED <<g, sources, depths, path_counts, succ, shared, out_start, out_end, depth_index,
                  depth, part, pending, at, u, i, count>>
  BY DEF vars
<1>2. W' = W /\ source' = source
  BY <1>1, SameWays
<1>3. BTypes'
  BY <1>1 DEF BInv, BTypes
<1>4. \A x, j : (Passed(x, j)' <=> Passed(x, j)) /\ (Adding(x, j)' <=> Adding(x, j))
  BY <1>1 DEF Passed, Adding, Waiting
<1>5. \A m : Counted(m)' = Counted(m)
  BY <1>1, <1>4 DEF Counted
<1>6. Search => Search'
  <2>1. Queued => Queued'
    BY <1>1, <1>2 DEF Queued
  <2>2. Busy => Busy'
    BY <1>1, <1>2 DEF Busy, Waiting, v
  <2>3. (Bits => Bits') /\ (Edges => Edges')
    BY <1>1, <1>4 DEF Bits, Edges
  <2>4. (Counts => Counts') /\ (Reached => Reached')
    BY <1>1, <1>2, <1>5 DEF Counts, Reached
  <2> QED
    BY <2>1, <2>2, <2>3, <2>4 DEF Search
<1>7. Successors => Successors'
  BY <1>1 DEF Successors, OnShortestPath
<1> QED
  BY <1>1, <1>3, <1>6, <1>7 DEF BInv

LEMMA BInvInit == BenchmarkInit => BInv
<1> SUFFICES ASSUME BenchmarkInit PROVE BInv
  OBVIOUS
<1>1. 0 \in Nodes
  BY NumNodesAssumption DEF Nodes
<1>2. BTypes
  BY <1>1 DEF BenchmarkInit, BrandesInit, BTypes
<1> QED
  BY <1>2 DEF BenchmarkInit, BrandesInit, BInv

LEMMA BInvNext == BInv /\ [BenchmarkNext]_benchmarkVars => BInv'
<1> SUFFICES ASSUME BInv, [BenchmarkNext]_benchmarkVars PROVE BInv'
  OBVIOUS
<1>1. stage # "kernel" => part = "done"
  BY DEF BInv, BTypes
<1>2. CASE PickAgain
  BY <1>1, <1>2, SameKeeps DEF PickAgain
<1>3. CASE BeginSource
  <2>1. stage = "kernel" /\ stage' = stage
    BY <1>3 DEF BeginSource, Asked
  <2>2. PICK x \in Nodes : Begin(x)
    BY <1>3 DEF BeginSource
  <2> QED
    BY <2>1, <2>2, BeginKeeps
<1>4. CASE Kernel
  BY <1>4, KernelKeeps
<1>5. CASE Return
  BY <1>5, SameKeeps DEF Return
<1>6. CASE PrintTopScores
  BY <1>1, <1>6, SameKeeps DEF PrintTopScores
<1>7. CASE VerifierPicks
  BY <1>1, <1>7, SameKeeps DEF VerifierPicks, Asked
<1>8. CASE Verify
  BY <1>1, <1>8, SameKeeps DEF Verify
<1>9. CASE EndTrial
  <2>1. part = "done" /\ sources \in Seq(Nodes) /\ <<>> \in Seq(Nodes)
    <3>1. stage # "kernel"
      BY <1>9 DEF EndTrial
    <3>2. sources \in Seq(Nodes)
      BY DEF BInv, BTypes
    <3>3. <<>> \in Seq(Nodes)
      OBVIOUS
    <3> QED
      BY <1>1, <3>1, <3>2, <3>3
  <2>2. /\ UNCHANGED <<g, succ, depths, path_counts, shared, at, u, i, count>>
        /\ \/ stage' = "kernel" /\ part' = "pick" /\ sources' = <<>>
           \/ part' = part /\ sources' = sources
    BY <1>9 DEF EndTrial, bfs, threadVars
  <2> QED
    BY <2>1, <2>2, AsideKeeps
<1>10. CASE UNCHANGED benchmarkVars
  BY <1>1, <1>10, SameKeeps DEF benchmarkVars, driverVars
<1> QED
  BY <1>2, <1>3, <1>4, <1>5, <1>6, <1>7, <1>8, <1>9, <1>10 DEF BenchmarkNext

\* There are fewer levels than vertices.
LEMMA FewLevels ==
  ASSUME NEW k \in Nat, NEW f \in [Nodes -> Int], \A l \in 0 .. k : \E n \in Nodes : f[n] = l
  PROVE  k \in 0 .. (NumNodes - 1)
<1> DEFINE h == [l \in 0 .. k |-> CHOOSE n \in Nodes : f[n] = l]
<1>1. \A l \in 0 .. k : h[l] \in Nodes /\ f[h[l]] = l
  OBVIOUS
<1>2. h = [l \in 0 .. k |-> h[l]]
  OBVIOUS
<1> HIDE DEF h
<1>3. h \in Injection(0 .. k, Nodes)
  <2>1. h \in [0 .. k -> Nodes]
    BY <1>1, <1>2
  <2>2. \A a, b \in 0 .. k : h[a] = h[b] => a = b
    BY <1>1
  <2> QED
    BY <2>1, <2>2 DEF Injection, IsInjective
<1>4. Cardinality(0 .. k) <= Cardinality(Nodes)
  BY <1>3, NodesFinite, FS_Injection
<1>5. Cardinality(0 .. k) = k + 1 /\ Cardinality(Nodes) = NumNodes /\ NumNodes \in Nat
  <2>1. Cardinality(0 .. k) = k - 0 + 1
    BY FS_Interval
  <2>2. NumNodes \in Nat \ {0}
    BY NumNodesAssumption
  <2>3. Cardinality(0 .. (NumNodes - 1)) = NumNodes - 1 - 0 + 1
    BY <2>2, FS_Interval
  <2> QED
    BY <2>1, <2>2, <2>3 DEF Nodes
<1> QED
  BY <1>4, <1>5

LEMMA BInvShows == BInv => CountsComplete
<1> SUFFICES ASSUME BInv PROVE CountsComplete
  OBVIOUS
<1>1. part = "back" => succ = {p \in Nodes \X (1 .. num_edges_directed(g)) : OnShortestPath(p[1], p[2])}
  BY DEF BInv, Successors
<1>2. ASSUME part = "bfs", NEW n \in Nodes, depths[n] # -1
      PROVE  /\ depths[n] = Distance[g][source][n]
             /\ IF depths[n] < depth
                THEN path_counts[n] = PathCount[g][source][n]
                ELSE path_counts[n] <= PathCount[g][source][n]
  <2>1. Search /\ g \in Graphs /\ depths \in [Nodes -> Int]
    BY <1>2 DEF BInv, BTypes
  <2>2. depth \in Nat \ {0} /\ source \in Nodes
    BY <2>1 DEF Search, Queued
  <2> DEFINE k == depths[n]
  <2>3. k \in 0 .. depth /\ W[k][n] > 0
    BY <1>2, <2>1 DEF Search, Reached
  <2>4. \A l \in Nat : W[l] \in [Nodes -> Nat]
    BY <2>1, <2>2, WaysAre DEF W
  <2>5. k \in Nat /\ k \in Int
    BY <2>2, <2>3
  <2>6. \A l \in 0 .. k : \E y \in Nodes : depths[y] = l
    <3> SUFFICES ASSUME NEW l \in 0 .. k PROVE \E y \in Nodes : depths[y] = l
      OBVIOUS
    <3>1. CASE l = k
      BY <3>1
    <3>2. CASE l # k
      <4>1. l \in 0 .. (depth - 1)
        BY <2>2, <2>3, <2>5, <3>2
      <4> QED
        BY <2>1, <4>1 DEF Search, Reached
    <3> QED
      BY <3>1, <3>2
  <2> HIDE DEF k
  <2>7. k \in 0 .. (NumNodes - 1)
    BY <2>1, <2>5, <2>6, FewLevels
  <2>8. \A l \in 0 .. (k - 1) : W[l][n] = 0
    <3> SUFFICES ASSUME NEW l \in 0 .. (k - 1), W[l][n] > 0 PROVE FALSE
      BY <2>4, <2>5
    <3>1. l \in 0 .. (depth - 1)
      BY <2>2, <2>3, <2>5
    <3>2. depths[n] \in 0 .. l
      BY <2>1, <3>1 DEF Search, Reached
    <3> QED
      BY <2>5, <3>2 DEF k
  <2>9. Distance[g][source][n] = k /\ PathCount[g][source][n] = W[k][n]
    BY <2>1, <2>2, <2>3, <2>7, <2>8, DistanceIs DEF W
  <2>10. CASE k < depth
    <3>1. depths[n] \in 0 .. (depth - 1)
      BY <2>2, <2>5, <2>10 DEF k
    <3>2. path_counts[n] = W[k][n]
      BY <2>1, <3>1 DEF Search, Counts, k
    <3> QED
      BY <2>9, <2>10, <3>2 DEF k
  <2>11. CASE ~(k < depth)
    <3>1. k = depth
      BY <2>2, <2>3, <2>5, <2>11
    <3> DEFINE c == W[depth - 1]
    <3>2. path_counts[n] = Total(c, Counted(n))
      BY <2>1, <3>1 DEF Search, Counts, k
    <3>3. c \in [Nodes -> Nat]
      BY <2>2, <2>4
    <3>4. W[k][n] = Total(c, Into(g, n))
      <4>1. \A l \in Nat : \A y \in Nodes : Ways(g, source)[l + 1][y] = Total(Ways(g, source)[l], Into(g, y))
        BY <2>1, <2>2, WaysAre
      <4>2. depth - 1 \in Nat /\ depth - 1 + 1 = k
        BY <2>2, <3>1
      <4>3. W[depth - 1 + 1][n] = Total(W[depth - 1], Into(g, n))
        BY <4>1, <4>2 DEF W
      <4> QED
        BY <4>2, <4>3
    <3> HIDE DEF c
    <3>5. Into(g, n) \subseteq Nodes /\ Counted(n) \subseteq Into(g, n)
      BY DEF Into, Counted, HasOutEdge
    <3>6. \A y \in Into(g, n) : c[y] \in Nat
      BY <3>3, <3>5
    <3>7. Total(c, Counted(n)) <= Total(c, Into(g, n))
      BY <3>5, <3>6, NodesFinite, TotalMore
    <3> QED
      BY <2>9, <2>11, <3>2, <3>4, <3>7 DEF k
  <2> QED
    BY <2>10, <2>11
<1> QED
  BY <1>1, <1>2 DEF CountsComplete

(***************************************************************************)
(* When a level is expanded its path counts are the numbers of shortest    *)
(* paths, those of the level being built never exceed theirs, and          *)
(* the successor bits are those of the edges on shortest paths: for every  *)
(* graph, team, number of sources and trials, and in every trial.          *)
(***************************************************************************)
THEOREM CountsInTime == BenchmarkSpec => []CountsComplete
<1>1. BenchmarkSpec => []BInv
  BY BInvInit, BInvNext, PTL DEF BenchmarkSpec
<1> QED
  BY <1>1, BInvShows, PTL

-----------------------------------------------------------------------------
(* What the verifier computes.                                              *)

\* There is a sequence in S that begins with a and goes on with F.
Iterates(n, S, a, F) ==
  \E h \in [0 .. n -> S] : h[0] = a /\ \A k \in 1 .. n : h[k] = F[k][h[k - 1]]

\* Steps from S to S can be repeated.
LEMMA Recursion ==
  ASSUME NEW n \in Nat, NEW S, NEW a \in S, NEW F \in [1 .. n -> [S -> S]]
  PROVE  Iterates(n, S, a, F)
<1> DEFINE T == {m \in 0 .. n : Iterates(m, S, a, F)}
<1>1. 0 \in T
  <2> DEFINE h == [k \in 0 .. 0 |-> a]
  <2>1. h \in [0 .. 0 -> S] /\ h[0] = a /\ 1 .. 0 = {}
    OBVIOUS
  <2> HIDE DEF h
  <2>2. Iterates(0, S, a, F)
    BY <2>1 DEF Iterates
  <2> QED
    BY <2>2
<1>2. \A k \in 1 .. n : k - 1 \in T => k \in T
  <2> SUFFICES ASSUME NEW m \in 1 .. n, m - 1 \in T PROVE m \in T
    OBVIOUS
  <2>1. PICK h \in [0 .. m - 1 -> S] : h[0] = a /\ \A k \in 1 .. m - 1 : h[k] = F[k][h[k - 1]]
    BY DEF Iterates
  <2> DEFINE f == [k \in 0 .. m |-> IF k = m THEN F[m][h[m - 1]] ELSE h[k]]
  <2>2. h[m - 1] \in S /\ F[m] \in [S -> S]
    OBVIOUS
  <2>3. F[m][h[m - 1]] \in S
    BY <2>2
  <2>4. f \in [0 .. m -> S]
    BY <2>3
  <2>5. f[0] = a
    BY <2>1
  <2>6. \A k \in 1 .. m : f[k] = F[k][f[k - 1]]
    <3> SUFFICES ASSUME NEW k \in 1 .. m PROVE f[k] = F[k][f[k - 1]]
      OBVIOUS
    <3>1. f[k - 1] = h[k - 1]
      OBVIOUS
    <3>2. CASE k = m
      BY <3>1, <3>2
    <3>3. CASE k # m
      BY <2>1, <3>1, <3>3
    <3> QED
      BY <3>2, <3>3
  <2> HIDE DEF f
  <2>7. Iterates(m, S, a, F)
    BY <2>4, <2>5, <2>6 DEF Iterates
  <2> QED
    BY <2>7
<1> HIDE DEF T
<1>3. \A k \in 0 .. n : k \in T
  BY <1>1, <1>2, Upwards
<1>4. n \in T
  BY <1>3
<1> QED
  BY <1>4 DEF T

LEMMA SumOverIs ==
  ASSUME NEW f, NEW S, IsFiniteSet(S), \A k \in S : f[k] \in Nat
  PROVE  SumOver(f, S) = Total(f, S) /\ Total(f, S) \in Nat
<1> DEFINE h == CHOOSE h : Sums(f, S, h)
<1>1. SumOver(f, S) = h[S]
  BY DEF SumOver, MapThenSumSet, MapThenFoldSet, Sums
<1>2. Sums(f, S, [r \in SUBSET S |-> Cardinality(Units(f, r))])
  BY UnitsAreSums
<1>3. Sums(f, S, h)
  BY <1>2
<1> HIDE DEF h
<1> QED
  BY <1>1, <1>3, SumsAreUnits, UnitsFinite DEF Total

\* The depths and path counts of a complete search.
IsSearch(gr, s, D, P) ==
  /\ D \in [Nodes -> Int] /\ P \in [Nodes -> Nat] /\ D[s] = 0
  /\ \A n \in Nodes :
       IF D[n] = -1 THEN P[n] = 0
       ELSE D[n] \in Nat /\ P[n] = Ways(gr, s)[D[n]][n] /\ Ways(gr, s)[D[n]][n] > 0
  /\ \A x, y \in Nodes : HasOutEdge(gr, x, y) /\ D[x] # -1 => D[y] \in 0 .. (D[x] + 1)

\* Who has a walk has a shortest one of at least one edge fewer.
LEMMA WayBefore ==
  ASSUME NEW gr \in Graphs, NEW s \in Nodes, NEW k \in Nat, NEW n \in Nodes,
         Ways(gr, s)[k + 1][n] > 0
  PROVE  \E x \in Nodes : HasOutEdge(gr, x, n) /\ Ways(gr, s)[k][x] > 0
<1> DEFINE c == Ways(gr, s)[k]
<1>1. c \in [Nodes -> Nat] /\ Ways(gr, s)[k + 1][n] = Total(c, Into(gr, n))
  <2>1. /\ \A l \in Nat : Ways(gr, s)[l] \in [Nodes -> Nat]
        /\ \A l \in Nat : \A z \in Nodes : Ways(gr, s)[l + 1][z] = Total(Ways(gr, s)[l], Into(gr, z))
    BY WaysAre
  <2> QED
    BY <2>1
<1> HIDE DEF c
<1>2. Into(gr, n) \subseteq Nodes
  BY DEF Into
<1>3. Total(c, Into(gr, n)) # 0 /\ \A x \in Into(gr, n) : c[x] \in Nat
  BY <1>1, <1>2
<1>4. PICK x \in Into(gr, n) : c[x] > 0
  BY <1>3, TotalPart
<1> QED
  BY <1>4 DEF Into, c

\* The depth of a vertex is the length of a shortest walk to it.
LEMMA SearchLeast ==
  ASSUME NEW gr \in Graphs, NEW s \in Nodes, NEW D, NEW P, IsSearch(gr, s, D, P),
         NEW k \in Nat
  PROVE  \A l \in 0 .. k : \A n \in Nodes : Ways(gr, s)[l][n] > 0 => D[n] \in 0 .. l
<1> DEFINE T == {l \in 0 .. k : \A n \in Nodes : Ways(gr, s)[l][n] > 0 => D[n] \in 0 .. l}
<1>1. 0 \in T
  <2>1. Ways(gr, s)[0] = [y \in Nodes |-> IF y = s THEN 1 ELSE 0]
    BY WaysAre
  <2>2. \A n \in Nodes : Ways(gr, s)[0][n] > 0 => n = s
    BY <2>1
  <2>3. D[s] = 0
    BY DEF IsSearch
  <2> QED
    BY <2>2, <2>3
<1>2. ASSUME NEW l \in 1 .. k, l - 1 \in T PROVE l \in T
  <2> SUFFICES ASSUME NEW n \in Nodes, Ways(gr, s)[l][n] > 0 PROVE D[n] \in 0 .. l
    BY <1>2
  <2> DEFINE m == l - 1
  <2>1. m \in Nat /\ m + 1 = l
    BY <1>2
  <2>2. \A x \in Nodes : Ways(gr, s)[m][x] > 0 => D[x] \in 0 .. m
    BY <1>2
  <2> HIDE DEF m
  <2>3. PICK x \in Nodes : HasOutEdge(gr, x, n) /\ Ways(gr, s)[m][x] > 0
    BY <2>1, WayBefore
  <2>4. D[x] \in 0 .. m /\ D[n] \in 0 .. (D[x] + 1)
    BY <2>1, <2>2, <2>3 DEF IsSearch
  <2> QED
    BY <2>1, <2>4
<1> HIDE DEF T
<1>3. \A l \in 0 .. k : l \in T
  BY <1>1, <1>2, Upwards
<1> QED
  BY <1>3 DEF T

LEMMA SearchUnique ==
  ASSUME NEW gr \in Graphs, NEW s \in Nodes, NEW D, NEW P, IsSearch(gr, s, D, P),
         NEW E, NEW Q, IsSearch(gr, s, E, Q)
  PROVE  D = E /\ P = Q
<1>1. \A n \in Nodes : D[n] # -1 => E[n] \in 0 .. D[n]
  <2> SUFFICES ASSUME NEW n \in Nodes, D[n] # -1 PROVE E[n] \in 0 .. D[n]
    OBVIOUS
  <2>1. D[n] \in Nat /\ Ways(gr, s)[D[n]][n] > 0 /\ D[n] \in 0 .. D[n]
    BY DEF IsSearch
  <2> QED
    BY <2>1, SearchLeast
<1>2. \A n \in Nodes : E[n] # -1 => D[n] \in 0 .. E[n]
  <2> SUFFICES ASSUME NEW n \in Nodes, E[n] # -1 PROVE D[n] \in 0 .. E[n]
    OBVIOUS
  <2>1. E[n] \in Nat /\ Ways(gr, s)[E[n]][n] > 0 /\ E[n] \in 0 .. E[n]
    BY DEF IsSearch
  <2> QED
    BY <2>1, SearchLeast
<1>3. D \in [Nodes -> Int] /\ E \in [Nodes -> Int] /\ P \in [Nodes -> Nat] /\ Q \in [Nodes -> Nat]
  BY DEF IsSearch
<1>4. ASSUME NEW n \in Nodes PROVE D[n] = E[n] /\ P[n] = Q[n]
  <2>1. D[n] = E[n]
    <3>1. CASE D[n] = -1
      BY <1>2, <1>3, <3>1
    <3>2. CASE D[n] # -1
      <4>1. E[n] \in 0 .. D[n]
        BY <1>1, <3>2
      <4>2. E[n] # -1
        BY <1>3, <4>1
      <4>3. D[n] \in 0 .. E[n]
        BY <1>2, <4>2
      <4> QED
        BY <1>3, <4>1, <4>3
    <3> QED
      BY <3>1, <3>2
  <2> QED
    BY <2>1 DEF IsSearch
<1> QED
  BY <1>3, <1>4

\* Levels without a gap are fewer than vertices.
LEMMA NoGap ==
  ASSUME NEW D \in [Nodes -> Int], NEW x \in Nodes, D[x] \in Nat,
         \A m \in 0 .. (D[x] - 1) : \A a \in Nodes : D[a] = m + 1 => \E z \in Nodes : D[z] = m
  PROVE  D[x] \in 0 .. (NumNodes - 1)
<1> DEFINE k == D[x]
           T == {l \in 0 .. k : \E z \in Nodes : D[z] = k - l}
<1>1. 0 \in T
  OBVIOUS
<1>2. ASSUME NEW l \in 1 .. k, l - 1 \in T PROVE l \in T
  <2>1. k - l \in 0 .. (k - 1) /\ k - (l - 1) = (k - l) + 1
    OBVIOUS
  <2>2. \E a \in Nodes : D[a] = (k - l) + 1
    BY <1>2, <2>1
  <2> QED
    BY <2>1, <2>2
<1> HIDE DEF T
<1>3. \A l \in 0 .. k : l \in T
  BY <1>1, <1>2, Upwards
<1>4. \A l \in 0 .. k : \E z \in Nodes : D[z] = l
  <2> SUFFICES ASSUME NEW l \in 0 .. k PROVE \E z \in Nodes : D[z] = l
    OBVIOUS
  <2>1. k - l \in 0 .. k /\ k - (k - l) = l
    OBVIOUS
  <2>2. k - l \in T
    BY <1>3, <2>1
  <2> QED
    BY <2>1, <2>2 DEF T
<1> HIDE DEF k
<1>5. k \in 0 .. (NumNodes - 1)
  BY <1>4, FewLevels DEF k
<1> QED
  BY <1>5 DEF k

LEMMA SearchShallow ==
  ASSUME NEW gr \in Graphs, NEW s \in Nodes, NEW D, NEW P, IsSearch(gr, s, D, P), NEW x \in Nodes
  PROVE  D[x] # -1 => D[x] \in 0 .. (NumNodes - 1)
<1> SUFFICES ASSUME D[x] # -1 PROVE D[x] \in 0 .. (NumNodes - 1)
  OBVIOUS
<1>1. D \in [Nodes -> Int] /\ D[x] \in Nat
  BY DEF IsSearch
<1>2. ASSUME NEW m \in 0 .. (D[x] - 1), NEW a \in Nodes, D[a] = m + 1
      PROVE  \E z \in Nodes : D[z] = m
  <2>1. m \in Nat /\ D[a] # -1
    BY <1>1, <1>2
  <2>2. Ways(gr, s)[m + 1][a] > 0
    BY <1>2, <2>1 DEF IsSearch
  <2>3. PICK z \in Nodes : HasOutEdge(gr, z, a) /\ Ways(gr, s)[m][z] > 0
    BY <2>1, <2>2, WayBefore
  <2>4. D[z] \in 0 .. m
    <3>1. m \in 0 .. m
      BY <2>1
    <3> QED
      BY <2>1, <2>3, <3>1, SearchLeast
  <2>5. D[z] # -1
    BY <2>1, <2>4
  <2>6. D[a] \in 0 .. (D[z] + 1)
    BY <2>3, <2>5 DEF IsSearch
  <2> QED
    BY <1>2, <2>1, <2>4, <2>6
<1> QED
  BY <1>1, <1>2, NoGap

\* What SerialDepths chooses.
LevelDepths(gr, s, h) ==
  h = [level \in 0 .. NumNodes |->
        IF level = 0 THEN [n \in Nodes |-> IF n = s THEN 0 ELSE -1]
                     ELSE NewDepths(gr, level, h[level - 1])]

\* Its levels, one by one.
SearchLevels(gr, s, h) ==
  /\ h \in [0 .. NumNodes -> [Nodes -> Int]] /\ SerialDepths(gr, s) = h[NumNodes]
  /\ h[0] = [n \in Nodes |-> IF n = s THEN 0 ELSE -1]
  /\ \A level \in 1 .. NumNodes : h[level] = NewDepths(gr, level, h[level - 1])

LEMMA SearchLevelsExist ==
  ASSUME NEW gr, NEW s \in Nodes
  PROVE  \E h : SearchLevels(gr, s, h)
<1> DEFINE V == [Nodes -> Int]
           first == [n \in Nodes |-> IF n = s THEN 0 ELSE -1]
           F == [k \in 1 .. NumNodes |-> [f \in V |-> NewDepths(gr, k, f)]]
           c == CHOOSE h : LevelDepths(gr, s, h)
<1>1. NumNodes \in Nat /\ first \in V
  BY NumNodesAssumption
<1>2. \A k \in 1 .. NumNodes : \A f \in V : NewDepths(gr, k, f) \in V
  BY <1>1 DEF NewDepths
<1> HIDE DEF V
<1>3. PICK f \in [0 .. NumNodes -> V] :
        f[0] = first /\ \A k \in 1 .. NumNodes : f[k] = NewDepths(gr, k, f[k - 1])
  <2>1. F \in [1 .. NumNodes -> [V -> V]]
    BY <1>2
  <2>2. \A h \in [0 .. NumNodes -> V] : \A k \in 1 .. NumNodes :
          F[k][h[k - 1]] = NewDepths(gr, k, h[k - 1])
    BY <1>1
  <2> HIDE DEF F, first
  <2>3. Iterates(NumNodes, V, first, F)
    BY <1>1, <2>1, Recursion
  <2> QED
    BY <2>2, <2>3 DEF Iterates
<1>4. LevelDepths(gr, s, f)
  <2>1. \A k \in 0 .. NumNodes : f[k] = IF k = 0 THEN first ELSE NewDepths(gr, k, f[k - 1])
    BY <1>1, <1>3
  <2> QED
    BY <2>1 DEF LevelDepths
<1>5. LevelDepths(gr, s, c)
  BY <1>4
<1>6. SerialDepths(gr, s) = c[NumNodes]
  BY DEF SerialDepths, LevelDepths
<1> HIDE DEF c
<1> DEFINE G(k) == IF k = 0 THEN first ELSE NewDepths(gr, k, c[k - 1])
<1>7. c = [k \in 0 .. NumNodes |-> G(k)]
  BY <1>5 DEF LevelDepths
<1> HIDE DEF G
<1>8. DOMAIN c = 0 .. NumNodes /\ c = [k \in 0 .. NumNodes |-> c[k]] /\ \A k \in 0 .. NumNodes : c[k] = G(k)
  BY <1>7
<1> HIDE DEF first
<1>9. c[0] = first /\ \A k \in 1 .. NumNodes : c[k] = NewDepths(gr, k, c[k - 1])
  <2>1. 0 \in 0 .. NumNodes /\ \A k \in 1 .. NumNodes : k \in 0 .. NumNodes /\ k # 0
    BY <1>1
  <2> QED
    BY <1>8, <2>1 DEF G
<1>10. \A k \in 0 .. NumNodes : c[k] \in V
  <2> DEFINE T == {k \in 0 .. NumNodes : c[k] \in V}
  <2>1. 0 \in T
    BY <1>1, <1>9
  <2>2. \A k \in 1 .. NumNodes : k - 1 \in T => k \in T
    BY <1>1, <1>2, <1>9
  <2> HIDE DEF T
  <2>3. \A k \in 0 .. NumNodes : k \in T
    BY <1>1, <2>1, <2>2, Upwards
  <2> QED
    BY <2>3 DEF T
<1>11. c \in [0 .. NumNodes -> V]
  BY <1>8, <1>10
<1> QED
  BY <1>6, <1>9, <1>11 DEF first, V, SearchLevels

\* The vertices within level edges have their depths, the others have none.
LEMMA SerialDepthsAre ==
  ASSUME NEW gr \in Graphs, NEW s \in Nodes
  PROVE  LET D == SerialDepths(gr, s)
         IN  /\ D \in [Nodes -> Int] /\ D[s] = 0
             /\ \A n \in Nodes : D[n] # -1 => D[n] \in 0 .. NumNodes /\ Ways(gr, s)[D[n]][n] > 0
             /\ \A l \in 0 .. NumNodes : \A n \in Nodes : Ways(gr, s)[l][n] > 0 => D[n] \in 0 .. l
<1>1. PICK h : SearchLevels(gr, s, h)
  BY SearchLevelsExist
<1>2. /\ h \in [0 .. NumNodes -> [Nodes -> Int]] /\ SerialDepths(gr, s) = h[NumNodes]
      /\ h[0] = [n \in Nodes |-> IF n = s THEN 0 ELSE -1]
      /\ \A level \in 1 .. NumNodes : h[level] = NewDepths(gr, level, h[level - 1])
  BY <1>1 DEF SearchLevels
<1> DEFINE w == Ways(gr, s)
           Good(k) == /\ h[k][s] = 0
                      /\ \A n \in Nodes : h[k][n] # -1 => h[k][n] \in 0 .. k /\ w[h[k][n]][n] > 0
                      /\ \A l \in 0 .. k : \A n \in Nodes : w[l][n] > 0 => h[k][n] \in 0 .. l
           T == {k \in 0 .. NumNodes : Good(k)}
<1>3. NumNodes \in Nat /\ NumNodes \in 0 .. NumNodes
  BY NumNodesAssumption
<1>4. w[0] = [y \in Nodes |-> IF y = s THEN 1 ELSE 0] /\ \A l \in Nat : w[l] \in [Nodes -> Nat]
  BY WaysAre
<1>5. \A l \in Nat : \A n \in Nodes :
        w[l + 1][n] > 0 <=> \E x \in Nodes : HasOutEdge(gr, x, n) /\ w[l][x] > 0
  <2> SUFFICES ASSUME NEW l \in Nat, NEW n \in Nodes
               PROVE  w[l + 1][n] > 0 <=> \E x \in Nodes : HasOutEdge(gr, x, n) /\ w[l][x] > 0
    OBVIOUS
  <2>1. ASSUME w[l + 1][n] > 0 PROVE \E x \in Nodes : HasOutEdge(gr, x, n) /\ w[l][x] > 0
    BY <2>1, WayBefore
  <2>2. ASSUME NEW x \in Nodes, HasOutEdge(gr, x, n), w[l][x] > 0 PROVE w[l + 1][n] > 0
    BY <2>2, WaysGrow
  <2> QED
    BY <2>1, <2>2
<1> HIDE DEF w
<1>6. 0 \in T
  <2>1. \A n \in Nodes : h[0][n] = IF n = s THEN 0 ELSE -1
    BY <1>2
  <2>2. \A n \in Nodes : w[0][n] = IF n = s THEN 1 ELSE 0
    BY <1>4
  <2>3. Good(0)
    BY <2>1, <2>2
  <2> QED
    BY <1>3, <2>3
<1>7. ASSUME NEW k \in 1 .. NumNodes, k - 1 \in T PROVE k \in T
  <2> DEFINE m == k - 1
             D == h[m]
             new(y) == D[y] = -1 /\ \E x \in Nodes : D[x] = m /\ HasOutEdge(gr, x, y)
  <2>1. m \in Nat /\ m + 1 = k /\ m \in 0 .. NumNodes /\ k \in 0 .. NumNodes /\ k \in Nat
    BY <1>3
  <2>2. /\ D \in [Nodes -> Int] /\ D[s] = 0
        /\ \A n \in Nodes : D[n] # -1 => D[n] \in 0 .. m /\ w[D[n]][n] > 0
        /\ \A l \in 0 .. m : \A n \in Nodes : w[l][n] > 0 => D[n] \in 0 .. l
    BY <1>2, <1>7, <2>1
  <2>3. h[k] = NewDepths(gr, k, D)
    BY <1>2
  <2> HIDE DEF m, D
  <2>4. \A n \in Nodes : h[k][n] = IF new(n) THEN k ELSE D[n]
    BY <2>1, <2>3 DEF NewDepths, m
  <2>5. \A n \in Nodes : new(n) => w[k][n] > 0
    <3> SUFFICES ASSUME NEW n \in Nodes, new(n) PROVE w[k][n] > 0
      OBVIOUS
    <3>1. PICK x \in Nodes : D[x] = m /\ HasOutEdge(gr, x, n)
      OBVIOUS
    <3>2. w[m][x] > 0
      BY <2>1, <2>2, <3>1
    <3> QED
      BY <1>5, <2>1, <3>1, <3>2
  <2>6. \A n \in Nodes : w[k][n] > 0 => h[k][n] \in 0 .. k
    <3> SUFFICES ASSUME NEW n \in Nodes, w[k][n] > 0 PROVE h[k][n] \in 0 .. k
      OBVIOUS
    <3>1. PICK x \in Nodes : HasOutEdge(gr, x, n) /\ w[m][x] > 0
      BY <1>5, <2>1
    <3>2. m \in 0 .. m
      BY <2>1
    <3>3. D[x] \in 0 .. m
      BY <2>2, <3>1, <3>2
    <3>4. CASE D[n] # -1
      BY <2>1, <2>2, <2>4, <3>4
    <3>5. CASE D[n] = -1 /\ D[x] = m
      <4>1. new(n)
        BY <3>1, <3>5
      <4> QED
        BY <2>1, <2>4, <4>1
    <3>6. CASE D[n] = -1 /\ D[x] # m
      <4> DEFINE l == D[x]
      <4>1. l \in Nat /\ l + 1 \in 0 .. m /\ w[l][x] > 0
        BY <2>1, <2>2, <3>3, <3>6
      <4> HIDE DEF l
      <4>2. w[l + 1][n] > 0
        BY <1>5, <3>1, <4>1
      <4>3. D[n] \in 0 .. (l + 1)
        BY <2>2, <4>1, <4>2
      <4> QED
        BY <3>6, <4>1, <4>3
    <3> QED
      BY <3>4, <3>5, <3>6
  <2>7. h[k][s] = 0
    BY <2>2, <2>4
  <2>8. \A n \in Nodes : h[k][n] # -1 => h[k][n] \in 0 .. k /\ w[h[k][n]][n] > 0
    BY <2>1, <2>2, <2>4, <2>5
  <2>9. \A l \in 0 .. k : \A n \in Nodes : w[l][n] > 0 => h[k][n] \in 0 .. l
    <3> SUFFICES ASSUME NEW l \in 0 .. k, NEW n \in Nodes, w[l][n] > 0 PROVE h[k][n] \in 0 .. l
      OBVIOUS
    <3>1. CASE l = k
      BY <2>6, <3>1
    <3>2. CASE l # k
      <4>1. l \in 0 .. m
        BY <2>1, <3>2
      <4>2. D[n] \in 0 .. l
        BY <2>2, <4>1
      <4> QED
        BY <2>4, <4>1, <4>2
    <3> QED
      BY <3>1, <3>2
  <2>10. Good(k)
    BY <2>7, <2>8, <2>9
  <2> QED
    BY <2>1, <2>10
<1> HIDE DEF T
<1>8. \A k \in 0 .. NumNodes : k \in T
  BY <1>3, <1>6, <1>7, Upwards
<1>9. Good(NumNodes)
  BY <1>3, <1>8 DEF T
<1>10. h[NumNodes] \in [Nodes -> Int]
  BY <1>2, <1>3
<1> QED
  BY <1>2, <1>9, <1>10 DEF w

LEMMA SerialDepthsEdges ==
  ASSUME NEW gr \in Graphs, NEW s \in Nodes
  PROVE  LET D == SerialDepths(gr, s)
         IN  \A x, y \in Nodes : HasOutEdge(gr, x, y) /\ D[x] # -1 => D[y] \in 0 .. (D[x] + 1)
<1> DEFINE D == SerialDepths(gr, s)
           w == Ways(gr, s)
<1>1. /\ D \in [Nodes -> Int] /\ D[s] = 0
      /\ \A n \in Nodes : D[n] # -1 => D[n] \in 0 .. NumNodes /\ w[D[n]][n] > 0
      /\ \A l \in 0 .. NumNodes : \A n \in Nodes : w[l][n] > 0 => D[n] \in 0 .. l
  BY SerialDepthsAre
<1>2. NumNodes \in Nat
  BY NumNodesAssumption
<1> HIDE DEF D
<1> SUFFICES ASSUME NEW x \in Nodes, NEW y \in Nodes, HasOutEdge(gr, x, y), D[x] # -1
             PROVE  D[y] \in 0 .. (D[x] + 1)
  BY DEF D
<1> DEFINE k == D[x]
<1>3. k \in 0 .. NumNodes /\ w[k][x] > 0 /\ k \in Nat
  BY <1>1, <1>2
<1>4. w[k + 1][y] > 0
  BY <1>3, WaysGrow
<1>5. ASSUME NEW m \in 0 .. (k - 1), NEW a \in Nodes, D[a] = m + 1
      PROVE  \E z \in Nodes : D[z] = m
  <2>1. m \in Nat /\ m \in 0 .. NumNodes /\ m + 1 \in 0 .. NumNodes
    BY <1>2, <1>3
  <2>2. w[m + 1][a] > 0
    BY <1>1, <1>5, <2>1
  <2>3. PICK z \in Nodes : HasOutEdge(gr, z, a) /\ w[m][z] > 0
    BY <2>1, <2>2, WayBefore
  <2> DEFINE b == D[z]
  <2>4. b \in 0 .. m
    BY <1>1, <2>1, <2>3
  <2>5. b \in Nat /\ w[b][z] > 0 /\ b + 1 \in 0 .. NumNodes
    BY <1>1, <1>2, <2>1, <2>4
  <2>6. w[b + 1][a] > 0
    BY <2>3, <2>5, WaysGrow
  <2> HIDE DEF b
  <2>7. D[a] \in 0 .. (b + 1)
    BY <1>1, <2>5, <2>6
  <2> QED
    BY <1>5, <2>1, <2>4, <2>7 DEF b
<1> HIDE DEF k
<1>6. k \in 0 .. (NumNodes - 1)
  BY <1>1, <1>3, <1>5, NoGap DEF k
<1>7. k + 1 \in 0 .. NumNodes
  BY <1>2, <1>6
<1> QED
  BY <1>1, <1>4, <1>7 DEF k

\* A list of a simple graph has an entry at most once.
LEMMA OneEntry ==
  ASSUME NEW gr \in Graphs, NEW x \in Nodes, NEW n \in Nodes
  PROVE  Cardinality({j \in DOMAIN gr.out[x] : gr.out[x][j] = n})
           = IF x \in Into(gr, n) THEN 1 ELSE 0
<1> DEFINE S == {j \in DOMAIN gr.out[x] : gr.out[x][j] = n}
<1>1. IsGraph(gr)
  BY GraphsAssumption
<1>2. gr.out[x] \in Seq(Nodes) /\ out_degree(gr, x) = Len(gr.out[x])
  BY <1>1 DEF IsGraph, out_degree
<1>3. DOMAIN gr.out[x] = 1 .. out_degree(gr, x)
  BY <1>2
<1>4. \A j, k \in 1 .. out_degree(gr, x) : gr.out[x][j] = gr.out[x][k] => j = k
  BY ListsAre
<1>5. x \in Into(gr, n) <=> \E j \in 1 .. out_degree(gr, x) : gr.out[x][j] = n
  BY DEF Into, HasOutEdge
<1>6. CASE x \in Into(gr, n)
  <2>1. PICK j \in 1 .. out_degree(gr, x) : gr.out[x][j] = n
    BY <1>5, <1>6
  <2>2. S = {j}
    BY <1>3, <1>4, <2>1
  <2> QED
    BY <1>6, <2>2, FS_Singleton
<1>7. CASE x \notin Into(gr, n)
  <2>1. S = {}
    BY <1>3, <1>5, <1>7
  <2> QED
    BY <1>7, <2>1, FS_EmptySet
<1> QED
  BY <1>6, <1>7

\* The neighbours that shortest paths to n come from.
Parents(gr, D, n) == {x \in Into(gr, n) : D[x] = D[n] - 1}

LEMMA NewCountsAre ==
  ASSUME NEW gr \in Graphs, NEW D \in [Nodes -> Int], NEW level \in Nat, NEW c \in [Nodes -> Nat]
  PROVE  /\ NewCounts(gr, D, level, c) \in [Nodes -> Nat]
         /\ \A n \in Nodes :
              NewCounts(gr, D, level, c)[n] = IF D[n] = level
                                              THEN Total(c, Parents(gr, D, n))
                                              ELSE c[n]
<1> DEFINE above == {x \in Nodes : D[x] = level - 1}
           edges(x, n) == Cardinality({j \in DOMAIN gr.out[x] : gr.out[x][j] = n})
           F(n) == [x \in above |-> c[x] * edges(x, n)]
           S(n) == {x \in Into(gr, n) : D[x] = level - 1}
<1>1. NewCounts(gr, D, level, c) = [n \in Nodes |-> IF D[n] = level THEN SumOver(F(n), above) ELSE c[n]]
  BY DEF NewCounts
<1>2. ASSUME NEW n \in Nodes PROVE SumOver(F(n), above) = Total(c, S(n)) /\ Total(c, S(n)) \in Nat
  <2> DEFINE f == F(n)
  <2>1. \A x \in above : f[x] = IF x \in Into(gr, n) THEN c[x] ELSE 0
    <3> SUFFICES ASSUME NEW x \in above PROVE f[x] = IF x \in Into(gr, n) THEN c[x] ELSE 0
      OBVIOUS
    <3>1. edges(x, n) = IF x \in Into(gr, n) THEN 1 ELSE 0
      BY OneEntry
    <3> HIDE DEF edges
    <3>2. f[x] = c[x] * edges(x, n) /\ c[x] \in Nat
      OBVIOUS
    <3> QED
      BY <3>1, <3>2
  <2> HIDE DEF f
  <2>2. IsFiniteSet(above) /\ above \subseteq Nodes /\ S(n) \in SUBSET above
    BY NodesFinite DEF Into
  <2>3. \A x \in above : f[x] \in Nat
    BY <2>1, <2>2
  <2>4. \A x \in above \ S(n) : f[x] = 0
    BY <2>1, <2>2
  <2>5. \A x \in S(n) : f[x] = c[x]
    BY <2>1, <2>2
  <2> HIDE DEF above, S
  <2>6. SumOver(f, above) = Total(f, above) /\ Total(f, above) \in Nat
    BY <2>2, <2>3, SumOverIs
  <2>7. Total(f, S(n)) = Total(f, above)
    BY <2>2, <2>4, TotalZero
  <2>8. Total(f, S(n)) = Total(c, S(n))
    BY <2>5, TotalSame
  <2> QED
    BY <2>6, <2>7, <2>8 DEF f
<1> HIDE DEF F, above, S
<1> QED
  BY <1>1, <1>2 DEF S, Parents

\* What SerialSearch chooses, and the path counts level by level.
LevelCounts(gr, s, D, h) ==
  h = [level \in 0 .. NumNodes |->
        IF level = 0 THEN [n \in Nodes |-> IF n = s THEN 1 ELSE 0]
                     ELSE NewCounts(gr, D, level, h[level - 1])]

CountLevels(gr, s, D, h) ==
  /\ h \in [0 .. NumNodes -> [Nodes -> Nat]]
  /\ h[0] = [n \in Nodes |-> IF n = s THEN 1 ELSE 0]
  /\ \A level \in 1 .. NumNodes : h[level] = NewCounts(gr, D, level, h[level - 1])

LEMMA CountLevelsExist ==
  ASSUME NEW gr \in Graphs, NEW s \in Nodes
  PROVE  \E h : /\ CountLevels(gr, s, SerialDepths(gr, s), h)
                /\ SerialSearch(gr, s).depths = SerialDepths(gr, s)
                /\ SerialSearch(gr, s).path_counts = h[NumNodes]
<1> DEFINE V == [Nodes -> Nat]
           D == SerialDepths(gr, s)
           first == [n \in Nodes |-> IF n = s THEN 1 ELSE 0]
           F == [k \in 1 .. NumNodes |-> [f \in V |-> NewCounts(gr, D, k, f)]]
           c == CHOOSE h : LevelCounts(gr, s, D, h)
<1>1. NumNodes \in Nat /\ first \in V
  BY NumNodesAssumption
<1>2. D \in [Nodes -> Int]
  BY SerialDepthsAre
<1>3. SerialSearch(gr, s).depths = D /\ SerialSearch(gr, s).path_counts = c[NumNodes]
  BY DEF SerialSearch, LevelCounts
<1> HIDE DEF D
<1>4. \A k \in 1 .. NumNodes : \A f \in V : NewCounts(gr, D, k, f) \in V
  BY <1>1, <1>2, NewCountsAre
<1> HIDE DEF V
<1>5. PICK f \in [0 .. NumNodes -> V] :
        f[0] = first /\ \A k \in 1 .. NumNodes : f[k] = NewCounts(gr, D, k, f[k - 1])
  <2>1. F \in [1 .. NumNodes -> [V -> V]]
    BY <1>4
  <2>2. \A h \in [0 .. NumNodes -> V] : \A k \in 1 .. NumNodes :
          F[k][h[k - 1]] = NewCounts(gr, D, k, h[k - 1])
    BY <1>1
  <2> HIDE DEF F, first
  <2>3. Iterates(NumNodes, V, first, F)
    BY <1>1, <2>1, Recursion
  <2> QED
    BY <2>2, <2>3 DEF Iterates
<1>6. LevelCounts(gr, s, D, f)
  <2>1. \A k \in 0 .. NumNodes : f[k] = IF k = 0 THEN first ELSE NewCounts(gr, D, k, f[k - 1])
    BY <1>1, <1>5
  <2> QED
    BY <2>1 DEF LevelCounts
<1>7. LevelCounts(gr, s, D, c)
  BY <1>6
<1> HIDE DEF c
<1> DEFINE G(k) == IF k = 0 THEN first ELSE NewCounts(gr, D, k, c[k - 1])
<1>8. c = [k \in 0 .. NumNodes |-> G(k)]
  BY <1>7 DEF LevelCounts
<1> HIDE DEF G
<1>9. DOMAIN c = 0 .. NumNodes /\ c = [k \in 0 .. NumNodes |-> c[k]] /\ \A k \in 0 .. NumNodes : c[k] = G(k)
  BY <1>8
<1> HIDE DEF first
<1>10. c[0] = first /\ \A k \in 1 .. NumNodes : c[k] = NewCounts(gr, D, k, c[k - 1])
  <2>1. 0 \in 0 .. NumNodes /\ \A k \in 1 .. NumNodes : k \in 0 .. NumNodes /\ k # 0
    BY <1>1
  <2> QED
    BY <1>9, <2>1 DEF G
<1>11. \A k \in 0 .. NumNodes : c[k] \in V
  <2> DEFINE T == {k \in 0 .. NumNodes : c[k] \in V}
  <2>1. 0 \in T
    BY <1>1, <1>10
  <2>2. \A k \in 1 .. NumNodes : k - 1 \in T => k \in T
    BY <1>1, <1>4, <1>10
  <2> HIDE DEF T
  <2>3. \A k \in 0 .. NumNodes : k \in T
    BY <1>1, <2>1, <2>2, Upwards
  <2> QED
    BY <2>3 DEF T
<1>12. c \in [0 .. NumNodes -> V]
  BY <1>9, <1>11
<1>13. CountLevels(gr, s, D, c)
  BY <1>10, <1>12 DEF first, V, CountLevels
<1> QED
  BY <1>3, <1>13 DEF D

LEMMA SerialIsSearch ==
  ASSUME NEW gr \in Graphs, NEW s \in Nodes
  PROVE  IsSearch(gr, s, SerialSearch(gr, s).depths, SerialSearch(gr, s).path_counts)
<1> DEFINE D == SerialDepths(gr, s)
           w == Ways(gr, s)
<1>1. PICK h : /\ CountLevels(gr, s, D, h)
               /\ SerialSearch(gr, s).depths = D
               /\ SerialSearch(gr, s).path_counts = h[NumNodes]
  BY CountLevelsExist
<1>2. /\ D \in [Nodes -> Int] /\ D[s] = 0
      /\ \A n \in Nodes : D[n] # -1 => D[n] \in 0 .. NumNodes /\ w[D[n]][n] > 0
      /\ \A l \in 0 .. NumNodes : \A n \in Nodes : w[l][n] > 0 => D[n] \in 0 .. l
  BY SerialDepthsAre
<1>3. \A x, y \in Nodes : HasOutEdge(gr, x, y) /\ D[x] # -1 => D[y] \in 0 .. (D[x] + 1)
  BY SerialDepthsEdges
<1>4. /\ w[0] = [y \in Nodes |-> IF y = s THEN 1 ELSE 0]
      /\ \A k \in Nat : w[k] \in [Nodes -> Nat]
      /\ \A k \in Nat : \A y \in Nodes : w[k + 1][y] = Total(w[k], Into(gr, y))
  BY WaysAre
<1> HIDE DEF D, w
<1>5. NumNodes \in Nat /\ NumNodes \in 0 .. NumNodes
  BY NumNodesAssumption
<1>6. /\ h \in [0 .. NumNodes -> [Nodes -> Nat]]
      /\ h[0] = [n \in Nodes |-> IF n = s THEN 1 ELSE 0]
      /\ \A k \in 1 .. NumNodes : h[k] = NewCounts(gr, D, k, h[k - 1])
  BY <1>1 DEF CountLevels
<1> DEFINE Good(k) == \A n \in Nodes : h[k][n] = IF D[n] \in 0 .. k THEN w[D[n]][n] ELSE 0
           T == {k \in 0 .. NumNodes : Good(k)}
<1>7. 0 \in T
  <2>1. \A n \in Nodes : w[0][n] = IF n = s THEN 1 ELSE 0
    BY <1>4
  <2>2. \A n \in Nodes : h[0][n] = IF n = s THEN 1 ELSE 0
    BY <1>6
  <2>3. \A n \in Nodes : D[n] \in 0 .. 0 => n = s
    <3> SUFFICES ASSUME NEW n \in Nodes, D[n] \in 0 .. 0 PROVE n = s
      OBVIOUS
    <3>1. D[n] = 0 /\ w[0][n] > 0
      BY <1>2
    <3> QED
      BY <2>1, <3>1
  <2>4. \A n \in Nodes : D[n] \in 0 .. 0 => D[n] = 0
    BY <1>2
  <2>5. D[s] \in 0 .. 0
    BY <1>2
  <2> QED
    BY <1>5, <2>1, <2>2, <2>3, <2>4, <2>5
<1>8. ASSUME NEW k \in 1 .. NumNodes, k - 1 \in T PROVE k \in T
  <2> DEFINE m == k - 1
             c == h[m]
  <2>1. m \in Nat /\ m + 1 = k /\ m \in 0 .. NumNodes /\ k \in 0 .. NumNodes /\ k \in Nat
    BY <1>5
  <2>2. c \in [Nodes -> Nat] /\ \A n \in Nodes : c[n] = IF D[n] \in 0 .. m THEN w[D[n]][n] ELSE 0
    BY <1>6, <1>8, <2>1
  <2>3. h[k] = NewCounts(gr, D, k, c)
    BY <1>6
  <2> HIDE DEF c
  <2>4. \A n \in Nodes :
          h[k][n] = IF D[n] = k THEN Total(c, Parents(gr, D, n)) ELSE c[n]
    <3>1. \A n \in Nodes :
            NewCounts(gr, D, k, c)[n] = IF D[n] = k THEN Total(c, Parents(gr, D, n)) ELSE c[n]
      BY <1>2, <2>1, <2>2, NewCountsAre
    <3> QED
      BY <2>3, <3>1
  <2> HIDE DEF m
  <2>5. ASSUME NEW n \in Nodes, D[n] = k PROVE h[k][n] = w[k][n]
    <3> DEFINE S == Parents(gr, D, n)
               v0 == w[m]
    <3>0. S = {x \in Into(gr, n) : D[x] = m}
      BY <2>1, <2>5 DEF Parents
    <3> HIDE DEF S
    <3>1. w[k][n] = Total(v0, Into(gr, n))
      BY <1>4, <2>1
    <3>2. \A x \in S : c[x] = v0[x]
      <4>1. \A x \in S : x \in Nodes /\ D[x] = m /\ D[x] \in 0 .. m
        BY <2>1, <3>0 DEF Into
      <4> QED
        BY <2>2, <4>1
    <3>3. \A x \in Into(gr, n) \ S : v0[x] = 0
      <4> SUFFICES ASSUME NEW x \in Into(gr, n), D[x] # m, v0[x] # 0 PROVE FALSE
        BY <3>0
      <4>1. x \in Nodes /\ HasOutEdge(gr, x, n)
        BY DEF Into
      <4>2. v0[x] > 0
        BY <1>4, <2>1, <4>1
      <4>3. D[x] \in 0 .. m
        BY <1>2, <2>1, <4>1, <4>2
      <4>4. D[n] \in 0 .. (D[x] + 1)
        BY <1>3, <2>1, <4>1, <4>3
      <4> QED
        BY <2>1, <2>5, <4>3, <4>4
    <3>4. S \in SUBSET Into(gr, n)
      BY <3>0
    <3>5. h[k][n] = Total(c, S)
      BY <2>4, <2>5 DEF S
    <3> HIDE DEF v0
    <3>6. Total(c, S) = Total(v0, S)
      BY <3>2, TotalSame
    <3>7. Total(v0, S) = Total(v0, Into(gr, n))
      BY <3>3, <3>4, TotalZero
    <3> QED
      BY <3>1, <3>5, <3>6, <3>7
  <2>6. ASSUME NEW n \in Nodes PROVE h[k][n] = IF D[n] \in 0 .. k THEN w[D[n]][n] ELSE 0
    <3>1. CASE D[n] = k
      BY <2>1, <2>5, <3>1
    <3>2. CASE D[n] # k
      <4>1. D[n] \in 0 .. k <=> D[n] \in 0 .. m
        BY <1>2, <2>1, <3>2
      <4> QED
        BY <2>2, <2>4, <3>2, <4>1
    <3> QED
      BY <3>1, <3>2
  <2> QED
    BY <2>1, <2>6
<1> HIDE DEF T
<1>9. \A k \in 0 .. NumNodes : k \in T
  BY <1>5, <1>7, <1>8, Upwards
<1>10. Good(NumNodes) /\ h[NumNodes] \in [Nodes -> Nat]
  BY <1>5, <1>6, <1>9 DEF T
<1>11. ASSUME NEW n \in Nodes
       PROVE  IF D[n] = -1 THEN h[NumNodes][n] = 0
              ELSE D[n] \in Nat /\ h[NumNodes][n] = w[D[n]][n] /\ w[D[n]][n] > 0
  <2>1. CASE D[n] = -1
    BY <1>10, <2>1
  <2>2. CASE D[n] # -1
    <3>1. D[n] \in 0 .. NumNodes /\ w[D[n]][n] > 0
      BY <1>2, <2>2
    <3> QED
      BY <1>10, <2>2, <3>1
  <2> QED
    BY <2>1, <2>2
<1> QED
  BY <1>1, <1>2, <1>3, <1>10, <1>11 DEF IsSearch, w

\* The positions in the list of x of its successors.
Succs(gr, D, x) == {j \in DOMAIN gr.out[x] : D[gr.out[x][j]] = D[x] + 1}

\* The divisions are not by zero.
LEMMA SharesNat ==
  ASSUME NEW gr \in Graphs, NEW s \in Nodes, NEW D, NEW P, IsSearch(gr, s, D, P),
         NEW one \in Nat, NEW E \in [Nodes -> Nat], NEW x \in Nodes, D[x] # -1
  PROVE  /\ IsFiniteSet(Succs(gr, D, x)) /\ DOMAIN gr.out[x] = 1 .. out_degree(gr, x)
         /\ \A j \in Succs(gr, D, x) :
              /\ gr.out[x][j] \in Nodes
              /\ Share(gr, P, one, E, x)[j] \in Nat
              /\ Share(gr, P, one, E, x)[j]
                   = (P[x] * (one + E[gr.out[x][j]])) \div P[gr.out[x][j]]
<1>1. IsGraph(gr)
  BY GraphsAssumption
<1>2. gr.out[x] \in Seq(Nodes)
  BY <1>1 DEF IsGraph
<1>3. DOMAIN gr.out[x] = 1 .. out_degree(gr, x) /\ out_degree(gr, x) \in Nat
  BY <1>2 DEF out_degree
<1>4. IsFiniteSet(Succs(gr, D, x))
  <2>1. IsFiniteSet(1 .. out_degree(gr, x))
    BY <1>3, FS_Interval
  <2>2. Succs(gr, D, x) \subseteq 1 .. out_degree(gr, x)
    BY <1>3 DEF Succs
  <2> QED
    BY <2>1, <2>2, FS_Subset
<1>5. ASSUME NEW j \in Succs(gr, D, x)
      PROVE  /\ gr.out[x][j] \in Nodes
             /\ Share(gr, P, one, E, x)[j] \in Nat
             /\ Share(gr, P, one, E, x)[j]
                  = (P[x] * (one + E[gr.out[x][j]])) \div P[gr.out[x][j]]
  <2> DEFINE y == gr.out[x][j]
  <2>1. j \in DOMAIN gr.out[x] /\ D[y] = D[x] + 1
    BY DEF Succs
  <2>2. y \in Nodes
    BY <1>3, <2>1, ListsAre
  <2>3. Share(gr, P, one, E, x)[j] = (P[x] * (one + E[y])) \div P[y]
    BY <2>1 DEF Share
  <2> HIDE DEF y
  <2>4. P \in [Nodes -> Nat] /\ D[x] \in Nat
    BY DEF IsSearch
  <2>5. D[y] # -1
    BY <2>1, <2>4
  <2>6. P[y] \in Nat \ {0}
    BY <2>2, <2>4, <2>5 DEF IsSearch
  <2>7. P[x] * (one + E[y]) \in Nat
    <3>1. P[x] \in Nat /\ one + E[y] \in Nat
      BY <2>2, <2>4
    <3> QED
      BY <3>1
  <2>8. (P[x] * (one + E[y])) \div P[y] \in Nat
    BY <2>6, <2>7, Division
  <2> QED
    BY <2>2, <2>3, <2>8 DEF y
<1> QED
  BY <1>3, <1>4, <1>5

LEMMA NewDependenciesAre ==
  ASSUME NEW gr \in Graphs, NEW s \in Nodes, NEW sr, IsSearch(gr, s, sr.depths, sr.path_counts),
         NEW one \in Nat, NEW k \in Nat, NEW E \in [Nodes -> Nat]
  PROVE  /\ NewDependencies(gr, sr, one, k, E) \in [Nodes -> Nat]
         /\ \A n \in Nodes :
              NewDependencies(gr, sr, one, k, E)[n]
                = IF sr.depths[n] = k
                  THEN Total(Share(gr, sr.path_counts, one, E, n), Succs(gr, sr.depths, n))
                  ELSE E[n]
<1> DEFINE D == sr.depths
           P == sr.path_counts
           successors(x) == {j \in DOMAIN gr.out[x] : D[gr.out[x][j]] = k + 1}
           F(n) == Share(gr, P, one, E, n)
<1>1. NewDependencies(gr, sr, one, k, E)
        = [n \in Nodes |-> IF D[n] = k THEN SumOver(F(n), successors(n)) ELSE E[n]]
  BY DEF NewDependencies
<1>2. ASSUME NEW n \in Nodes, D[n] = k
      PROVE  /\ SumOver(F(n), successors(n)) = Total(F(n), Succs(gr, D, n))
             /\ Total(F(n), Succs(gr, D, n)) \in Nat
  <2>1. successors(n) = Succs(gr, D, n)
    BY <1>2 DEF Succs
  <2>2. IsFiniteSet(Succs(gr, D, n)) /\ \A j \in Succs(gr, D, n) : F(n)[j] \in Nat
    <3>1. D[n] # -1
      BY <1>2
    <3> HIDE DEF D, P
    <3> QED
      BY <3>1, SharesNat DEF D, P
  <2> HIDE DEF F, successors
  <2> QED
    BY <2>1, <2>2, SumOverIs
<1> HIDE DEF F, successors
<1> QED
  BY <1>1, <1>2 DEF F

\* What Dependencies chooses, and the dependencies level by level.
LevelDependencies(gr, sr, one, h) ==
  h = [k \in 0 .. NumNodes |->
        IF k = 0 THEN [n \in Nodes |-> 0]
                 ELSE NewDependencies(gr, sr, one, NumNodes - k, h[k - 1])]

DependencyLevels(gr, sr, one, h) ==
  /\ h \in [0 .. NumNodes -> [Nodes -> Nat]]
  /\ h[0] = [n \in Nodes |-> 0]
  /\ \A k \in 1 .. NumNodes : h[k] = NewDependencies(gr, sr, one, NumNodes - k, h[k - 1])

LEMMA DependencyLevelsExist ==
  ASSUME NEW gr \in Graphs, NEW s \in Nodes, NEW one \in Nat
  PROVE  \E h : /\ DependencyLevels(gr, SerialSearch(gr, s), one, h)
                /\ Dependencies(gr, s, one) = h[NumNodes]
<1> DEFINE V == [Nodes -> Nat]
           sr == SerialSearch(gr, s)
           first == [n \in Nodes |-> 0]
           F == [k \in 1 .. NumNodes |-> [f \in V |-> NewDependencies(gr, sr, one, NumNodes - k, f)]]
           c == CHOOSE h : LevelDependencies(gr, sr, one, h)
<1>1. NumNodes \in Nat /\ first \in V
  BY NumNodesAssumption
<1>2. IsSearch(gr, s, sr.depths, sr.path_counts)
  BY SerialIsSearch
<1>3. Dependencies(gr, s, one) = c[NumNodes]
  BY DEF Dependencies, LevelDependencies
<1> HIDE DEF sr
<1>4. \A k \in 1 .. NumNodes : \A f \in V : NewDependencies(gr, sr, one, NumNodes - k, f) \in V
  <2> SUFFICES ASSUME NEW k \in 1 .. NumNodes, NEW f \in V
               PROVE  NewDependencies(gr, sr, one, NumNodes - k, f) \in V
    OBVIOUS
  <2> DEFINE m == NumNodes - k
  <2>1. m \in Nat
    BY <1>1
  <2> HIDE DEF m
  <2>2. NewDependencies(gr, sr, one, m, f) \in V
    BY <1>2, <2>1, NewDependenciesAre
  <2> QED
    BY <2>2 DEF m
<1> HIDE DEF V
<1>5. PICK f \in [0 .. NumNodes -> V] :
        f[0] = first /\ \A k \in 1 .. NumNodes : f[k] = NewDependencies(gr, sr, one, NumNodes - k, f[k - 1])
  <2>1. F \in [1 .. NumNodes -> [V -> V]]
    BY <1>4
  <2>2. \A h \in [0 .. NumNodes -> V] : \A k \in 1 .. NumNodes :
          F[k][h[k - 1]] = NewDependencies(gr, sr, one, NumNodes - k, h[k - 1])
    BY <1>1
  <2> HIDE DEF F, first
  <2>3. Iterates(NumNodes, V, first, F)
    BY <1>1, <2>1, Recursion
  <2> QED
    BY <2>2, <2>3 DEF Iterates
<1>6. LevelDependencies(gr, sr, one, f)
  <2>1. \A k \in 0 .. NumNodes :
          f[k] = IF k = 0 THEN first ELSE NewDependencies(gr, sr, one, NumNodes - k, f[k - 1])
    BY <1>1, <1>5
  <2> QED
    BY <2>1 DEF LevelDependencies
<1>7. LevelDependencies(gr, sr, one, c)
  BY <1>6
<1> HIDE DEF c
<1> DEFINE G(k) == IF k = 0 THEN first ELSE NewDependencies(gr, sr, one, NumNodes - k, c[k - 1])
<1>8. c = [k \in 0 .. NumNodes |-> G(k)]
  BY <1>7 DEF LevelDependencies
<1> HIDE DEF G
<1>9. DOMAIN c = 0 .. NumNodes /\ c = [k \in 0 .. NumNodes |-> c[k]] /\ \A k \in 0 .. NumNodes : c[k] = G(k)
  BY <1>8
<1> HIDE DEF first
<1>10. c[0] = first /\ \A k \in 1 .. NumNodes : c[k] = NewDependencies(gr, sr, one, NumNodes - k, c[k - 1])
  <2>1. 0 \in 0 .. NumNodes /\ \A k \in 1 .. NumNodes : k \in 0 .. NumNodes /\ k # 0
    BY <1>1
  <2> QED
    BY <1>9, <2>1 DEF G
<1>11. \A k \in 0 .. NumNodes : c[k] \in V
  <2> DEFINE T == {k \in 0 .. NumNodes : c[k] \in V}
  <2>1. 0 \in T
    BY <1>1, <1>10
  <2>2. \A k \in 1 .. NumNodes : k - 1 \in T => k \in T
    BY <1>1, <1>4, <1>10
  <2> HIDE DEF T
  <2>3. \A k \in 0 .. NumNodes : k \in T
    BY <1>1, <2>1, <2>2, Upwards
  <2> QED
    BY <2>3 DEF T
<1>12. c \in [0 .. NumNodes -> V]
  BY <1>9, <1>11
<1>13. DependencyLevels(gr, sr, one, c)
  BY <1>10, <1>12 DEF first, V, DependencyLevels
<1> QED
  BY <1>3, <1>13 DEF sr

AreShared(gr, D, P, one, E) ==
  /\ E \in [Nodes -> Nat]
  /\ \A x \in Nodes :
       E[x] = IF D[x] = -1 THEN 0 ELSE Total(Share(gr, P, one, E, x), Succs(gr, D, x))

(***************************************************************************)
(* The dependency of a vertex is the sum of its shares of those of its     *)
(* successors.                                                             *)
(***************************************************************************)
LEMMA DependenciesAre ==
  ASSUME NEW gr \in Graphs, NEW s \in Nodes, NEW D, NEW P, IsSearch(gr, s, D, P), NEW one \in Nat
  PROVE  AreShared(gr, D, P, one, Dependencies(gr, s, one))
<1> DEFINE sr == SerialSearch(gr, s)
<1>1. PICK h : DependencyLevels(gr, sr, one, h) /\ Dependencies(gr, s, one) = h[NumNodes]
  BY DependencyLevelsExist
<1>2. IsSearch(gr, s, sr.depths, sr.path_counts)
  BY SerialIsSearch
<1>3. D = sr.depths /\ P = sr.path_counts
  BY <1>2, SearchUnique
<1> HIDE DEF sr
<1>4. /\ h \in [0 .. NumNodes -> [Nodes -> Nat]]
      /\ h[0] = [n \in Nodes |-> 0]
      /\ \A k \in 1 .. NumNodes : h[k] = NewDependencies(gr, sr, one, NumNodes - k, h[k - 1])
  BY <1>1 DEF DependencyLevels
<1>5. NumNodes \in Nat /\ NumNodes \in 0 .. NumNodes
  BY NumNodesAssumption
<1>6. \A n \in Nodes : D[n] \in Int /\ (D[n] # -1 => D[n] \in 0 .. (NumNodes - 1))
  BY SearchShallow DEF IsSearch
<1> DEFINE Good(k) == \A x \in Nodes :
             h[k][x] = IF D[x] >= NumNodes - k /\ D[x] # -1
                       THEN Total(Share(gr, P, one, h[k], x), Succs(gr, D, x)) ELSE 0
           T == {k \in 0 .. NumNodes : Good(k)}
<1>7. 0 \in T
  <2>1. \A x \in Nodes : h[0][x] = 0
    BY <1>4
  <2>2. \A x \in Nodes : ~(D[x] >= NumNodes - 0 /\ D[x] # -1)
    BY <1>5, <1>6
  <2> QED
    BY <1>5, <2>1, <2>2
<1>8. ASSUME NEW k \in 1 .. NumNodes, k - 1 \in T PROVE k \in T
  <2> DEFINE m == NumNodes - k
             c == h[k - 1]
  <2>1. m \in Nat /\ k - 1 \in 0 .. NumNodes /\ NumNodes - (k - 1) = m + 1 /\ k \in 0 .. NumNodes
    BY <1>5
  <2>2. c \in [Nodes -> Nat] /\ h[k] \in [Nodes -> Nat]
    BY <1>4, <2>1
  <2>3. \A x \in Nodes :
          c[x] = IF D[x] >= m + 1 /\ D[x] # -1
                 THEN Total(Share(gr, P, one, c, x), Succs(gr, D, x)) ELSE 0
    BY <1>8, <2>1
  <2>4. h[k] = NewDependencies(gr, sr, one, m, c)
    BY <1>4
  <2> HIDE DEF c, m
  <2>5. \A x \in Nodes :
          h[k][x] = IF D[x] = m THEN Total(Share(gr, P, one, c, x), Succs(gr, D, x)) ELSE c[x]
    <3>1. \A x \in Nodes :
            NewDependencies(gr, sr, one, m, c)[x]
              = IF sr.depths[x] = m
                THEN Total(Share(gr, sr.path_counts, one, c, x), Succs(gr, sr.depths, x)) ELSE c[x]
      BY <1>2, <2>1, <2>2, NewDependenciesAre
    <3> QED
      BY <1>3, <2>4, <3>1
  <2>6. ASSUME NEW x \in Nodes, D[x] >= m, D[x] # -1
        PROVE  Total(Share(gr, P, one, c, x), Succs(gr, D, x))
                 = Total(Share(gr, P, one, h[k], x), Succs(gr, D, x))
    <3> DEFINE f == Share(gr, P, one, c, x)
               q == Share(gr, P, one, h[k], x)
               S == Succs(gr, D, x)
    <3>1. ASSUME NEW j \in S PROVE f[j] = q[j]
      <4> DEFINE y == gr.out[x][j]
      <4>1. y \in Nodes /\ f[j] = (P[x] * (one + c[y])) \div P[y]
        BY <2>2, <2>6, SharesNat
      <4>2. q[j] = (P[x] * (one + h[k][y])) \div P[y]
        <5> DEFINE r == h[k]
        <5>1. r \in [Nodes -> Nat]
          BY <2>2
        <5> HIDE DEF r
        <5>2. Share(gr, P, one, r, x)[j] = (P[x] * (one + r[y])) \div P[y]
          BY <2>6, <5>1, SharesNat
        <5> QED
          BY <5>2 DEF r
      <4>3. D[y] = D[x] + 1
        BY <3>1 DEF Succs
      <4> HIDE DEF y, f, q
      <4>4. D[y] # m
        BY <1>6, <2>1, <2>6, <4>1, <4>3
      <4>5. h[k][y] = c[y]
        BY <2>5, <4>1, <4>4
      <4> QED
        BY <4>1, <4>2, <4>5
    <3> HIDE DEF f, q, S
    <3>2. Total(f, S) = Total(q, S)
      BY <3>1, TotalSame
    <3> QED
      BY <3>2 DEF f, q, S
  <2>7. ASSUME NEW x \in Nodes
        PROVE  h[k][x] = IF D[x] >= m /\ D[x] # -1
                         THEN Total(Share(gr, P, one, h[k], x), Succs(gr, D, x)) ELSE 0
    <3>1. CASE D[x] = m
      <4>1. D[x] >= m /\ D[x] # -1
        BY <2>1, <3>1
      <4> QED
        BY <2>5, <2>6, <3>1, <4>1
    <3>2. CASE D[x] # m /\ D[x] >= m /\ D[x] # -1
      <4>1. D[x] >= m + 1
        BY <1>6, <2>1, <3>2
      <4> QED
        BY <2>3, <2>5, <2>6, <3>2, <4>1
    <3>3. CASE D[x] # m /\ ~(D[x] >= m /\ D[x] # -1)
      <4>1. ~(D[x] >= m + 1 /\ D[x] # -1)
        BY <1>6, <2>1, <3>3
      <4> QED
        BY <2>3, <2>5, <3>3, <4>1
    <3> QED
      BY <3>1, <3>2, <3>3
  <2> QED
    BY <2>1, <2>7 DEF m
<1> HIDE DEF T
<1>9. \A k \in 0 .. NumNodes : k \in T
  BY <1>5, <1>7, <1>8, Upwards
<1> DEFINE E == h[NumNodes]
<1>10. Good(NumNodes) /\ E \in [Nodes -> Nat]
  BY <1>4, <1>5, <1>9 DEF T
<1>11. \A x \in Nodes :
         E[x] = IF D[x] = -1 THEN 0 ELSE Total(Share(gr, P, one, E, x), Succs(gr, D, x))
  <2>1. \A x \in Nodes : D[x] # -1 => D[x] >= NumNodes - NumNodes
    BY <1>5, <1>6
  <2> HIDE DEF E
  <2>2. \A x \in Nodes :
             E[x] = IF D[x] >= NumNodes - NumNodes /\ D[x] # -1
                       THEN Total(Share(gr, P, one, E, x), Succs(gr, D, x)) ELSE 0
    BY <1>10 DEF E
  <2> QED
    BY <2>1, <2>2
<1> QED
  BY <1>1, <1>10, <1>11 DEF AreShared

-----------------------------------------------------------------------------
(* The invariant of the accumulation.                                       *)

\* What each source adds to the score of n, and the score after k of them.
Gains(n) == [k \in 1 .. Len(sources) |-> Dependencies(g, sources[k], Unit)[n]]
Scored(n, k) == Total(Gains(n), 1 .. k)

\* The dependency of vertex n from the current source is accumulated.
Settled(n) == \/ depths[n] = -1 \/ depths[n] >= d
              \/ depths[n] = d - 1 /\ ~Waiting(n)

ATypes ==
  /\ scores \in [Nodes -> Nat] /\ deltas \in [Nodes -> Nat]
  /\ part \in {"pick", "bfs", "back", "normalize", "done"}
  /\ Len(sources) \in 0 .. num_iters
  /\ part = "pick" => Len(sources) # num_iters
  /\ part \in {"bfs", "back"} => Len(sources) # 0
  /\ part \in {"normalize", "done"} => Len(sources) = num_iters

\* The positions between starts are those of the levels; level 0 is empty.
Layered(starts, end) ==
  /\ starts \in Seq(Nat)
  /\ \A q \in 1 .. end : depths[shared[q]] # -1
  /\ \A k \in 0 .. (Len(starts) - 2) :
       /\ Positions(starts, k) \subseteq 1 .. end
       /\ \A q \in 1 .. end : depths[shared[q]] = k - 1 <=> q \in Positions(starts, k)

Scores(k) == \A n \in Nodes : scores[n] = Scored(n, k)

Indexed ==
  /\ Scores(Len(sources) - 1)
  /\ Len(depth_index) = depth /\ depth_index \in Seq(Nat)
  /\ Layered(depth_index \o <<out_start, out_end>>, out_end)

Searched ==
  /\ IsSearch(g, source, depths, path_counts)
  /\ source \in Nodes
  /\ Layered(depth_index, Len(shared))
  /\ d \in 0 .. (Len(depth_index) - 2)
  /\ pending \subseteq Positions(depth_index, d)
  /\ \A k, l \in 1 .. Len(shared) : shared[k] = shared[l] => k = l
  /\ \A n \in Nodes : depths[n] # -1 => /\ \E k \in 1 .. Len(shared) : shared[k] = n
                                        /\ depths[n] + 1 \in 0 .. (Len(depth_index) - 2)

Accumulated ==
  \A n \in Nodes :
    IF Settled(n)
    THEN /\ deltas[n] = Dependencies(g, source, Unit)[n]
         /\ scores[n] = Scored(n, Len(sources))
    ELSE scores[n] = Scored(n, Len(sources) - 1)

Greatest ==
  /\ biggest_score \in Nat /\ \A n \in Nodes : scores[n] <= biggest_score
  /\ \E n \in Nodes : scores[n] = biggest_score

AInv ==
  /\ BInv /\ ATypes
  /\ part \in {"pick", "normalize", "done"} => Scores(Len(sources))
  /\ part = "bfs" => Indexed
  /\ part = "back" => Searched /\ Accumulated
  /\ part = "done" => Greatest

LEMMA SameScores ==
  ASSUME UNCHANGED <<g, sources>>
  PROVE  /\ \A n, k : Scored(n, k)' = Scored(n, k)
         /\ source' = source
BY DEF Scored, Gains, source

LEMMA SameAInv == ASSUME AInv, BInv', UNCHANGED vars PROVE AInv'
<1>1. UNCHANGED <<g, sources, depths, path_counts, succ, shared, out_start, out_end, depth_index,
                  depth, deltas, scores, biggest_score, d, part, pending, at, u, i, count>>
  BY DEF vars
<1>2. /\ \A n, k : Scored(n, k)' = Scored(n, k)
      /\ source' = source
  BY <1>1, SameScores
<1>3. ATypes'
  BY <1>1 DEF AInv, ATypes
<1>4. \A k : Scores(k)' <=> Scores(k)
  BY <1>1, <1>2 DEF Scores
<1>5. \A starts, end : Layered(starts, end)' <=> Layered(starts, end)
  BY <1>1 DEF Layered
<1>6. Indexed => Indexed'
  BY <1>1, <1>4, <1>5 DEF Indexed
<1>7. Searched => Searched'
  BY <1>1, <1>2, <1>5 DEF Searched
<1>8. \A n : Settled(n)' <=> Settled(n)
  BY <1>1 DEF Settled, Waiting
<1>9. Accumulated => Accumulated'
  BY <1>1, <1>2, <1>8 DEF Accumulated
<1>10. Greatest => Greatest'
  BY <1>1 DEF Greatest
<1>11. part \in {"pick", "normalize", "done"} => Scores(Len(sources))'
  BY <1>1, <1>4 DEF AInv
<1> QED
  BY <1>1, <1>3, <1>6, <1>7, <1>9, <1>10, <1>11 DEF AInv

LEMMA DependenciesNat ==
  ASSUME NEW gr \in Graphs, NEW s \in Nodes
  PROVE  Dependencies(gr, s, Unit) \in [Nodes -> Nat]
<1>1. AreShared(gr, SerialSearch(gr, s).depths, SerialSearch(gr, s).path_counts, Unit,
                Dependencies(gr, s, Unit))
  BY SerialIsSearch, DependenciesAre, UnitAssumption
<1> QED
  BY <1>1 DEF AreShared

LEMMA ScoredStep ==
  ASSUME g \in Graphs, sources \in Seq(Nodes), NEW n \in Nodes
  PROVE  /\ Scored(n, 0) = 0
         /\ \A k \in 0 .. Len(sources) : Scored(n, k) \in Nat
         /\ \A k \in 1 .. Len(sources) :
              Scored(n, k) = Scored(n, k - 1) + Dependencies(g, sources[k], Unit)[n]
<1> DEFINE f == Gains(n)
           c == Len(sources)
<1>1. c \in Nat /\ \A k \in 1 .. c : sources[k] \in Nodes
  OBVIOUS
<1>2. \A k \in 1 .. c : f[k] = Dependencies(g, sources[k], Unit)[n] /\ f[k] \in Nat
  <2> SUFFICES ASSUME NEW k \in 1 .. c
               PROVE  f[k] = Dependencies(g, sources[k], Unit)[n] /\ f[k] \in Nat
    OBVIOUS
  <2>1. Dependencies(g, sources[k], Unit) \in [Nodes -> Nat]
    BY <1>1, DependenciesNat
  <2> QED
    BY <2>1 DEF Gains
<1> HIDE DEF f, c
<1>3. IsFiniteSet(1 .. c)
  BY <1>1, FS_Interval
<1>4. ASSUME NEW k \in 0 .. c PROVE Total(f, 1 .. k) \in Nat
  <2> DEFINE A == 1 .. k
  <2>1. A \in SUBSET (1 .. c)
    BY <1>1
  <2> HIDE DEF A
  <2>2. \A m \in 1 .. c : f[m] \in Nat
    BY <1>2
  <2>3. Total(f, A) \in Nat
    BY <1>3, <2>1, <2>2, TotalMore
  <2> QED
    BY <2>3 DEF A
<1>5. Total(f, 1 .. 0) = 0
  <2>1. 1 .. 0 = {}
    OBVIOUS
  <2>2. Total(f, {}) = 0
    BY FS_EmptySet DEF Total, Units
  <2> QED
    BY <2>1, <2>2
<1>6. ASSUME NEW k \in 1 .. c PROVE Total(f, 1 .. k) = Total(f, 1 .. (k - 1)) + f[k]
  <2> DEFINE A == 1 .. (k - 1)
  <2>1. A \in SUBSET (1 .. c) /\ A \cup {k} = 1 .. k /\ k \in (1 .. c) \ A
    BY <1>1
  <2> HIDE DEF A
  <2>2. \A m \in 1 .. c : f[m] \in Nat
    BY <1>2
  <2>3. \A m \in (1 .. c) \ A : Total(f, A \cup {m}) = Total(f, A) + f[m]
    BY <1>3, <2>1, <2>2, TotalMore
  <2> QED
    BY <2>1, <2>3 DEF A
<1> QED
  BY <1>2, <1>4, <1>5, <1>6 DEF Scored, f, c

UpTo(S, j) == {k \in S : k <= j}
Accrues(f, S, m) ==
  /\ Total(f, UpTo(S, 0)) = 0 /\ Total(f, UpTo(S, m)) = Total(f, S)
  /\ \A j \in 1 .. m : Total(f, UpTo(S, j))
                         = Total(f, UpTo(S, j - 1)) + (IF j \in S THEN f[j] ELSE 0)

\* A loop that adds up f over the part S of 1 .. m.
LEMMA LoopAdds ==
  ASSUME NEW m \in Nat, NEW S \in SUBSET (1 .. m), NEW f, \A j \in S : f[j] \in Nat
  PROVE  Accrues(f, S, m)
<1>1. \A k \in S : k \in 1 .. m
  OBVIOUS
<1>2. IsFiniteSet(1 .. m)
  BY FS_Interval
<1>3. IsFiniteSet(S)
  BY <1>2, FS_Subset
<1>4. \A j \in Nat : UpTo(S, j) \in SUBSET S
  BY <1>1 DEF UpTo
<1>5. UpTo(S, 0) = {} /\ UpTo(S, m) = S
  <2>1. \A k \in S : ~(k <= 0) /\ k <= m
    BY <1>1
  <2> QED
    BY <2>1 DEF UpTo
<1>6. ASSUME NEW j \in 1 .. m
      PROVE  /\ j \notin UpTo(S, j - 1)
             /\ UpTo(S, j) = IF j \in S THEN UpTo(S, j - 1) \cup {j} ELSE UpTo(S, j - 1)
  <2>1. ~(j <= j - 1) /\ j <= j
    OBVIOUS
  <2>2. \A k \in S : k <= j <=> k <= j - 1 \/ k = j
    BY <1>1
  <2> QED
    BY <2>1, <2>2 DEF UpTo
<1>7. Total(f, {}) = 0
  BY FS_EmptySet DEF Total, Units
<1>8. ASSUME NEW j \in 1 .. m
      PROVE  Total(f, UpTo(S, j)) = Total(f, UpTo(S, j - 1)) + (IF j \in S THEN f[j] ELSE 0)
  <2> DEFINE B == UpTo(S, j - 1)
  <2>1. B \in SUBSET S
    <3>1. j - 1 \in Nat
      OBVIOUS
    <3> QED
      BY <1>4, <3>1
  <2>2. j \notin B /\ UpTo(S, j) = IF j \in S THEN B \cup {j} ELSE B
    BY <1>6
  <2> HIDE DEF B
  <2>3. Total(f, B) \in Nat /\ \A x \in S \ B : Total(f, B \cup {x}) = Total(f, B) + f[x]
    BY <1>3, <2>1, TotalMore
  <2>4. CASE j \in S
    <3>1. Total(f, B \cup {j}) = Total(f, B) + f[j]
      BY <2>2, <2>3, <2>4
    <3>2. UpTo(S, j) = B \cup {j}
      BY <2>2, <2>4
    <3> QED
      BY <2>4, <3>1, <3>2 DEF B
  <2>5. CASE j \notin S
    <3>1. UpTo(S, j) = B
      BY <2>2, <2>5
    <3> QED
      BY <2>3, <2>5, <3>1 DEF B
  <2> QED
    BY <2>4, <2>5
<1> QED
  BY <1>5, <1>7, <1>8 DEF Accrues

\* The loop over the list of x, as a sum over its successor bits.
LEMMA DependencyIs ==
  ASSUME g \in Graphs, NEW x \in Nodes, NEW S, S = {j \in 1 .. out_degree(g, x) : <<x, j>> \in succ},
         NEW f, \A j \in S : f[j] \in Nat /\ f[j] = (path_counts[x] * (Unit + deltas[g.out[x][j]]))
                                                        \div path_counts[g.out[x][j]]
  PROVE  Dependency(x) = Total(f, S)
<1> DEFINE m == out_degree(g, x)
           G(h, j) == IF j = 0 THEN 0
                      ELSE LET y == g.out[x][j]
                           IN  h[j - 1] + (IF <<x, j>> \in succ
                                           THEN (path_counts[x] * (Unit + deltas[y])) \div path_counts[y]
                                           ELSE 0)
           P(h) == h = [j \in 0 .. m |-> G(h, j)]
           w == [j \in 0 .. m |-> Total(f, UpTo(S, j))]
           sum == CHOOSE h : P(h)
<1>1. Dependency(x) = sum[m]
  BY DEF Dependency
<1>2. m \in Nat /\ S \subseteq 1 .. m /\ \A j \in 1 .. m : j \in S <=> <<x, j>> \in succ
  BY ListsAre
<1> HIDE DEF m
<1>3. IsFiniteSet(S)
  <2>1. IsFiniteSet(1 .. m)
    BY <1>2, FS_Interval
  <2> QED
    BY <1>2, <2>1, FS_Subset
<1>4. \A h : \A j \in 1 .. m : G(h, j) = h[j - 1] + (IF j \in S THEN f[j] ELSE 0)
  BY <1>2
<1>5. \A h : G(h, 0) = 0
  OBVIOUS
<1> HIDE DEF G
<1>6. /\ Total(f, UpTo(S, 0)) = 0 /\ Total(f, UpTo(S, m)) = Total(f, S)
      /\ \A j \in 1 .. m : Total(f, UpTo(S, j)) = Total(f, UpTo(S, j - 1)) + (IF j \in S THEN f[j] ELSE 0)
  <2>1. \A j \in S : f[j] \in Nat
    OBVIOUS
  <2>2. S \in SUBSET (1 .. m)
    BY <1>2
  <2>3. Accrues(f, S, m)
    BY <1>2, <2>1, <2>2, LoopAdds
  <2> QED
    BY <2>3 DEF Accrues
<1>7. ASSUME NEW j \in 0 .. m PROVE w[j] = G(w, j)
  <2>1. CASE j = 0
    BY <1>2, <1>5, <1>6, <2>1
  <2>2. CASE j # 0
    <3>1. j \in 1 .. m /\ j - 1 \in 0 .. m
      BY <1>2, <2>2
    <3>2. w[j] = Total(f, UpTo(S, j)) /\ w[j - 1] = Total(f, UpTo(S, j - 1))
      BY <3>1
    <3>3. G(w, j) = w[j - 1] + (IF j \in S THEN f[j] ELSE 0)
      BY <1>4, <3>1
    <3> HIDE DEF w
    <3> QED
      BY <1>6, <3>1, <3>2, <3>3
  <2> QED
    BY <2>1, <2>2
<1>8. w[m] = Total(f, S) /\ w = [j \in 0 .. m |-> w[j]]
  <2>1. w[m] = Total(f, UpTo(S, m))
    BY <1>2
  <2>2. w = [j \in 0 .. m |-> w[j]]
    OBVIOUS
  <2> QED
    BY <1>6, <2>1, <2>2
<1> HIDE DEF w
<1>9. P(w)
  BY <1>7, <1>8
<1> HIDE DEF P
<1>10. P(sum)
  BY <1>9
<1> HIDE DEF sum
<1>11. \A j \in 0 .. m : sum[j] = G(sum, j)
  <2> DEFINE F(j) == G(sum, j)
  <2>1. sum = [j \in 0 .. m |-> F(j)]
    BY <1>10 DEF P
  <2> HIDE DEF F
  <2>2. \A j \in 0 .. m : sum[j] = F(j)
    BY <2>1
  <2> QED
    BY <2>2 DEF F
<1> DEFINE T == {j \in 0 .. m : sum[j] = w[j]}
<1>12. 0 \in T
  BY <1>2, <1>5, <1>7, <1>11
<1>13. \A k \in 1 .. m : k - 1 \in T => k \in T
  <2> SUFFICES ASSUME NEW k \in 1 .. m, sum[k - 1] = w[k - 1] PROVE sum[k] = w[k]
    BY <1>2
  <2>1. sum[k] = G(sum, k) /\ w[k] = G(w, k)
    BY <1>2, <1>7, <1>11
  <2>2. /\ G(sum, k) = sum[k - 1] + (IF k \in S THEN f[k] ELSE 0)
        /\ G(w, k) = w[k - 1] + (IF k \in S THEN f[k] ELSE 0)
    BY <1>4
  <2> QED
    BY <2>1, <2>2
<1> HIDE DEF T
<1>14. \A k \in 0 .. m : k \in T
  BY <1>2, <1>12, <1>13, Upwards
<1>15. sum[m] = w[m]
  BY <1>2, <1>14 DEF T
<1> QED
  BY <1>1, <1>8, <1>15

\* What is known of the levels does not depend on later positions.
LEMMA LayeredSame ==
  ASSUME NEW h, NEW m, Layered(h, m), \A q \in 1 .. m : depths'[shared'[q]] = depths[shared[q]]
  PROVE  Layered(h, m)'
<1>1. \A q \in 1 .. m : depths'[shared'[q]] # -1
  BY DEF Layered
<1>2. ASSUME NEW k \in 0 .. (Len(h) - 2)
      PROVE  /\ Positions(h, k) \subseteq 1 .. m
             /\ \A q \in 1 .. m : depths'[shared'[q]] = k - 1 <=> q \in Positions(h, k)
  BY DEF Layered
<1> QED
  BY <1>1, <1>2 DEF Layered

LEMMA LevelStepFrame ==
  ASSUME AInv, NEW t \in Team, LevelStep(t)
  PROVE  /\ part = "bfs" /\ UNCHANGED <<g, sources, levels, results, part>>
         /\ \A q \in 1 .. out_end : depths'[shared'[q]] = depths[shared[q]]
<1>1. BInv
  BY DEF AInv
<1>2. CASE TakeVertex(t)
  BY <1>2 DEF TakeVertex, bfs
<1>3. CASE Test(t)
  <2>1. part = "bfs"
    BY <1>1, <1>3, Inside DEF Test
  <2> QED
    BY <1>3, <2>1 DEF Test, bfs
<1>4. CASE CAS(t)
  <2>1. part = "bfs" /\ Search /\ v(t) \in Nodes
    BY <1>1, <1>4, Inside DEF CAS
  <2>2. UNCHANGED <<g, sources, levels, results, part>>
    BY <1>4 DEF CAS
  <2>3. CASE depths[v(t)] # -1
    <3>1. UNCHANGED <<depths, shared>>
      BY <1>4, <2>3 DEF CAS
    <3> QED
      BY <2>1, <2>2, <3>1
  <2>4. CASE depths[v(t)] = -1
    <3> DEFINE y == v(t)
    <3>1. depths' = [depths EXCEPT ![y] = depth] /\ shared' = Append(shared, y) /\ depths[y] = -1
      BY <1>4, <2>4 DEF CAS
    <3>2. y \in Nodes
      BY <2>1
    <3> HIDE DEF y
    <3>3. /\ shared \in Seq(Nodes) /\ depths \in [Nodes -> Int] /\ out_end <= Len(shared)
          /\ out_end \in Nat
      BY <1>1, <2>1 DEF BInv, BTypes, Search, Queued
    <3>4. \A q \in 1 .. out_end : depths[shared[q]] # -1
      BY <2>1 DEF AInv, Indexed, Layered
    <3> SUFFICES ASSUME NEW q \in 1 .. out_end PROVE depths'[shared'[q]] = depths[shared[q]]
      BY <2>1, <2>2
    <3>5. shared'[q] = shared[q] /\ shared[q] \in Nodes
      BY <3>1, <3>2, <3>3
    <3>6. shared[q] # y
      BY <3>1, <3>4
    <3> QED
      BY <3>1, <3>3, <3>5, <3>6
  <2> QED
    BY <2>3, <2>4
<1>5. CASE Retest(t)
  <2>1. part = "bfs"
    BY <1>1, <1>5, Inside DEF Retest
  <2> QED
    BY <1>5, <2>1 DEF Retest, bfs
<1>6. CASE SetSucc(t)
  <2>1. part = "bfs"
    BY <1>1, <1>6, Inside DEF SetSucc
  <2> QED
    BY <1>6, <2>1 DEF SetSucc
<1>7. CASE ReadCount(t)
  <2>1. part = "bfs"
    BY <1>1, <1>7, Inside DEF ReadCount
  <2> QED
    BY <1>7, <2>1 DEF ReadCount, bfs
<1>8. CASE Add(t)
  <2>1. part = "bfs"
    BY <1>1, <1>8, Inside DEF Add
  <2> QED
    BY <1>8, <2>1 DEF Add
<1> QED
  BY <1>2, <1>3, <1>4, <1>5, <1>6, <1>7, <1>8 DEF LevelStep

LEMMA LevelStepAdds ==
  ASSUME AInv, BInv', NEW t \in Team, LevelStep(t)
  PROVE  AInv'
<1>1. /\ part = "bfs" /\ part' = part
      /\ UNCHANGED <<g, sources, out_start, out_end, depth_index, depth, deltas, scores>>
      /\ \A q \in 1 .. out_end : depths'[shared'[q]] = depths[shared[q]]
  BY LevelStepFrame DEF levels, results
<1>2. Indexed /\ ATypes
  BY <1>1 DEF AInv
<1>3. ATypes'
  BY <1>1, <1>2 DEF ATypes
<1>4. \A n, k : Scored(n, k)' = Scored(n, k)
  BY <1>1, SameScores
<1>5. Scores(Len(sources) - 1)'
  BY <1>1, <1>2, <1>4 DEF Indexed, Scores
<1>6. PICK h, m : h = depth_index \o <<out_start, out_end>> /\ m = out_end
  OBVIOUS
<1>7. Layered(h, m)
  BY <1>2, <1>6 DEF Indexed
<1>8. Layered(h, m)'
  BY <1>1, <1>6, <1>7, LayeredSame
<1>9. h = depth_index' \o <<out_start', out_end'>> /\ m = out_end'
  BY <1>1, <1>6
<1>10. Layered(depth_index \o <<out_start, out_end>>, out_end)'
  BY <1>8, <1>9 DEF Layered
<1>11. Indexed'
  BY <1>1, <1>2, <1>5, <1>10 DEF Indexed
<1> QED
  BY <1>1, <1>3, <1>11 DEF AInv

LEMMA BeginAdds ==
  ASSUME AInv, BInv', NEW s \in Nodes, Begin(s)
  PROVE  AInv'
<1>1. /\ part = "pick" /\ part' = "bfs" /\ sources' = Append(sources, s)
      /\ depths' = [n \in Nodes |-> IF n = s THEN 0 ELSE -1]
      /\ shared' = <<s>> /\ out_start' = 0 /\ out_end' = 1 /\ depth' = 1 /\ depth_index' = <<0>>
      /\ UNCHANGED <<g, deltas, scores, biggest_score, d>>
  BY DEF Begin, results
<1>2. /\ ATypes /\ sources \in Seq(Nodes) /\ Scores(Len(sources)) /\ g \in Graphs
      /\ num_iters \in Nat
  BY <1>1, ItersAssumption DEF AInv, BInv, BTypes
<1> DEFINE c == Len(sources)
<1>3. /\ c \in Nat /\ Len(sources') = c + 1
      /\ \A k \in 1 .. c : sources'[k] = sources[k]
  BY <1>1, <1>2
<1>4. ATypes'
  <2>1. c + 1 \in 0 .. num_iters /\ c + 1 # 0
    BY <1>1, <1>2, <1>3 DEF ATypes
  <2> QED
    BY <1>1, <1>2, <1>3, <2>1 DEF ATypes
<1>5. ASSUME NEW n \in Nodes PROVE scores'[n] = Scored(n, Len(sources) - 1)'
  <2> DEFINE f == Gains(n)
             h == Gains(n)'
  <2>1. \A k \in 1 .. c : f[k] = h[k]
    BY <1>1, <1>3 DEF Gains
  <2> HIDE DEF f, h
  <2>2. Total(f, 1 .. c) = Total(h, 1 .. c)
    BY <2>1, TotalSame
  <2>3. scores[n] = Total(f, 1 .. c)
    BY <1>2 DEF Scores, Scored, f
  <2>4. Len(sources') - 1 = c
    BY <1>3
  <2> QED
    BY <1>1, <2>2, <2>3, <2>4 DEF Scored, h
<1>6. PICK h : h = depth_index' \o <<out_start', out_end'>>
  OBVIOUS
<1>7. Layered(depth_index \o <<out_start, out_end>>, out_end)'
  <2>1. h \in Seq(Nat) /\ Len(h) = 3 /\ h[1] = 0 /\ h[2] = 0 /\ h[3] = 1
    <3> DEFINE a == <<0>>
               b == <<0, 1>>
    <3>1. a \in Seq(Nat) /\ b \in Seq(Nat) /\ Len(a) = 1 /\ Len(b) = 2 /\ a[1] = 0 /\ b[1] = 0 /\ b[2] = 1
      OBVIOUS
    <3>2. h = a \o b
      BY <1>1, <1>6
    <3> HIDE DEF a, b
    <3>3. /\ Len(a \o b) = Len(a) + Len(b) /\ a \o b \in Seq(Nat)
          /\ \A l \in 1 .. Len(a) + Len(b) : (a \o b)[l] = IF l <= Len(a) THEN a[l] ELSE b[l - Len(a)]
      BY <3>1, ConcatProperties
    <3>4. 1 \in 1 .. 3 /\ 2 \in 1 .. 3 /\ 3 \in 1 .. 3
      OBVIOUS
    <3> QED
      BY <3>1, <3>2, <3>3, <3>4
  <2>2. out_end' = 1
    BY <1>1
  <2>3. \A q \in 1 .. 1 : q = 1 /\ depths'[shared'[q]] = 0
    BY <1>1
  <2>4. Positions(h, 0) = 1 .. 0 /\ Positions(h, 1) = 1 .. 1
    BY <2>1 DEF Positions
  <2>5. ASSUME NEW k \in 0 .. (Len(h) - 2)
        PROVE  /\ Positions(h, k) \subseteq 1 .. 1
               /\ \A q \in 1 .. 1 : depths'[shared'[q]] = k - 1 <=> q \in Positions(h, k)
    <3>1. CASE k = 0
      BY <2>3, <2>4, <3>1
    <3>2. CASE k = 1
      BY <2>3, <2>4, <3>2
    <3> QED
      BY <2>1, <3>1, <3>2
  <2>6. \A q \in 1 .. 1 : depths'[shared'[q]] # -1
    BY <2>3
  <2>7. Layered(h, 1)'
    BY <2>1, <2>5, <2>6 DEF Layered
  <2> QED
    BY <1>6, <2>2, <2>7 DEF Layered
<1>8. Indexed'
  <2>1. Len(<<0>>) = 1 /\ <<0>> \in Seq(Nat)
    OBVIOUS
  <2> QED
    BY <1>1, <1>5, <1>7, <2>1 DEF Indexed, Scores
<1> QED
  BY <1>1, <1>4, <1>8 DEF AInv

LEMMA NextLevelAdds ==
  ASSUME AInv, BInv', EndLevel, out_end < Len(shared)
  PROVE  AInv'
<1>1. /\ part = "bfs" /\ part' = part
      /\ out_start' = out_end /\ out_end' = Len(shared) /\ depth' = depth + 1
      /\ depth_index' = Append(depth_index, out_start)
      /\ UNCHANGED <<g, sources, depths, shared, deltas, scores, biggest_score>>
  BY DEF EndLevel, bfs, AInv, BInv, BTypes, Search, Queued
<1>2. Indexed /\ ATypes /\ Queued /\ shared \in Seq(Nodes)
  BY <1>1 DEF AInv, BInv, BTypes, Search
<1>3. /\ depth \in Nat \ {0} /\ out_start \in Nat /\ out_end \in Nat /\ Len(shared) \in Nat
      /\ depth_index \in Seq(Nat) /\ Len(depth_index) = depth
  BY <1>2 DEF Queued, Indexed
<1>4. ATypes'
  BY <1>1, <1>2 DEF ATypes
<1>5. \A n, k : Scored(n, k)' = Scored(n, k)
  BY <1>1, SameScores
<1>6. Scores(Len(sources) - 1)'
  BY <1>1, <1>2, <1>5 DEF Indexed, Scores
<1>7. PICK h, b : h = depth_index \o b /\ b = <<out_start, out_end>>
  OBVIOUS
<1>8. b \in Seq(Nat) /\ Len(b) = 2 /\ b[1] = out_start /\ b[2] = out_end
  BY <1>3, <1>7
<1>9. /\ h \in Seq(Nat) /\ Len(h) = depth + 2
      /\ \A l \in 1 .. (depth + 2) : h[l] = IF l <= depth THEN depth_index[l] ELSE b[l - depth]
  BY <1>3, <1>7, <1>8, ConcatProperties
<1>10. PICK a, c, r : a = depth_index' /\ c = <<out_start', out_end'>> /\ r = a \o c
  OBVIOUS
<1>11. /\ a \in Seq(Nat) /\ Len(a) = depth + 1 /\ a[depth + 1] = out_start
       /\ \A l \in 1 .. depth : a[l] = depth_index[l]
  BY <1>1, <1>3, <1>10
<1>12. c \in Seq(Nat) /\ Len(c) = 2 /\ c[1] = out_end /\ c[2] = Len(shared)
  BY <1>1, <1>3, <1>10
<1>13. /\ r \in Seq(Nat) /\ Len(r) = depth + 3
       /\ \A l \in 1 .. (depth + 3) : r[l] = IF l <= depth + 1 THEN a[l] ELSE c[l - (depth + 1)]
  <2>1. /\ r \in Seq(Nat) /\ Len(r) = Len(a) + Len(c)
        /\ \A l \in 1 .. (Len(a) + Len(c)) : r[l] = IF l <= Len(a) THEN a[l] ELSE c[l - Len(a)]
    <3>1. a \in Seq(Nat) /\ c \in Seq(Nat) /\ r = a \o c
      BY <1>10, <1>11, <1>12
    <3> QED
      BY <3>1, ConcatProperties
  <2>2. Len(a) + Len(c) = depth + 3
    BY <1>3, <1>11, <1>12
  <2> QED
    BY <1>11, <2>1, <2>2
<1>14. \A l \in 1 .. (depth + 2) : r[l] = h[l]
  <2> SUFFICES ASSUME NEW l \in 1 .. (depth + 2) PROVE r[l] = h[l]
    OBVIOUS
  <2>1. CASE l <= depth
    BY <1>3, <1>9, <1>11, <1>13, <2>1
  <2>2. CASE l = depth + 1
    BY <1>3, <1>8, <1>9, <1>11, <1>13, <2>2
  <2>3. CASE l = depth + 2
    BY <1>3, <1>8, <1>9, <1>12, <1>13, <2>3
  <2> QED
    BY <1>3, <2>1, <2>2, <2>3
<1>15. r[depth + 2] = out_end /\ r[depth + 3] = Len(shared)
  BY <1>3, <1>12, <1>13
<1>16. Layered(h, out_end)
  BY <1>2, <1>7 DEF Indexed
<1>17. \A k \in 1 .. Len(shared) :
         IF k > out_end THEN depths[shared[k]] = depth
         ELSE IF k > out_start THEN depths[shared[k]] = depth - 1
         ELSE depths[shared[k]] \in 0 .. (depth - 2)
  BY <1>2 DEF Queued
<1>18. ASSUME NEW k \in 0 .. (Len(r) - 2)
       PROVE  /\ Positions(r, k) \subseteq 1 .. Len(shared)
              /\ \A q \in 1 .. Len(shared) : depths[shared[q]] = k - 1 <=> q \in Positions(r, k)
  <2>1. CASE k = depth + 1
    <3>1. Positions(r, k) = (out_end + 1) .. Len(shared)
      <4>1. k + 1 = depth + 2 /\ k + 2 = depth + 3
        BY <1>3, <2>1
      <4> QED
        BY <1>15, <4>1 DEF Positions
    <3>2. \A q \in 1 .. Len(shared) : depths[shared[q]] = depth <=> q > out_end
      BY <1>3, <1>17
    <3> QED
      BY <1>3, <2>1, <3>1, <3>2
  <2>2. CASE k # depth + 1
    <3>1. k \in 0 .. depth /\ k \in 0 .. (Len(h) - 2)
      <4>1. Len(r) = depth + 3 /\ Len(h) = depth + 2
        BY <1>9, <1>13
      <4>2. Len(r) - 2 = depth + 1 /\ Len(h) - 2 = depth /\ depth \in Nat
        BY <1>3, <4>1
      <4> QED
        BY <2>2, <4>2
    <3>2. Positions(r, k) = Positions(h, k)
      <4>1. k + 1 \in 1 .. (depth + 2) /\ k + 2 \in 1 .. (depth + 2)
        BY <1>3, <3>1
      <4> QED
        BY <1>14, <4>1 DEF Positions
    <3>3. /\ Positions(h, k) \subseteq 1 .. out_end
          /\ \A q \in 1 .. out_end : depths[shared[q]] = k - 1 <=> q \in Positions(h, k)
      BY <1>16, <3>1 DEF Layered
    <3>4. \A q \in 1 .. Len(shared) : q > out_end => depths[shared[q]] # k - 1
      <4>1. \A q \in 1 .. Len(shared) : q > out_end => depths[shared[q]] = depth
        BY <1>17
      <4>2. depth # k - 1
        BY <1>3, <3>1
      <4> QED
        BY <4>1, <4>2
    <3> QED
      BY <1>3, <3>2, <3>3, <3>4
  <2> QED
    BY <2>1, <2>2
<1>19. \A q \in 1 .. Len(shared) : depths[shared[q]] # -1
  BY <1>3, <1>17
<1>20. PICK m : m = Len(shared)
  OBVIOUS
<1>21. Layered(r, m)'
  BY <1>1, <1>13, <1>18, <1>19, <1>20 DEF Layered
<1>22. r = depth_index' \o <<out_start', out_end'>> /\ m = out_end'
  BY <1>1, <1>10, <1>20
<1>23. Layered(depth_index \o <<out_start, out_end>>, out_end)'
  BY <1>21, <1>22 DEF Layered
<1>24. Indexed'
  BY <1>1, <1>6, <1>10, <1>11, <1>23 DEF Indexed
<1> QED
  BY <1>1, <1>4, <1>24 DEF AInv

LEMMA LastLevelAdds ==
  ASSUME AInv, BInv', EndLevel, out_end = Len(shared)
  PROVE  AInv'
<1>1. ~(out_end < Len(shared))
  <2>1. Len(shared) \in Nat
    BY DEF AInv, BInv, BTypes
  <2> QED
    BY <2>1
<1>2. /\ part = "bfs" /\ part' = "back" /\ pending = {} /\ \A t \in Team : at[t] = "idle"
      /\ depth_index' = depth_index \o <<out_start, out_end>>
      /\ deltas' = [n \in Nodes |-> 0]
      /\ d' = Len(depth_index) /\ pending' = Positions(depth_index', d')
      /\ UNCHANGED <<g, sources, depths, path_counts, shared, scores, biggest_score>>
  BY <1>1 DEF EndLevel, bfs
<1>3. /\ BInv /\ Indexed /\ ATypes /\ Search /\ Queued /\ shared \in Seq(Nodes) /\ g \in Graphs
      /\ depths \in [Nodes -> Int] /\ path_counts \in [Nodes -> Nat] /\ sources \in Seq(Nodes)
  BY <1>2 DEF AInv, BInv, BTypes, Search
<1>4. /\ depth \in Nat \ {0} /\ out_start \in Nat /\ out_end \in Nat /\ source \in Nodes
      /\ depth_index \in Seq(Nat) /\ Len(depth_index) = depth
  BY <1>3 DEF Queued, Indexed
<1>5. \A x \in Nodes : \A j \in 1 .. out_degree(g, x) : Passed(x, j)
  BY <1>2, <1>3, LevelWhole
<1>6. ATypes'
  <2>1. Len(sources) # 0
    BY <1>2, <1>3 DEF ATypes
  <2> QED
    BY <1>2, <1>3, <2>1 DEF ATypes
<1>7. source' = source /\ \A n, k : Scored(n, k)' = Scored(n, k)
  BY <1>2, SameScores
<1>8. \A k \in 1 .. Len(shared) :
         IF k > out_end THEN depths[shared[k]] = depth
         ELSE IF k > out_start THEN depths[shared[k]] = depth - 1
         ELSE depths[shared[k]] \in 0 .. (depth - 2)
  BY <1>3 DEF Queued
<1>9. ASSUME NEW n \in Nodes, depths[n] # -1
      PROVE  depths[n] \in 0 .. (depth - 1) /\ \E k \in 1 .. Len(shared) : shared[k] = n
  <2>1. PICK k \in 1 .. Len(shared) : shared[k] = n
    BY <1>3, <1>9 DEF Queued
  <2>2. IF k > out_end THEN depths[n] = depth
        ELSE IF k > out_start THEN depths[n] = depth - 1
        ELSE depths[n] \in 0 .. (depth - 2)
    BY <1>8, <2>1
  <2>3. ~(k > out_end)
    BY <1>4, <2>1
  <2>4. depths[n] \in 0 .. (depth - 1)
    BY <1>4, <2>2, <2>3
  <2> QED
    BY <2>1, <2>4
<1>10. IsSearch(g, source, depths, path_counts)
  <2>1. ASSUME NEW n \in Nodes, depths[n] # -1
        PROVE  /\ depths[n] \in Nat
               /\ path_counts[n] = Ways(g, source)[depths[n]][n] /\ Ways(g, source)[depths[n]][n] > 0
    <3>1. depths[n] \in 0 .. (depth - 1)
      BY <1>9, <2>1
    <3>2. path_counts[n] = W[depths[n]][n]
      BY <1>3, <3>1 DEF Search, Counts
    <3>3. W[depths[n]][n] > 0
      BY <1>3, <2>1 DEF Search, Reached
    <3> QED
      BY <3>1, <3>2, <3>3 DEF W
  <2>2. depths[source] = 0
    <3>1. W[0] = [y \in Nodes |-> IF y = source THEN 1 ELSE 0]
      BY <1>3, <1>4, WaysAre DEF W
    <3>2. W[0][source] > 0 /\ 0 \in 0 .. (depth - 1)
      BY <1>4, <3>1
    <3>3. depths[source] \in 0 .. 0
      BY <1>3, <1>4, <3>2 DEF Search, Reached
    <3> QED
      BY <3>3
  <2>3. ASSUME NEW x \in Nodes, NEW y \in Nodes, HasOutEdge(g, x, y), depths[x] # -1
        PROVE  depths[y] \in 0 .. (depths[x] + 1)
    <3>1. PICK j \in 1 .. out_degree(g, x) : g.out[x][j] = y
      BY <2>3 DEF HasOutEdge
    <3>2. depths[x] \in 0 .. (depth - 1)
      BY <1>9, <2>3
    <3>3. depths[x] \in 0 .. (depth - 2) \/ (depths[x] = depth - 1 /\ Passed(x, j))
      BY <1>4, <1>5, <3>2
    <3> QED
      BY <1>3, <3>1, <3>3 DEF Search, Edges
  <2>4. \A n \in Nodes : depths[n] = -1 => path_counts[n] = 0
    BY <1>3 DEF Search, Counts
  <2> QED
    BY <1>3, <2>1, <2>2, <2>3, <2>4 DEF IsSearch
<1>11. PICK h, b : h = depth_index \o b /\ b = <<out_start, out_end>>
  OBVIOUS
<1>12. b \in Seq(Nat) /\ Len(b) = 2 /\ b[1] = out_start /\ b[2] = out_end
  BY <1>4, <1>11
<1>13. /\ h \in Seq(Nat) /\ Len(h) = depth + 2
       /\ \A l \in 1 .. (depth + 2) : h[l] = IF l <= depth THEN depth_index[l] ELSE b[l - depth]
  BY <1>4, <1>11, <1>12, ConcatProperties
<1>14. Layered(h, Len(shared))
  BY <1>3, <1>11 DEF Indexed
<1>15. h = depth_index' /\ d' = depth /\ depth = Len(h) - 2
  BY <1>2, <1>4, <1>11, <1>13
<1>16. Layered(depth_index, Len(shared))'
  BY <1>2, <1>14, <1>15 DEF Layered
<1>17. Searched'
  <2>1. \A n \in Nodes : depths[n] # -1 => depths[n] + 1 \in 0 .. depth
    BY <1>4, <1>9
  <2>2. \A k, l \in 1 .. Len(shared) : shared[k] = shared[l] => k = l
    BY <1>3 DEF Queued
  <2>3. d' \in 0 .. (Len(depth_index') - 2)
    BY <1>4, <1>15
  <2>4. IsSearch(g', source', depths', path_counts')
    BY <1>2, <1>7, <1>10
  <2>5. \A n \in Nodes : depths'[n] # -1 => /\ \E k \in 1 .. Len(shared') : shared'[k] = n
                                           /\ depths'[n] + 1 \in 0 .. (Len(depth_index') - 2)
    BY <1>2, <1>9, <1>15, <2>1
  <2> QED
    BY <1>2, <1>4, <1>7, <1>16, <2>2, <2>3, <2>4, <2>5 DEF Searched
<1>18. Accumulated'
  <2> SUFFICES ASSUME NEW n \in Nodes
               PROVE  IF Settled(n)'
                      THEN /\ deltas'[n] = Dependencies(g', source', Unit)[n]
                           /\ scores'[n] = Scored(n, Len(sources))'
                      ELSE scores'[n] = Scored(n, Len(sources) - 1)'
    BY DEF Accumulated
  <2>1. scores[n] = Scored(n, Len(sources) - 1)
    BY <1>3 DEF Indexed, Scores
  <2>2. CASE depths[n] = -1
    <3>1. Dependencies(g, source, Unit)[n] = 0
      <4>1. AreShared(g, depths, path_counts, Unit, Dependencies(g, source, Unit))
        BY <1>3, <1>4, <1>10, UnitAssumption, DependenciesAre
      <4> QED
        BY <2>2, <4>1 DEF AreShared
    <3>2. Len(sources) \in 1 .. Len(sources)
      BY <1>2, <1>3 DEF ATypes
    <3>3. /\ Scored(n, Len(sources)) = Scored(n, Len(sources) - 1) + Dependencies(g, source, Unit)[n]
          /\ Scored(n, Len(sources)) \in Nat /\ Scored(n, Len(sources) - 1) \in Nat
      <4>1. /\ \A k \in 0 .. Len(sources) : Scored(n, k) \in Nat
            /\ \A k \in 1 .. Len(sources) :
                 Scored(n, k) = Scored(n, k - 1) + Dependencies(g, sources[k], Unit)[n]
        BY <1>3, ScoredStep
      <4>2. Len(sources) \in 0 .. Len(sources) /\ Len(sources) - 1 \in 0 .. Len(sources)
        BY <3>2
      <4> QED
        BY <3>2, <4>1, <4>2 DEF source
    <3>4. Scored(n, Len(sources)) = Scored(n, Len(sources) - 1)
      BY <3>1, <3>3
    <3> QED
      BY <1>2, <1>7, <2>1, <3>1, <3>4
  <2>3. CASE depths[n] # -1
    <3>1. PICK k \in 1 .. Len(shared) : shared[k] = n
      BY <1>9, <2>3
    <3>2. ~Settled(n)'
      <4> SUFFICES ASSUME Settled(n)' PROVE FALSE
        OBVIOUS
      <4>1. depths[n] \in 0 .. (depth - 1)
        BY <1>9, <2>3
      <4>2. depths[n] = depth - 1 /\ ~Waiting(n)'
        <5>1. depths'[n] = -1 \/ depths'[n] >= d' \/ (depths'[n] = d' - 1 /\ ~Waiting(n)')
          BY DEF Settled
        <5>2. depths'[n] = depths[n] /\ d' = depth
          BY <1>2, <1>15
        <5> QED
          BY <1>4, <4>1, <5>1, <5>2
      <4>3. depth \in 0 .. (Len(h) - 2)
        BY <1>4, <1>15
      <4>4. k \in Positions(h, depth)
        BY <1>14, <3>1, <4>2, <4>3 DEF Layered
      <4>5. k \in pending' /\ shared'[k] = n
        BY <1>2, <1>15, <3>1, <4>4
      <4> QED
        BY <4>2, <4>5 DEF Waiting
    <3> QED
      BY <1>2, <1>7, <2>1, <3>2
  <2> QED
    BY <2>2, <2>3
<1> QED
  BY <1>2, <1>6, <1>17, <1>18 DEF AInv

LEMMA AccumulateAdds ==
  ASSUME AInv, BInv', Accumulate
  PROVE  AInv'
<1>1. part = "back" /\ UNCHANGED <<g, sources, depths, path_counts, succ, shared, depth_index, depth,
                                   out_start, out_end, biggest_score, d, part>>
  BY DEF Accumulate, bfs, levels
<1>2. PICK k \in pending :
        /\ pending' = pending \ {k}
        /\ deltas' = [deltas EXCEPT ![shared[k]] = Dependency(shared[k])]
        /\ scores' = [scores EXCEPT ![shared[k]] = @ + Dependency(shared[k])]
  BY DEF Accumulate
<1>3. /\ Searched /\ Accumulated /\ ATypes /\ Successors /\ shared \in Seq(Nodes) /\ g \in Graphs
      /\ depths \in [Nodes -> Int] /\ path_counts \in [Nodes -> Nat] /\ sources \in Seq(Nodes)
  BY <1>1 DEF AInv, BInv, BTypes
<1>4. source' = source /\ \A n, l : Scored(n, l)' = Scored(n, l)
  BY <1>1, SameScores
<1>5. PICK x : x = shared[k]
  OBVIOUS
<1>6. k \in 1 .. Len(shared) /\ x \in Nodes /\ depths[x] = d - 1 /\ depths[x] # -1 /\ d \in Nat
  <2>1. d \in 0 .. (Len(depth_index) - 2) /\ k \in Positions(depth_index, d)
    BY <1>3 DEF Searched
  <2>2. /\ k \in 1 .. Len(shared) /\ depths[shared[k]] # -1
        /\ depths[shared[k]] = d - 1
    BY <1>3, <2>1 DEF Searched, Layered
  <2> QED
    BY <1>5, <1>3, <2>1, <2>2
<1>7. \A q \in 1 .. Len(shared) : shared[q] = x => q = k
  BY <1>5, <1>3, <1>6 DEF Searched
<1>8. pending \subseteq 1 .. Len(shared)
  BY <1>3 DEF Searched, Layered
<1>9. Waiting(x) /\ ~Waiting(x)' /\ \A n \in Nodes \ {x} : Waiting(n)' <=> Waiting(n)
  BY <1>5, <1>1, <1>2, <1>7, <1>8 DEF Waiting
<1>10. ~Settled(x)
  BY <1>6, <1>9 DEF Settled
<1>11. Settled(x)' /\ \A n \in Nodes \ {x} : Settled(n)' <=> Settled(n)
  <2>1. Settled(x)'
    BY <1>1, <1>6, <1>9 DEF Settled
  <2>2. ASSUME NEW n \in Nodes \ {x} PROVE Settled(n)' <=> Settled(n)
    <3>1. Waiting(n)' <=> Waiting(n)
      BY <1>9
    <3> QED
      BY <1>1, <3>1 DEF Settled
  <2> QED
    BY <2>1, <2>2
<1> DEFINE E == Dependencies(g, source, Unit)
           S == Succs(g, depths, x)
           f == Share(g, path_counts, Unit, E, x)
<1>12. IsSearch(g, source, depths, path_counts) /\ source \in Nodes /\ Unit \in Nat
  BY <1>3, UnitAssumption DEF Searched
<1>13. E \in [Nodes -> Nat] /\ E[x] = Total(f, S)
  <2>1. AreShared(g, depths, path_counts, Unit, E)
    BY <1>3, <1>12, DependenciesAre
  <2> QED
    BY <1>6, <2>1 DEF AreShared
<1> HIDE DEF E
<1>14. /\ DOMAIN g.out[x] = 1 .. out_degree(g, x)
       /\ \A j \in S : /\ g.out[x][j] \in Nodes /\ f[j] \in Nat
                       /\ f[j] = (path_counts[x] * (Unit + E[g.out[x][j]])) \div path_counts[g.out[x][j]]
  <2>1. PICK gr, s, D, P, one, F : /\ gr = g /\ s = source /\ D = depths /\ P = path_counts
                                   /\ one = Unit /\ F = E
    OBVIOUS
  <2>2. /\ gr \in Graphs /\ s \in Nodes /\ IsSearch(gr, s, D, P) /\ one \in Nat /\ F \in [Nodes -> Nat]
        /\ D[x] # -1
    BY <1>3, <1>6, <1>12, <1>13, <2>1
  <2>3. DOMAIN gr.out[x] = 1 .. out_degree(gr, x)
    BY <1>6, <2>2, SharesNat
  <2>4. \A j \in Succs(gr, D, x) :
              /\ gr.out[x][j] \in Nodes
              /\ Share(gr, P, one, F, x)[j] \in Nat
              /\ Share(gr, P, one, F, x)[j] = (P[x] * (one + F[gr.out[x][j]])) \div P[gr.out[x][j]]
    BY <1>6, <2>2, SharesNat
  <2> QED
    BY <2>1, <2>3, <2>4
<1> HIDE DEF f
<1>15. ASSUME NEW j \in S PROVE deltas[g.out[x][j]] = E[g.out[x][j]]
  <2> DEFINE y == g.out[x][j]
  <2>1. y \in Nodes
    BY <1>14
  <2>2. depths[y] = depths[x] + 1
    BY DEF Succs
  <2>3. Settled(y)
    <3> HIDE DEF y
    <3> QED
      BY <1>6, <2>2 DEF Settled
  <2> QED
    BY <1>3, <2>1, <2>3 DEF Accumulated, E
<1>16. S = {j \in 1 .. out_degree(g, x) : <<x, j>> \in succ}
  <2>1. out_degree(g, x) \in Nat /\ out_degree(g, x) <= num_edges_directed(g) /\ num_edges_directed(g) \in Nat
    BY <1>3, <1>6, ListsAre, DegreeBound
  <2> SUFFICES ASSUME NEW j \in 1 .. out_degree(g, x) PROVE j \in S <=> <<x, j>> \in succ
    BY <1>14 DEF Succs
  <2>2. j \in 1 .. num_edges_directed(g) /\ j <= out_degree(g, x)
    BY <2>1
  <2>3. <<x, j>> \in succ <=> OnShortestPath(x, j)
    BY <1>3, <1>6, <2>2 DEF Successors
  <2>4. j \in S <=> depths[g.out[x][j]] = depths[x] + 1
    BY <1>14 DEF Succs
  <2> QED
    BY <1>6, <2>2, <2>3, <2>4 DEF OnShortestPath
<1> HIDE DEF S
<1>17. Dependency(x) = Total(f, S)
  <2>1. \A j \in S : /\ f[j] \in Nat
                     /\ f[j] = (path_counts[x] * (Unit + deltas[g.out[x][j]])) \div path_counts[g.out[x][j]]
    BY <1>14, <1>15
  <2> QED
    BY <1>3, <1>6, <1>16, <2>1, DependencyIs
<1>18. Dependency(x) = E[x] /\ E[x] \in Nat
  BY <1>6, <1>13, <1>17
<1>19. /\ scores \in [Nodes -> Nat] /\ deltas \in [Nodes -> Nat]
       /\ deltas'[x] = E[x] /\ scores'[x] = scores[x] + E[x]
       /\ \A n \in Nodes \ {x} : deltas'[n] = deltas[n] /\ scores'[n] = scores[n]
  BY <1>5, <1>2, <1>3, <1>6, <1>18 DEF ATypes
<1>20. ATypes'
  <2>1. scores' \in [Nodes -> Nat] /\ deltas' \in [Nodes -> Nat]
    BY <1>5, <1>2, <1>6, <1>18, <1>19
  <2> QED
    BY <1>1, <1>3, <2>1 DEF ATypes
<1>21. Searched'
  <2>1. Layered(depth_index, Len(shared))'
    BY <1>1, <1>3 DEF Searched, Layered
  <2> QED
    BY <1>1, <1>2, <1>3, <1>4, <2>1 DEF Searched
<1>22. Accumulated'
  <2> SUFFICES ASSUME NEW n \in Nodes
               PROVE  IF Settled(n)'
                      THEN /\ deltas'[n] = E[n]
                           /\ scores'[n] = Scored(n, Len(sources))
                      ELSE scores'[n] = Scored(n, Len(sources) - 1)
    BY <1>1, <1>4 DEF Accumulated, E
  <2>1. CASE n = x
    <3>1. scores[x] = Scored(x, Len(sources) - 1)
      BY <1>3, <1>6, <1>10 DEF Accumulated
    <3>2. Len(sources) \in 1 .. Len(sources)
      BY <1>1, <1>3 DEF ATypes
    <3>3. Scored(x, Len(sources)) = Scored(x, Len(sources) - 1) + E[x]
      BY <1>3, <1>6, <3>2, ScoredStep DEF source, E
    <3> QED
      BY <1>11, <1>19, <2>1, <3>1, <3>3
  <2>2. CASE n # x
    BY <1>3, <1>11, <1>19, <2>2 DEF Accumulated, E
  <2> QED
    BY <2>1, <2>2
<1> QED
  BY <1>1, <1>20, <1>21, <1>22 DEF AInv

LEMMA NextDepthAdds ==
  ASSUME AInv, BInv', NextDepth
  PROVE  AInv'
<1>1. part = "back" /\ pending = {}
      /\ UNCHANGED <<g, sources, depths, path_counts, shared, depth_index, deltas, scores, biggest_score>>
  BY DEF NextDepth, bfs, levels
<1>2. /\ Searched /\ Accumulated /\ ATypes /\ shared \in Seq(Nodes) /\ depths \in [Nodes -> Int]
      /\ d \in Nat /\ num_iters \in Nat
  BY <1>1, ItersAssumption DEF AInv, BInv, BTypes, Searched
<1>3. source' = source /\ \A n, l : Scored(n, l)' = Scored(n, l)
  BY <1>1, SameScores
<1>4. \A n \in Nodes : ~Waiting(n)
  BY <1>1 DEF Waiting
<1>5. CASE d > 0
  <2>1. d' = d - 1 /\ pending' = Positions(depth_index, d - 1) /\ part' = part
    BY <1>2, <1>5 DEF NextDepth
  <2>2. ATypes'
    BY <1>1, <1>2, <2>1 DEF ATypes
  <2>3. Searched'
    <3>1. Layered(depth_index, Len(shared))'
      BY <1>1, <1>2 DEF Searched, Layered
    <3>2. d' \in 0 .. (Len(depth_index) - 2)
      BY <1>2, <1>5, <2>1 DEF Searched
    <3> QED
      BY <1>1, <1>2, <1>3, <2>1, <3>1, <3>2 DEF Searched
  <2>4. ASSUME NEW n \in Nodes PROVE Settled(n)' <=> Settled(n)
    <3>1. depths[n] \in Int /\ (depths[n] # -1 => depths[n] \in Nat)
      BY <1>2 DEF Searched, IsSearch
    <3>2. Settled(n) <=> depths[n] = -1 \/ depths[n] >= d - 1
      BY <1>2, <1>4, <3>1 DEF Settled
    <3>3. Settled(n)' <=> depths[n] = -1 \/ depths[n] >= d - 1 \/ (depths[n] = d - 2 /\ ~Waiting(n)')
      <4>1. d' - 1 = d - 2
        BY <1>2, <2>1
      <4> QED
        BY <1>1, <2>1, <4>1 DEF Settled
    <3>4. depths[n] # -1 /\ depths[n] = d - 2 => Waiting(n)'
      <4> SUFFICES ASSUME depths[n] # -1, depths[n] = d - 2 PROVE Waiting(n)'
        OBVIOUS
      <4>1. PICK q \in 1 .. Len(shared) : shared[q] = n
        BY <1>2 DEF Searched
      <4>2. d - 1 \in 0 .. (Len(depth_index) - 2) /\ depths[n] = (d - 1) - 1
        BY <1>2, <1>5 DEF Searched
      <4>3. q \in Positions(depth_index, d - 1)
        BY <1>2, <4>1, <4>2 DEF Searched, Layered
      <4> QED
        BY <1>1, <2>1, <4>1, <4>3 DEF Waiting
    <3> QED
      BY <3>2, <3>3, <3>4
  <2>5. Accumulated'
    BY <1>1, <1>2, <1>3, <2>4 DEF Accumulated
  <2> QED
    BY <1>1, <2>1, <2>2, <2>3, <2>5 DEF AInv
<1>6. CASE d = 0
  <2>1. part' = IF Len(sources) < num_iters THEN "pick" ELSE "normalize"
    BY <1>6 DEF NextDepth
  <2>2. \A n \in Nodes : Settled(n)
    <3>1. \A n \in Nodes : depths[n] # -1 => depths[n] \in Nat
      BY <1>2 DEF Searched, IsSearch
    <3> QED
      BY <1>6, <3>1 DEF Settled
  <2>3. Scores(Len(sources))'
    BY <1>1, <1>2, <1>3, <2>2 DEF Accumulated, Scores
  <2>4. Len(sources) \in 0 .. num_iters
    BY <1>2 DEF ATypes
  <2>5. ATypes'
    BY <1>1, <1>2, <2>1, <2>4 DEF ATypes
  <2> QED
    BY <1>1, <2>1, <2>3, <2>5 DEF AInv
<1> QED
  BY <1>2, <1>5, <1>6

LEMMA NormalizeAdds ==
  ASSUME AInv, BInv', Normalize
  PROVE  AInv'
<1>1. part = "normalize" /\ part' = "done" /\ UNCHANGED <<g, sources, deltas, scores>>
  BY DEF Normalize
<1>2. ATypes /\ Scores(Len(sources))
  BY <1>1 DEF AInv
<1>3. \A n, l : Scored(n, l)' = Scored(n, l)
  BY <1>1, SameScores
<1>4. ATypes'
  BY <1>1, <1>2 DEF ATypes
<1>5. Scores(Len(sources))'
  BY <1>1, <1>2, <1>3 DEF Scores
<1>6. Greatest'
  <2>1. PICK n \in Nodes : (\A m \in Nodes : scores[m] <= scores[n]) /\ biggest_score' = scores[n]
    BY DEF Normalize
  <2> QED
    BY <1>1, <1>2, <2>1 DEF ATypes, Greatest
<1> QED
  BY <1>1, <1>4, <1>5, <1>6 DEF AInv

LEMMA ScoredNone == \A n : Scored(n, 0) = 0
<1>1. 1 .. 0 = {}
  OBVIOUS
<1> QED
  BY <1>1, FS_EmptySet DEF Scored, Total, Units

LEMMA AInvInit == BenchmarkInit => AInv
<1> SUFFICES ASSUME BenchmarkInit PROVE AInv
  OBVIOUS
<1>1. /\ sources = <<>> /\ part = "pick" /\ scores = [n \in Nodes |-> 0] /\ deltas = [n \in Nodes |-> 0]
  BY DEF BenchmarkInit, BrandesInit
<1>2. BInv
  BY BInvInit
<1>3. Len(sources) = 0 /\ num_iters \in Nat \ {0}
  BY <1>1, ItersAssumption
<1>4. ATypes
  BY <1>1, <1>3 DEF ATypes
<1>5. Scores(Len(sources))
  BY <1>1, <1>3, ScoredNone DEF Scores
<1> QED
  BY <1>1, <1>2, <1>4, <1>5 DEF AInv

LEMMA NewTrialAdds ==
  ASSUME AInv, BInv', part' = "pick", sources' = <<>>, scores' = [n \in Nodes |-> 0],
         deltas' = deltas
  PROVE  AInv'
<1>1. Len(sources') = 0 /\ num_iters \in Nat \ {0}
  BY ItersAssumption
<1>2. ATypes'
  BY <1>1 DEF AInv, ATypes
<1>3. \A n : Scored(n, 0)' = 0
  <2>1. 1 .. 0 = {}
    OBVIOUS
  <2> QED
    BY <2>1, FS_EmptySet DEF Scored, Total, Units
<1>4. Scores(Len(sources))'
  BY <1>1, <1>3 DEF Scores
<1> QED
  BY <1>2, <1>4 DEF AInv

LEMMA AInvNext == AInv /\ [BenchmarkNext]_benchmarkVars => AInv'
<1> SUFFICES ASSUME AInv, [BenchmarkNext]_benchmarkVars PROVE AInv'
  OBVIOUS
<1>1. BInv'
  BY BInvNext DEF AInv
<1>2. CASE UNCHANGED vars
  BY <1>1, <1>2, SameAInv
<1>3. CASE BeginSource
  <2>1. PICK x \in Nodes : Begin(x)
    BY <1>3 DEF BeginSource
  <2> QED
    BY <1>1, <2>1, BeginAdds
<1>4. CASE Kernel
  <2>1. CASE \E t \in Team : LevelStep(t)
    BY <1>1, <2>1, LevelStepAdds
  <2>2. CASE EndLevel
    BY <1>1, <2>2, NextLevelAdds, LastLevelAdds DEF EndLevel
  <2>3. CASE Accumulate
    BY <1>1, <2>3, AccumulateAdds
  <2>4. CASE NextDepth
    BY <1>1, <2>4, NextDepthAdds
  <2>5. CASE Normalize
    BY <1>1, <2>5, NormalizeAdds
  <2> QED
    BY <1>4, <2>1, <2>2, <2>3, <2>4, <2>5 DEF Kernel, PBFS
<1>5. CASE EndTrial
  <2>1. CASE trial < cli.num_trials
    BY <1>1, <1>5, <2>1, NewTrialAdds DEF EndTrial
  <2>2. CASE ~(trial < cli.num_trials)
    <3>1. UNCHANGED vars
      BY <1>5, <2>2 DEF EndTrial, vars, bfs, levels, threadVars
    <3> QED
      BY <1>2, <3>1
  <2> QED
    BY <2>1, <2>2
<1> QED
  BY <1>2, <1>3, <1>4, <1>5 DEF BenchmarkNext, PickAgain, Return, PrintTopScores, VerifierPicks,
                                Verify, benchmarkVars

-----------------------------------------------------------------------------
(* The pickers.                                                             *)

(***************************************************************************)
(* The draws that the verifier's engine has before it are those from which *)
(* the kernel picked the sources beyond the first a: after the first k of  *)
(* them h[k] sources were picked.                                          *)
(***************************************************************************)
Leads(h, draws, gr, a, picked) ==
  /\ h \in [0 .. Len(draws) -> Nat]
  /\ h[0] = a /\ h[Len(draws)] = Len(picked)
  /\ \A k, l \in 0 .. Len(draws) : k <= l => h[k] <= h[l]
  /\ \A k \in 1 .. Len(draws) :
       IF out_degree(gr, draws[k]) = 0 THEN h[k] = h[k - 1]
       ELSE h[k] = h[k - 1] + 1 /\ picked[h[k]] = draws[k]

Follows(draws, gr, a, picked) == \E h : Leads(h, draws, gr, a, picked)

LEMMA DrawMore ==
  ASSUME NEW gr, NEW draws \in Seq(Nodes), NEW a \in Nat, NEW picked \in Seq(Nodes),
         Follows(draws, gr, a, picked), NEW x \in Nodes
  PROVE  Follows(Append(draws, x), gr, a, IF out_degree(gr, x) = 0 THEN picked ELSE Append(picked, x))
<1>1. PICK h : Leads(h, draws, gr, a, picked)
  BY DEF Follows
<1> DEFINE n == Len(draws)
           m == Append(draws, x)
           c == IF out_degree(gr, x) = 0 THEN picked ELSE Append(picked, x)
           f == [k \in 0 .. (n + 1) |-> IF k = n + 1 THEN Len(c) ELSE h[k]]
<1>2. /\ n \in Nat /\ Len(m) = n + 1 /\ m[n + 1] = x
      /\ \A k \in 1 .. n : m[k] = draws[k]
  OBVIOUS
<1>3. /\ h \in [0 .. n -> Nat] /\ h[0] = a /\ h[n] = Len(picked) /\ Len(picked) \in Nat
      /\ \A k, l \in 0 .. n : k <= l => h[k] <= h[l]
      /\ \A k \in 1 .. n : IF out_degree(gr, draws[k]) = 0 THEN h[k] = h[k - 1]
                           ELSE h[k] = h[k - 1] + 1 /\ picked[h[k]] = draws[k]
  BY <1>1 DEF Leads
<1>4. /\ Len(c) = IF out_degree(gr, x) = 0 THEN Len(picked) ELSE Len(picked) + 1
      /\ \A k \in 1 .. Len(picked) : c[k] = picked[k]
      /\ out_degree(gr, x) # 0 => c[Len(picked) + 1] = x
  OBVIOUS
<1> HIDE DEF n, m, c
<1>5. /\ f \in [0 .. (n + 1) -> Nat] /\ f[n + 1] = Len(c)
      /\ \A k \in 0 .. n : f[k] = h[k]
  <2>1. Len(c) \in Nat
    BY <1>3, <1>4
  <2> QED
    BY <1>2, <1>3, <2>1
<1> HIDE DEF f
<1>6. ASSUME NEW k \in 0 .. (n + 1), NEW l \in 0 .. (n + 1), k <= l PROVE f[k] <= f[l]
  <2>1. \A j \in 0 .. n : f[j] <= Len(c)
    <3> SUFFICES ASSUME NEW j \in 0 .. n PROVE f[j] <= Len(c)
      OBVIOUS
    <3>1. j <= n /\ n \in 0 .. n
      BY <1>2
    <3>2. f[j] = h[j] /\ h[j] <= h[n] /\ h[j] \in Nat
      BY <1>3, <1>5, <3>1
    <3> QED
      BY <1>3, <1>4, <3>2
  <2>2. CASE l = n + 1
    <3>1. f[l] = Len(c) /\ Len(c) \in Nat
      BY <1>3, <1>4, <1>5, <2>2
    <3>2. k = n + 1 \/ k \in 0 .. n
      BY <1>2
    <3> QED
      BY <1>5, <2>1, <3>1, <3>2
  <2>3. CASE l # n + 1
    <3>1. k \in 0 .. n /\ l \in 0 .. n
      BY <1>2, <1>6, <2>3
    <3> QED
      BY <1>3, <1>5, <1>6, <3>1
  <2> QED
    BY <2>2, <2>3
<1>7. ASSUME NEW k \in 1 .. (n + 1)
      PROVE  IF out_degree(gr, m[k]) = 0 THEN f[k] = f[k - 1]
             ELSE f[k] = f[k - 1] + 1 /\ c[f[k]] = m[k]
  <2>1. CASE k = n + 1
    <3>1. k - 1 = n /\ n \in 0 .. n
      BY <1>2, <2>1
    <3>2. f[k - 1] = Len(picked) /\ f[k] = Len(c) /\ m[k] = x
      BY <1>2, <1>3, <1>5, <2>1, <3>1
    <3> QED
      BY <1>4, <3>2
  <2>2. CASE k # n + 1
    <3>1. k \in 1 .. n /\ k - 1 \in 0 .. n /\ k \in 0 .. n /\ n \in 0 .. n /\ k <= n /\ 0 <= k - 1
      BY <1>2, <2>2
    <3>2. f[k] = h[k] /\ f[k - 1] = h[k - 1] /\ m[k] = draws[k] /\ h[k] \in Nat /\ h[k - 1] \in Nat
      BY <1>2, <1>3, <1>5, <3>1
    <3>3. h[k] <= Len(picked)
      BY <1>3, <3>1
    <3>4. IF out_degree(gr, draws[k]) = 0 THEN h[k] = h[k - 1]
                           ELSE h[k] = h[k - 1] + 1 /\ picked[h[k]] = draws[k]
      BY <1>3, <3>1
    <3>5. CASE out_degree(gr, draws[k]) = 0
      BY <3>2, <3>4, <3>5
    <3>6. CASE out_degree(gr, draws[k]) # 0
      <4>1. h[k] \in 1 .. Len(picked)
        BY <1>3, <3>2, <3>3, <3>4, <3>6
      <4>2. c[h[k]] = picked[h[k]]
        BY <1>4, <4>1
      <4> QED
        BY <3>2, <3>4, <3>6, <4>2
    <3> QED
      BY <3>5, <3>6
  <2> QED
    BY <2>1, <2>2
<1>8. f[0] = a
  BY <1>2, <1>3, <1>5
<1>9. Leads(f, m, gr, a, c)
  BY <1>2, <1>5, <1>6, <1>7, <1>8 DEF Leads
<1>10. Follows(m, gr, a, c)
  BY <1>9 DEF Follows
<1> QED
  BY <1>10 DEF m, c

LEMMA DrawNext ==
  ASSUME NEW gr, NEW draws \in Seq(Nodes), NEW a \in Nat, NEW picked \in Seq(Nodes),
         Follows(draws, gr, a, picked), draws # <<>>
  PROVE  /\ out_degree(gr, Head(draws)) = 0 => Follows(Tail(draws), gr, a, picked)
         /\ out_degree(gr, Head(draws)) # 0 =>
              /\ a + 1 \in 1 .. Len(picked) /\ picked[a + 1] = Head(draws)
              /\ Follows(Tail(draws), gr, a + 1, picked)
<1>1. PICK h : Leads(h, draws, gr, a, picked)
  BY DEF Follows
<1> DEFINE n == Len(draws)
           m == Tail(draws)
           b == IF out_degree(gr, Head(draws)) = 0 THEN a ELSE a + 1
           f == [k \in 0 .. (n - 1) |-> h[k + 1]]
<1>2. /\ n \in Nat \ {0} /\ Len(m) = n - 1 /\ draws[1] = Head(draws)
      /\ \A k \in 1 .. (n - 1) : m[k] = draws[k + 1]
  OBVIOUS
<1>3. /\ h \in [0 .. n -> Nat] /\ h[0] = a /\ h[n] = Len(picked) /\ Len(picked) \in Nat
      /\ \A k, l \in 0 .. n : k <= l => h[k] <= h[l]
      /\ \A k \in 1 .. n : IF out_degree(gr, draws[k]) = 0 THEN h[k] = h[k - 1]
                           ELSE h[k] = h[k - 1] + 1 /\ picked[h[k]] = draws[k]
  BY <1>1 DEF Leads
<1> HIDE DEF n, m
<1>4. /\ h[1] = b /\ b \in Nat
      /\ out_degree(gr, Head(draws)) # 0 => picked[b] = Head(draws) /\ b \in 1 .. Len(picked)
  <2>1. 1 \in 1 .. n /\ 1 - 1 = 0 /\ 1 \in 0 .. n /\ n \in 0 .. n /\ 1 <= n
    BY <1>2
  <2>2. IF out_degree(gr, draws[1]) = 0 THEN h[1] = h[0]
        ELSE h[1] = h[0] + 1 /\ picked[h[1]] = draws[1]
    BY <1>3, <2>1
  <2>3. h[1] <= Len(picked)
    BY <1>3, <2>1
  <2> QED
    BY <1>2, <1>3, <2>2, <2>3
<1> HIDE DEF b
<1>5. \A k \in 0 .. (n - 1) : f[k] = h[k + 1] /\ k + 1 \in 0 .. n /\ h[k + 1] \in Nat
  BY <1>2, <1>3
<1>6. f \in [0 .. (n - 1) -> Nat]
  BY <1>5
<1> HIDE DEF f
<1>7. f[0] = b /\ f[n - 1] = Len(picked)
  <2>1. 0 \in 0 .. (n - 1) /\ n - 1 \in 0 .. (n - 1) /\ 0 + 1 = 1 /\ n - 1 + 1 = n
    BY <1>2
  <2> QED
    BY <1>3, <1>4, <1>5, <2>1
<1>8. ASSUME NEW k \in 0 .. (n - 1), NEW l \in 0 .. (n - 1), k <= l PROVE f[k] <= f[l]
  <2>1. k + 1 \in 0 .. n /\ l + 1 \in 0 .. n /\ k + 1 <= l + 1
    BY <1>2, <1>8
  <2> QED
    BY <1>3, <1>5, <2>1
<1>9. ASSUME NEW k \in 1 .. (n - 1)
      PROVE  IF out_degree(gr, m[k]) = 0 THEN f[k] = f[k - 1]
             ELSE f[k] = f[k - 1] + 1 /\ picked[f[k]] = m[k]
  <2>1. k + 1 \in 1 .. n /\ k + 1 - 1 = k /\ k - 1 \in 0 .. (n - 1) /\ k \in 0 .. (n - 1) /\ k - 1 + 1 = k
    BY <1>2
  <2>2. f[k] = h[k + 1] /\ f[k - 1] = h[k] /\ m[k] = draws[k + 1]
    BY <1>2, <1>5, <2>1
  <2>3. IF out_degree(gr, draws[k + 1]) = 0 THEN h[k + 1] = h[k]
                           ELSE h[k + 1] = h[k] + 1 /\ picked[h[k + 1]] = draws[k + 1]
    BY <1>3, <2>1
  <2> QED
    BY <2>2, <2>3
<1>10. Leads(f, m, gr, b, picked)
  BY <1>2, <1>6, <1>7, <1>8, <1>9 DEF Leads
<1>11. Follows(m, gr, b, picked)
  BY <1>10 DEF Follows
<1> QED
  BY <1>4, <1>11 DEF b, m

LEMMA DrawEnd ==
  ASSUME NEW gr, NEW draws \in Seq(Nodes), NEW a \in Nat, NEW picked \in Seq(Nodes),
         Follows(draws, gr, a, picked)
  PROVE  /\ a <= Len(picked)
         /\ draws = <<>> => a = Len(picked)
         /\ a = Len(picked) => Follows(draws, gr, 0, <<>>)
<1>1. PICK h : Leads(h, draws, gr, a, picked)
  BY DEF Follows
<1> DEFINE n == Len(draws)
<1>2. n \in Nat /\ (draws = <<>> => n = 0) /\ 0 \in 0 .. n /\ n \in 0 .. n /\ 0 <= n
  OBVIOUS
<1>3. /\ h \in [0 .. n -> Nat] /\ h[0] = a /\ h[n] = Len(picked) /\ Len(picked) \in Nat
      /\ \A k, l \in 0 .. n : k <= l => h[k] <= h[l]
      /\ \A k \in 1 .. n : IF out_degree(gr, draws[k]) = 0 THEN h[k] = h[k - 1]
                           ELSE h[k] = h[k - 1] + 1 /\ picked[h[k]] = draws[k]
  BY <1>1 DEF Leads
<1>4. a <= Len(picked) /\ (draws = <<>> => a = Len(picked))
  BY <1>2, <1>3
<1>5. ASSUME a = Len(picked) PROVE Follows(draws, gr, 0, <<>>)
  <2> DEFINE f == [k \in 0 .. n |-> 0]
  <2> HIDE DEF n
  <2>1. ASSUME NEW k \in 0 .. n PROVE h[k] = a
    <3>1. 0 <= k /\ k <= n
      BY <1>2
    <3>2. h[0] <= h[k] /\ h[k] <= h[n] /\ h[k] \in Nat
      BY <1>2, <1>3, <3>1
    <3> QED
      BY <1>3, <1>5, <3>2
  <2>2. ASSUME NEW k \in 1 .. n PROVE out_degree(gr, draws[k]) = 0
    <3>1. k \in 0 .. n /\ k - 1 \in 0 .. n
      BY <1>2
    <3>2. h[k] = a /\ h[k - 1] = a
      BY <2>1, <3>1
    <3>3. IF out_degree(gr, draws[k]) = 0 THEN h[k] = h[k - 1]
                           ELSE h[k] = h[k - 1] + 1 /\ picked[h[k]] = draws[k]
      BY <1>3
    <3> QED
      BY <3>2, <3>3
  <2>3. f \in [0 .. n -> Nat] /\ \A k \in 0 .. n : f[k] = 0
    OBVIOUS
  <2> HIDE DEF f
  <2>4. \A k \in 1 .. n : k \in 0 .. n /\ k - 1 \in 0 .. n
    BY <1>2
  <2>5. Len(<<>>) = 0
    OBVIOUS
  <2>6. Leads(f, draws, gr, 0, <<>>)
    BY <1>2, <2>2, <2>3, <2>4, <2>5 DEF Leads, n
  <2> QED
    BY <2>6 DEF Follows
<1> QED
  BY <1>4, <1>5

-----------------------------------------------------------------------------
(* The verdict.                                                             *)

LEMMA BCAccepts ==
  ASSUME AInv, part = "done"
  PROVE  BCVerifier(g, sources, Unit, scores, biggest_score)
<1>1. /\ Greatest /\ ATypes /\ Scores(Len(sources))
      /\ g \in Graphs /\ sources \in Seq(Nodes)
  BY DEF AInv, BInv, BTypes
<1>2. DOMAIN sources = 1 .. Len(sources) /\ Len(sources) \in Nat
  BY <1>1
<1>3. \A k \in DOMAIN sources : sources[k] \in Nodes
  BY <1>1
<1> DEFINE w == [k \in DOMAIN sources |-> Dependencies(g, sources[k], Unit)]
           s == [n \in Nodes |-> SumOver([k \in DOMAIN sources |-> w[k][n]], DOMAIN sources)]
           r == {s[n] : n \in Nodes}
<1>4. ASSUME NEW n \in Nodes PROVE s[n] = scores[n]
  <2> DEFINE f == [k \in DOMAIN sources |-> w[k][n]]
             S == DOMAIN sources
  <2>1. s[n] = SumOver(f, S)
    OBVIOUS
  <2>2. f = Gains(n)
    BY <1>2 DEF Gains
  <2>3. \A k \in S : f[k] \in Nat
    <3> SUFFICES ASSUME NEW k \in S PROVE f[k] \in Nat
      OBVIOUS
    <3>1. Dependencies(g, sources[k], Unit) \in [Nodes -> Nat]
      BY <1>1, <1>3, DependenciesNat
    <3> QED
      BY <3>1
  <2>4. S = 1 .. Len(sources) /\ IsFiniteSet(S)
    BY <1>2, FS_Interval
  <2> HIDE DEF f, S, s
  <2>5. SumOver(f, S) = Total(f, S)
    BY <2>3, <2>4, SumOverIs
  <2>6. scores[n] = Total(Gains(n), 1 .. Len(sources))
    BY <1>1 DEF Scores, Scored
  <2> QED
    BY <2>1, <2>2, <2>4, <2>5, <2>6
<1>5. BCVerifier(g, sources, Unit, scores, biggest_score) <=>
        \A n \in Nodes : scores[n] * Max(r) = s[n] * biggest_score
  BY DEF BCVerifier
<1> HIDE DEF s
<1>6. Max(r) = biggest_score
  <2>1. /\ biggest_score \in r /\ biggest_score \in Nat
        /\ \A y \in r : y \in Nat /\ y <= biggest_score
    BY <1>1, <1>4 DEF Greatest, ATypes
  <2> HIDE DEF r
  <2>2. \A y \in r : biggest_score >= y
    BY <2>1
  <2>3. \E y \in r : \A z \in r : y >= z
    BY <2>1, <2>2
  <2>4. Max(r) \in r /\ \A z \in r : Max(r) >= z
    BY <2>3 DEF Max
  <2> DEFINE m == Max(r)
  <2>5. m \in r /\ \A z \in r : m >= z
    BY <2>4
  <2> HIDE DEF m
  <2>6. m = biggest_score
    BY <2>1, <2>5
  <2> QED
    BY <2>6 DEF m
<1> QED
  BY <1>1, <1>4, <1>5, <1>6

Picked ==
  IF cli.start_vertex # -1
  THEN /\ \A k \in 1 .. Len(sources) : sources[k] = cli.start_vertex
       /\ \A k \in 1 .. Len(vsources) : vsources[k] = cli.start_vertex
  ELSE /\ coming["sp"] = <<>>
       /\ \A k \in 1 .. Len(vsources) : vsources[k] = sources[k]
       /\ Follows(coming["vsp"], g, Len(vsources), sources)

PInv ==
  /\ coming \in [Pickers -> Seq(Nodes)] /\ vsources \in Seq(Nodes)
  /\ Len(vsources) <= num_iters
  /\ verdict # "FAIL"
  /\ stage \in {"kernel", "stats"} => vsources = <<>>
  /\ stage = "trial over" => vsources = sources /\ verdict = "PASS"
  /\ cli.verify /\ stage # "done" => Picked

LEMMA DrawTypes ==
  ASSUME coming \in [Pickers -> Seq(Nodes)], NEW p \in Pickers, NEW x \in Nodes, Draw(p, x)
  PROVE  coming' \in [Pickers -> Seq(Nodes)]
<1>1. CASE coming[p] # <<>>
  <2>1. coming[p] \in Seq(Nodes)
    OBVIOUS
  <2>2. Tail(coming[p]) \in Seq(Nodes)
    BY <1>1, <2>1
  <2>3. coming' = [coming EXCEPT ![p] = Tail(@)]
    BY <1>1 DEF Draw
  <2> QED
    BY <2>2, <2>3
<1>2. CASE coming[p] = <<>>
  <2>1. coming' = [q \in Pickers |-> IF q = p THEN <<>> ELSE Append(coming[q], x)]
    BY <1>2 DEF Draw
  <2>2. \A q \in Pickers : Append(coming[q], x) \in Seq(Nodes)
    OBVIOUS
  <2>3. <<>> \in Seq(Nodes)
    OBVIOUS
  <2> QED
    BY <2>1, <2>2, <2>3
<1> QED
  BY <1>1, <1>2

\* The kernel draws, and picks the vertex if it has neighbours.
LEMMA KernelDraws ==
  ASSUME AInv, PInv, stage = "kernel", cli.start_vertex = -1, cli.verify,
         NEW x \in Nodes, Draw("sp", x)
  PROVE  /\ coming'["sp"] = <<>>
         /\ Follows(coming'["vsp"], g, 0, IF out_degree(g, x) = 0 THEN sources ELSE Append(sources, x))
<1>1. /\ Picked /\ vsources = <<>> /\ Len(vsources) = 0 /\ coming \in [Pickers -> Seq(Nodes)]
      /\ sources \in Seq(Nodes) /\ g \in Graphs
  BY DEF PInv, AInv, BInv, BTypes
<1>2. coming["sp"] = <<>> /\ Follows(coming["vsp"], g, 0, sources)
  BY <1>1 DEF Picked
<1>3. coming' = [q \in Pickers |-> IF q = "sp" THEN <<>> ELSE Append(coming[q], x)]
  BY <1>2 DEF Draw
<1>4. coming["vsp"] \in Seq(Nodes) /\ coming'["sp"] = <<>> /\ coming'["vsp"] = Append(coming["vsp"], x)
  BY <1>1, <1>3 DEF Pickers
<1>5. Follows(Append(coming["vsp"], x), g, 0, IF out_degree(g, x) = 0 THEN sources ELSE Append(sources, x))
  <2>1. PICK draws, gr, picked : draws = coming["vsp"] /\ gr = g /\ picked = sources
    OBVIOUS
  <2>2. draws \in Seq(Nodes) /\ picked \in Seq(Nodes) /\ Follows(draws, gr, 0, picked) /\ 0 \in Nat
    BY <1>1, <1>2, <1>4, <2>1
  <2>3. Follows(Append(draws, x), gr, 0, IF out_degree(gr, x) = 0 THEN picked ELSE Append(picked, x))
    BY <2>2, DrawMore
  <2> QED
    BY <2>1, <2>3
<1> QED
  BY <1>4, <1>5

\* The verifier is given what the kernel drew.
LEMMA VerifierDraws ==
  ASSUME AInv, PInv, Asked("vsp"), cli.start_vertex = -1, NEW x \in Nodes, Draw("vsp", x)
  PROVE  /\ coming'["sp"] = <<>>
         /\ out_degree(g, x) = 0 => Follows(coming'["vsp"], g, Len(vsources), sources)
         /\ out_degree(g, x) # 0 => /\ sources[Len(vsources) + 1] = x
                                    /\ Follows(coming'["vsp"], g, Len(vsources) + 1, sources)
<1>1. stage = "verify" /\ cli.verify /\ Len(vsources) < num_iters
  BY DEF Asked
<1>2. /\ Picked /\ coming \in [Pickers -> Seq(Nodes)] /\ vsources \in Seq(Nodes)
      /\ sources \in Seq(Nodes) /\ g \in Graphs /\ part = "done" /\ ATypes
  BY <1>1 DEF PInv, AInv, BInv, BTypes
<1>3. coming["sp"] = <<>> /\ Follows(coming["vsp"], g, Len(vsources), sources)
  BY <1>2 DEF Picked
<1>4. Len(sources) = num_iters /\ num_iters \in Nat
  BY <1>2, ItersAssumption DEF ATypes
<1>5. PICK draws, gr, picked, a : /\ draws = coming["vsp"] /\ gr = g /\ picked = sources
                                  /\ a = Len(vsources)
  OBVIOUS
<1>6. draws \in Seq(Nodes) /\ picked \in Seq(Nodes) /\ Follows(draws, gr, a, picked) /\ a \in Nat
  BY <1>2, <1>3, <1>5 DEF Pickers
<1>7. draws # <<>>
  BY <1>1, <1>4, <1>5, <1>6, DrawEnd
<1>8. x = Head(draws) /\ coming' = [coming EXCEPT !["vsp"] = Tail(draws)]
  BY <1>5, <1>7 DEF Draw
<1>9. coming'["sp"] = <<>> /\ coming'["vsp"] = Tail(draws)
  BY <1>2, <1>3, <1>8 DEF Pickers
<1>10. /\ out_degree(gr, x) = 0 => Follows(Tail(draws), gr, a, picked)
       /\ out_degree(gr, x) # 0 => picked[a + 1] = x /\ Follows(Tail(draws), gr, a + 1, picked)
  BY <1>6, <1>7, <1>8, DrawNext
<1> QED
  BY <1>5, <1>9, <1>10

\* What keeps the sources and the draws.
LEMMA PickedStays ==
  ASSUME Picked, UNCHANGED <<g, sources, vsources, coming>>, cli' = cli
  PROVE  Picked'
<1>1. CASE cli.start_vertex # -1
  BY <1>1 DEF Picked
<1>2. CASE cli.start_vertex = -1
  <2>1. /\ coming["sp"] = <<>>
        /\ \A k \in 1 .. Len(vsources) : vsources[k] = sources[k]
        /\ Follows(coming["vsp"], g, Len(vsources), sources)
    BY <1>2 DEF Picked
  <2>2. coming'["vsp"] = coming["vsp"]
    OBVIOUS
  <2>3. Follows(coming'["vsp"], g', Len(vsources'), sources')
    BY <2>1, <2>2
  <2> QED
    BY <1>2, <2>1, <2>3 DEF Picked
<1> QED
  BY <1>1, <1>2

LEMMA PickAgainAdds ==
  ASSUME AInv, PInv, PickAgain
  PROVE  PInv'
<1>1. PICK p \in Pickers : Asked(p) /\ Redraw(p)
  BY DEF PickAgain
<1>2. /\ UNCHANGED <<g, sources, cli, stage, vsources, verdict>>
  BY DEF PickAgain, vars
<1>3. PICK x \in Nodes : out_degree(g, x) = 0 /\ Draw(p, x)
  BY <1>1 DEF Redraw
<1>4. cli.start_vertex = -1 /\ p \in {"sp", "vsp"}
  BY <1>1 DEF Redraw, Pickers
<1>5. coming' \in [Pickers -> Seq(Nodes)]
  BY <1>1, <1>3, DrawTypes DEF PInv
<1>6. ASSUME cli.verify, stage # "done" PROVE Picked'
  <2>1. Picked
    BY <1>6 DEF PInv
  <2>2. \A k \in 1 .. Len(vsources) : vsources[k] = sources[k]
    BY <1>4, <2>1 DEF Picked
  <2>3. coming'["sp"] = <<>> /\ Follows(coming'["vsp"], g, Len(vsources), sources)
    <3>1. CASE p = "sp"
      <4>1. stage = "kernel"
        BY <1>1, <3>1 DEF Asked
      <4>2. vsources = <<>> /\ Len(vsources) = 0
        BY <4>1 DEF PInv
      <4> QED
        BY <1>3, <1>4, <1>6, <3>1, <4>1, <4>2, KernelDraws
    <3>2. CASE p = "vsp"
      BY <1>1, <1>3, <1>4, <3>2, VerifierDraws
    <3> QED
      BY <1>4, <3>1, <3>2
  <2>4. Follows(coming'["vsp"], g', Len(vsources'), sources')
    BY <1>2, <2>3
  <2> QED
    BY <1>2, <1>4, <2>2, <2>3, <2>4 DEF Picked
<1> QED
  BY <1>2, <1>5, <1>6 DEF PInv

LEMMA BeginSourceAdds ==
  ASSUME AInv, PInv, BeginSource
  PROVE  PInv'
<1>1. stage = "kernel" /\ UNCHANGED <<cli, stage, vsources, verdict>>
  BY DEF BeginSource, Asked
<1>2. PICK x \in Nodes : PickNext("sp", x) /\ Begin(x)
  BY DEF BeginSource
<1>3. sources' = Append(sources, x) /\ g' = g
  BY <1>2 DEF Begin
<1>4. vsources = <<>> /\ Len(vsources) = 0 /\ sources \in Seq(Nodes)
  BY <1>1 DEF PInv, AInv, BInv, BTypes
<1>5. CASE cli.start_vertex # -1
  <2>1. x = cli.start_vertex /\ coming' = coming
    BY <1>2, <1>5 DEF PickNext
  <2>2. ASSUME cli.verify PROVE Picked'
    <3>1. Picked
      BY <1>1, <2>2 DEF PInv
    <3>2. \A k \in 1 .. Len(sources) : sources[k] = cli.start_vertex
      BY <1>5, <3>1 DEF Picked
    <3>3. \A k \in 1 .. Len(sources') : sources'[k] = cli.start_vertex
      BY <1>3, <1>4, <2>1, <3>2
    <3>4. \A k \in 1 .. Len(vsources) : vsources[k] = cli.start_vertex
      BY <1>4
    <3> QED
      BY <1>1, <1>5, <3>3, <3>4 DEF Picked
  <2> QED
    BY <1>1, <2>1, <2>2 DEF PInv
<1>6. CASE cli.start_vertex = -1
  <2>1. out_degree(g, x) # 0 /\ Draw("sp", x)
    BY <1>2, <1>6 DEF PickNext
  <2>2. coming' \in [Pickers -> Seq(Nodes)]
    BY <2>1, DrawTypes DEF PInv, Pickers
  <2>3. ASSUME cli.verify PROVE Picked'
    <3>1. coming'["sp"] = <<>> /\ Follows(coming'["vsp"], g, 0, Append(sources, x))
      BY <1>1, <1>6, <2>1, <2>3, KernelDraws
    <3>2. Follows(coming'["vsp"], g', Len(vsources'), sources')
      BY <1>1, <1>3, <1>4, <3>1
    <3>3. \A k \in 1 .. Len(vsources') : vsources'[k] = sources'[k]
      BY <1>1, <1>4
    <3> QED
      BY <1>1, <1>6, <3>1, <3>2, <3>3 DEF Picked
  <2> QED
    BY <1>1, <2>2, <2>3 DEF PInv
<1> QED
  BY <1>5, <1>6

LEMMA VerifierPicksAdds ==
  ASSUME AInv, PInv, VerifierPicks
  PROVE  PInv'
<1>1. /\ stage = "verify" /\ cli.verify /\ Len(vsources) < num_iters
      /\ UNCHANGED <<g, sources, cli, stage, verdict>> /\ Asked("vsp")
  BY DEF VerifierPicks, Asked, vars
<1>2. PICK x \in Nodes : PickNext("vsp", x) /\ vsources' = Append(vsources, x)
  BY DEF VerifierPicks
<1>3. vsources \in Seq(Nodes) /\ num_iters \in Nat /\ Picked
  BY <1>1, ItersAssumption DEF PInv
<1>4. vsources' \in Seq(Nodes) /\ Len(vsources') = Len(vsources) + 1 /\ Len(vsources') <= num_iters
  BY <1>1, <1>2, <1>3
<1>5. CASE cli.start_vertex # -1
  <2>1. x = cli.start_vertex /\ coming' = coming
    BY <1>2, <1>5 DEF PickNext
  <2>2. /\ \A k \in 1 .. Len(sources) : sources[k] = cli.start_vertex
        /\ \A k \in 1 .. Len(vsources) : vsources[k] = cli.start_vertex
    BY <1>3, <1>5 DEF Picked
  <2>3. \A k \in 1 .. Len(vsources') : vsources'[k] = cli.start_vertex
    BY <1>2, <1>3, <2>1, <2>2
  <2>4. Picked'
    BY <1>1, <1>5, <2>2, <2>3 DEF Picked
  <2> QED
    BY <1>1, <1>4, <2>1, <2>4 DEF PInv
<1>6. CASE cli.start_vertex = -1
  <2>1. out_degree(g, x) # 0 /\ Draw("vsp", x)
    BY <1>2, <1>6 DEF PickNext
  <2>2. coming' \in [Pickers -> Seq(Nodes)]
    BY <2>1, DrawTypes DEF PInv, Pickers
  <2>3. /\ coming'["sp"] = <<>> /\ sources[Len(vsources) + 1] = x
        /\ Follows(coming'["vsp"], g, Len(vsources) + 1, sources)
    BY <1>1, <1>6, <2>1, VerifierDraws
  <2>4. \A k \in 1 .. Len(vsources) : vsources[k] = sources[k]
    BY <1>3, <1>6 DEF Picked
  <2>5. \A k \in 1 .. Len(vsources') : vsources'[k] = sources[k]
    <3>1. ASSUME NEW k \in 1 .. (Len(vsources) + 1) PROVE vsources'[k] = sources[k]
      BY <1>2, <1>3, <2>3, <2>4
    <3> QED
      BY <1>4, <3>1
  <2>6. Follows(coming'["vsp"], g', Len(vsources'), sources')
    BY <1>1, <1>4, <2>3
  <2>7. Picked'
    BY <1>1, <1>6, <2>3, <2>5, <2>6 DEF Picked
  <2> QED
    BY <1>1, <1>4, <2>2, <2>7 DEF PInv
<1> QED
  BY <1>5, <1>6

LEMMA VerifyAdds ==
  ASSUME AInv, PInv, Verify
  PROVE  PInv'
<1>1. /\ stage = "verify" /\ cli.verify /\ Len(vsources) = num_iters /\ stage' = "trial over"
      /\ UNCHANGED <<g, sources, cli, coming, vsources>>
      /\ verdict' = IF BCVerifier(g, vsources, Unit, scores, biggest_score) THEN "PASS" ELSE "FAIL"
  BY DEF Verify, vars
<1>2. /\ Picked /\ vsources \in Seq(Nodes) /\ sources \in Seq(Nodes) /\ part = "done"
      /\ Len(sources) = num_iters
  BY <1>1 DEF PInv, AInv, BInv, BTypes, ATypes
<1>3. \A k \in 1 .. Len(vsources) : vsources[k] = sources[k]
  BY <1>1, <1>2 DEF Picked
<1>4. vsources = sources
  BY <1>1, <1>2, <1>3, SeqEqual
<1>5. verdict' = "PASS"
  BY <1>1, <1>2, <1>4, BCAccepts
<1>6. Picked'
  BY <1>1, <1>2, PickedStays
<1> QED
  BY <1>1, <1>4, <1>5, <1>6 DEF PInv

LEMMA EndTrialPicks ==
  ASSUME AInv, PInv, EndTrial
  PROVE  PInv'
<1>1. /\ stage = IF cli.verify THEN "trial over" ELSE "verify"
      /\ vsources' = <<>> /\ UNCHANGED <<g, cli, coming, verdict>>
      /\ \/ stage' = "kernel" /\ sources' = <<>>
         \/ stage' = "done"
  BY DEF EndTrial
<1>2. Len(<<>>) = 0 /\ <<>> \in Seq(Nodes) /\ num_iters \in Nat
  BY ItersAssumption
<1>3. ASSUME cli.verify, stage' # "done" PROVE Picked'
  <2>1. sources' = <<>> /\ stage = "trial over"
    BY <1>1, <1>3
  <2>2. Picked /\ vsources = sources
    BY <1>3, <2>1 DEF PInv
  <2>3. CASE cli.start_vertex # -1
    <3>1. Len(sources') = 0 /\ Len(vsources') = 0
      BY <1>1, <1>2, <2>1
    <3>2. 1 .. 0 = {}
      OBVIOUS
    <3> QED
      BY <1>1, <2>3, <3>1, <3>2 DEF Picked
  <2>4. CASE cli.start_vertex = -1
    <3>1. coming["sp"] = <<>> /\ Follows(coming["vsp"], g, Len(vsources), sources)
      BY <2>2, <2>4 DEF Picked
    <3>2. PICK draws, gr, picked, a : /\ draws = coming["vsp"] /\ gr = g /\ picked = sources
                                      /\ a = Len(vsources)
      OBVIOUS
    <3>3. draws \in Seq(Nodes) /\ picked \in Seq(Nodes) /\ a \in Nat /\ a = Len(picked)
      <4>1. coming \in [Pickers -> Seq(Nodes)] /\ vsources \in Seq(Nodes)
        BY DEF PInv
      <4>2. coming["vsp"] \in Seq(Nodes)
        BY <4>1 DEF Pickers
      <4> QED
        BY <2>2, <3>2, <4>1, <4>2
    <3>4. Follows(draws, gr, 0, <<>>)
      BY <3>1, <3>2, <3>3, DrawEnd
    <3>5. Follows(coming'["vsp"], g', Len(vsources'), sources')
      BY <1>1, <1>2, <2>1, <3>2, <3>4
    <3> QED
      BY <1>1, <1>2, <2>1, <2>4, <3>1, <3>5 DEF Picked
  <2> QED
    BY <2>3, <2>4
<1>4. vsources' \in Seq(Nodes) /\ Len(vsources') <= num_iters /\ stage' # "trial over"
  <2>1. stage' # "trial over"
    BY <1>1
  <2>2. vsources' \in Seq(Nodes)
    BY <1>1, <1>2
  <2>3. Len(vsources') = 0
    BY <1>1, <1>2
  <2>4. 0 <= num_iters
    BY ItersAssumption
  <2>5. Len(vsources') <= num_iters
    BY <2>3, <2>4
  <2> QED
    BY <2>1, <2>2, <2>5
<1> QED
  BY <1>1, <1>3, <1>4 DEF PInv

\* The stages of a trial, and the steps of the kernel.
LEMMA StageAdds ==
  ASSUME PInv, UNCHANGED <<g, sources, cli, coming, vsources, verdict>>,
         stage' = "trial over" => stage = "trial over",
         stage' \in {"kernel", "stats"} => stage \in {"kernel", "stats"},
         stage' # "done" => stage # "done"
  PROVE  PInv'
<1>1. cli.verify /\ stage' # "done" => Picked'
  BY PickedStays DEF PInv
<1> QED
  BY <1>1 DEF PInv

LEMMA PInvInit == BenchmarkInit => PInv
<1> SUFFICES ASSUME BenchmarkInit PROVE PInv
  OBVIOUS
<1>1. /\ coming = [p \in Pickers |-> <<>>] /\ vsources = <<>> /\ sources = <<>> /\ verdict = "none"
      /\ stage = "kernel"
  BY DEF BenchmarkInit, BrandesInit
<1>2. Len(<<>>) = 0 /\ <<>> \in Seq(Nodes) /\ num_iters \in Nat
  BY ItersAssumption
<1>3. Follows(<<>>, g, 0, <<>>)
  <2> DEFINE h == [k \in 0 .. 0 |-> 0]
  <2>1. h \in [0 .. 0 -> Nat] /\ \A k \in 0 .. 0 : h[k] = 0
    OBVIOUS
  <2> HIDE DEF h
  <2>2. Leads(h, <<>>, g, 0, <<>>)
    BY <1>2, <2>1 DEF Leads
  <2> QED
    BY <2>2 DEF Follows
<1>4. coming["sp"] = <<>> /\ coming["vsp"] = <<>>
  BY <1>1 DEF Pickers
<1>5. Picked
  BY <1>1, <1>2, <1>3, <1>4 DEF Picked
<1> QED
  BY <1>1, <1>2, <1>5 DEF PInv

LEMMA PInvNext == AInv /\ PInv /\ [BenchmarkNext]_benchmarkVars => PInv'
<1> SUFFICES ASSUME AInv, PInv, [BenchmarkNext]_benchmarkVars PROVE PInv'
  OBVIOUS
<1>1. CASE Kernel
  <2>1. UNCHANGED driverVars
    BY <1>1 DEF Kernel
  <2>2. UNCHANGED <<g, sources>>
    <3>1. CASE \E t \in Team : LevelStep(t)
      BY <3>1, LevelStepFrame
    <3>2. CASE EndLevel \/ Accumulate \/ NextDepth \/ Normalize
      BY <3>2 DEF EndLevel, Accumulate, NextDepth, Normalize
    <3> QED
      BY <1>1, <3>1, <3>2 DEF Kernel, PBFS
  <2> QED
    BY <2>1, <2>2, StageAdds DEF driverVars
<1>2. CASE Return
  <2>1. /\ stage = "kernel" /\ stage' \in {"stats", "verify"}
        /\ UNCHANGED <<g, sources, cli, coming, vsources, verdict>>
    BY <1>2 DEF Return, vars
  <2> QED
    BY <2>1, StageAdds
<1>3. CASE PrintTopScores
  <2>1. /\ stage = "stats" /\ stage' = "verify"
        /\ UNCHANGED <<g, sources, cli, coming, vsources, verdict>>
    BY <1>3 DEF PrintTopScores, vars
  <2> QED
    BY <2>1, StageAdds
<1>4. CASE UNCHANGED benchmarkVars
  BY <1>4, StageAdds DEF benchmarkVars, driverVars, vars
<1> QED
  BY <1>1, <1>2, <1>3, <1>4, PickAgainAdds, BeginSourceAdds, VerifierPicksAdds, VerifyAdds,
     EndTrialPicks DEF BenchmarkNext

(***************************************************************************)
(* The verifier works on the sources the kernel had, and it accepts what   *)
(* the kernel returned: for every graph, team, number of sources, number   *)
(* of trials and start vertex, however the threads ran, and whatever the   *)
(* divisions round off.                                                    *)
(***************************************************************************)
THEOREM VerifierAgrees == BenchmarkSpec => []TrialsVerified
<1>1. BenchmarkInit => AInv /\ PInv
  BY AInvInit, PInvInit
<1>2. AInv /\ PInv /\ [BenchmarkNext]_benchmarkVars => (AInv /\ PInv)'
  BY AInvNext, PInvNext
<1>3. AInv /\ PInv => TrialsVerified
  BY DEF PInv, TrialsVerified
<1> QED
  BY <1>1, <1>2, <1>3, PTL DEF BenchmarkSpec
=============================================================================
