------------------------------ MODULE EdgeList ------------------------------
(***************************************************************************)
(* The sequential pieces of the graph builder (builder.h): counting        *)
(* degrees, prefix sums, sorting and squishing.  An edge is a record       *)
(* [u, v, w], an entry of an adjacency list a record [v, w]; in a graph    *)
(* without weights every w is 1.                                           *)
(*                                                                         *)
(* A parallel loop whose iterations touch nothing in common, or only add   *)
(* to counters with fetch_and_add, has one outcome whatever its schedule,  *)
(* and is one operator here.                                               *)
(***************************************************************************)
EXTENDS CSRGraph, FiniteSetsExt

CONSTANT block_size  \* of ParallelPrefixSum, 2^20 in the code

ASSUME BlockAssumption == block_size \in Nat \ {0}

SumFrom(f, first, end) == MapThenSumSet(LAMBDA k : f[k], first .. (end - 1))

FindMaxNodeID(el) == Max({0} \cup UNION {{el[k].u, el[k].v} : k \in DOMAIN el})

\* Mutant of CountDegrees: a symmetrized edge is counted at its source only.
CountDegreesOneEnd(el, symmetrize, in_place, transpose) ==
  [n \in Nodes |->
     (IF symmetrize \/ ~transpose THEN Cardinality({k \in DOMAIN el : el[k].u = n}) ELSE 0)
     + (IF ~symmetrize /\ transpose THEN Cardinality({k \in DOMAIN el : el[k].v = n}) ELSE 0)]

CountDegrees(el, symmetrize, in_place, transpose) ==
  [n \in Nodes |->
     (IF symmetrize \/ ~transpose
      THEN Cardinality({k \in DOMAIN el : el[k].u = n}) ELSE 0)
     + (IF (symmetrize /\ ~in_place) \/ (~symmetrize /\ transpose)
        THEN Cardinality({k \in DOMAIN el : el[k].v = n}) ELSE 0)]

(***************************************************************************)
(* Each block is summed on its own, the sums of the blocks are summed up   *)
(* in order, and each block then fills in its part of the result.          *)
(***************************************************************************)
ParallelPrefixSum(degrees) ==
  LET size       == NumNodes
      num_blocks == (size + block_size - 1) \div block_size
      block_end(b) == MinOf((b + 1) * block_size, size)
      local_sums == [b \in 0 .. (num_blocks - 1) |->
                       SumFrom(degrees, b * block_size, block_end(b))]
      bulk_prefix == [b \in 0 .. num_blocks |-> SumFrom(local_sums, 0, b)]
  IN  [k \in 0 .. size |->
         IF k = size THEN bulk_prefix[num_blocks]
         ELSE LET b == k \div block_size
              IN  bulk_prefix[b] + SumFrom(degrees, b * block_size, k)]

\* The elements of s whose positions are in I, in order.
Select(s, I) ==
  [p \in 1 .. Cardinality(I) |->
     s[CHOOSE k \in I : Cardinality({j \in I : j <= k}) = p]]

\* std::sort by a strict weak order; elements that tie are equal in all we keep.
SortBy(s, Less(_, _)) ==
  LET rank(k) == Cardinality({j \in DOMAIN s :
                                Less(s[j], s[k]) \/ (~Less(s[k], s[j]) /\ j <= k)})
  IN  [p \in 1 .. Len(s) |-> s[CHOOSE k \in DOMAIN s : rank(k) = p]]

\* NodeWeight::operator<, and EdgePair::operator< over it.
NeighLess(a, b) == IF a.v = b.v THEN a.w < b.w ELSE a.v < b.v
EdgeLess(a, b) == IF a.u = b.u THEN NeighLess(a, b) ELSE a.u < b.u

\* Mutant of SquishRow: std::unique on the list as it is, not sorted.
SquishRowUnsorted(row, n) ==
  Select(row, {k \in DOMAIN row : /\ k = 1 \/ row[k].v # row[k-1].v
                                  /\ row[k].v # n})

(***************************************************************************)
(* std::sort, std::unique and std::remove on the list of n: the first of   *)
(* each run of entries for one neighbour stays, which after sorting is the *)
(* lightest, and n itself goes.                                            *)
(***************************************************************************)
SquishRow(row, n) ==
  LET sorted == SortBy(row, NeighLess)
  IN  Select(sorted, {k \in DOMAIN sorted : /\ k = 1 \/ sorted[k].v # sorted[k-1].v
                                            /\ sorted[k].v # n})

\* The same on the edge list, before it is built in place.
SquishEdges(el) ==
  LET sorted == SortBy(el, EdgeLess)
  IN  Select(sorted, {k \in DOMAIN sorted :
                        /\ k = 1 \/ <<sorted[k].u, sorted[k].v>> # <<sorted[k-1].u, sorted[k-1].v>>
                        /\ sorted[k].u # sorted[k].v})

(***************************************************************************)
(* A CSR: index[n] is where the list of n begins in neighs (GenIndex keeps *)
(* the offsets as they are when it is called).                             *)
(***************************************************************************)
Row(csr, n) ==
  [k \in 1 .. (csr.index[n+1] - csr.index[n]) |-> csr.neighs[csr.index[n] + k - 1]]

SquishCSR(csr) ==
  LET squished   == [n \in Nodes |-> SquishRow(Row(csr, n), n)]
      diffs      == [n \in Nodes |-> Len(squished[n])]
      sq_offsets == ParallelPrefixSum(diffs)
      owner(k)   == CHOOSE n \in Nodes : sq_offsets[n] <= k /\ k < sq_offsets[n+1]
  IN  [index  |-> sq_offsets,
       neighs |-> [k \in 0 .. (sq_offsets[NumNodes] - 1) |->
                     squished[owner(k)][k - sq_offsets[owner(k)] + 1]]]

\* The graph value the kernels are given.
ToGraph(directed, out, inv) ==
  [directed |-> directed,
   out    |-> [n \in Nodes |-> [k \in DOMAIN Row(out, n) |-> Row(out, n)[k].v]],
   inv    |-> [n \in Nodes |-> [k \in DOMAIN Row(inv, n) |-> Row(inv, n)[k].v]],
   weight |-> [n \in Nodes |-> [k \in DOMAIN Row(out, n) |-> Row(out, n)[k].w]],
   inv_weight |-> [n \in Nodes |-> [k \in DOMAIN Row(inv, n) |-> Row(inv, n)[k].w]]]
=============================================================================
