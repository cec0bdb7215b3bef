---------------------------- MODULE GraphShapes ----------------------------
(***************************************************************************)
(* Small graphs for TLC, given by their edges: adjacency lists are sorted  *)
(* and without loops or duplicates, as the builder leaves them.            *)
(***************************************************************************)
EXTENDS CSRGraph, SequencesExt

Sorted(S) == SetToSortSeq(S, <)

\* E is a set of two-element sets of vertices.
Undirected(E) ==
  LET adj == [n \in Nodes |-> Sorted({m \in Nodes : {n, m} \in E /\ n # m})]
  IN  [directed |-> FALSE, out |-> adj, inv |-> adj]

\* A is a set of pairs of vertices.
Directed(A) ==
  [directed |-> TRUE,
   out |-> [n \in Nodes |-> Sorted({m \in Nodes : <<n, m>> \in A})],
   inv |-> [n \in Nodes |-> Sorted({m \in Nodes : <<m, n>> \in A})]]
=============================================================================
