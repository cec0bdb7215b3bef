------------------------------ MODULE CSRGraph ------------------------------
(***************************************************************************)
(* The graph every kernel of gapbs/ runs on (graph.h).  A graph is a value *)
(* no kernel changes: a record with the flag directed, the adjacency list  *)
(* of every vertex (out) and that of the inverse graph (inv), both in the  *)
(* order the CSR arrays hold them.  An undirected graph shares one pair of *)
(* arrays for both directions, so its two lists are equal.                 *)
(***************************************************************************)
EXTENDS Integers, Sequences, FiniteSets

CONSTANT NumNodes

ASSUME NumNodesAssumption == NumNodes \in Nat \ {0}

Nodes == 0 .. (NumNodes - 1)

out_degree(g, u) == Len(g.out[u])

in_degree(g, u) == Len(g.inv[u])

\* num_edges_ counts an edge of an undirected graph once: half the entries.
num_edges_directed(g) ==
  LET entries == Cardinality(UNION {{x} \X (1 .. out_degree(g, x)) : x \in Nodes})
  IN  IF g.directed THEN entries ELSE 2 * (entries \div 2)

MinOf(a, b) == IF a <= b THEN a ELSE b

(***************************************************************************)
(* out_neigh(u, start_offset) iterates over the list of u from position    *)
(* start_offset on.  The Neighborhood clamps the offset to the degree: a   *)
(* vertex with fewer neighbours has an empty range, never one that begins  *)
(* inside the next vertex's list.  FirstNeigh is the 1-based position the  *)
(* range starts at; it ends at out_degree(g, u).                           *)
(***************************************************************************)
FirstNeigh(g, u, start_offset) == MinOf(start_offset, out_degree(g, u)) + 1

HasOutEdge(g, x, y) == \E i \in 1 .. out_degree(g, x) : g.out[x][i] = y

HasInEdge(g, x, y) == \E i \in 1 .. in_degree(g, x) : g.inv[x][i] = y

(***************************************************************************)
(* What a constructed CSRGraph guarantees: vertices in range, and in-lists *)
(* that are the inverse of the out-lists (they are the same lists when the *)
(* graph is undirected).                                                   *)
(***************************************************************************)
IsGraph(g) ==
  /\ g.directed \in BOOLEAN
  /\ g.out \in [Nodes -> Seq(Nodes)]
  /\ g.inv \in [Nodes -> Seq(Nodes)]
  /\ ~g.directed => g.inv = g.out
  /\ \A x, y \in Nodes : HasOutEdge(g, x, y) <=> HasInEdge(g, y, x)

\* SquishGraph leaves every neighbour once in a list, and no vertex in its own.
IsSimple(g) ==
  \A x \in Nodes :
    /\ ~HasOutEdge(g, x, x)
    /\ \A i, j \in 1 .. out_degree(g, x) : g.out[x][i] = g.out[x][j] => i = j
    /\ \A i, j \in 1 .. in_degree(g, x) : g.inv[x][i] = g.inv[x][j] => i = j

(***************************************************************************)
(* A weighted graph (WGraph: the neighbours are NodeWeights) has a weight  *)
(* for each entry of an out-list.                                          *)
(***************************************************************************)
IsWGraph(g) ==
  /\ IsGraph(g)
  /\ g.weight \in [Nodes -> Seq(Nat \ {0})]
  /\ \A x \in Nodes : Len(g.weight[x]) = out_degree(g, x)

(***************************************************************************)
(* Vertices x and y are connected, edges taken in both directions, when no *)
(* set of vertices that is closed under edges tells them apart.            *)
(***************************************************************************)
EdgeClosed(g, S) ==
  \A x, y \in Nodes : HasOutEdge(g, x, y) => (x \in S <=> y \in S)

Connected(g, x, y) ==
  \A S \in SUBSET Nodes : EdgeClosed(g, S) => (x \in S <=> y \in S)
=============================================================================
