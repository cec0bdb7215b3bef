----------------------------- MODULE CompForest -----------------------------
(***************************************************************************)
(* The array comp of the connected-components kernels (cc.cc, cc_sv.cc)    *)
(* read as a forest: comp[x] is the parent of x, a root is its own parent. *)
(* Everything is said with the sets of vertices that are unions of trees,  *)
(* so that no definition has to climb a path.                              *)
(***************************************************************************)
EXTENDS CSRGraph

IsRoot(comp, x) == comp[x] = x

\* comp[n] = n for every n, as both kernels initialise it.
SelfPointing == [n \in Nodes |-> n]

\* Every vertex points at itself or at a lower one: the forest has no cycle.
PointsDown(comp) == \A x \in Nodes : comp[x] <= x

\* Every tree has depth one.
Flat(comp) == \A x \in Nodes : comp[comp[x]] = comp[x]

(***************************************************************************)
(* The two labels of an edge in order, with the kernels' arithmetic:       *)
(* high = a > b ? a : b,  low = a + (b - high).                            *)
(***************************************************************************)
HighOf(a, b) == IF a > b THEN a ELSE b

\* Mutant of LowOf: the difference is subtracted.
LowOfWrongSign(a, b) == a - (b - HighOf(a, b))

LowOf(a, b) == a + (b - HighOf(a, b))

\* S is a union of trees.
Sat(comp, S) == \A x \in Nodes : x \in S <=> comp[x] \in S

\* The part of that below n: enough to climb from a vertex below n.
SatBelow(comp, S, n) == \A x \in Nodes : x < n => (x \in S <=> comp[x] \in S)

\* x and y are in one tree.
Linked(comp, x, y) ==
  \A S \in SUBSET Nodes : Sat(comp, S) => (x \in S <=> y \in S)

\* The trees are no larger than the graph's components.
Sound(g, comp) == \A S \in SUBSET Nodes : EdgeClosed(g, S) => Sat(comp, S)

\* comp labels exactly the connected components.
LabelsComponents(g, comp) ==
  \A x, y \in Nodes : comp[x] = comp[y] <=> Connected(g, x, y)
=============================================================================
