----------------------------- MODULE MCPageRank -----------------------------
(***************************************************************************)
(* Simple graphs of four vertices, as the builder makes them, with and     *)
(* without direction, with a vertex that has no out-edges and one that has *)
(* no in-edges.                                                            *)
(***************************************************************************)
EXTENDS PageRank, GraphShapes

Ring == Undirected({{0, 1}, {1, 2}, {2, 3}, {3, 0}})
Path == Undirected({{0, 1}, {1, 2}, {2, 3}})
Drain == Directed({<<0, 1>>, <<0, 2>>, <<1, 2>>, <<2, 1>>, <<2, 3>>})

MCGraphs == {Ring, Path, Drain}

MCOne == 1000000

\* -t 0 (no early stop), and tolerances that are met early and late.
MCEpsilons == {0, MCOne \div 4, MCOne}

Symmetry == Permutations(Threads)
=============================================================================
