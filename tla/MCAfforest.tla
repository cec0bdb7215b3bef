----------------------------- MODULE MCAfforest -----------------------------
(***************************************************************************)
(* Afforest for three threads on graphs of four vertices: undirected ones, *)
(* and directed ones where a vertex is reached only through its in-list.   *)
(* With Rounds = 1 the last loop has edges left for every vertex of degree *)
(* two and more.                                                           *)
(***************************************************************************)
EXTENDS Afforest, GraphShapes

Star == Undirected({{3, 0}, {3, 1}, {3, 2}})
Path == Undirected({{0, 3}, {3, 1}, {1, 2}})
Pairs == Undirected({{0, 2}, {1, 3}})
Paw == Undirected({{0, 1}, {1, 2}, {1, 3}, {2, 3}})
Fan == Directed({<<2, 0>>, <<2, 1>>, <<2, 3>>})
Chain == Directed({<<3, 1>>, <<1, 2>>, <<0, 2>>})

MCGraphs == {Star, Path, Pairs, Paw, Fan, Chain}
=============================================================================
