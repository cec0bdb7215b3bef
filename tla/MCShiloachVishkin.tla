------------------------- MODULE MCShiloachVishkin -------------------------
(***************************************************************************)
(* Shiloach-Vishkin for two threads on graphs of four vertices.  The       *)
(* centre of the Star and the middle of the Path have the highest label,   *)
(* so two threads come to hook one root under different labels; the        *)
(* directed graphs have edges stored at one end only.                      *)
(***************************************************************************)
EXTENDS ShiloachVishkin, GraphShapes

Star == Undirected({{3, 0}, {3, 1}, {3, 2}})
Path == Undirected({{0, 3}, {3, 1}, {1, 2}})
Pairs == Undirected({{0, 2}, {1, 3}})
Paw == Undirected({{0, 1}, {1, 2}, {1, 3}, {2, 3}})
Fan == Directed({<<2, 0>>, <<2, 1>>, <<2, 3>>})
Chain == Directed({<<3, 1>>, <<1, 2>>, <<0, 2>>})

MCGraphs == {Star, Path, Pairs, Paw, Fan, Chain}
=============================================================================
