------------------------------- MODULE MCBFS -------------------------------
(***************************************************************************)
(* DOBFS by two threads on graphs of six vertices in words and chunks of   *)
(* two bits.  With these parameters the search takes every path between    *)
(* the two directions; on the Hourglass it enters the bottom-up phase a    *)
(* second time with the bit of an earlier frontier still in the bitmap.    *)
(***************************************************************************)
EXTENDS BFS, GraphShapes

Path == Undirected({{0, 1}, {1, 2}, {2, 3}, {3, 4}, {4, 5}})
House == Undirected({{0, 1}, {0, 2}, {1, 2}, {1, 3}, {2, 4}, {3, 4}, {4, 5}})
Hourglass == Directed({<<0, 1>>, <<0, 2>>, <<1, 3>>, <<2, 3>>, <<3, 4>>, <<3, 5>>})
Apart == Undirected({{0, 3}, {1, 3}, {1, 5}, {2, 4}})
Fan == Directed({<<0, 1>>, <<0, 2>>, <<0, 3>>, <<1, 4>>, <<2, 4>>, <<3, 5>>})
Loops == Directed({<<0, 0>>, <<0, 4>>, <<4, 1>>, <<1, 0>>, <<3, 2>>, <<2, 5>>})

MCGraphs == {Path, House, Hourglass, Apart, Fan, Loops}
=============================================================================
