---------------------------- MODULE MCDeltaStep ----------------------------
(***************************************************************************)
(* Delta-stepping by three threads on weighted graphs of five vertices,   *)
(* where the first path found to a vertex is not the shortest one, so that *)
(* it is put into several bins, and where two vertices of one bin compete  *)
(* for the distance of a third.                                            *)
(*                                                                         *)
(* FrontierGraphs is for one thread and seven vertices: the distance of    *)
(* vertex 1 is lowered twice within the first bin, over 2 and over 3, and  *)
(* each time the vertices 4, 5 and 6 are put into the next bin once more:  *)
(* it comes to hold nine entries, with eight edges.                        *)
(***************************************************************************)
EXTENDS DeltaStep, GraphShapes

\* A graph with weights: W[n] lists the weights of n's sorted out-list.
Weighted(gr, W) ==
  [directed |-> gr.directed, out |-> gr.out, inv |-> gr.inv,
   weight |-> [n \in Nodes |-> W[n + 1]]]

Detour ==
  Weighted(Directed({<<0, 1>>, <<0, 2>>, <<1, 2>>, <<2, 3>>, <<1, 3>>, <<3, 4>>}),
           <<<<1, 5>>, <<1, 6>>, <<2>>, <<1>>, <<>>>>)
Rivals ==
  Weighted(Directed({<<0, 1>>, <<0, 2>>, <<0, 3>>, <<1, 4>>, <<2, 4>>, <<3, 4>>, <<4, 3>>}),
           <<<<1, 1, 2>>, <<4>>, <<3>>, <<1>>, <<1>>>>)
Square ==
  Weighted(Undirected({{0, 1}, {1, 2}, {2, 3}, {0, 3}, {3, 4}}),
           <<<<1, 4>>, <<1, 1>>, <<1, 1>>, <<4, 1, 2>>, <<2>>>>)

MCGraphs == {Detour, Rivals, Square}

Fan ==
  Weighted(Directed({<<0, 1>>, <<0, 2>>, <<2, 1>>, <<2, 3>>, <<3, 1>>,
                     <<1, 4>>, <<1, 5>>, <<1, 6>>}),
           <<<<7, 1>>, <<10, 10, 10>>, <<4, 1>>, <<1>>, <<>>, <<>>, <<>>>>)

FrontierGraphs == {Fan}
=============================================================================
