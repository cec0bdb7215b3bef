---------------------------- MODULE MCBenchmark ----------------------------
(***************************************************************************)
(* Two trials of two sources each, and three threads, on graphs of five    *)
(* vertices with several shortest paths to one vertex, one of which has a  *)
(* vertex that no picker may return.                                       *)
(***************************************************************************)
EXTENDS Benchmark, GraphShapes

Kite == Undirected({{0, 1}, {0, 2}, {1, 3}, {2, 3}, {3, 4}})
Braid == Directed({<<0, 1>>, <<0, 2>>, <<1, 3>>, <<2, 3>>, <<2, 4>>, <<3, 4>>, <<4, 0>>})
Sink == Directed({<<0, 1>>, <<1, 2>>, <<0, 3>>, <<3, 2>>, <<2, 4>>})

MCGraphs == {Kite, Braid, Sink}

MCOptions ==
  {[num_trials |-> 2, analysis |-> TRUE, verify |-> TRUE, start_vertex |-> -1],
   [num_trials |-> 2, analysis |-> FALSE, verify |-> FALSE, start_vertex |-> 0],
   [num_trials |-> 1, analysis |-> FALSE, verify |-> FALSE, start_vertex |-> -1],
   [num_trials |-> 1, analysis |-> TRUE, verify |-> TRUE, start_vertex |-> 2]}
=============================================================================
