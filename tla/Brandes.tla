------------------------------ MODULE Brandes ------------------------------
(***************************************************************************)
(* Betweenness centrality (gapbs/src/bc.cc).                               *)
(*                                                                         *)
(* For each source, PBFS counts the shortest paths level by level in one   *)
(* parallel region: a vertex is put into the queue by the thread whose     *)
(* compare-and-swap sets its depth, but every thread that sees it at the   *)
(* depth being built sets the successor bit of its edge and adds to its    *)
(* path count.  The counts of a level must be complete when the next level *)
(* reads them; only the barriers see to that.  Then the dependencies are   *)
(* accumulated from the deepest level up, in loops without races.          *)
(*                                                                         *)
(* The queue is written when a vertex is claimed: the buffers only change  *)
(* the order within a level (SlidingQueue).  set_bit_atomic is one step    *)
(* (BFS has its retry loop).  Where the code has floats, dependencies and  *)
(* scores are whole numbers of 1/Unit; ScoresExact would show a Unit that  *)
(* is too small for the divisions to be exact.                             *)
(***************************************************************************)
EXTENDS Verifiers

CONSTANTS
  Team,       \* the OpenMP team
  Graphs,     \* the graphs the kernel may be given
  num_iters,  \* how many sources
  Unit        \* the number 1 as a dependency

\* SquishGraph of the builder leaves neither loops nor duplicates.
ASSUME GraphsAssumption == \A gr \in Graphs : IsGraph(gr) /\ IsSimple(gr)
ASSUME ItersAssumption == num_iters \in Nat \ {0}
ASSUME UnitAssumption == Unit \in Nat \ {0}

VARIABLES
  g,
  sources,               \* the sources picked so far, the current one last
  depths, path_counts,   \* per vertex, shared by all threads
  succ,                  \* the edges <<x, j>> whose successor bit is set
  shared,                \* the queue up to shared_in
  out_start, out_end,    \* its window
  depth_index,           \* where each level begins in the queue
  depth,                 \* the depth being built (each thread has a copy)
  deltas, scores,        \* after Normalize a score is scores[n] / biggest_score
  biggest_score,
  d,                     \* the level whose dependencies are accumulated
  part,                  \* "pick", "bfs", "back", "normalize", "done"
  pending,               \* queue positions no thread has taken yet
  at, u, i, count        \* per thread: next step, vertex, edge, path_counts[u]

bfs == <<depths, path_counts, succ, shared>>
levels == <<out_start, out_end, depth_index, depth>>
results == <<deltas, scores, biggest_score, d>>
threadVars == <<at, u, i, count>>
vars == <<g, sources, depths, path_counts, succ, shared, out_start, out_end, depth_index, depth,
          deltas, scores, biggest_score, d, part, pending, at, u, i, count>>

source == sources[Len(sources)]

BrandesInit ==
  /\ g \in Graphs
  /\ sources = <<>>
  /\ depths = [n \in Nodes |-> -1]
  /\ path_counts = [n \in Nodes |-> 0]
  /\ succ = {}
  /\ shared = <<>>
  /\ out_start = 0 /\ out_end = 0
  /\ depth_index = <<>>
  /\ depth = 0
  /\ deltas = [n \in Nodes |-> 0]
  /\ scores = [n \in Nodes |-> 0]
  /\ biggest_score = 0
  /\ d = 0
  /\ part = "pick"
  /\ pending = {}
  /\ at = [t \in Team |-> "idle"]
  /\ u = [t \in Team |-> 0]
  /\ i = [t \in Team |-> 0]
  /\ count = [t \in Team |-> 0]

-----------------------------------------------------------------------------
(***************************************************************************)
(* PickNext has returned s (Benchmark): the resets before PBFS and its     *)
(* sequential beginning.                                                   *)
(***************************************************************************)
Begin(s) ==
  /\ part = "pick"
  /\ sources' = Append(sources, s)
  /\ depths' = [n \in Nodes |-> IF n = s THEN 0 ELSE -1]
  /\ path_counts' = [n \in Nodes |-> IF n = s THEN 1 ELSE 0]
  /\ shared' = <<s>>
  /\ succ' = {}
  /\ out_start' = 0 /\ out_end' = 1
  /\ depth_index' = <<0>>
  /\ depth' = 1
  /\ pending' = {1}
  /\ part' = "bfs"
  /\ UNCHANGED <<g, results, threadVars>>

Goto(t, where) == at' = [at EXCEPT ![t] = where]

\* Thread t moves to edge j of vertex x, or ends the iteration after the last.
EdgeOrEnd(t, x, j) ==
  /\ count' = [count EXCEPT ![t] = 0]
  /\ IF j <= out_degree(g, x)
     THEN /\ Goto(t, "test")
          /\ u' = [u EXCEPT ![t] = x]
          /\ i' = [i EXCEPT ![t] = j]
     ELSE /\ Goto(t, "idle")
          /\ u' = [u EXCEPT ![t] = 0]
          /\ i' = [i EXCEPT ![t] = 0]

NextEdge(t) == EdgeOrEnd(t, u[t], i[t] + 1)

v(t) == g.out[u[t]][i[t]]

TakeVertex(t) ==
  /\ part = "bfs" /\ at[t] = "idle"
  /\ \E k \in pending : pending' = pending \ {k} /\ EdgeOrEnd(t, shared[k], 1)
  /\ UNCHANGED <<g, sources, bfs, levels, results, part>>

\* depths[v] == -1
Test(t) ==
  /\ at[t] = "test"
  /\ Goto(t, IF depths[v(t)] = -1 THEN "cas" ELSE "retest")
  /\ UNCHANGED <<g, sources, bfs, levels, results, part, pending, u, i, count>>

\* Mutant of CAS: a thread that comes too late takes the vertex for a known one.
CASSkips(t) ==
  /\ at[t] = "cas"
  /\ IF depths[v(t)] = -1
     THEN /\ depths' = [depths EXCEPT ![v(t)] = depth]
          /\ shared' = Append(shared, v(t))
          /\ Goto(t, "retest")
          /\ UNCHANGED <<u, i, count>>
     ELSE NextEdge(t) /\ UNCHANGED <<depths, shared>>
  /\ UNCHANGED <<g, sources, path_counts, succ, levels, results, part, pending>>

\* compare_and_swap(depths[v], -1, depth)
CAS(t) ==
  /\ at[t] = "cas"
  /\ IF depths[v(t)] = -1
     THEN /\ depths' = [depths EXCEPT ![v(t)] = depth]
          /\ shared' = Append(shared, v(t))
     ELSE UNCHANGED <<depths, shared>>
  /\ Goto(t, "retest")
  /\ UNCHANGED <<g, sources, path_counts, succ, levels, results, part, pending, u, i, count>>

\* depths[v] == depth, whoever set it.
Retest(t) ==
  /\ at[t] = "retest"
  /\ IF depths[v(t)] = depth
     THEN Goto(t, "succ") /\ UNCHANGED <<u, i, count>>
     ELSE NextEdge(t)
  /\ UNCHANGED <<g, sources, bfs, levels, results, part, pending>>

SetSucc(t) ==
  /\ at[t] = "succ"
  /\ succ' = succ \cup {<<u[t], i[t]>>}
  /\ Goto(t, "count")
  /\ UNCHANGED <<g, sources, depths, path_counts, shared, levels, results, part, pending, u, i,
                 count>>

\* path_counts[u], before the atomic addition.
ReadCount(t) ==
  /\ at[t] = "count"
  /\ count' = [count EXCEPT ![t] = path_counts[u[t]]]
  /\ Goto(t, "add")
  /\ UNCHANGED <<g, sources, bfs, levels, results, part, pending, u, i>>

Add(t) ==
  /\ at[t] = "add"
  /\ path_counts' = [path_counts EXCEPT ![v(t)] = @ + count[t]]
  /\ NextEdge(t)
  /\ UNCHANGED <<g, sources, depths, succ, shared, levels, results, part, pending>>

LevelStep(t) ==
  \/ TakeVertex(t) \/ Test(t) \/ CAS(t) \/ Retest(t) \/ SetSucc(t) \/ ReadCount(t) \/ Add(t)

\* Queue positions of the level with index k of depth_index.
Positions(index, k) == (index[k + 1] + 1) .. index[k + 2]

(***************************************************************************)
(* After the barrier one thread notes where the level began and slides the *)
(* window.  When the queue is empty the region ends, and the deepest level *)
(* is the first whose dependencies are accumulated.                        *)
(***************************************************************************)
EndLevel ==
  /\ part = "bfs" /\ pending = {} /\ \A t \in Team : at[t] = "idle"
  /\ out_start' = out_end
  /\ out_end' = Len(shared)
  /\ \/ /\ out_end < Len(shared)
        /\ depth_index' = Append(depth_index, out_start)
        /\ depth' = depth + 1
        /\ pending' = (out_end + 1) .. Len(shared)
        /\ UNCHANGED <<part, deltas, d>>
     \/ /\ out_end = Len(shared)
        /\ depth_index' = depth_index \o <<out_start, out_end>>
        /\ depth' = 0
        /\ part' = "back"
        /\ deltas' = [n \in Nodes |-> 0]
        /\ d' = Len(depth_index)
        /\ pending' = Positions(depth_index', d')
  /\ UNCHANGED <<g, sources, bfs, scores, biggest_score, threadVars>>

PBFS == (\E t \in Team : LevelStep(t)) \/ EndLevel

-----------------------------------------------------------------------------
\* Mutant of Dependency: the quotient of two counts is a whole number.
DependencyWhole(x) ==
  LET sum[j \in 0 .. out_degree(g, x)] ==
        IF j = 0 THEN 0
        ELSE LET y == g.out[x][j]
             IN  sum[j - 1] + (IF <<x, j>> \in succ
                               THEN (path_counts[x] \div path_counts[y]) * (Unit + deltas[y])
                               ELSE 0)
  IN  sum[out_degree(g, x)]

\* delta_u: the sum over the successors y of (counts[x] / counts[y]) (1 + deltas[y]).
Dependency(x) ==
  LET sum[j \in 0 .. out_degree(g, x)] ==
        IF j = 0 THEN 0
        ELSE LET y == g.out[x][j]
             IN  sum[j - 1] + (IF <<x, j>> \in succ
                               THEN (path_counts[x] * (Unit + deltas[y])) \div path_counts[y]
                               ELSE 0)
  IN  sum[out_degree(g, x)]

\* One iteration of the loop over a level: it writes deltas and scores of u only.
Accumulate ==
  /\ part = "back"
  /\ \E k \in pending :
       LET x == shared[k]
       IN  /\ pending' = pending \ {k}
           /\ deltas' = [deltas EXCEPT ![x] = Dependency(x)]
           /\ scores' = [scores EXCEPT ![x] = @ + Dependency(x)]
  /\ UNCHANGED <<g, sources, bfs, levels, biggest_score, d, part, threadVars>>

NextDepth ==
  /\ part = "back" /\ pending = {}
  /\ \/ /\ d > 0
        /\ d' = d - 1
        /\ pending' = Positions(depth_index, d - 1)
        /\ part' = part
     \/ /\ d = 0
        /\ part' = IF Len(sources) < num_iters THEN "pick" ELSE "normalize"
        /\ UNCHANGED <<d, pending>>
  /\ UNCHANGED <<g, sources, bfs, levels, deltas, scores, biggest_score, threadVars>>

\* The biggest score; every score is divided by it.
Normalize ==
  /\ part = "normalize"
  /\ \E n \in Nodes :
       /\ \A m \in Nodes : scores[m] <= scores[n]
       /\ biggest_score' = scores[n]
  /\ part' = "done"
  /\ UNCHANGED <<g, sources, bfs, levels, deltas, scores, d, pending, threadVars>>

-----------------------------------------------------------------------------
(***************************************************************************)
(* Reference definitions over a graph gr: the walks of length k from s to  *)
(* y, counted over the entries of the lists; the length of a shortest one  *)
(* (NumNodes if there is none), and how many of that length there are.     *)
(***************************************************************************)
Walks(gr, s, k, y) ==
  LET w[l \in 0 .. k] ==
        [z \in Nodes |->
          IF l = 0 THEN (IF z = s THEN 1 ELSE 0)
          ELSE LET sum[j \in 0 .. in_degree(gr, z)] ==
                     IF j = 0 THEN 0 ELSE sum[j - 1] + w[l - 1][gr.inv[z][j]]
               IN  sum[in_degree(gr, z)]]
  IN  w[k][y]

Distance ==
  [gr \in Graphs |-> [s \in Nodes |-> [y \in Nodes |->
    CHOOSE k \in 0 .. NumNodes :
      /\ k < NumNodes => Walks(gr, s, k, y) > 0
      /\ \A l \in 0 .. (k - 1) : Walks(gr, s, l, y) = 0]]]

PathCount ==
  [gr \in Graphs |->
    [s \in Nodes |-> [y \in Nodes |-> Walks(gr, s, Distance[gr][s][y], y)]]]

\* Edge j of x is on a shortest path from the source.
OnShortestPath(x, j) ==
  j <= out_degree(g, x) /\ depths[x] # -1 /\ depths[g.out[x][j]] = depths[x] + 1

(***************************************************************************)
(* When a level is expanded the path counts that its threads read without  *)
(* synchronisation are already the numbers of shortest paths; the counts   *)
(* of the level being built never exceed theirs.  The successor bits left  *)
(* for the back-propagation are those of the edges on shortest paths from  *)
(* this source, none of an earlier one.                                    *)
(***************************************************************************)
CountsComplete ==
  /\ part = "bfs" =>
    \A n \in Nodes : depths[n] # -1 =>
      /\ depths[n] = Distance[g][source][n]
      /\ IF depths[n] < depth
         THEN path_counts[n] = PathCount[g][source][n]
         ELSE path_counts[n] <= PathCount[g][source][n]
  /\ part = "back" =>
    succ = {p \in Nodes \X (1 .. num_edges_directed(g)) : OnShortestPath(p[1], p[2])}

(***************************************************************************)
(* Brandes' dependency of s on x: for every other vertex y, the fraction   *)
(* of the shortest paths from s to y that x is on.  As in BCVerifier, the  *)
(* source itself is not left out.                                          *)
(***************************************************************************)
OnPath(gr, s, x, y) ==
  /\ x # y /\ Distance[gr][s][y] < NumNodes
  /\ Distance[gr][s][x] + Distance[gr][x][y] = Distance[gr][s][y]

DependencyOn ==
  [gr \in Graphs |-> [s \in Nodes |-> [x \in Nodes |->
    LET sum[k \in 0 .. NumNodes] ==
          IF k = 0 THEN 0
          ELSE LET y == k - 1
               IN  sum[k - 1]
                     + (IF OnPath(gr, s, x, y)
                        THEN (Unit * PathCount[gr][s][x] * PathCount[gr][x][y])
                               \div PathCount[gr][s][y]
                        ELSE 0)
    IN  sum[NumNodes]]]]

(***************************************************************************)
(* The scores are the sums of the dependencies of all sources, and         *)
(* BCVerifier accepts them when they were divided by the biggest, but not  *)
(* with one more or less than they are.                                    *)
(***************************************************************************)
ScoresExact ==
  /\ part \in {"normalize", "done"} =>
       \A x \in Nodes :
         LET sum[k \in 0 .. Len(sources)] ==
               IF k = 0 THEN 0 ELSE sum[k - 1] + DependencyOn[g][sources[k]][x]
         IN  scores[x] = sum[Len(sources)]
  /\ part = "done" =>
       \A n \in Nodes, c \in {-1, 0, 1} :
         BCVerifier(g, sources, Unit, [scores EXCEPT ![n] = @ + c], biggest_score) <=> c = 0
=============================================================================
