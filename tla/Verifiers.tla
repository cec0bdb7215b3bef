----------------------------- MODULE Verifiers -----------------------------
(***************************************************************************)
(* The checkers that come with the kernels (option -v): a serial search or *)
(* computation of its own, compared with the kernel's result.  A list of   *)
(* vertices that is appended to while it is walked holds them level by     *)
(* level, so that the walk is a recursive function of the level.           *)
(***************************************************************************)
EXTENDS CSRGraph, FiniteSetsExt

(***************************************************************************)
(* CCVerifier: a search from one vertex of each label, the last that has   *)
(* it, along edges in both directions.  It fails as soon as it meets       *)
(* another label, and at the end if a vertex was not visited.              *)
(***************************************************************************)
label_to_source(comp) ==
  [l \in {comp[n] : n \in Nodes} |->
     CHOOSE n \in Nodes : comp[n] = l /\ \A m \in Nodes : comp[m] = l => m <= n]

NeighboursOf(g, x) ==
  {y \in Nodes : HasOutEdge(g, x, y) \/ (g.directed /\ HasInEdge(g, x, y))}

VisitedFrom(g, s) ==
  LET v[k \in 0 .. NumNodes] ==
        IF k = 0 THEN {s}
        ELSE LET w == v[k - 1] IN w \cup UNION {NeighboursOf(g, x) : x \in w}
  IN  v[NumNodes]

\* Mutant of CCVerifier: the last loop, over the vertices not visited, is missing.
CCVerifierUnvisited(g, comp) ==
  \A l \in DOMAIN label_to_source(comp) :
    \A x \in VisitedFrom(g, label_to_source(comp)[l]) :
      \A y \in NeighboursOf(g, x) : comp[y] = l

CCVerifier(g, comp) ==
  LET source == label_to_source(comp)
  IN  /\ \A l \in DOMAIN source : \A x \in VisitedFrom(g, source[l]) :
           \A y \in NeighboursOf(g, x) : comp[y] = l
      /\ Nodes = UNION {VisitedFrom(g, source[l]) : l \in DOMAIN source}

-----------------------------------------------------------------------------
(***************************************************************************)
(* The serial breadth-first search of BFSVerifier and of BCVerifier; the   *)
(* latter adds up the numbers of shortest paths on the way.                *)
(***************************************************************************)
NewDepths(g, level, depth) ==
  LET above == {x \in Nodes : depth[x] = level - 1}
      new   == {y \in Nodes : depth[y] = -1 /\ \E x \in above : HasOutEdge(g, x, y)}
  IN  [n \in Nodes |-> IF n \in new THEN level ELSE depth[n]]

SerialDepths(g, source) ==
  LET after[level \in 0 .. NumNodes] ==
        IF level = 0 THEN [n \in Nodes |-> IF n = source THEN 0 ELSE -1]
                     ELSE NewDepths(g, level, after[level - 1])
  IN  after[NumNodes]

\* The sum of f[x] over the x of a finite set.
SumOver(f, S) == MapThenSumSet(LAMBDA x : f[x], S)

NewCounts(g, depths, level, counts) ==
  LET above       == {x \in Nodes : depths[x] = level - 1}
      edges(x, n) == Cardinality({j \in DOMAIN g.out[x] : g.out[x][j] = n})
  IN  [n \in Nodes |-> IF depths[n] = level
                       THEN SumOver([x \in above |-> counts[x] * edges(x, n)], above)
                       ELSE counts[n]]

SerialSearch(g, source) ==
  LET depths == SerialDepths(g, source)
      after[level \in 0 .. NumNodes] ==
        IF level = 0 THEN [n \in Nodes |-> IF n = source THEN 1 ELSE 0]
                     ELSE NewCounts(g, depths, level, after[level - 1])
  IN  [depths |-> depths, path_counts |-> after[NumNodes]]

BFSVerifier(g, source, parent) ==
  LET depth == SerialDepths(g, source)
  IN  \A x \in Nodes :
        IF depth[x] # -1 /\ parent[x] # -1
        THEN IF x = source THEN parent[x] = x
             ELSE /\ HasInEdge(g, x, parent[x])
                  /\ depth[parent[x]] = depth[x] - 1
        ELSE depth[x] = parent[x]

-----------------------------------------------------------------------------
(***************************************************************************)
(* The serial Dijkstra of SSSPVerifier.  An entry of mq is a pair of a     *)
(* distance and a vertex; no pair is pushed twice, as each push lowers the *)
(* vertex's distance.  An entry that is out of date is popped and dropped. *)
(***************************************************************************)
TopOf(mq) ==
  CHOOSE p \in mq : \A q \in mq : p[1] < q[1] \/ (p[1] = q[1] /\ p[2] <= q[2])

\* The neighbours of x, by position, that an entry of distance td improves.
Improved(g, dist, td, x) ==
  IF td # dist[x] THEN {}
  ELSE {j \in 1 .. out_degree(g, x) : td + g.weight[x][j] < dist[g.out[x][j]]}

PopTop(g, s) ==
  LET top == TopOf(s.mq)
      td  == top[1]
      x   == top[2]
      better == Improved(g, s.dist, td, x)
  IN  [dist |-> [n \in Nodes |->
                   Min({s.dist[n]} \cup {td + g.weight[x][j] : j \in {h \in better : g.out[x][h] = n}})],
       mq   |-> (s.mq \ {top}) \cup {<<td + g.weight[x][j], g.out[x][j]>> : j \in better}]

\* The loop ends when mq is empty: each entry of a list is pushed at most once.
oracle_dist(g, source, kDistInf) ==
  LET pops == Cardinality(UNION {{x} \X (1 .. out_degree(g, x)) : x \in Nodes}) + 1
      after[k \in 0 .. pops] ==
        IF k = 0
        THEN [dist |-> [n \in Nodes |-> IF n = source THEN 0 ELSE kDistInf],
              mq   |-> {<<0, source>>}]
        ELSE LET s == after[k - 1] IN IF s.mq = {} THEN s ELSE PopTop(g, s)
  IN  after[pops].dist

SSSPVerifier(g, source, kDistInf, dist_to_test) ==
  LET oracle == oracle_dist(g, source, kDistInf)
  IN  \A n \in Nodes : dist_to_test[n] = oracle[n]

-----------------------------------------------------------------------------
\* TCVerifier: the lists are sorted and have no duplicates, as the builder leaves them.
TCVerifier(g, test_total) ==
  LET common(x, y) == {k \in DOMAIN g.out[x] : HasOutEdge(g, y, g.out[x][k])}
      pairs == {p \in Nodes \X (1 .. NumNodes) : p[2] <= out_degree(g, p[1])}
      total == Cardinality(UNION {{p} \X common(p[1], g.out[p[1]][p[2]]) : p \in pairs})
  IN  total \div 6 = test_total

-----------------------------------------------------------------------------
(***************************************************************************)
(* BCVerifier: for each source the dependencies of the vertices of each    *)
(* depth, farthest first, from the depths alone (no successor bitmap).     *)
(* They are whole numbers of 1/one, as in Brandes.  Scores are compared as *)
(* fractions of the biggest one: test[n] / biggest.                        *)
(***************************************************************************)
\* What x gets from its successor at position j, before it is known to be one.
Share(g, counts, one, deltas, x) ==
  [j \in DOMAIN g.out[x] |->
     (counts[x] * (one + deltas[g.out[x][j]])) \div counts[g.out[x][j]]]

NewDependencies(g, s, one, depth, deltas) ==
  LET successors(x) == {j \in DOMAIN g.out[x] : s.depths[g.out[x][j]] = depth + 1}
  IN  [n \in Nodes |-> IF s.depths[n] = depth
                       THEN SumOver(Share(g, s.path_counts, one, deltas, n), successors(n))
                       ELSE deltas[n]]

\* k levels are done; those that are deeper than the search went are empty.
Dependencies(g, source, one) ==
  LET s == SerialSearch(g, source)
      after[k \in 0 .. NumNodes] ==
        IF k = 0 THEN [n \in Nodes |-> 0]
                 ELSE NewDependencies(g, s, one, NumNodes - k, after[k - 1])
  IN  after[NumNodes]

BCVerifier(g, sources, one, test, biggest) ==
  LET deltas == [k \in DOMAIN sources |-> Dependencies(g, sources[k], one)]
      scores == [n \in Nodes |-> SumOver([k \in DOMAIN sources |-> deltas[k][n]], DOMAIN sources)]
      biggest_score == Max({scores[n] : n \in Nodes})
  IN  \A n \in Nodes : test[n] * biggest_score = scores[n] * biggest
=============================================================================
