----------------------------- MODULE DeltaStep -----------------------------
(***************************************************************************)
(* Single-source shortest paths by delta-stepping (gapbs/src/sssp.cc).     *)
(*                                                                         *)
(* The whole kernel is one parallel region.  In the first phase of an      *)
(* iteration the threads share out the frontier, then each empties its own *)
(* current bin for as long as that bin is small (bucket fusion), and votes *)
(* for the next bin.  In the second phase each copies its part of that bin *)
(* into the frontier.  Barriers end both phases; the bin index and the     *)
(* frontier's length exist twice, for the current and the next iteration,  *)
(* and one thread resets the current ones while the others already copy.   *)
(*                                                                         *)
(* A copy is one step: nobody reads the frontier before the next barrier.  *)
(* Bins beyond the size of a thread's vector are empty bins here.          *)
(***************************************************************************)
EXTENDS Verifiers

CONSTANTS
  Threads,             \* the OpenMP team
  Graphs,              \* the weighted graphs the kernel may be given
  Deltas,              \* the values delta may have
  kDistInf,            \* the distance of an unreached vertex
  kMaxBin,             \* no bin: more than every bin index
  kBinSizeThreshold    \* a local bin of this size or more is not fused

ASSUME GraphsAssumption == \A gr \in Graphs : IsWGraph(gr)
ASSUME ThreadsAssumption == Threads # {}
ASSUME DeltasAssumption == Deltas \subseteq Nat \ {0}
ASSUME LimitsAssumption ==
  /\ kDistInf \in Nat \ {0} /\ kMaxBin \in Nat /\ kBinSizeThreshold \in Nat
  /\ kDistInf <= kMaxBin

VARIABLES
  g, source, delta,   \* the arguments
  dist,               \* the distances, shared by all threads
  frontier,           \* the entries of the shared bin; what is left above the
                      \* range copied last is not kept
  frontier_tails,     \* its length for this iteration and for the next
  shared_indexes,     \* the bin of this iteration and of the next
  iter,               \* the parity of the iteration: curr = iter, next = 1 - iter
  single,             \* has a thread taken the single block
  todo,               \* positions of the frontier no thread has taken yet
  pc,                 \* what each thread does next
  local_bins,         \* per thread
  rest,               \* per thread: what remains of curr_bin_copy
  u, i,               \* per thread: vertex, and position in its list
  old_dist, new_dist  \* per thread: the locals of RelaxEdges

args == <<g, source, delta>>
indexes == <<shared_indexes, frontier_tails, iter, single>>
locals == <<u, i, old_dist, new_dist>>
vars == <<g, source, delta, dist, frontier, frontier_tails, shared_indexes, iter, single,
          todo, pc, local_bins, rest, u, i, old_dist, new_dist>>

Bins == 0 .. (kMaxBin - 1)

curr_bin_index == shared_indexes[iter]
next_bin_index == shared_indexes[1 - iter]
next_frontier_tail == frontier_tails[1 - iter]

RelaxPCs == {"old", "new", "cas", "reread"}
PCs == {"loop", "filter", "voted", "single", "copy", "copied", "done"} \cup RelaxPCs

Init ==
  /\ g \in Graphs /\ source \in Nodes /\ delta \in Deltas
  /\ dist = [n \in Nodes |-> IF n = source THEN 0 ELSE kDistInf]
  /\ frontier = <<source>>
  /\ frontier_tails = [k \in {0, 1} |-> IF k = 0 THEN 1 ELSE 0]
  /\ shared_indexes = [k \in {0, 1} |-> IF k = 0 THEN 0 ELSE kMaxBin]
  /\ iter = 0
  /\ single = FALSE
  /\ todo = {1}
  /\ pc = [t \in Threads |-> "loop"]
  /\ local_bins = [t \in Threads |-> [b \in Bins |-> <<>>]]
  /\ rest = [t \in Threads |-> <<>>]
  /\ u = [t \in Threads |-> 0]
  /\ i = [t \in Threads |-> 0]
  /\ old_dist = [t \in Threads |-> 0]
  /\ new_dist = [t \in Threads |-> 0]

-----------------------------------------------------------------------------
(***************************************************************************)
(* RelaxEdges, one shared access at a time.                                *)
(***************************************************************************)
Goto(t, where) == pc' = [pc EXCEPT ![t] = where]

v(t) == g.out[u[t]][i[t]]

\* Thread t moves to edge j of vertex x, or returns after the last.
EdgeOrReturn(t, x, j) ==
  /\ old_dist' = [old_dist EXCEPT ![t] = 0]
  /\ new_dist' = [new_dist EXCEPT ![t] = 0]
  /\ IF j <= out_degree(g, x)
     THEN /\ Goto(t, "old")
          /\ u' = [u EXCEPT ![t] = x]
          /\ i' = [i EXCEPT ![t] = j]
     ELSE /\ Goto(t, "loop")
          /\ u' = [u EXCEPT ![t] = 0]
          /\ i' = [i EXCEPT ![t] = 0]

NextEdge(t) == EdgeOrReturn(t, u[t], i[t] + 1)

\* old_dist = dist[wn.v]
ReadOld(t) ==
  /\ pc[t] = "old"
  /\ old_dist' = [old_dist EXCEPT ![t] = dist[v(t)]]
  /\ Goto(t, "new")
  /\ UNCHANGED <<args, dist, frontier, indexes, todo, local_bins, rest, u, i, new_dist>>

\* new_dist = dist[u] + wn.w, and the test of the while loop.
ReadNew(t) ==
  /\ pc[t] = "new"
  /\ LET new == dist[u[t]] + g.weight[u[t]][i[t]]
     IN  IF new < old_dist[t]
         THEN /\ new_dist' = [new_dist EXCEPT ![t] = new]
              /\ Goto(t, "cas")
              /\ UNCHANGED <<u, i, old_dist>>
         ELSE NextEdge(t)
  /\ UNCHANGED <<args, dist, frontier, indexes, todo, local_bins, rest>>

dest_bin(d) == d \div delta

\* Mutant of CAS: a failed swap is not tried again.
CASGivesUp(t) ==
  /\ pc[t] = "cas"
  /\ IF dist[v(t)] = old_dist[t]
     THEN /\ dist' = [dist EXCEPT ![v(t)] = new_dist[t]]
          /\ local_bins' = [local_bins EXCEPT ![t][dest_bin(new_dist[t])] = Append(@, v(t))]
     ELSE UNCHANGED <<dist, local_bins>>
  /\ NextEdge(t)
  /\ UNCHANGED <<args, frontier, indexes, todo, rest>>

\* compare_and_swap(dist[wn.v], old_dist, new_dist); the vertex goes into a bin.
CAS(t) ==
  /\ pc[t] = "cas"
  /\ \/ /\ dist[v(t)] = old_dist[t]
        /\ dist' = [dist EXCEPT ![v(t)] = new_dist[t]]
        /\ local_bins' = [local_bins EXCEPT ![t][dest_bin(new_dist[t])] = Append(@, v(t))]
        /\ NextEdge(t)
     \/ /\ dist[v(t)] # old_dist[t]
        /\ Goto(t, "reread")
        /\ UNCHANGED <<dist, local_bins, locals>>
  /\ UNCHANGED <<args, frontier, indexes, todo, rest>>

\* old_dist = dist[wn.v], and the test of the while loop.
Reread(t) ==
  /\ pc[t] = "reread"
  /\ IF new_dist[t] < dist[v(t)]
     THEN /\ old_dist' = [old_dist EXCEPT ![t] = dist[v(t)]]
          /\ Goto(t, "cas")
          /\ UNCHANGED <<u, i, new_dist>>
     ELSE NextEdge(t)
  /\ UNCHANGED <<args, dist, frontier, indexes, todo, local_bins, rest>>

RelaxEdges(t) == ReadOld(t) \/ ReadNew(t) \/ CAS(t) \/ Reread(t)

-----------------------------------------------------------------------------
(***************************************************************************)
(* The first phase.  The loop over the frontier has no barrier: a thread   *)
(* that finds no iteration left goes on to its own bin while others relax. *)
(***************************************************************************)
Claim(t) ==
  /\ pc[t] = "loop" /\ rest[t] = <<>>
  /\ \E k \in todo :
       /\ todo' = todo \ {k}
       /\ u' = [u EXCEPT ![t] = frontier[k]]
  /\ Goto(t, "filter")
  /\ UNCHANGED <<args, dist, frontier, indexes, local_bins, rest, i, old_dist, new_dist>>

\* A vertex that has left the current bin for a lower one is skipped.
Filter(t) ==
  /\ pc[t] = "filter"
  /\ IF dist[u[t]] >= delta * curr_bin_index
     THEN EdgeOrReturn(t, u[t], 1)
     ELSE /\ Goto(t, "loop")
          /\ u' = [u EXCEPT ![t] = 0]
          /\ UNCHANGED <<i, old_dist, new_dist>>
  /\ UNCHANGED <<args, dist, frontier, indexes, todo, local_bins, rest>>

Fusible(t) ==
  LET bin == local_bins[t][curr_bin_index]
  IN  bin # <<>> /\ Len(bin) < kBinSizeThreshold

\* curr_bin_copy = the current bin, which is emptied.
Fuse(t) ==
  /\ pc[t] = "loop" /\ rest[t] = <<>> /\ todo = {}
  /\ Fusible(t)
  /\ rest' = [rest EXCEPT ![t] = local_bins[t][curr_bin_index]]
  /\ local_bins' = [local_bins EXCEPT ![t][curr_bin_index] = <<>>]
  /\ UNCHANGED <<args, dist, frontier, indexes, todo, pc, locals>>

\* The next vertex of the copy, without the filter.
TakeFused(t) ==
  /\ pc[t] = "loop" /\ rest[t] # <<>>
  /\ EdgeOrReturn(t, Head(rest[t]), 1)
  /\ rest' = [rest EXCEPT ![t] = Tail(@)]
  /\ UNCHANGED <<args, dist, frontier, indexes, todo, local_bins>>

NonEmpty(t) == {b \in Bins : b >= curr_bin_index /\ local_bins[t][b] # <<>>}

\* Mutant of Vote: the last vote wins, not the lowest.
VoteLast(t) ==
  /\ pc[t] = "loop" /\ rest[t] = <<>> /\ todo = {}
  /\ ~Fusible(t)
  /\ IF NonEmpty(t) = {}
     THEN UNCHANGED shared_indexes
     ELSE \E b \in NonEmpty(t) :
            /\ \A k \in NonEmpty(t) : b <= k
            /\ shared_indexes' = [shared_indexes EXCEPT ![1 - iter] = b]
  /\ Goto(t, "voted")
  /\ UNCHANGED <<args, dist, frontier, frontier_tails, iter, single, todo, local_bins, rest,
                 locals>>

\* The lowest bin in use, from the current one up; min under a critical section.
Vote(t) ==
  /\ pc[t] = "loop" /\ rest[t] = <<>> /\ todo = {}
  /\ ~Fusible(t)
  /\ IF NonEmpty(t) = {}
     THEN UNCHANGED shared_indexes
     ELSE \E b \in NonEmpty(t) :
            /\ \A k \in NonEmpty(t) : b <= k
            /\ shared_indexes' = [shared_indexes EXCEPT ![1 - iter] = MinOf(@, b)]
  /\ Goto(t, "voted")
  /\ UNCHANGED <<args, dist, frontier, frontier_tails, iter, single, todo, local_bins, rest,
                 locals>>

EndFirstPhase ==
  /\ \A t \in Threads : pc[t] = "voted"
  /\ pc' = [t \in Threads |-> "single"]
  /\ single' = FALSE
  /\ UNCHANGED <<args, dist, frontier, shared_indexes, frontier_tails, iter, todo, local_bins,
                 rest, locals>>

-----------------------------------------------------------------------------
(***************************************************************************)
(* The second phase.                                                       *)
(***************************************************************************)
\* Mutant of Single: the index of the current bin is not reset.
SingleKeepsIndex(t) ==
  /\ pc[t] = "single"
  /\ IF single
     THEN UNCHANGED <<single, shared_indexes, frontier_tails>>
     ELSE /\ single' = TRUE
          /\ frontier_tails' = [frontier_tails EXCEPT ![iter] = 0]
          /\ UNCHANGED shared_indexes
  /\ Goto(t, "copy")
  /\ UNCHANGED <<args, dist, frontier, iter, todo, local_bins, rest, locals>>

\* The first thread to arrive executes the block, the others go on at once.
Single(t) ==
  /\ pc[t] = "single"
  /\ IF single
     THEN UNCHANGED <<single, shared_indexes, frontier_tails>>
     ELSE /\ single' = TRUE
          /\ shared_indexes' = [shared_indexes EXCEPT ![iter] = kMaxBin]
          /\ frontier_tails' = [frontier_tails EXCEPT ![iter] = 0]
  /\ Goto(t, "copy")
  /\ UNCHANGED <<args, dist, frontier, iter, todo, local_bins, rest, locals>>

\* Mutant of Copy: the tail is set, not added to.
CopySetsTail(t) ==
  /\ pc[t] = "copy"
  /\ IF next_bin_index < kMaxBin
     THEN LET bin == local_bins[t][next_bin_index]
          IN  /\ frontier' = bin
              /\ frontier_tails' = [frontier_tails EXCEPT ![1 - iter] = Len(bin)]
              /\ local_bins' = [local_bins EXCEPT ![t][next_bin_index] = <<>>]
     ELSE UNCHANGED <<frontier, frontier_tails, local_bins>>
  /\ Goto(t, "copied")
  /\ UNCHANGED <<args, dist, shared_indexes, iter, single, todo, rest, locals>>

\* copy_start = fetch_and_add(next_frontier_tail, size); copy from there on.
Copy(t) ==
  /\ pc[t] = "copy"
  /\ IF next_bin_index < kMaxBin
     THEN LET bin == local_bins[t][next_bin_index]
              copy_start == next_frontier_tail
          IN  /\ frontier' = SubSeq(frontier, 1, copy_start) \o bin
              /\ frontier_tails' = [frontier_tails EXCEPT ![1 - iter] = @ + Len(bin)]
              /\ local_bins' = [local_bins EXCEPT ![t][next_bin_index] = <<>>]
     ELSE UNCHANGED <<frontier, frontier_tails, local_bins>>
  /\ Goto(t, "copied")
  /\ UNCHANGED <<args, dist, shared_indexes, iter, single, todo, rest, locals>>

\* iter++, the barrier, and the test of the while loop.
EndSecondPhase ==
  /\ \A t \in Threads : pc[t] = "copied"
  /\ iter' = 1 - iter
  /\ \/ /\ next_bin_index # kMaxBin
        /\ todo' = 1 .. next_frontier_tail
        /\ pc' = [t \in Threads |-> "loop"]
     \/ /\ next_bin_index = kMaxBin
        /\ todo' = {}
        /\ pc' = [t \in Threads |-> "done"]
  /\ UNCHANGED <<args, dist, frontier, shared_indexes, frontier_tails, single, local_bins, rest,
                 locals>>

Thread(t) ==
  \/ Claim(t) \/ Filter(t) \/ RelaxEdges(t) \/ Fuse(t) \/ TakeFused(t) \/ Vote(t)
  \/ Single(t) \/ Copy(t)

Next == (\E t \in Threads : Thread(t)) \/ EndFirstPhase \/ EndSecondPhase

Spec == Init /\ [][Next]_vars

\* As long as the kernel can take a step, some thread of the team takes one.
Fairness == WF_vars(Next)

FairSpec == Spec /\ Fairness

-----------------------------------------------------------------------------
Done == \A t \in Threads : pc[t] = "done"

Relaxable(x, j) == dist[x] + g.weight[x][j] < dist[g.out[x][j]]

(***************************************************************************)
(* Weights are positive, so d has the distances from source exactly when   *)
(* source has distance 0, no edge shortens a distance, and every other     *)
(* distance comes over an edge from a vertex that has its own.             *)
(***************************************************************************)
ShortestDistances(d) ==
  /\ d[source] = 0
  /\ \A x \in Nodes : \A j \in 1 .. out_degree(g, x) :
       d[g.out[x][j]] <= d[x] + g.weight[x][j]
  /\ \A y \in Nodes : d[y] < kDistInf /\ y # source =>
       \E x \in Nodes : \E j \in 1 .. out_degree(g, x) :
         g.out[x][j] = y /\ d[y] = d[x] + g.weight[x][j]

\* What the kernel returns are the shortest distances.
ShortestFound == Done => ShortestDistances(dist)

(***************************************************************************)
(* The result is the shortest distances, and SSSPVerifier knows: its       *)
(* Dijkstra accepts them, and no array with another distance in it.        *)
(***************************************************************************)
Correct ==
  /\ ShortestFound
  /\ Done =>
       \A n \in Nodes, w \in 0 .. kDistInf :
         SSSPVerifier(g, source, kDistInf, [dist EXCEPT ![n] = w]) <=> w = dist[n]

In(x, s) == \E k \in 1 .. Len(s) : s[k] = x

(***************************************************************************)
(* Where a vertex waits to have edge j relaxed with its present distance:  *)
(* in the bin of that distance, in the part of the frontier not yet taken, *)
(* in the copy of a fused bin, or in the hands of a thread that has not    *)
(* got past edge j, or has, but will swap exactly this distance in.        *)
(***************************************************************************)
Waits(x, j) ==
  \/ \E t \in Threads : In(x, local_bins[t][dest_bin(dist[x])]) \/ In(x, rest[t])
  \/ \E k \in todo : frontier[k] = x
  \/ /\ \E t \in Threads : pc[t] \in {"copy", "copied"}
     /\ \E k \in 1 .. next_frontier_tail : frontier[k] = x
  \/ \E t \in Threads :
       /\ u[t] = x
       /\ \/ pc[t] = "filter"
          \/ pc[t] \in {"old", "new"} /\ i[t] <= j
          \/ pc[t] \in {"cas", "reread"} /\ i[t] < j
          \/ pc[t] \in {"cas", "reread"} /\ i[t] = j /\ new_dist[t] = dist[x] + g.weight[x][j]

(***************************************************************************)
(* No improvement is lost between bins, copies, frontier and threads: an   *)
(* edge that would shorten a distance has a vertex that still waits.       *)
(***************************************************************************)
NothingLost ==
  \A x \in Nodes : \A j \in 1 .. out_degree(g, x) : Relaxable(x, j) => Waits(x, j)

(***************************************************************************)
(* The priority order that bucket fusion must not violate (sssp.cc:48-50): *)
(* while the threads work on bin k, every edge that would still shorten a  *)
(* distance starts at delta * k or further away, so that all distances     *)
(* below that are final.                                                   *)
(***************************************************************************)
Settled ==
  curr_bin_index # kMaxBin =>
    \A x \in Nodes : \A j \in 1 .. out_degree(g, x) :
      Relaxable(x, j) => dist[x] >= delta * curr_bin_index

(***************************************************************************)
(* The shared frontier was given num_edges_directed entries (sssp.cc:93).  *)
(* The header says each thread copies its bin "into the shared bin"        *)
(* (sssp.cc:38-39), so what the threads copy has to fit.                   *)
(***************************************************************************)
FrontierFits == Len(frontier) <= num_edges_directed(g)

(***************************************************************************)
(* The kernel ends: the bins are used up, and the index that says so is    *)
(* reset in time.                                                          *)
(***************************************************************************)
Termination == <>Done
=============================================================================
