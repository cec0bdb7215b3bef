-------------------------- MODULE DeltaStep_proofs --------------------------
(***************************************************************************)
(* No improvement is lost, no settled distance changes, and the distances  *)
(* at the end are the shortest ones, for any weighted graph, source, team, *)
(* delta and size of bins.                                                 *)
(*                                                                         *)
(* A swap improves the distance of a vertex over an edge that would have   *)
(* shortened it, so that what is below the current bin stays out of reach  *)
(* (Settled).  When all have voted, an edge that would still shorten a     *)
(* distance can only wait in a bin (NothingLost), and the lowest bin that  *)
(* is not empty is the next one: all that remains is at that distance or   *)
(* further away, and nothing remains if there is no such bin.              *)
(***************************************************************************)
EXTENDS DeltaStep, FiniteSetTheorems, WellFoundedInduction, TLAPS

FirstPCs == {"loop", "filter", "voted"} \cup RelaxPCs
SecondPCs == {"single", "copy", "copied"}

\* The type of the state.
TypeOK ==
  /\ g \in Graphs /\ source \in Nodes /\ delta \in Deltas
  /\ dist \in [Nodes -> 0 .. kDistInf]
  /\ frontier \in Seq(Nodes)
  /\ frontier_tails \in [{0, 1} -> Nat]
  /\ shared_indexes \in [{0, 1} -> 0 .. kMaxBin]
  /\ iter \in {0, 1} /\ single \in BOOLEAN
  /\ todo \subseteq 1 .. Len(frontier)
  /\ pc \in [Threads -> PCs]
  /\ local_bins \in [Threads -> [Bins -> Seq(Nodes)]]
  /\ rest \in [Threads -> Seq(Nodes)]
  /\ u \in [Threads -> Nodes] /\ i \in [Threads -> Nat]
  /\ old_dist \in [Threads -> Nat] /\ new_dist \in [Threads -> Nat]

\* The edge and the distances a thread works with: distances only fall, so that
\* the new one is at least what it was computed from.
Hand(t) ==
  /\ pc[t] \in RelaxPCs => i[t] \in 1 .. out_degree(g, u[t])
  /\ pc[t] \in {"new", "cas"} => dist[v(t)] <= old_dist[t]
  /\ pc[t] \in {"new", "cas", "reread"} => old_dist[t] <= kDistInf
  /\ pc[t] \in {"cas", "reread"} =>
       /\ new_dist[t] < old_dist[t]
       /\ dist[u[t]] + g.weight[u[t]][i[t]] <= new_dist[t]

Hands == \A t \in Threads : Hand(t)

\* All bins below b are empty.
BinsFrom(b) == \A t \in Threads : \A k \in Bins : local_bins[t][k] # <<>> => b <= k

\* Every edge that would shorten a distance starts at distance d or further away.
SettledBelow(d) ==
  \A x \in Nodes : \A j \in 1 .. out_degree(g, x) : Relaxable(x, j) => d <= dist[x]

FirstPhase ==
  /\ \A t \in Threads : pc[t] \in FirstPCs
  /\ curr_bin_index < kMaxBin /\ next_frontier_tail = 0
  /\ BinsFrom(curr_bin_index)
  /\ \A t \in Threads : pc[t] = "voted" =>
       /\ todo = {} /\ rest[t] = <<>>
       /\ \A k \in Bins : local_bins[t][k] # <<>> => next_bin_index <= k

SecondPhase ==
  /\ \A t \in Threads : pc[t] \in SecondPCs /\ rest[t] = <<>>
  /\ todo = {}
  /\ BinsFrom(next_bin_index)
  /\ SettledBelow(delta * next_bin_index)
  /\ next_frontier_tail <= Len(frontier)
  /\ \A t \in Threads : pc[t] # "single" => single
  /\ single => frontier_tails[iter] = 0

Ended ==
  /\ \A t \in Threads : pc[t] = "done"
  /\ \A x \in Nodes : \A j \in 1 .. out_degree(g, x) : ~Relaxable(x, j)

Phases == FirstPhase \/ SecondPhase \/ Ended

\* A distance was reached over an edge, whose start may have come closer since.
Reached ==
  /\ dist[source] = 0
  /\ \A y \in Nodes : dist[y] < kDistInf /\ y # source =>
       \E x \in Nodes : \E j \in 1 .. out_degree(g, x) :
         g.out[x][j] = y /\ dist[x] + g.weight[x][j] <= dist[y]

IInv == TypeOK /\ Hands /\ Phases /\ Reached /\ Settled /\ NothingLost

-----------------------------------------------------------------------------
(***************************************************************************)
(* Edges, bins and lists.                                                  *)
(***************************************************************************)
\* Adjacency lists hold vertices and positive weights.
LEMMA Edges ==
  ASSUME TypeOK, NEW x \in Nodes
  PROVE  /\ out_degree(g, x) \in Nat
         /\ \A j \in 1 .. out_degree(g, x) : /\ g.out[x][j] \in Nodes
                                             /\ g.weight[x][j] \in Nat \ {0}
<1>1. /\ g.out[x] \in Seq(Nodes) /\ g.weight[x] \in Seq(Nat \ {0})
      /\ Len(g.weight[x]) = out_degree(g, x)
  BY GraphsAssumption DEF TypeOK, IsWGraph, IsGraph
<1> QED
  BY <1>1 DEF out_degree

\* The limits of distances and bins are numbers.
LEMMA Limits ==
  ASSUME TypeOK
  PROVE  /\ kDistInf \in Nat \ {0} /\ kMaxBin \in Nat /\ kDistInf <= kMaxBin
         /\ delta \in Nat \ {0} /\ \A x \in Nodes : dist[x] \in Nat /\ dist[x] <= kDistInf
         /\ curr_bin_index \in 0 .. kMaxBin /\ next_bin_index \in 0 .. kMaxBin
         /\ next_frontier_tail \in Nat /\ 1 - iter \in {0, 1} /\ 1 - iter # iter
         /\ \A b \in Nat : delta * b \in Nat /\ b <= delta * b
<1>1. delta \in Nat \ {0}
  BY DeltasAssumption DEF TypeOK
<1>2. 1 - iter \in {0, 1} /\ 1 - iter # iter
  BY DEF TypeOK
<1>3. ASSUME NEW b \in Nat PROVE delta * b \in Nat /\ b <= delta * b
  BY <1>1
<1>4. curr_bin_index \in 0 .. kMaxBin /\ next_bin_index \in 0 .. kMaxBin
  BY <1>2 DEF TypeOK, curr_bin_index, next_bin_index
<1>5. next_frontier_tail \in Nat
  BY <1>2 DEF TypeOK, next_frontier_tail
<1> QED
  BY <1>1, <1>2, <1>3, <1>4, <1>5, LimitsAssumption DEF TypeOK

\* A distance belongs to the bin its index begins before.
LEMMA BinOf ==
  ASSUME TypeOK, NEW d \in Nat
  PROVE  /\ dest_bin(d) \in Nat
         /\ \A b \in Nat : b <= dest_bin(d) <=> delta * b <= d
         /\ d < kDistInf => dest_bin(d) \in Bins
<1>1. delta \in Nat \ {0}
  BY Limits
<1>2. d \div delta \in Nat /\ delta * (d \div delta) <= d /\ d < delta * (d \div delta + 1)
  BY <1>1
<1>3. ASSUME NEW b \in Nat PROVE b <= d \div delta <=> delta * b <= d
  <2> DEFINE q == d \div delta
  <2>0. q \in Nat
    BY <1>2
  <2>1. CASE b <= q
    <3>1. delta * b <= delta * q
      BY <2>0, <2>1, <1>1
    <3> QED
      BY <3>1, <1>1, <1>2, <2>0, <2>1
  <2>2. CASE q + 1 <= b
    <3>1. delta * (q + 1) <= delta * b
      BY <2>0, <2>2, <1>1
    <3> QED
      BY <3>1, <1>1, <1>2, <2>0, <2>2
  <2> QED
    BY <2>0, <2>1, <2>2
<1>4. d \div delta <= d
  BY <1>1, <1>2
<1> QED
  BY <1>2, <1>3, <1>4, Limits DEF dest_bin, Bins

\* A vertex with an edge that shortens a distance is of some bin.
LEMMA WaitingBin ==
  ASSUME TypeOK, NEW x \in Nodes, NEW j \in 1 .. out_degree(g, x), Relaxable(x, j)
  PROVE  dist[x] \in Nat /\ dest_bin(dist[x]) \in Bins
<1>1. g.out[x][j] \in Nodes /\ g.weight[x][j] \in Nat
  BY Edges
<1>2. /\ dist[g.out[x][j]] \in Nat /\ dist[g.out[x][j]] <= kDistInf
      /\ dist[x] \in Nat /\ kDistInf \in Nat
  BY <1>1, Limits
<1>3. dist[x] < kDistInf
  BY <1>1, <1>2 DEF Relaxable
<1> QED
  BY <1>2, <1>3, BinOf

\* What appending to a list and taking its head do to what is in it.
LEMMA Lists ==
  ASSUME NEW s \in Seq(Nodes)
  PROVE  /\ \A y \in Nodes : \A x : In(x, s) \/ x = y => In(x, Append(s, y))
         /\ s # <<>> => /\ Head(s) \in Nodes /\ Tail(s) \in Seq(Nodes)
                        /\ \A x : In(x, s) => x = Head(s) \/ In(x, Tail(s))
         /\ \A x : In(x, s) => s # <<>>
<1>1. ASSUME NEW x, NEW y \in Nodes, In(x, s) \/ x = y PROVE In(x, Append(s, y))
  <2>1. CASE In(x, s)
    <3>1. PICK k \in 1 .. Len(s) : s[k] = x
      BY <2>1 DEF In
    <3>2. k \in 1 .. Len(Append(s, y)) /\ Append(s, y)[k] = x
      BY <3>1
    <3> QED
      BY <3>2 DEF In
  <2>2. CASE x = y
    <3>1. Len(s) + 1 \in 1 .. Len(Append(s, y)) /\ Append(s, y)[Len(s) + 1] = x
      BY <2>2
    <3> QED
      BY <3>1 DEF In
  <2> QED
    BY <1>1, <2>1, <2>2
<1>2. ASSUME s # <<>>, NEW x, In(x, s) PROVE x = Head(s) \/ In(x, Tail(s))
  <2>1. PICK k \in 1 .. Len(s) : s[k] = x
    BY <1>2 DEF In
  <2>2. CASE k = 1
    BY <2>1, <2>2, <1>2
  <2>3. CASE k # 1
    <3>1. k - 1 \in 1 .. Len(Tail(s)) /\ Tail(s)[k - 1] = x
      BY <2>1, <2>3, <1>2
    <3> QED
      BY <3>1 DEF In
  <2> QED
    BY <2>2, <2>3
<1>3. \A x : In(x, s) => s # <<>>
  BY DEF In
<1> QED
  BY <1>1, <1>2, <1>3

-----------------------------------------------------------------------------
(***************************************************************************)
(* Steps of one thread that change no distance.                            *)
(***************************************************************************)
\* The thread has an edge to relax, or returns to the loop.
LEMMA EdgeOrReturnStep ==
  ASSUME TypeOK, NEW t \in Threads, NEW x \in Nodes, NEW j \in Nat \ {0}, EdgeOrReturn(t, x, j)
  PROVE  /\ pc' \in [Threads -> PCs] /\ u' \in [Threads -> Nodes] /\ i' \in [Threads -> Nat]
         /\ old_dist' \in [Threads -> Nat] /\ new_dist' \in [Threads -> Nat]
         /\ \A s \in Threads \ {t} : /\ pc'[s] = pc[s] /\ u'[s] = u[s] /\ i'[s] = i[s]
                                     /\ old_dist'[s] = old_dist[s] /\ new_dist'[s] = new_dist[s]
         /\ j <= out_degree(g, x) => pc'[t] = "old" /\ u'[t] = x /\ i'[t] = j
         /\ ~(j <= out_degree(g, x)) => pc'[t] = "loop"
         /\ pc'[t] \in {"old", "loop"}
<1>1. 0 \in Nodes
  BY NumNodesAssumption DEF Nodes
<1>2. CASE j <= out_degree(g, x)
  <2>1. /\ pc' = [pc EXCEPT ![t] = "old"] /\ u' = [u EXCEPT ![t] = x] /\ i' = [i EXCEPT ![t] = j]
        /\ old_dist' = [old_dist EXCEPT ![t] = 0] /\ new_dist' = [new_dist EXCEPT ![t] = 0]
    BY <1>2 DEF EdgeOrReturn, Goto
  <2> QED
    BY <1>2, <2>1 DEF TypeOK, PCs, RelaxPCs
<1>3. CASE ~(j <= out_degree(g, x))
  <2>1. /\ pc' = [pc EXCEPT ![t] = "loop"] /\ u' = [u EXCEPT ![t] = 0] /\ i' = [i EXCEPT ![t] = 0]
        /\ old_dist' = [old_dist EXCEPT ![t] = 0] /\ new_dist' = [new_dist EXCEPT ![t] = 0]
    BY <1>3 DEF EdgeOrReturn, Goto
  <2> QED
    BY <1>1, <1>3, <2>1 DEF TypeOK, PCs, RelaxPCs
<1> QED
  BY <1>2, <1>3

\* What a thread that relaxes an edge works with.
LEMMA InHand ==
  ASSUME TypeOK, Hands, NEW t \in Threads, pc[t] \in RelaxPCs
  PROVE  /\ u[t] \in Nodes /\ out_degree(g, u[t]) \in Nat
         /\ i[t] \in Nat \ {0} /\ i[t] <= out_degree(g, u[t]) /\ i[t] \in 1 .. out_degree(g, u[t])
         /\ v(t) \in Nodes /\ v(t) = g.out[u[t]][i[t]]
         /\ dist[u[t]] \in Nat /\ dist[v(t)] \in Nat /\ dist[v(t)] <= kDistInf
         /\ g.weight[u[t]][i[t]] \in Nat \ {0}
         /\ old_dist[t] \in Nat /\ new_dist[t] \in Nat
<1>1. /\ u[t] \in Nodes /\ i[t] \in 1 .. out_degree(g, u[t]) /\ i[t] \in Nat
      /\ old_dist[t] \in Nat /\ new_dist[t] \in Nat
  BY DEF TypeOK, Hands, Hand
<1>2. /\ out_degree(g, u[t]) \in Nat /\ v(t) \in Nodes /\ g.weight[u[t]][i[t]] \in Nat \ {0}
  BY <1>1, Edges DEF v
<1>3. dist[u[t]] \in Nat /\ dist[v(t)] \in Nat /\ dist[v(t)] <= kDistInf
  BY <1>1, <1>2, Limits
<1> QED
  BY <1>1, <1>2, <1>3 DEF v

\* A thread in the first phase shows that it is the phase of all.
LEMMA InFirst ==
  ASSUME Phases, NEW t \in Threads, pc[t] \in FirstPCs
  PROVE  FirstPhase
BY DEF Phases, SecondPhase, Ended, FirstPCs, SecondPCs, RelaxPCs

\* The phase lasts while nobody votes and no bin is filled.
LEMMA FirstLasts ==
  ASSUME FirstPhase, Settled, Reached, UNCHANGED <<args, dist, indexes>>, todo' \subseteq todo,
         \A s \in Threads : pc'[s] \in FirstPCs,
         \A s \in Threads : pc'[s] = "voted" => pc[s] = "voted" /\ rest'[s] = rest[s],
         \A s \in Threads, k \in Bins : local_bins'[s][k] # <<>> => local_bins[s][k] # <<>>
  PROVE  FirstPhase' /\ Settled' /\ Reached'
<1>1. curr_bin_index' = curr_bin_index /\ next_bin_index' = next_bin_index
      /\ next_frontier_tail' = next_frontier_tail
  BY DEF indexes, curr_bin_index, next_bin_index, next_frontier_tail
<1>2. FirstPhase'
  BY <1>1 DEF FirstPhase, BinsFrom
<1>3. Settled'
  BY <1>1 DEF Settled, Relaxable, args
<1>4. Reached'
  BY DEF Reached, args
<1> QED
  BY <1>2, <1>3, <1>4

\* A thread that moves to an edge, or returns, holds nothing yet.
LEMMA HandsAtEdge ==
  ASSUME TypeOK, Hands, NEW t \in Threads, NEW x \in Nodes, NEW j \in Nat \ {0},
         EdgeOrReturn(t, x, j), UNCHANGED <<g, dist>>
  PROVE  Hands'
<1> SUFFICES ASSUME NEW s \in Threads PROVE Hand(s)'
  BY DEF Hands
<1>1. CASE s = t
  BY <1>1, EdgeOrReturnStep DEF Hand, RelaxPCs
<1>2. CASE s # t
  BY <1>2, EdgeOrReturnStep DEF Hand, Hands, v
<1> QED
  BY <1>1, <1>2

\* No edge that is still to be relaxed is lost by a step that keeps the
\* distances and lets what waits go on waiting.
LEMMA StillWaiting ==
  ASSUME NothingLost, UNCHANGED <<args, dist>>,
         \A x \in Nodes : \A j \in 1 .. out_degree(g, x) :
           Relaxable(x, j) /\ Waits(x, j) => Waits(x, j)'
  PROVE  NothingLost'
BY DEF NothingLost, Relaxable, args

LEMMA ReadOldKeeps ==
  ASSUME IInv, NEW t \in Threads, ReadOld(t)
  PROVE  IInv'
<1>1. FirstPhase
  BY InFirst DEF IInv, ReadOld, FirstPCs, RelaxPCs
<1>2. u[t] \in Nodes /\ i[t] \in 1 .. out_degree(g, u[t])
  BY DEF IInv, TypeOK, Hands, Hand, ReadOld, RelaxPCs
<1>3. v(t) \in Nodes /\ dist[v(t)] \in Nat
  BY <1>2, Edges, Limits DEF IInv, v
<1>4. /\ old_dist' = [old_dist EXCEPT ![t] = dist[v(t)]] /\ pc' = [pc EXCEPT ![t] = "new"]
      /\ UNCHANGED <<args, dist, frontier, indexes, todo, local_bins, rest, u, i, new_dist>>
  BY DEF ReadOld, Goto
<1>5. TypeOK'
  BY <1>3, <1>4 DEF IInv, TypeOK, args, indexes, PCs, RelaxPCs
<1>6. Hands'
  <2> SUFFICES ASSUME NEW s \in Threads PROVE Hand(s)'
    BY DEF Hands
  <2>1. CASE s = t
    BY <2>1, <1>2, <1>3, <1>4 DEF IInv, TypeOK, Hand, v, args
  <2>2. CASE s # t
    BY <2>2, <1>4 DEF IInv, TypeOK, Hands, Hand, v, args
  <2> QED
    BY <2>1, <2>2
<1>7. FirstPhase' /\ Settled' /\ Reached'
  <2>1. \A s \in Threads : pc'[s] \in FirstPCs /\ (pc'[s] = "voted" => pc[s] = "voted")
    BY <1>1, <1>4 DEF IInv, TypeOK, FirstPhase, FirstPCs, RelaxPCs
  <2> QED
    BY <2>1, <1>1, <1>4, FirstLasts DEF IInv
<1>8. NothingLost'
  <2> SUFFICES ASSUME NEW x \in Nodes, NEW j \in 1 .. out_degree(g, x), Waits(x, j)
               PROVE  Waits(x, j)'
    BY <1>4, StillWaiting DEF IInv
  <2>1. \A s \in Threads : pc'[s] = IF s = t THEN "new" ELSE pc[s]
    BY <1>4 DEF IInv, TypeOK
  <2> QED
    BY <2>1, <1>4 DEF Waits, ReadOld, args, indexes, dest_bin, next_frontier_tail
<1> QED
  BY <1>5, <1>6, <1>7, <1>8 DEF IInv, Phases

\* A thread that goes past an edge loses nothing if the edge shortens no distance,
\* or if the thread worked with a distance of u that has changed since.
LEMMA EdgeDone ==
  ASSUME IInv, NEW t \in Threads, pc[t] \in RelaxPCs, NextEdge(t),
         Relaxable(u[t], i[t]) =>
           /\ pc[t] \in {"cas", "reread"}
           /\ new_dist[t] # dist[u[t]] + g.weight[u[t]][i[t]],
         UNCHANGED <<args, dist, frontier, indexes, todo, local_bins, rest>>
  PROVE  IInv'
<1>1. FirstPhase
  BY InFirst DEF IInv, FirstPCs
<1>2. u[t] \in Nodes /\ i[t] \in 1 .. out_degree(g, u[t]) /\ i[t] \in Nat
  BY DEF IInv, TypeOK, Hands, Hand
<1>3. EdgeOrReturn(t, u[t], i[t] + 1) /\ i[t] + 1 \in Nat \ {0}
  BY <1>2 DEF NextEdge
<1>4. TypeOK'
  BY <1>2, <1>3, EdgeOrReturnStep DEF IInv, TypeOK, args, indexes
<1>5. Hands'
  BY <1>2, <1>3, HandsAtEdge DEF IInv, args
<1>6. FirstPhase' /\ Settled' /\ Reached'
  <2>1. \A s \in Threads : pc'[s] \in FirstPCs /\ (pc'[s] = "voted" => pc[s] = "voted")
    BY <1>1, <1>2, <1>3, EdgeOrReturnStep DEF IInv, FirstPhase, FirstPCs, RelaxPCs
  <2> QED
    BY <2>1, <1>1, FirstLasts DEF IInv
<1>7. NothingLost'
  <2> SUFFICES ASSUME NEW x \in Nodes, NEW j \in 1 .. out_degree(g, x), Relaxable(x, j), Waits(x, j)
               PROVE  Waits(x, j)'
    BY StillWaiting DEF IInv
  <2>0. pc[t] \notin {"copy", "copied", "filter"}
    BY DEF RelaxPCs
  <2>1. \A s \in Threads \ {t} : /\ pc'[s] = pc[s] /\ u'[s] = u[s] /\ i'[s] = i[s]
                                 /\ new_dist'[s] = new_dist[s]
    BY <1>2, <1>3, EdgeOrReturnStep DEF IInv
  <2>2. CASE u[t] = x /\ i[t] < j
    <3>1. i[t] + 1 <= j /\ j <= out_degree(g, u[t])
      BY <2>2, <1>2, Edges DEF IInv
    <3>2. pc'[t] = "old" /\ u'[t] = x /\ i'[t] <= j
      BY <3>1, <2>2, <1>2, <1>3, EdgeOrReturnStep, Edges DEF IInv
    <3> QED
      BY <3>2 DEF Waits
  <2>3. CASE ~(u[t] = x /\ i[t] < j)
    <3>1. j \in Nat
      BY Edges DEF IInv
    <3>2. ~(u[t] = x /\ (pc[t] \in {"old", "new"} /\ i[t] <= j))
      BY <2>3, <3>1, <1>2
    <3>3. u[t] = x /\ i[t] = j => new_dist[t] # dist[x] + g.weight[x][j]
      BY <3>1
    <3> QED
      BY <2>0, <2>1, <2>3, <3>1, <3>2, <3>3, <1>2 DEF Waits, args, indexes, dest_bin, next_frontier_tail
  <2> QED
    BY <2>2, <2>3
<1> QED
  BY <1>4, <1>5, <1>6, <1>7 DEF IInv, Phases

LEMMA ReadNewKeeps ==
  ASSUME IInv, NEW t \in Threads, ReadNew(t)
  PROVE  IInv'
<1> DEFINE new == dist[u[t]] + g.weight[u[t]][i[t]]
<1>1. FirstPhase
  BY InFirst DEF IInv, ReadNew, FirstPCs, RelaxPCs
<1>2. u[t] \in Nodes /\ i[t] \in 1 .. out_degree(g, u[t]) /\ v(t) \in Nodes
  BY InHand DEF IInv, ReadNew, RelaxPCs
<1>3. /\ new \in Nat /\ dist[v(t)] \in Nat /\ old_dist[t] \in Nat /\ dist[v(t)] <= old_dist[t]
      /\ old_dist[t] <= kDistInf /\ v(t) = g.out[u[t]][i[t]]
  <2>1. dist[v(t)] <= old_dist[t] /\ old_dist[t] <= kDistInf
    BY DEF IInv, Hands, Hand, ReadNew
  <2> QED
    BY <2>1, InHand DEF IInv, ReadNew, RelaxPCs
<1>4. CASE new < old_dist[t]
  <2>1. /\ new_dist' = [new_dist EXCEPT ![t] = new] /\ pc' = [pc EXCEPT ![t] = "cas"]
        /\ UNCHANGED <<args, dist, frontier, indexes, todo, local_bins, rest, u, i, old_dist>>
    BY <1>4 DEF ReadNew, Goto
  <2>2. TypeOK'
    BY <1>3, <2>1 DEF IInv, TypeOK, args, indexes, PCs, RelaxPCs
  <2>3. Hands'
    <3> SUFFICES ASSUME NEW s \in Threads PROVE Hand(s)'
      BY DEF Hands
    <3>1. CASE s = t
      <4>1. new_dist'[t] = new /\ old_dist'[t] = old_dist[t] /\ pc'[t] = "cas" /\ v(t)' = v(t)
        BY <2>1 DEF IInv, TypeOK, v, args
      <4> QED
        BY <3>1, <4>1, <1>2, <1>3, <1>4, <2>1 DEF Hand, args
    <3>2. CASE s # t
      BY <3>2, <2>1 DEF IInv, TypeOK, Hands, Hand, v, args
    <3> QED
      BY <3>1, <3>2
  <2>4. FirstPhase' /\ Settled' /\ Reached'
    <3>1. \A s \in Threads : pc'[s] \in FirstPCs /\ (pc'[s] = "voted" => pc[s] = "voted")
      BY <1>1, <2>1 DEF IInv, TypeOK, FirstPhase, FirstPCs, RelaxPCs
    <3> QED
      BY <3>1, <1>1, <2>1, FirstLasts DEF IInv
  <2>5. NothingLost'
    <3> SUFFICES ASSUME NEW x \in Nodes, NEW j \in 1 .. out_degree(g, x), Waits(x, j)
                 PROVE  Waits(x, j)'
      BY <2>1, StillWaiting DEF IInv
    <3>1. /\ \A s \in Threads : pc'[s] = IF s = t THEN "cas" ELSE pc[s]
          /\ \A s \in Threads : new_dist'[s] = IF s = t THEN new ELSE new_dist[s]
      BY <2>1 DEF IInv, TypeOK
    <3>2. j \in Nat /\ (u[t] = x /\ i[t] <= j => i[t] < j \/ (i[t] = j /\ new = dist[x] + g.weight[x][j]))
      BY <1>2, Edges DEF IInv
    <3> HIDE DEF new
    <3> QED
      BY <3>1, <3>2, <2>1 DEF Waits, ReadNew, args, indexes, dest_bin, next_frontier_tail
  <2> QED
    BY <2>2, <2>3, <2>4, <2>5 DEF IInv, Phases
<1>5. CASE ~(new < old_dist[t])
  <2>1. ~Relaxable(u[t], i[t])
    BY <1>3, <1>5 DEF Relaxable
  <2> QED
    BY <2>1, <1>5, EdgeDone DEF ReadNew, RelaxPCs
<1> QED
  BY <1>4, <1>5

LEMMA RereadKeeps ==
  ASSUME IInv, NEW t \in Threads, Reread(t)
  PROVE  IInv'
<1>1. FirstPhase
  BY InFirst DEF IInv, Reread, FirstPCs, RelaxPCs
<1>2. u[t] \in Nodes /\ i[t] \in 1 .. out_degree(g, u[t]) /\ v(t) \in Nodes
  BY InHand DEF IInv, Reread, RelaxPCs
<1>3. /\ dist[u[t]] + g.weight[u[t]][i[t]] \in Nat /\ dist[v(t)] \in Nat /\ dist[v(t)] <= kDistInf
      /\ new_dist[t] \in Nat /\ dist[u[t]] + g.weight[u[t]][i[t]] <= new_dist[t]
      /\ v(t) = g.out[u[t]][i[t]]
  <2>1. dist[u[t]] + g.weight[u[t]][i[t]] <= new_dist[t]
    BY DEF IInv, Hands, Hand, Reread
  <2> QED
    BY <2>1, InHand DEF IInv, Reread, RelaxPCs
<1>4. CASE new_dist[t] < dist[v(t)]
  <2>1. /\ old_dist' = [old_dist EXCEPT ![t] = dist[v(t)]] /\ pc' = [pc EXCEPT ![t] = "cas"]
        /\ UNCHANGED <<args, dist, frontier, indexes, todo, local_bins, rest, u, i, new_dist>>
    BY <1>4 DEF Reread, Goto
  <2>2. TypeOK'
    BY <1>3, <2>1 DEF IInv, TypeOK, args, indexes, PCs, RelaxPCs
  <2>3. Hands'
    <3> SUFFICES ASSUME NEW s \in Threads PROVE Hand(s)'
      BY DEF Hands
    <3>1. CASE s = t
      BY <3>1, <1>2, <1>3, <1>4, <2>1 DEF IInv, TypeOK, Hands, Hand, v, args
    <3>2. CASE s # t
      BY <3>2, <2>1 DEF IInv, TypeOK, Hands, Hand, v, args
    <3> QED
      BY <3>1, <3>2
  <2>4. FirstPhase' /\ Settled' /\ Reached'
    <3>1. \A s \in Threads : pc'[s] \in FirstPCs /\ (pc'[s] = "voted" => pc[s] = "voted")
      BY <1>1, <2>1 DEF IInv, TypeOK, FirstPhase, FirstPCs, RelaxPCs
    <3> QED
      BY <3>1, <1>1, <2>1, FirstLasts DEF IInv
  <2>5. NothingLost'
    <3> SUFFICES ASSUME NEW x \in Nodes, NEW j \in 1 .. out_degree(g, x), Waits(x, j)
                 PROVE  Waits(x, j)'
      BY <2>1, StillWaiting DEF IInv
    <3>1. \A s \in Threads : pc'[s] = IF s = t THEN "cas" ELSE pc[s]
      BY <2>1 DEF IInv, TypeOK
    <3> QED
      BY <3>1, <2>1 DEF Waits, Reread, args, indexes, dest_bin, next_frontier_tail
  <2> QED
    BY <2>2, <2>3, <2>4, <2>5 DEF IInv, Phases
<1>5. CASE ~(new_dist[t] < dist[v(t)])
  <2>1. Relaxable(u[t], i[t]) => new_dist[t] # dist[u[t]] + g.weight[u[t]][i[t]]
    BY <1>3, <1>5 DEF Relaxable
  <2> QED
    BY <2>1, <1>5, EdgeDone DEF Reread, RelaxPCs
<1> QED
  BY <1>4, <1>5

-----------------------------------------------------------------------------
(***************************************************************************)
(* The compare-and-swap, the only step that changes a distance.            *)
(***************************************************************************)
\* What a swap does to the distances.
LEMMA SwapDistances ==
  ASSUME IInv, NEW t \in Threads, pc[t] = "cas", dist[v(t)] = old_dist[t],
         dist' = [dist EXCEPT ![v(t)] = new_dist[t]]
  PROVE  /\ dist' \in [Nodes -> 0 .. kDistInf] /\ dist'[v(t)] = new_dist[t]
         /\ \A x \in Nodes : x # v(t) => dist'[x] = dist[x]
         /\ \A x \in Nodes : dist'[x] \in Nat /\ dist[x] \in Nat /\ dist'[x] <= dist[x]
         /\ new_dist[t] \in Nat /\ new_dist[t] < dist[v(t)] /\ dist[v(t)] <= kDistInf
         /\ dist[u[t]] + g.weight[u[t]][i[t]] <= new_dist[t]
         /\ u[t] # v(t) /\ v(t) # source
<1>1. /\ v(t) \in Nodes /\ u[t] \in Nodes /\ new_dist[t] \in Nat /\ dist[v(t)] <= kDistInf
      /\ g.weight[u[t]][i[t]] \in Nat \ {0}
  BY InHand DEF IInv, RelaxPCs
<1>2. dist[u[t]] + g.weight[u[t]][i[t]] <= new_dist[t] /\ new_dist[t] < dist[v(t)]
  BY DEF IInv, Hands, Hand
<1>3. \A x \in Nodes : dist[x] \in Nat /\ dist[x] <= kDistInf
  BY Limits DEF IInv
<1>4. kDistInf \in Nat /\ dist \in [Nodes -> 0 .. kDistInf]
  BY Limits DEF IInv, TypeOK
<1>5. dist' \in [Nodes -> 0 .. kDistInf] /\ \A x \in Nodes : dist'[x] = IF x = v(t) THEN new_dist[t] ELSE dist[x]
  BY <1>1, <1>2, <1>3, <1>4
<1>6. u[t] # v(t) /\ v(t) # source
  BY <1>1, <1>2, <1>3 DEF IInv, Reached
<1> QED
  BY <1>1, <1>2, <1>3, <1>5, <1>6

LEMMA SwapKeeps ==
  ASSUME IInv, NEW t \in Threads, pc[t] = "cas", dist[v(t)] = old_dist[t],
         dist' = [dist EXCEPT ![v(t)] = new_dist[t]],
         local_bins' = [local_bins EXCEPT ![t][dest_bin(new_dist[t])] = Append(@, v(t))],
         NextEdge(t), UNCHANGED <<args, frontier, indexes, todo, rest>>
  PROVE  IInv'
<1> DEFINE y == v(t)
           new == new_dist[t]
           b == dest_bin(new)
<1>1. FirstPhase
  BY InFirst DEF IInv, FirstPCs, RelaxPCs
<1>2. /\ u[t] \in Nodes /\ i[t] \in 1 .. out_degree(g, u[t]) /\ i[t] \in Nat /\ y \in Nodes
      /\ out_degree(g, u[t]) \in Nat /\ y = g.out[u[t]][i[t]] /\ g.weight[u[t]][i[t]] \in Nat \ {0}
  BY InHand DEF IInv, RelaxPCs
<1>3. /\ dist' \in [Nodes -> 0 .. kDistInf] /\ dist'[y] = new
      /\ \A x \in Nodes : x # y => dist'[x] = dist[x]
      /\ \A x \in Nodes : dist'[x] \in Nat /\ dist[x] \in Nat /\ dist'[x] <= dist[x]
      /\ new \in Nat /\ new < dist[y] /\ dist[y] <= kDistInf
      /\ dist[u[t]] + g.weight[u[t]][i[t]] <= new /\ u[t] # y /\ y # source
  BY SwapDistances
<1>4. EdgeOrReturn(t, u[t], i[t] + 1) /\ i[t] + 1 \in Nat \ {0}
  BY <1>2 DEF NextEdge
<1>5. b \in Nat /\ b \in Bins /\ kDistInf \in Nat
  BY <1>3, BinOf, Limits DEF IInv
<1>6. /\ local_bins' \in [Threads -> [Bins -> Seq(Nodes)]]
      /\ \A s \in Threads, k \in Bins : s # t \/ k # b => local_bins'[s][k] = local_bins[s][k]
      /\ local_bins'[t][b] = Append(local_bins[t][b], y)
  <2>1. local_bins[t][b] \in Seq(Nodes) /\ Append(local_bins[t][b], y) \in Seq(Nodes)
    BY <1>2, <1>5 DEF IInv, TypeOK
  <2> HIDE DEF b, y
  <2>2. local_bins' = [local_bins EXCEPT ![t][b] = Append(local_bins[t][b], y)]
    BY <1>5 DEF b, y, IInv, TypeOK
  <2>3. local_bins \in [Threads -> [Bins -> Seq(Nodes)]]
    BY DEF IInv, TypeOK
  <2>4. /\ local_bins' = [local_bins EXCEPT ![t] = local_bins'[t]]
        /\ local_bins'[t] = [local_bins[t] EXCEPT ![b] = Append(local_bins[t][b], y)]
    BY <2>2, <2>3
  <2>5. local_bins'[t] \in [Bins -> Seq(Nodes)]
    BY <1>5, <2>1, <2>3, <2>4
  <2>6. /\ local_bins'[t][b] = Append(local_bins[t][b], y)
        /\ \A k \in Bins : k # b => local_bins'[t][k] = local_bins[t][k]
    BY SMTT(30), <1>5, <2>3, <2>4
  <2> QED
    BY <2>3, <2>4, <2>5, <2>6
<1>7. TypeOK'
  BY <1>3, <1>4, <1>6, <1>2, EdgeOrReturnStep DEF IInv, TypeOK, args, indexes
<1>8. Hands'
  <2> SUFFICES ASSUME NEW s \in Threads PROVE Hand(s)'
    BY DEF Hands
  <2>1. CASE s = t
    BY <2>1, <1>2, <1>4, EdgeOrReturnStep DEF Hand, RelaxPCs, IInv, args
  <2>2. CASE s # t
    <3>1. pc'[s] = pc[s] /\ u'[s] = u[s] /\ i'[s] = i[s] /\ old_dist'[s] = old_dist[s]
          /\ new_dist'[s] = new_dist[s] /\ v(s)' = v(s) /\ g' = g
      BY <2>2, <1>2, <1>4, EdgeOrReturnStep DEF v, IInv, args
    <3>2. CASE pc[s] \in RelaxPCs
      <4>1. v(s) \in Nodes /\ u[s] \in Nodes /\ g.weight[u[s]][i[s]] \in Nat
            /\ old_dist[s] \in Nat /\ new_dist[s] \in Nat /\ i[s] \in 1 .. out_degree(g, u[s])
        BY <3>2, InHand DEF IInv
      <4>2. dist'[v(s)] <= dist[v(s)] /\ dist'[v(s)] \in Nat /\ dist[v(s)] \in Nat
            /\ dist'[u[s]] <= dist[u[s]] /\ dist'[u[s]] \in Nat /\ dist[u[s]] \in Nat
        BY <4>1, <1>3
      <4>3. Hand(s)
        BY DEF IInv, Hands
      <4> QED
        BY <3>1, <4>1, <4>2, <4>3 DEF Hand
    <3>3. CASE pc[s] \notin RelaxPCs
      BY <3>1, <3>3 DEF Hand, RelaxPCs
    <3> QED
      BY <3>2, <3>3
  <2> QED
    BY <2>1, <2>2
<1>9. curr_bin_index' = curr_bin_index /\ next_bin_index' = next_bin_index
      /\ next_frontier_tail' = next_frontier_tail
      /\ curr_bin_index \in Nat /\ delta * curr_bin_index \in Nat
  BY Limits DEF indexes, curr_bin_index, next_bin_index, next_frontier_tail, IInv
<1>10. \A x \in Nodes : \A j \in 1 .. out_degree(g, x) : Relaxable(x, j)' /\ x # y => Relaxable(x, j)
  <2> SUFFICES ASSUME NEW x \in Nodes, NEW j \in 1 .. out_degree(g, x), Relaxable(x, j)', x # y
               PROVE  Relaxable(x, j)
    OBVIOUS
  <2>1. g.out[x][j] \in Nodes /\ g.weight[x][j] \in Nat
    BY Edges DEF IInv
  <2> QED
    BY SMTT(30), <2>1, <1>3 DEF Relaxable, args
<1>11. delta * curr_bin_index <= new
  <2>1. Relaxable(u[t], i[t])
    BY SMTT(30), <1>2, <1>3 DEF Relaxable
  <2>2. delta * curr_bin_index <= dist[u[t]]
    BY SMTT(30), <2>1, <1>1, <1>2, <1>9, <1>3, Limits DEF IInv, Settled, FirstPhase
  <2> QED
    BY SMTT(30), <2>2, <1>2, <1>3, <1>9
<1>12. FirstPhase'
  <2>1. \A s \in Threads : pc'[s] \in FirstPCs /\ (pc'[s] = "voted" => pc[s] = "voted" /\ s # t)
    BY <1>1, <1>2, <1>4, EdgeOrReturnStep DEF FirstPhase, FirstPCs, RelaxPCs, IInv
  <2>2. BinsFrom(curr_bin_index)'
    <3>1. curr_bin_index <= b
      BY <1>11, <1>9, <1>3, BinOf DEF IInv
    <3> QED
      BY <3>1, <1>1, <1>6, <1>9 DEF FirstPhase, BinsFrom
  <2>3. ASSUME NEW s \in Threads, pc'[s] = "voted"
        PROVE  /\ todo' = {} /\ rest'[s] = <<>>
               /\ \A k \in Bins : local_bins'[s][k] # <<>> => next_bin_index' <= k
    BY <2>1, <2>3, <1>1, <1>6, <1>9 DEF FirstPhase
  <2> QED
    BY <2>1, <2>2, <2>3, <1>1, <1>9 DEF FirstPhase
<1>13. Settled'
  <2> SUFFICES ASSUME NEW x \in Nodes, NEW j \in 1 .. out_degree(g, x), Relaxable(x, j)'
               PROVE  dist'[x] >= delta * curr_bin_index
    BY <1>9 DEF Settled, args
  <2>1. CASE x = y
    BY <2>1, <1>3, <1>9, <1>11
  <2>2. CASE x # y
    BY <2>2, <1>10, <1>3, <1>1, Limits DEF IInv, Settled, FirstPhase
  <2> QED
    BY <2>1, <2>2
<1>14. Reached'
  <2>1. dist'[source] = 0
    BY <1>3 DEF IInv, Reached, TypeOK
  <2>2. ASSUME NEW z \in Nodes, dist'[z] < kDistInf, z # source
        PROVE  \E x \in Nodes : \E j \in 1 .. out_degree(g, x) :
                 g.out[x][j] = z /\ dist'[x] + g.weight[x][j] <= dist'[z]
    <3>1. CASE z = y
      BY <3>1, <1>2, <1>3
    <3>2. CASE z # y
      <4>1. PICK x \in Nodes : \E j \in 1 .. out_degree(g, x) :
                 g.out[x][j] = z /\ dist[x] + g.weight[x][j] <= dist[z]
        BY <3>2, <2>2, <1>3 DEF IInv, Reached
      <4>2. PICK j \in 1 .. out_degree(g, x) : g.out[x][j] = z /\ dist[x] + g.weight[x][j] <= dist[z]
        BY <4>1
      <4>3. g.weight[x][j] \in Nat
        BY Edges DEF IInv
      <4>4. dist'[x] + g.weight[x][j] <= dist'[z]
        BY <4>2, <4>3, <3>2, <1>3
      <4> QED
        BY <4>2, <4>4
    <3> QED
      BY SMTT(30), <3>1, <3>2
  <2> QED
    BY <2>1, <2>2 DEF Reached, args
<1>15. NothingLost'
  <2> SUFFICES ASSUME NEW x \in Nodes, NEW j \in 1 .. out_degree(g, x), Relaxable(x, j)'
               PROVE  Waits(x, j)'
    BY DEF NothingLost, args
  <2>1. CASE x = y
    <3>1. In(y, local_bins'[t][b])
      <4>1. local_bins[t][b] \in Seq(Nodes)
        BY <1>5 DEF IInv, TypeOK
      <4> QED
        BY <4>1, <1>2, <1>6, Lists
    <3>2. dest_bin(dist[x])' = b
      BY <2>1, <1>3 DEF dest_bin, args
    <3> QED
      BY <2>1, <3>1, <3>2 DEF Waits
  <2>2. CASE x # y
    <3>1. Waits(x, j) /\ dist'[x] = dist[x] /\ j \in Nat /\ dest_bin(dist[x])' = dest_bin(dist[x])
      BY <2>2, <1>3, <1>10, Edges DEF IInv, NothingLost, dest_bin, args
    <3>2. \A s \in Threads \ {t} : /\ pc'[s] = pc[s] /\ u'[s] = u[s] /\ i'[s] = i[s]
                                   /\ new_dist'[s] = new_dist[s]
      BY <1>2, <1>4, EdgeOrReturnStep DEF IInv
    <3>3. CASE \E s \in Threads : In(x, local_bins[s][dest_bin(dist[x])])
      <4>1. PICK s \in Threads : In(x, local_bins[s][dest_bin(dist[x])])
        BY <3>3
      <4>2. dest_bin(dist[x]) \in Bins
        BY <1>10, <2>2, WaitingBin DEF IInv
      <4>3. In(x, local_bins'[s][dest_bin(dist[x])])
        <5>1. CASE s = t /\ dest_bin(dist[x]) = b
          <6>1. local_bins[t][b] \in Seq(Nodes) /\ In(x, local_bins[t][b])
            BY <5>1, <4>1, <1>5 DEF IInv, TypeOK
          <6> QED
            BY <6>1, <5>1, <1>2, <1>6, Lists
        <5>2. CASE ~(s = t /\ dest_bin(dist[x]) = b)
          BY <5>2, <4>1, <4>2, <1>6
        <5> QED
          BY SMTT(30), <5>1, <5>2
      <4> QED
        BY <4>3, <3>1 DEF Waits
    <3>4. CASE u[t] = x /\ i[t] < j
      <4>1. i[t] + 1 <= j /\ j <= out_degree(g, u[t])
        BY <3>4, <1>2
      <4>2. pc'[t] = "old" /\ u'[t] = x /\ i'[t] <= j
        BY <4>1, <3>4, <1>2, <1>4, EdgeOrReturnStep DEF IInv
      <4> QED
        BY <4>2 DEF Waits
    <3>5. CASE \E s \in Threads : In(x, rest[s])
      BY <3>5 DEF Waits
    <3>6. CASE \E k \in todo : frontier[k] = x
      BY <3>6 DEF Waits
    <3>7. CASE \E s \in Threads \ {t} :
                 /\ u[s] = x
                 /\ \/ pc[s] = "filter"
                    \/ pc[s] \in {"old", "new"} /\ i[s] <= j
                    \/ pc[s] \in {"cas", "reread"} /\ i[s] < j
                    \/ /\ pc[s] \in {"cas", "reread"} /\ i[s] = j
                       /\ new_dist[s] = dist[x] + g.weight[x][j]
      BY SMTT(30), <3>1, <3>2, <3>7 DEF Waits, args
    <3>8. ~(u[t] = x /\ i[t] = j /\ new_dist[t] = dist[x] + g.weight[x][j])
      BY <2>2, <1>2, <1>3 DEF Relaxable, args
    <3>9. \A s \in Threads : pc[s] \notin {"copy", "copied"}
      BY <1>1 DEF FirstPhase, FirstPCs, RelaxPCs
    <3> QED
      BY <3>1, <3>3, <3>4, <3>5, <3>6, <3>7, <3>8, <3>9 DEF Waits
  <2> QED
    BY <2>1, <2>2
<1> QED
  BY <1>7, <1>8, <1>12, <1>13, <1>14, <1>15 DEF IInv, Phases

LEMMA CASKeeps ==
  ASSUME IInv, NEW t \in Threads, CAS(t)
  PROVE  IInv'
<1>1. CASE dist[v(t)] = old_dist[t]
  BY <1>1, SwapKeeps DEF CAS
<1>2. CASE dist[v(t)] # old_dist[t]
  <2>1. /\ pc[t] = "cas" /\ pc' = [pc EXCEPT ![t] = "reread"]
        /\ UNCHANGED <<args, dist, frontier, indexes, todo, local_bins, rest, locals>>
    BY <1>2 DEF CAS, Goto
  <2>2. FirstPhase
    BY <2>1, InFirst DEF IInv, FirstPCs, RelaxPCs
  <2>3. TypeOK'
    BY <2>1 DEF IInv, TypeOK, args, indexes, locals, PCs, RelaxPCs
  <2>4. Hands'
    <3> SUFFICES ASSUME NEW s \in Threads PROVE Hand(s)'
      BY DEF Hands
    <3>1. pc'[s] = (IF s = t THEN "reread" ELSE pc[s]) /\ v(s)' = v(s) /\ Hand(s)
      BY <2>1 DEF IInv, TypeOK, Hands, v, args, locals
    <3> QED
      BY <3>1, <2>1 DEF Hand, RelaxPCs, args, locals
  <2>5. FirstPhase' /\ Settled' /\ Reached'
    <3>1. \A s \in Threads : pc'[s] \in FirstPCs /\ (pc'[s] = "voted" => pc[s] = "voted")
      BY <2>1, <2>2 DEF IInv, TypeOK, FirstPhase, FirstPCs, RelaxPCs
    <3> QED
      BY <3>1, <2>1, <2>2, FirstLasts DEF IInv
  <2>6. NothingLost'
    <3> SUFFICES ASSUME NEW x \in Nodes, NEW j \in 1 .. out_degree(g, x), Waits(x, j)
                 PROVE  Waits(x, j)'
      BY <2>1, StillWaiting DEF IInv
    <3>1. \A s \in Threads : pc'[s] = IF s = t THEN "reread" ELSE pc[s]
      BY <2>1 DEF IInv, TypeOK
    <3> QED
      BY <3>1, <2>1 DEF Waits, args, indexes, locals, dest_bin, next_frontier_tail
  <2> QED
    BY <2>3, <2>4, <2>5, <2>6 DEF IInv, Phases
<1> QED
  BY <1>1, <1>2

-----------------------------------------------------------------------------
(***************************************************************************)
(* The rest of the first phase.                                            *)
(***************************************************************************)
LEMMA ClaimKeeps ==
  ASSUME IInv, NEW t \in Threads, Claim(t)
  PROVE  IInv'
<1>1. PICK k \in todo : todo' = todo \ {k} /\ u' = [u EXCEPT ![t] = frontier[k]]
  BY DEF Claim
<1>2. /\ pc[t] = "loop" /\ pc' = [pc EXCEPT ![t] = "filter"]
      /\ UNCHANGED <<args, dist, frontier, indexes, local_bins, rest, i, old_dist, new_dist>>
  BY DEF Claim, Goto
<1>3. frontier[k] \in Nodes
  BY DEF IInv, TypeOK
<1>4. FirstPhase
  BY <1>2, InFirst DEF IInv, FirstPCs
<1>5. TypeOK'
  BY <1>1, <1>2, <1>3 DEF IInv, TypeOK, args, indexes, PCs
<1>6. Hands'
  <2> SUFFICES ASSUME NEW s \in Threads PROVE Hand(s)'
    BY DEF Hands
  <2>1. Hand(s) /\ pc'[s] = IF s = t THEN "filter" ELSE pc[s]
    BY <1>2 DEF IInv, TypeOK, Hands
  <2>2. s # t => u'[s] = u[s]
    BY <1>1 DEF IInv, TypeOK
  <2> QED
    BY <2>1, <2>2, <1>2 DEF Hand, RelaxPCs, v, args
<1>7. FirstPhase' /\ Settled' /\ Reached'
  <2>1. \A s \in Threads : pc'[s] \in FirstPCs /\ (pc'[s] = "voted" => pc[s] = "voted")
    BY <1>2, <1>4 DEF IInv, TypeOK, FirstPhase, FirstPCs
  <2> QED
    BY <2>1, <1>1, <1>2, <1>4, FirstLasts DEF IInv
<1>8. NothingLost'
  <2> SUFFICES ASSUME NEW x \in Nodes, NEW j \in 1 .. out_degree(g, x), Waits(x, j)
               PROVE  Waits(x, j)'
    BY <1>2, StillWaiting DEF IInv
  <2>1. /\ \A s \in Threads : pc'[s] = IF s = t THEN "filter" ELSE pc[s]
        /\ \A s \in Threads : u'[s] = IF s = t THEN frontier[k] ELSE u[s]
    BY <1>1, <1>2 DEF IInv, TypeOK
  <2> QED
    BY <2>1, <1>1, <1>2 DEF Waits, args, indexes, dest_bin, next_frontier_tail
<1> QED
  BY <1>5, <1>6, <1>7, <1>8 DEF IInv, Phases

LEMMA FilterKeeps ==
  ASSUME IInv, NEW t \in Threads, Filter(t)
  PROVE  IInv'
<1>1. pc[t] = "filter" /\ UNCHANGED <<args, dist, frontier, indexes, todo, local_bins, rest>>
  BY DEF Filter
<1>2. FirstPhase /\ u[t] \in Nodes /\ dist[u[t]] \in Nat
  BY <1>1, InFirst, Limits DEF IInv, TypeOK, FirstPCs
<1>3. /\ curr_bin_index # kMaxBin /\ curr_bin_index \in Nat /\ delta * curr_bin_index \in Nat
  BY <1>2, Limits DEF IInv, FirstPhase
<1>4. CASE dist[u[t]] >= delta * curr_bin_index
  <2>1. EdgeOrReturn(t, u[t], 1) /\ 1 \in Nat \ {0}
    BY <1>4 DEF Filter
  <2>2. TypeOK'
    BY <2>1, <1>1, <1>2, EdgeOrReturnStep DEF IInv, TypeOK, args, indexes
  <2>3. Hands'
    BY <2>1, <1>1, <1>2, HandsAtEdge DEF IInv, args
  <2>4. FirstPhase' /\ Settled' /\ Reached'
    <3>1. \A s \in Threads : pc'[s] \in FirstPCs /\ (pc'[s] = "voted" => pc[s] = "voted")
      BY <2>1, <1>2, EdgeOrReturnStep DEF IInv, FirstPhase, FirstPCs, RelaxPCs
    <3> QED
      BY <3>1, <1>1, <1>2, FirstLasts DEF IInv
  <2>5. NothingLost'
    <3> SUFFICES ASSUME NEW x \in Nodes, NEW j \in 1 .. out_degree(g, x), Waits(x, j)
                 PROVE  Waits(x, j)'
      BY <1>1, StillWaiting DEF IInv
    <3>1. \A s \in Threads \ {t} : /\ pc'[s] = pc[s] /\ u'[s] = u[s] /\ i'[s] = i[s]
                                   /\ new_dist'[s] = new_dist[s]
      BY <2>1, <1>2, EdgeOrReturnStep DEF IInv
    <3>2. CASE u[t] = x
      <4>1. 1 <= j /\ 1 <= out_degree(g, x)
        BY <3>2, Edges DEF IInv
      <4>2. pc'[t] = "old" /\ u'[t] = x /\ i'[t] = 1
        BY <4>1, <3>2, <2>1, <1>2, EdgeOrReturnStep DEF IInv
      <4> QED
        BY <4>1, <4>2 DEF Waits
    <3>3. CASE u[t] # x
      BY <3>1, <3>3, <1>1 DEF Waits, args, indexes, dest_bin, next_frontier_tail
    <3> QED
      BY <3>2, <3>3
  <2> QED
    BY <2>2, <2>3, <2>4, <2>5 DEF IInv, Phases
<1>5. CASE ~(dist[u[t]] >= delta * curr_bin_index)
  <2>1. /\ pc' = [pc EXCEPT ![t] = "loop"] /\ u' = [u EXCEPT ![t] = 0]
        /\ UNCHANGED <<i, old_dist, new_dist>>
    BY <1>5 DEF Filter, Goto
  <2>2. 0 \in Nodes
    BY NumNodesAssumption DEF Nodes
  <2>3. /\ \A s \in Threads : pc'[s] = IF s = t THEN "loop" ELSE pc[s]
        /\ \A s \in Threads : s # t => u'[s] = u[s]
    BY <2>1 DEF IInv, TypeOK
  <2>4. TypeOK'
    BY <2>1, <2>2, <1>1 DEF IInv, TypeOK, args, indexes, PCs
  <2>5. Hands'
    <3> SUFFICES ASSUME NEW s \in Threads PROVE Hand(s)'
      BY DEF Hands
    <3>1. Hand(s)
      BY DEF IInv, Hands
    <3> QED
      BY <3>1, <2>1, <2>3, <1>1 DEF Hand, RelaxPCs, v, args
  <2>6. FirstPhase' /\ Settled' /\ Reached'
    <3>1. \A s \in Threads : pc'[s] \in FirstPCs /\ (pc'[s] = "voted" => pc[s] = "voted")
      BY <2>3, <1>2 DEF FirstPhase, FirstPCs
    <3> QED
      BY <3>1, <1>1, <1>2, FirstLasts DEF IInv
  <2>7. NothingLost'
    <3> SUFFICES ASSUME NEW x \in Nodes, NEW j \in 1 .. out_degree(g, x), Relaxable(x, j), Waits(x, j)
                 PROVE  Waits(x, j)'
      BY <1>1, StillWaiting DEF IInv
    <3>1. u[t] # x
      BY <1>2, <1>3, <1>5 DEF IInv, Settled
    <3> QED
      BY <3>1, <2>1, <2>3, <1>1 DEF Waits, args, indexes, dest_bin, next_frontier_tail
  <2> QED
    BY <2>4, <2>5, <2>6, <2>7 DEF IInv, Phases
<1> QED
  BY <1>4, <1>5

LEMMA FuseKeeps ==
  ASSUME IInv, NEW t \in Threads, Fuse(t)
  PROVE  IInv'
<1> DEFINE c == curr_bin_index
<1>1. /\ pc[t] = "loop" /\ rest' = [rest EXCEPT ![t] = local_bins[t][c]]
      /\ local_bins' = [local_bins EXCEPT ![t][c] = <<>>]
      /\ UNCHANGED <<args, dist, frontier, indexes, todo, pc, locals>>
  BY DEF Fuse
<1>2. FirstPhase
  BY <1>1, InFirst DEF IInv, FirstPCs
<1>3. c \in Bins
  BY <1>2, Limits DEF IInv, FirstPhase, Bins
<1>4. /\ local_bins' \in [Threads -> [Bins -> Seq(Nodes)]]
      /\ local_bins'[t][c] = <<>> /\ local_bins[t][c] \in Seq(Nodes)
      /\ \A s \in Threads, k \in Bins : s # t \/ k # c => local_bins'[s][k] = local_bins[s][k]
  <2> HIDE DEF c
  <2>1. local_bins \in [Threads -> [Bins -> Seq(Nodes)]] /\ <<>> \in Seq(Nodes)
    BY DEF IInv, TypeOK
  <2>2. /\ local_bins' = [local_bins EXCEPT ![t] = local_bins'[t]]
        /\ local_bins'[t] = [local_bins[t] EXCEPT ![c] = <<>>]
    BY <2>1, <1>1
  <2>3. local_bins'[t] \in [Bins -> Seq(Nodes)] /\ local_bins'[t][c] = <<>>
        /\ \A k \in Bins : k # c => local_bins'[t][k] = local_bins[t][k]
    BY <1>3, <2>1, <2>2
  <2>4. \A s \in Threads : s # t => local_bins'[s] = local_bins[s]
    BY <2>1, <2>2
  <2>5. local_bins' \in [Threads -> [Bins -> Seq(Nodes)]]
    BY <2>1, <2>2, <2>3
  <2>6. local_bins[t][c] \in Seq(Nodes)
    BY <1>3, <2>1
  <2> QED
    BY <2>3, <2>4, <2>5, <2>6
<1>5. TypeOK'
  BY <1>1, <1>4 DEF IInv, TypeOK, args, indexes, locals
<1>6. Hands'
  BY <1>1 DEF IInv, Hands, Hand, v, args, locals
<1>7. FirstPhase' /\ Settled' /\ Reached'
  <2>1. \A s \in Threads : rest'[s] = rest[s] \/ s = t
    BY <1>1 DEF IInv, TypeOK
  <2> QED
    BY <2>1, <1>1, <1>2, <1>4, FirstLasts DEF IInv, FirstPhase
<1>8. NothingLost'
  <2> SUFFICES ASSUME NEW x \in Nodes, NEW j \in 1 .. out_degree(g, x), Relaxable(x, j), Waits(x, j)
               PROVE  Waits(x, j)'
    BY <1>1, StillWaiting DEF IInv
  <2>1. CASE \E s \in Threads : In(x, local_bins[s][dest_bin(dist[x])])
    <3>1. PICK s \in Threads : In(x, local_bins[s][dest_bin(dist[x])])
      BY <2>1
    <3>2. dest_bin(dist[x]) \in Bins /\ dest_bin(dist[x])' = dest_bin(dist[x])
      BY <1>1, WaitingBin DEF IInv, dest_bin, args
    <3>3. CASE s = t /\ dest_bin(dist[x]) = c
      <4>1. rest'[t] = local_bins[t][c]
        BY <1>1 DEF IInv, TypeOK
      <4> QED
        BY <4>1, <3>1, <3>3 DEF Waits
    <3>4. CASE ~(s = t /\ dest_bin(dist[x]) = c)
      BY <3>1, <3>2, <3>4, <1>4 DEF Waits
    <3> QED
      BY <3>3, <3>4
  <2>2. CASE \E s \in Threads : In(x, rest[s])
    <3>1. PICK s \in Threads : In(x, rest[s])
      BY <2>2
    <3>2. rest[t] = <<>>
      BY DEF Fuse
    <3>3. s # t
      BY <3>1, <3>2 DEF In
    <3>4. rest'[s] = rest[s]
      BY <3>3, <1>1 DEF IInv, TypeOK
    <3> QED
      BY <3>1, <3>4 DEF Waits
  <2>3. CASE ~\E s \in Threads : In(x, local_bins[s][dest_bin(dist[x])]) \/ In(x, rest[s])
    BY <2>3, <1>1 DEF Waits, args, indexes, locals, next_frontier_tail
  <2> QED
    BY <2>1, <2>2, <2>3
<1> QED
  BY <1>5, <1>6, <1>7, <1>8 DEF IInv, Phases

LEMMA TakeFusedKeeps ==
  ASSUME IInv, NEW t \in Threads, TakeFused(t)
  PROVE  IInv'
<1> DEFINE h == Head(rest[t])
<1>1. /\ pc[t] = "loop" /\ rest' = [rest EXCEPT ![t] = Tail(rest[t])]
      /\ EdgeOrReturn(t, h, 1) /\ 1 \in Nat \ {0} /\ rest[t] # <<>>
      /\ UNCHANGED <<args, dist, frontier, indexes, todo, local_bins>>
  BY DEF TakeFused
<1>2. FirstPhase
  BY <1>1, InFirst DEF IInv, FirstPCs
<1>3. /\ rest[t] \in Seq(Nodes) /\ h \in Nodes /\ Tail(rest[t]) \in Seq(Nodes)
      /\ \A x : In(x, rest[t]) => x = h \/ In(x, Tail(rest[t]))
  <2>1. rest[t] \in Seq(Nodes)
    BY DEF IInv, TypeOK
  <2> QED
    BY <2>1, <1>1, Lists
<1> HIDE DEF h
<1>4. TypeOK'
  BY <1>1, <1>3, EdgeOrReturnStep DEF IInv, TypeOK, args, indexes
<1>5. Hands'
  BY <1>1, <1>3, HandsAtEdge DEF IInv, args
<1>6. \A s \in Threads : rest'[s] = IF s = t THEN Tail(rest[t]) ELSE rest[s]
  BY <1>1 DEF IInv, TypeOK
<1>7. FirstPhase' /\ Settled' /\ Reached'
  <2>1. \A s \in Threads : pc'[s] \in FirstPCs /\ (pc'[s] = "voted" => pc[s] = "voted" /\ s # t)
    BY <1>1, <1>2, <1>3, EdgeOrReturnStep DEF IInv, FirstPhase, FirstPCs, RelaxPCs
  <2> QED
    BY <2>1, <1>1, <1>2, <1>6, FirstLasts DEF IInv
<1>8. NothingLost'
  <2> SUFFICES ASSUME NEW x \in Nodes, NEW j \in 1 .. out_degree(g, x), Waits(x, j)
               PROVE  Waits(x, j)'
    BY <1>1, StillWaiting DEF IInv
  <2>1. \A s \in Threads \ {t} : /\ pc'[s] = pc[s] /\ u'[s] = u[s] /\ i'[s] = i[s]
                                 /\ new_dist'[s] = new_dist[s]
    BY <1>1, <1>3, EdgeOrReturnStep DEF IInv
  <2>2. CASE h = x
    <3>1. 1 <= j /\ 1 <= out_degree(g, x)
      BY Edges DEF IInv
    <3>2. pc'[t] = "old" /\ u'[t] = x /\ i'[t] = 1
      BY <3>1, <2>2, <1>1, <1>3, EdgeOrReturnStep DEF IInv
    <3> QED
      BY <3>1, <3>2 DEF Waits
  <2>3. CASE h # x
    BY <2>1, <2>3, <1>1, <1>3, <1>6 DEF Waits, args, indexes, dest_bin, next_frontier_tail
  <2> QED
    BY <2>2, <2>3
<1> QED
  BY <1>4, <1>5, <1>7, <1>8 DEF IInv, Phases

\* The vote of a thread is no higher than the lowest of its bins, nor than earlier votes.
LEMMA VoteKeeps ==
  ASSUME IInv, NEW t \in Threads, Vote(t)
  PROVE  IInv'
<1>1. /\ pc[t] = "loop" /\ rest[t] = <<>> /\ todo = {} /\ pc' = [pc EXCEPT ![t] = "voted"]
      /\ UNCHANGED <<args, dist, frontier, frontier_tails, iter, single, todo, local_bins, rest, locals>>
  BY DEF Vote, Goto
<1>2. FirstPhase
  BY <1>1, InFirst DEF IInv, FirstPCs
<1>3. \A s \in Threads : pc'[s] = IF s = t THEN "voted" ELSE pc[s]
  BY <1>1 DEF IInv, TypeOK
<1>4. /\ iter \in {0, 1} /\ 1 - iter \in {0, 1} /\ 1 - iter # iter
      /\ next_bin_index \in 0 .. kMaxBin /\ kMaxBin \in Nat /\ curr_bin_index \in 0 .. kMaxBin
  BY Limits DEF IInv, TypeOK
<1>5. /\ shared_indexes' \in [{0, 1} -> 0 .. kMaxBin]
      /\ curr_bin_index' = curr_bin_index
      /\ next_bin_index' <= next_bin_index /\ next_bin_index' \in 0 .. kMaxBin
      /\ \A k \in NonEmpty(t) : next_bin_index' <= k
  <2>1. CASE NonEmpty(t) = {}
    <3>1. shared_indexes' = shared_indexes
      BY <2>1 DEF Vote
    <3> QED
      BY <3>1, <2>1, <1>1, <1>4 DEF curr_bin_index, next_bin_index, IInv, TypeOK
  <2>2. CASE NonEmpty(t) # {}
    <3>1. PICK b \in NonEmpty(t) : /\ \A k \in NonEmpty(t) : b <= k
                                   /\ shared_indexes' = [shared_indexes EXCEPT ![1 - iter] = MinOf(@, b)]
      BY <2>2 DEF Vote
    <3>2. b \in 0 .. kMaxBin
      BY <1>4 DEF NonEmpty, Bins
    <3>3. MinOf(next_bin_index, b) \in 0 .. kMaxBin /\ MinOf(next_bin_index, b) <= b
          /\ MinOf(next_bin_index, b) <= next_bin_index
      BY <1>4, <3>2 DEF MinOf
    <3>4. shared_indexes' = [shared_indexes EXCEPT ![1 - iter] = MinOf(next_bin_index, b)]
      BY <3>1 DEF next_bin_index
    <3>5. shared_indexes' \in [{0, 1} -> 0 .. kMaxBin] /\ shared_indexes'[1 - iter] = MinOf(next_bin_index, b)
          /\ shared_indexes'[iter] = shared_indexes[iter]
      BY <3>3, <3>4, <1>4 DEF IInv, TypeOK
    <3>6. next_bin_index' = MinOf(next_bin_index, b) /\ curr_bin_index' = curr_bin_index
      BY <3>5, <1>1 DEF next_bin_index, curr_bin_index
    <3>7. \A k \in NonEmpty(t) : k \in Nat
      BY DEF NonEmpty, Bins
    <3> QED
      BY <3>1, <3>2, <3>3, <3>5, <3>6, <3>7, <1>4
  <2> QED
    BY <2>1, <2>2
<1>6. TypeOK'
  BY <1>1, <1>5 DEF IInv, TypeOK, args, locals, PCs
<1>7. Hands'
  <2> SUFFICES ASSUME NEW s \in Threads PROVE Hand(s)'
    BY DEF Hands
  <2>1. Hand(s)
    BY DEF IInv, Hands
  <2> QED
    BY <2>1, <1>1, <1>3 DEF Hand, RelaxPCs, v, args, locals
<1>8. FirstPhase'
  <2>1. \A s \in Threads : pc'[s] \in FirstPCs
    BY <1>2, <1>3 DEF FirstPhase, FirstPCs
  <2>2. curr_bin_index' < kMaxBin /\ next_frontier_tail' = 0 /\ BinsFrom(curr_bin_index)'
    BY <1>1, <1>2, <1>5 DEF FirstPhase, next_frontier_tail, BinsFrom
  <2>3. ASSUME NEW s \in Threads, pc'[s] = "voted"
        PROVE  /\ todo' = {} /\ rest'[s] = <<>>
               /\ \A k \in Bins : local_bins'[s][k] # <<>> => next_bin_index' <= k
    <3>1. CASE s = t
      BY <3>1, <1>1, <1>2, <1>5 DEF NonEmpty, FirstPhase, BinsFrom
    <3>2. CASE s # t
      <4>1. \A k \in Bins : k \in Nat /\ (local_bins[s][k] # <<>> => next_bin_index <= k)
        BY <3>2, <2>3, <1>2, <1>3 DEF FirstPhase, Bins
      <4> QED
        BY <4>1, <3>2, <2>3, <1>1, <1>2, <1>3, <1>4, <1>5 DEF FirstPhase
    <3> QED
      BY <3>1, <3>2
  <2> QED
    BY <2>1, <2>2, <2>3 DEF FirstPhase
<1>9. Settled' /\ Reached'
  BY <1>1, <1>5 DEF IInv, Settled, Reached, Relaxable, args
<1>10. NothingLost'
  <2> SUFFICES ASSUME NEW x \in Nodes, NEW j \in 1 .. out_degree(g, x), Waits(x, j)
               PROVE  Waits(x, j)'
    BY <1>1, StillWaiting DEF IInv
  <2> QED
    BY <1>1, <1>3 DEF Waits, args, locals, dest_bin, next_frontier_tail
<1> QED
  BY <1>6, <1>7, <1>8, <1>9, <1>10 DEF IInv, Phases

-----------------------------------------------------------------------------
(***************************************************************************)
(* The barriers and the second phase.                                      *)
(***************************************************************************)
\* All have voted: whatever is still to be relaxed is in a bin, from the next
\* one up.
LEMMA EndFirstPhaseKeeps ==
  ASSUME IInv, EndFirstPhase
  PROVE  IInv'
<1>1. /\ \A t \in Threads : pc[t] = "voted" /\ pc'[t] = "single"
      /\ pc' = [t \in Threads |-> "single"] /\ single' = FALSE
      /\ UNCHANGED <<args, dist, frontier, shared_indexes, frontier_tails, iter, todo, local_bins, rest, locals>>
  BY DEF EndFirstPhase
<1>2. FirstPhase
  BY <1>1, ThreadsAssumption, InFirst DEF IInv, FirstPCs
<1>3. todo = {} /\ \A t \in Threads : rest[t] = <<>>
  BY <1>1, <1>2, ThreadsAssumption DEF FirstPhase
<1>4. TypeOK'
  BY <1>1 DEF IInv, TypeOK, args, locals, PCs
<1>5. Hands'
  BY <1>1 DEF Hands, Hand, RelaxPCs
<1>6. /\ next_bin_index' = next_bin_index /\ curr_bin_index' = curr_bin_index
      /\ next_frontier_tail' = next_frontier_tail
  BY <1>1 DEF next_bin_index, curr_bin_index, next_frontier_tail
<1>7. SettledBelow(delta * next_bin_index)
  <2> SUFFICES ASSUME NEW x \in Nodes, NEW j \in 1 .. out_degree(g, x), Relaxable(x, j)
               PROVE  delta * next_bin_index <= dist[x]
    BY DEF SettledBelow
  <2>1. Waits(x, j)
    BY DEF IInv, NothingLost
  <2>2. PICK t \in Threads : In(x, local_bins[t][dest_bin(dist[x])])
    <3>1. ~(\E t \in Threads : In(x, rest[t]))
      BY <1>3 DEF In
    <3> QED
      BY <2>1, <3>1, <1>1, <1>3 DEF Waits
  <2>3. dest_bin(dist[x]) \in Bins /\ dist[x] \in Nat
    BY WaitingBin DEF IInv
  <2>4. local_bins[t][dest_bin(dist[x])] # <<>>
    BY <2>2 DEF In
  <2>5. next_bin_index <= dest_bin(dist[x])
    BY <2>3, <2>4, <1>1, <1>2 DEF FirstPhase
  <2>6. next_bin_index \in Nat
    BY Limits DEF IInv
  <2> QED
    BY <2>3, <2>5, <2>6, BinOf DEF IInv
<1>8. SecondPhase'
  <2>1. BinsFrom(next_bin_index)'
    BY <1>1, <1>2, <1>6 DEF FirstPhase, BinsFrom
  <2>2. SettledBelow(delta * next_bin_index)'
    BY <1>1, <1>6, <1>7 DEF SettledBelow, Relaxable, args
  <2>3. next_frontier_tail' <= Len(frontier')
    BY <1>1, <1>2, <1>6 DEF FirstPhase, IInv, TypeOK
  <2>4. \A t \in Threads : pc'[t] \in SecondPCs /\ rest'[t] = <<>>
    BY <1>1, <1>3 DEF SecondPCs
  <2> QED
    BY <2>1, <2>2, <2>3, <2>4, <1>1, <1>3 DEF SecondPhase
<1>9. Settled' /\ Reached'
  BY <1>1, <1>6 DEF IInv, Settled, Reached, Relaxable, args
<1>10. NothingLost'
  <2> SUFFICES ASSUME NEW x \in Nodes, NEW j \in 1 .. out_degree(g, x), Waits(x, j)
               PROVE  Waits(x, j)'
    BY <1>1, StillWaiting DEF IInv
  <2> QED
    BY <1>1, <1>6 DEF Waits, args, dest_bin
<1> QED
  BY <1>4, <1>5, <1>8, <1>9, <1>10 DEF IInv, Phases

\* A thread in the second phase shows that it is the phase of all.
LEMMA InSecond ==
  ASSUME Phases, NEW t \in Threads, pc[t] \in SecondPCs
  PROVE  SecondPhase
BY DEF Phases, FirstPhase, Ended, FirstPCs, SecondPCs, RelaxPCs

LEMMA SingleKeeps ==
  ASSUME IInv, NEW t \in Threads, Single(t)
  PROVE  IInv'
<1>1. /\ pc[t] = "single" /\ pc' = [pc EXCEPT ![t] = "copy"]
      /\ UNCHANGED <<args, dist, frontier, iter, todo, local_bins, rest, locals>>
  BY DEF Single, Goto
<1>2. SecondPhase
  BY <1>1, InSecond DEF IInv, SecondPCs
<1>3. \A s \in Threads : pc'[s] = IF s = t THEN "copy" ELSE pc[s]
  BY <1>1 DEF IInv, TypeOK
<1>4. /\ iter \in {0, 1} /\ 1 - iter \in {0, 1} /\ 1 - iter # iter /\ kMaxBin \in Nat
  BY Limits DEF IInv, TypeOK
<1>5. /\ shared_indexes' \in [{0, 1} -> 0 .. kMaxBin] /\ frontier_tails' \in [{0, 1} -> Nat]
      /\ next_bin_index' = next_bin_index /\ next_frontier_tail' = next_frontier_tail
      /\ single' = TRUE /\ frontier_tails'[iter] = 0
      /\ curr_bin_index' = curr_bin_index \/ curr_bin_index' = kMaxBin
  <2>1. CASE single
    BY <2>1, <1>1, <1>2 DEF Single, IInv, TypeOK, SecondPhase, next_bin_index, next_frontier_tail,
                            curr_bin_index
  <2>2. CASE ~single
    <3>1. /\ single' = TRUE
          /\ shared_indexes' = [shared_indexes EXCEPT ![iter] = kMaxBin]
          /\ frontier_tails' = [frontier_tails EXCEPT ![iter] = 0]
      BY <2>2 DEF Single
    <3> QED
      BY <3>1, <1>1, <1>4 DEF IInv, TypeOK, next_bin_index, next_frontier_tail, curr_bin_index
  <2> QED
    BY <2>1, <2>2
<1>6. TypeOK'
  BY <1>1, <1>5 DEF IInv, TypeOK, args, locals, PCs
<1>7. Hands'
  <2> SUFFICES ASSUME NEW s \in Threads PROVE Hand(s)'
    BY DEF Hands
  <2>1. pc'[s] \notin RelaxPCs
    BY <1>2, <1>3 DEF SecondPhase, SecondPCs, RelaxPCs
  <2> QED
    BY <2>1 DEF Hand, RelaxPCs
<1>8. SecondPhase'
  <2>1. SettledBelow(delta * next_bin_index)' /\ BinsFrom(next_bin_index)'
    BY <1>1, <1>2, <1>5 DEF SecondPhase, SettledBelow, BinsFrom, Relaxable, args
  <2>2. \A s \in Threads : pc'[s] \in SecondPCs /\ rest'[s] = <<>>
    BY <1>1, <1>2, <1>3 DEF SecondPhase, SecondPCs
  <2> QED
    BY <2>1, <2>2, <1>1, <1>2, <1>5 DEF SecondPhase
<1>9. Settled' /\ Reached'
  BY <1>1, <1>5 DEF IInv, Settled, Reached, Relaxable, args
<1>10. NothingLost'
  <2> SUFFICES ASSUME NEW x \in Nodes, NEW j \in 1 .. out_degree(g, x), Waits(x, j)
               PROVE  Waits(x, j)'
    BY <1>1, StillWaiting DEF IInv
  <2> QED
    BY <1>1, <1>3, <1>5 DEF Waits, args, locals, dest_bin
<1> QED
  BY <1>6, <1>7, <1>8, <1>9, <1>10 DEF IInv, Phases

\* What waited in the bin waits in the part of the frontier it was copied to.
LEMMA CopyKeeps ==
  ASSUME IInv, NEW t \in Threads, Copy(t)
  PROVE  IInv'
<1> DEFINE bin == local_bins[t][next_bin_index]
<1>1. /\ pc[t] = "copy" /\ pc' = [pc EXCEPT ![t] = "copied"]
      /\ UNCHANGED <<args, dist, shared_indexes, iter, single, todo, rest, locals>>
  BY DEF Copy, Goto
<1>2. SecondPhase
  BY <1>1, InSecond DEF IInv, SecondPCs
<1>3. \A s \in Threads : pc'[s] = IF s = t THEN "copied" ELSE pc[s]
  BY <1>1 DEF IInv, TypeOK
<1>4. /\ iter \in {0, 1} /\ 1 - iter \in {0, 1} /\ 1 - iter # iter /\ kMaxBin \in Nat
      /\ next_frontier_tail \in Nat /\ next_frontier_tail <= Len(frontier) /\ frontier \in Seq(Nodes)
      /\ next_bin_index \in 0 .. kMaxBin
  BY <1>2, Limits DEF IInv, TypeOK, SecondPhase
<1>5. next_bin_index' = next_bin_index /\ curr_bin_index' = curr_bin_index
  BY <1>1 DEF next_bin_index, curr_bin_index
<1>6. /\ frontier' \in Seq(Nodes) /\ next_frontier_tail <= next_frontier_tail'
      /\ next_frontier_tail' <= Len(frontier') /\ next_frontier_tail' \in Nat
      /\ frontier_tails' \in [{0, 1} -> Nat] /\ frontier_tails'[iter] = frontier_tails[iter]
      /\ local_bins' \in [Threads -> [Bins -> Seq(Nodes)]]
      /\ \A k \in 1 .. next_frontier_tail : frontier'[k] = frontier[k]
      /\ \A s \in Threads, b \in Bins : \/ local_bins'[s][b] = local_bins[s][b]
                                        \/ /\ local_bins'[s][b] = <<>>
                                           /\ \A x : In(x, local_bins[s][b]) =>
                                                     \E k \in 1 .. next_frontier_tail' : frontier'[k] = x
  <2>1. CASE ~(next_bin_index < kMaxBin)
    <3>1. UNCHANGED <<frontier, frontier_tails, local_bins>>
      BY <2>1 DEF Copy
    <3>2. next_frontier_tail' = next_frontier_tail
      BY <3>1, <1>1 DEF next_frontier_tail
    <3>3. frontier_tails \in [{0, 1} -> Nat] /\ local_bins \in [Threads -> [Bins -> Seq(Nodes)]]
      BY DEF IInv, TypeOK
    <3> QED
      BY <3>1, <3>2, <3>3, <1>4
  <2>2. CASE next_bin_index < kMaxBin
    <3>1. /\ frontier' = SubSeq(frontier, 1, next_frontier_tail) \o bin
          /\ frontier_tails' = [frontier_tails EXCEPT ![1 - iter] = frontier_tails[1 - iter] + Len(bin)]
          /\ local_bins' = [local_bins EXCEPT ![t][next_bin_index] = <<>>]
      BY <2>2 DEF Copy
    <3>2. next_bin_index \in Bins /\ bin \in Seq(Nodes) /\ Len(bin) \in Nat
      BY SMTT(30), <2>2, <1>4 DEF Bins, IInv, TypeOK
    <3> HIDE DEF bin
    <3>3. /\ frontier_tails' \in [{0, 1} -> Nat] /\ frontier_tails'[iter] = frontier_tails[iter]
          /\ next_frontier_tail' = next_frontier_tail + Len(bin)
      <4>1. frontier_tails \in [{0, 1} -> Nat] /\ frontier_tails[1 - iter] + Len(bin) \in Nat
        BY SMTT(30), <3>2, <1>4 DEF IInv, TypeOK
      <4> QED
        BY <4>1, <3>1, <1>1, <1>4 DEF next_frontier_tail
    <3>4. /\ frontier' \in Seq(Nodes) /\ Len(frontier') = next_frontier_tail + Len(bin)
          /\ \A k \in 1 .. next_frontier_tail : frontier'[k] = frontier[k]
          /\ \A k \in 1 .. Len(bin) : frontier'[next_frontier_tail + k] = bin[k]
      <4>1. /\ SubSeq(frontier, 1, next_frontier_tail) \in Seq(Nodes)
            /\ Len(SubSeq(frontier, 1, next_frontier_tail)) = next_frontier_tail
            /\ \A k \in 1 .. next_frontier_tail : SubSeq(frontier, 1, next_frontier_tail)[k] = frontier[k]
        BY <1>4
      <4> QED
        BY SMTT(30), <4>1, <3>1, <3>2, <1>4
    <3>5. /\ local_bins' \in [Threads -> [Bins -> Seq(Nodes)]] /\ local_bins'[t][next_bin_index] = <<>>
          /\ \A s \in Threads, b \in Bins : s # t \/ b # next_bin_index => local_bins'[s][b] = local_bins[s][b]
      <4>1. local_bins \in [Threads -> [Bins -> Seq(Nodes)]] /\ <<>> \in Seq(Nodes)
        BY DEF IInv, TypeOK
      <4>2. /\ local_bins' = [local_bins EXCEPT ![t] = local_bins'[t]]
            /\ local_bins'[t] = [local_bins[t] EXCEPT ![next_bin_index] = <<>>]
        BY <4>1, <3>1
      <4>3. local_bins'[t] \in [Bins -> Seq(Nodes)] /\ local_bins'[t][next_bin_index] = <<>>
            /\ \A b \in Bins : b # next_bin_index => local_bins'[t][b] = local_bins[t][b]
        BY <3>2, <4>1, <4>2
      <4>4. \A s \in Threads : s # t => local_bins'[s] = local_bins[s]
        BY <4>1, <4>2
      <4>5. local_bins' \in [Threads -> [Bins -> Seq(Nodes)]]
        BY <4>1, <4>2, <4>3
      <4> QED
        BY <4>3, <4>4, <4>5
    <3>6. ASSUME NEW x, In(x, bin) PROVE \E k \in 1 .. next_frontier_tail' : frontier'[k] = x
      <4>1. PICK k \in 1 .. Len(bin) : bin[k] = x
        BY <3>6 DEF In
      <4>2. next_frontier_tail + k \in 1 .. next_frontier_tail' /\ frontier'[next_frontier_tail + k] = x
        BY <4>1, <3>2, <3>3, <3>4, <1>4
      <4> QED
        BY <4>2
    <3>7. \A x : In(x, local_bins[t][next_bin_index]) =>
                 \E k \in 1 .. next_frontier_tail' : frontier'[k] = x
      BY <3>6 DEF bin
    <3>8. /\ next_frontier_tail <= next_frontier_tail' /\ next_frontier_tail' <= Len(frontier')
          /\ next_frontier_tail' \in Nat
      BY <3>2, <3>3, <3>4, <1>4
    <3> QED
      BY <3>3, <3>4, <3>5, <3>7, <3>8
  <2> QED
    BY <2>1, <2>2
<1>7. TypeOK'
  <2>1. todo' = {}
    BY <1>1, <1>2 DEF SecondPhase
  <2> QED
    BY <2>1, <1>1, <1>6 DEF IInv, TypeOK, args, locals, PCs
<1>8. Hands'
  <2> SUFFICES ASSUME NEW s \in Threads PROVE Hand(s)'
    BY DEF Hands
  <2>1. pc'[s] \notin RelaxPCs
    BY <1>2, <1>3 DEF SecondPhase, SecondPCs, RelaxPCs
  <2> QED
    BY <2>1 DEF Hand, RelaxPCs
<1>9. SecondPhase'
  <2>1. BinsFrom(next_bin_index)'
    <3>1. \A s \in Threads, b \in Bins : local_bins'[s][b] # <<>> => local_bins[s][b] # <<>>
      BY <1>6
    <3> QED
      BY <3>1, <1>2, <1>5 DEF SecondPhase, BinsFrom
  <2>2. SettledBelow(delta * next_bin_index)'
    BY <1>1, <1>2, <1>5 DEF SecondPhase, SettledBelow, Relaxable, args
  <2>3. \A s \in Threads : pc'[s] \in SecondPCs /\ rest'[s] = <<>>
    BY <1>1, <1>2, <1>3 DEF SecondPhase, SecondPCs
  <2>4. /\ \A s \in Threads : pc'[s] # "single" => single'
        /\ single' => frontier_tails'[iter'] = 0
    BY <1>1, <1>2, <1>3, <1>6 DEF SecondPhase
  <2> QED
    BY <2>1, <2>2, <2>3, <2>4, <1>1, <1>2, <1>6 DEF SecondPhase
<1>10. Settled' /\ Reached'
  BY <1>1, <1>5 DEF IInv, Settled, Reached, Relaxable, args
<1>11. NothingLost'
  <2> SUFFICES ASSUME NEW x \in Nodes, NEW j \in 1 .. out_degree(g, x), Relaxable(x, j), Waits(x, j)
               PROVE  Waits(x, j)'
    BY <1>1, StillWaiting DEF IInv
  <2>0. \E s \in Threads : pc'[s] \in {"copy", "copied"}
    BY <1>3
  <2>1. CASE \E k \in 1 .. next_frontier_tail : frontier[k] = x
    <3>1. \E k \in 1 .. next_frontier_tail' : frontier'[k] = x
      BY <2>1, <1>4, <1>6
    <3> QED
      BY <3>1, <2>0 DEF Waits
  <2>2. CASE \E s \in Threads : In(x, local_bins[s][dest_bin(dist[x])])
    <3>1. PICK s \in Threads : In(x, local_bins[s][dest_bin(dist[x])])
      BY <2>2
    <3>2. dest_bin(dist[x]) \in Bins /\ dest_bin(dist[x])' = dest_bin(dist[x])
      BY <1>1, WaitingBin DEF IInv, dest_bin, args
    <3>3. CASE local_bins'[s][dest_bin(dist[x])] = local_bins[s][dest_bin(dist[x])]
      BY <3>1, <3>2, <3>3 DEF Waits
    <3>4. CASE \E k \in 1 .. next_frontier_tail' : frontier'[k] = x
      BY <3>4, <2>0 DEF Waits
    <3> QED
      BY ZenonT(60), <3>1, <3>2, <3>3, <3>4, <1>6
  <2>3. \A s \in Threads : pc[s] \in SecondPCs /\ ~In(x, rest[s])
    BY <1>2 DEF SecondPhase, In
  <2>4. todo = {}
    BY <1>2 DEF SecondPhase
  <2> QED
    BY <2>1, <2>2, <2>3, <2>4 DEF Waits, SecondPCs
<1> QED
  BY <1>7, <1>8, <1>9, <1>10, <1>11 DEF IInv, Phases

LEMMA EndSecondPhaseKeeps ==
  ASSUME IInv, EndSecondPhase
  PROVE  IInv'
<1>1. /\ \A t \in Threads : pc[t] = "copied"
      /\ iter' = 1 - iter
      /\ UNCHANGED <<args, dist, frontier, shared_indexes, frontier_tails, single, local_bins, rest, locals>>
  BY DEF EndSecondPhase
<1>2. SecondPhase
  BY <1>1, ThreadsAssumption, InSecond DEF IInv, SecondPCs
<1>3. /\ iter \in {0, 1} /\ 1 - iter \in {0, 1} /\ 1 - iter # iter /\ kMaxBin \in Nat /\ 1 - (1 - iter) = iter
      /\ next_bin_index \in 0 .. kMaxBin
  BY Limits DEF IInv, TypeOK
<1>4. curr_bin_index' = next_bin_index /\ next_frontier_tail' = 0
  <2>1. single
    BY <1>1, <1>2, ThreadsAssumption DEF SecondPhase
  <2> QED
    BY <2>1, <1>1, <1>2, <1>3 DEF SecondPhase, curr_bin_index, next_bin_index, next_frontier_tail
<1>5. Hands' /\ Reached'
  <2>1. \A t \in Threads : pc'[t] \notin RelaxPCs
    BY DEF EndSecondPhase, RelaxPCs
  <2> QED
    BY <2>1, <1>1 DEF IInv, Hands, Hand, RelaxPCs, Reached, args
<1>6. Settled'
  BY <1>1, <1>2, <1>4, Limits DEF IInv, SecondPhase, SettledBelow, Settled, Relaxable, args
<1>7. CASE next_bin_index # kMaxBin
  <2>1. todo' = 1 .. next_frontier_tail /\ pc' = [t \in Threads |-> "loop"]
    BY <1>7 DEF EndSecondPhase
  <2>2. TypeOK'
    <3>1. todo' \subseteq 1 .. Len(frontier')
      BY SMTT(30), <2>1, <1>1, <1>2, Limits DEF SecondPhase, IInv, TypeOK
    <3> QED
      BY <3>1, <2>1, <1>1, <1>3 DEF IInv, TypeOK, args, locals, PCs
  <2>3. FirstPhase'
    <3>1. BinsFrom(curr_bin_index)'
      BY <1>1, <1>2, <1>4 DEF SecondPhase, BinsFrom
    <3> QED
      BY <3>1, <2>1, <1>3, <1>4, <1>7 DEF FirstPhase, FirstPCs
  <2>4. NothingLost'
    <3> SUFFICES ASSUME NEW x \in Nodes, NEW j \in 1 .. out_degree(g, x), Waits(x, j)
                 PROVE  Waits(x, j)'
      BY <1>1, StillWaiting DEF IInv
    <3>1. todo = {}
      BY <1>2 DEF SecondPhase
    <3> QED
      BY <3>1, <2>1, <1>1 DEF Waits, args, dest_bin
  <2> QED
    BY <2>2, <2>3, <2>4, <1>5, <1>6 DEF IInv, Phases
<1>8. CASE next_bin_index = kMaxBin
  <2>1. todo' = {} /\ pc' = [t \in Threads |-> "done"]
    BY <1>8 DEF EndSecondPhase
  <2>2. TypeOK'
    BY <2>1, <1>1, <1>3 DEF IInv, TypeOK, args, locals, PCs
  <2>3. ASSUME NEW x \in Nodes, NEW j \in 1 .. out_degree(g, x) PROVE ~Relaxable(x, j)
    <3> SUFFICES ASSUME Relaxable(x, j) PROVE FALSE
      OBVIOUS
    <3>1. delta * kMaxBin <= dist[x]
      BY <1>2, <1>8 DEF SecondPhase, SettledBelow
    <3>2. g.out[x][j] \in Nodes /\ g.weight[x][j] \in Nat
      BY Edges DEF IInv
    <3>3. /\ dist[g.out[x][j]] \in Nat /\ dist[g.out[x][j]] <= kDistInf /\ dist[x] \in Nat
          /\ kDistInf \in Nat /\ kDistInf <= kMaxBin /\ delta * kMaxBin \in Nat /\ kMaxBin <= delta * kMaxBin
      BY <3>2, Limits DEF IInv
    <3> QED
      BY <3>1, <3>2, <3>3, <1>3 DEF Relaxable
  <2>4. Ended' /\ NothingLost'
    BY <2>1, <2>3, <1>1 DEF Ended, NothingLost, Relaxable, args
  <2> QED
    BY <2>2, <2>4, <1>5, <1>6 DEF IInv, Phases
<1> QED
  BY <1>7, <1>8

-----------------------------------------------------------------------------
LEMMA InitHolds == Init => IInv
<1> SUFFICES ASSUME Init PROVE IInv
  OBVIOUS
<1>1. /\ 0 \in Nodes /\ source \in Nodes /\ kDistInf \in Nat \ {0} /\ kMaxBin \in Nat /\ 0 < kMaxBin
      /\ delta \in Nat \ {0} /\ delta * 0 = 0
  BY NumNodesAssumption, LimitsAssumption, DeltasAssumption DEF Init, Nodes
<1>2. TypeOK
  <2>1. dist \in [Nodes -> 0 .. kDistInf]
    BY <1>1 DEF Init
  <2>2. frontier \in Seq(Nodes) /\ Len(frontier) = 1
    BY <1>1 DEF Init
  <2>3. todo \subseteq 1 .. Len(frontier)
    BY <2>2 DEF Init
  <2>4. /\ shared_indexes \in [{0, 1} -> 0 .. kMaxBin] /\ frontier_tails \in [{0, 1} -> Nat]
    BY <1>1 DEF Init
  <2>5. /\ local_bins \in [Threads -> [Bins -> Seq(Nodes)]] /\ rest \in [Threads -> Seq(Nodes)]
    BY DEF Init
  <2> QED
    BY <2>1, <2>2, <2>3, <2>4, <2>5, <1>1 DEF Init, TypeOK, PCs
<1>3. Hands
  BY DEF Init, Hands, Hand, RelaxPCs
<1>4. curr_bin_index = 0 /\ next_frontier_tail = 0 /\ frontier[1] = source
  BY DEF Init, curr_bin_index, next_frontier_tail
<1>5. FirstPhase
  BY <1>1, <1>4 DEF Init, FirstPhase, BinsFrom, FirstPCs
<1>6. \A n \in Nodes : dist[n] = IF n = source THEN 0 ELSE kDistInf
  BY DEF Init
<1>7. Reached
  BY <1>1, <1>6 DEF Reached
<1>8. Settled
  BY <1>1, <1>4, <1>6 DEF Settled
<1>9. NothingLost
  <2> SUFFICES ASSUME NEW x \in Nodes, NEW j \in 1 .. out_degree(g, x), Relaxable(x, j)
               PROVE  Waits(x, j)
    BY DEF NothingLost
  <2>1. g.out[x][j] \in Nodes /\ g.weight[x][j] \in Nat
    BY <1>2, Edges
  <2>2. x = source
    BY <2>1, <1>1, <1>6 DEF Relaxable
  <2> QED
    BY <2>2, <1>4 DEF Waits, Init
<1> QED
  BY <1>2, <1>3, <1>5, <1>7, <1>8, <1>9 DEF IInv, Phases

LEMMA StepKeeps == IInv /\ [Next]_vars => IInv'
<1> SUFFICES ASSUME IInv, [Next]_vars PROVE IInv'
  OBVIOUS
<1>1. CASE UNCHANGED vars
  <2>1. UNCHANGED <<args, indexes, locals>>
    BY <1>1 DEF vars, args, indexes, locals
  <2>2. TypeOK' /\ Hands' /\ Reached'
    BY <1>1 DEF vars, IInv, TypeOK, Hands, Hand, v, Reached
  <2>3. /\ curr_bin_index' = curr_bin_index /\ next_bin_index' = next_bin_index
        /\ next_frontier_tail' = next_frontier_tail
    BY <1>1 DEF vars, curr_bin_index, next_bin_index, next_frontier_tail
  <2>4. Phases' /\ Settled'
    BY <1>1, <2>3 DEF vars, IInv, Phases, FirstPhase, SecondPhase, Ended, BinsFrom, SettledBelow,
                      Settled, Relaxable
  <2>5. NothingLost'
    BY <1>1, <2>1, <2>3, StillWaiting DEF vars, IInv, Waits, dest_bin
  <2> QED
    BY <2>2, <2>4, <2>5 DEF IInv
<1>2. ASSUME NEW t \in Threads, Thread(t) PROVE IInv'
  BY <1>2, ClaimKeeps, FilterKeeps, ReadOldKeeps, ReadNewKeeps, CASKeeps, RereadKeeps, FuseKeeps,
     TakeFusedKeeps, VoteKeeps, SingleKeeps, CopyKeeps DEF Thread, RelaxEdges
<1> QED
  BY <1>1, <1>2, EndFirstPhaseKeeps, EndSecondPhaseKeeps DEF Next

LEMMA Invariant == Spec => []IInv
BY InitHolds, StepKeeps, PTL DEF Spec

\* The arrays, bins and indexes of the kernel keep their types (sssp.cc:89-152).
THEOREM TypeCorrect == Spec => []TypeOK
<1>1. IInv => TypeOK
  BY DEF IInv
<1> QED
  BY <1>1, Invariant, PTL

\* No improvement is lost between bins, copies, frontier and threads (sssp.cc:64-152).
THEOREM ImprovementsKept == Spec => []NothingLost
<1>1. IInv => NothingLost
  BY DEF IInv
<1> QED
  BY <1>1, Invariant, PTL

\* Bucket fusion keeps the priority order: nothing below the current bin can still
\* be shortened (sssp.cc:48-50).
THEOREM OrderKept == Spec => []Settled
<1>1. IInv => Settled
  BY DEF IInv
<1> QED
  BY <1>1, Invariant, PTL

\* The distances below the current bin are final: no step changes one.
THEOREM BelowIsFinal ==
  Spec => [][\A x \in Nodes : curr_bin_index # kMaxBin /\ dist[x] < delta * curr_bin_index
                              => dist'[x] = dist[x]]_vars
<1>1. ASSUME IInv, Next, NEW x \in Nodes, curr_bin_index # kMaxBin, dist[x] < delta * curr_bin_index
      PROVE  dist'[x] = dist[x]
  <2>1. CASE \E t \in Threads : CAS(t) /\ dist[v(t)] = old_dist[t]
    <3>1. PICK t \in Threads : CAS(t) /\ dist[v(t)] = old_dist[t]
      BY <2>1
    <3>2. pc[t] = "cas" /\ dist' = [dist EXCEPT ![v(t)] = new_dist[t]]
      BY <3>1 DEF CAS
    <3>3. /\ u[t] \in Nodes /\ i[t] \in 1 .. out_degree(g, u[t]) /\ v(t) = g.out[u[t]][i[t]]
          /\ dist[u[t]] \in Nat /\ dist[v(t)] \in Nat /\ g.weight[u[t]][i[t]] \in Nat
      BY <3>2, <1>1, InHand DEF IInv, RelaxPCs
    <3>4. /\ dist[u[t]] + g.weight[u[t]][i[t]] <= new_dist[t] /\ new_dist[t] < dist[v(t)]
          /\ new_dist[t] \in Nat /\ \A y \in Nodes : y # v(t) => dist'[y] = dist[y]
      BY <3>1, <3>2, <1>1, SwapDistances
    <3>5. Relaxable(u[t], i[t])
      BY <3>3, <3>4 DEF Relaxable
    <3>6. delta * curr_bin_index <= dist[u[t]] /\ delta * curr_bin_index \in Nat
      BY <3>3, <3>5, <1>1, Limits DEF IInv, Settled
    <3>7. x # v(t)
      BY SMTT(30), <3>3, <3>4, <3>6, <1>1
    <3> QED
      BY <3>4, <3>7
  <2>2. CASE ~\E t \in Threads : CAS(t) /\ dist[v(t)] = old_dist[t]
    <3>1. dist' = dist
      BY <2>2, <1>1 DEF Next, Thread, RelaxEdges, Claim, Filter, ReadOld, ReadNew, CAS, Reread, Fuse,
                        TakeFused, Vote, Single, Copy, EndFirstPhase, EndSecondPhase
    <3> QED
      BY <3>1
  <2> QED
    BY <2>1, <2>2
<1>2. IInv /\ [Next]_vars =>
        [\A x \in Nodes : curr_bin_index # kMaxBin /\ dist[x] < delta * curr_bin_index
                         => dist'[x] = dist[x]]_vars
  BY <1>1
<1> QED
  BY <1>2, Invariant, PTL DEF Spec

\* When the kernel ends, its array holds the shortest distances (sssp.cc:89-152).
THEOREM DistancesShortest == Spec => []ShortestFound
<1>1. ASSUME IInv, Done PROVE ShortestDistances(dist)
  <2>1. Ended
    BY <1>1, ThreadsAssumption DEF IInv, Done, Phases, FirstPhase, SecondPhase, FirstPCs, SecondPCs, RelaxPCs
  <2>2. ASSUME NEW x \in Nodes, NEW j \in 1 .. out_degree(g, x)
        PROVE  /\ dist[g.out[x][j]] <= dist[x] + g.weight[x][j]
               /\ g.weight[x][j] \in Nat /\ dist[x] \in Nat /\ dist[g.out[x][j]] \in Nat
    <3>1. g.out[x][j] \in Nodes /\ g.weight[x][j] \in Nat
      BY <1>1, Edges DEF IInv
    <3>2. dist[x] \in Nat /\ dist[g.out[x][j]] \in Nat
      BY <1>1, <3>1, Limits DEF IInv
    <3>3. ~Relaxable(x, j)
      BY <2>1 DEF Ended
    <3> QED
      BY <3>1, <3>2, <3>3 DEF Relaxable
  <2>3. ASSUME NEW y \in Nodes, dist[y] < kDistInf, y # source
        PROVE  \E x \in Nodes : \E j \in 1 .. out_degree(g, x) :
                 g.out[x][j] = y /\ dist[y] = dist[x] + g.weight[x][j]
    <3>1. PICK x \in Nodes : \E j \in 1 .. out_degree(g, x) :
                 g.out[x][j] = y /\ dist[x] + g.weight[x][j] <= dist[y]
      BY <1>1, <2>3 DEF IInv, Reached
    <3>2. PICK j \in 1 .. out_degree(g, x) :
                 g.out[x][j] = y /\ dist[x] + g.weight[x][j] <= dist[y]
      BY <3>1
    <3>3. dist[y] = dist[x] + g.weight[x][j]
      BY <3>2, <2>2
    <3> QED
      BY <3>2, <3>3
  <2> QED
    BY <1>1, <2>2, <2>3 DEF ShortestDistances, IInv, Reached
<1>2. IInv => ShortestFound
  BY <1>1 DEF ShortestFound
<1> QED
  BY <1>2, Invariant, PTL

-----------------------------------------------------------------------------
(***************************************************************************)
(* What SSSPVerifier accepts.  Its oracle is a recursive function: a       *)
(* sequence that begins and goes on as it says exists by induction, and    *)
(* then is that function.                                                  *)
(***************************************************************************)
\* A set of numbers that is not empty has a least one.
LEMMA LeastNat == ASSUME NEW T, T \subseteq Nat, T # {} PROVE \E n \in T : \A m \in T : n <= m
<1> DEFINE Below(n) == 0 .. (n - 1)
           R == StrictSubsetOrdering(Nat)
           S == FiniteSubsetsOf(Nat)
           D == {Below(n) : n \in T}
<1>1. IsWellFoundedOn(R, S)
  BY FS_StrictSubsetOrderingWellFounded
<1>2. \A n \in T : Below(n) \in S
  BY FS_Interval DEF FiniteSubsetsOf
<1>3. D \subseteq S /\ D # {}
  BY <1>2
<1> HIDE DEF S, R, D
<1>4. PICK d \in D : \A e \in D : ~(<<e, d>> \in R)
  BY <1>1, <1>3, WFMin
<1>5. PICK n \in T : d = Below(n)
  BY <1>4 DEF D
<1>6. \A m \in T : n <= m
  <2> SUFFICES ASSUME NEW m \in T, m < n PROVE FALSE
    OBVIOUS
  <2>1. Below(m) \subseteq Below(n) /\ Below(m) # Below(n)
    <3>1. m \in Below(n) /\ m \notin Below(m)
      OBVIOUS
    <3> QED
      BY <3>1
  <2>2. <<Below(m), d>> \in R
    BY <1>5, <2>1 DEF R, StrictSubsetOrdering
  <2> QED
    BY <2>2, <1>4 DEF D
<1> QED
  BY <1>6

\* Induction up to n, over a set instead of a predicate.
LEMMA Upwards ==
  ASSUME NEW n \in Nat, NEW T, 0 \in T, \A k \in 1 .. n : k - 1 \in T => k \in T
  PROVE  \A k \in 0 .. n : k \in T
<1> DEFINE C == (0 .. n) \ T
<1> SUFFICES ASSUME C # {} PROVE FALSE
  OBVIOUS
<1>0. C \subseteq Nat
  OBVIOUS
<1>1. PICK k \in C : \A m \in C : k <= m
  <2> HIDE DEF C
  <2> QED
    BY <1>0, LeastNat
<1>2. k # 0 /\ k - 1 \in 0 .. n
  BY <1>1
<1>3. k - 1 \in T
  BY <1>1, <1>2
<1> QED
  BY <1>1, <1>2, <1>3

\* There is a sequence in S that begins with a and goes on with F.
Iterates(n, S, a, F) ==
  \E h \in [0 .. n -> S] : h[0] = a /\ \A d \in 1 .. n : h[d] = F[d][h[d - 1]]

\* Steps from S to S can be repeated.
LEMMA Recursion ==
  ASSUME NEW n \in Nat, NEW S, NEW a \in S, NEW F \in [1 .. n -> [S -> S]]
  PROVE  Iterates(n, S, a, F)
<1> DEFINE T == {m \in 0 .. n : Iterates(m, S, a, F)}
<1>1. 0 \in T
  <2> DEFINE h == [d \in 0 .. 0 |-> a]
  <2>1. h \in [0 .. 0 -> S] /\ h[0] = a /\ 1 .. 0 = {}
    OBVIOUS
  <2> HIDE DEF h
  <2>2. Iterates(0, S, a, F)
    BY <2>1 DEF Iterates
  <2> QED
    BY <2>2
<1>2. \A k \in 1 .. n : k - 1 \in T => k \in T
  <2> SUFFICES ASSUME NEW m \in 1 .. n, m - 1 \in T PROVE m \in T
    OBVIOUS
  <2>1. PICK h \in [0 .. m - 1 -> S] : h[0] = a /\ \A d \in 1 .. m - 1 : h[d] = F[d][h[d - 1]]
    BY DEF Iterates
  <2> DEFINE k == [d \in 0 .. m |-> IF d = m THEN F[m][h[m - 1]] ELSE h[d]]
  <2>2. h[m - 1] \in S /\ F[m] \in [S -> S]
    OBVIOUS
  <2>3. F[m][h[m - 1]] \in S
    BY <2>2
  <2>4. k \in [0 .. m -> S]
    BY <2>3
  <2>5. k[0] = a
    BY <2>1
  <2>6. \A d \in 1 .. m : k[d] = F[d][k[d - 1]]
    <3> SUFFICES ASSUME NEW d \in 1 .. m PROVE k[d] = F[d][k[d - 1]]
      OBVIOUS
    <3>1. k[d - 1] = h[d - 1]
      OBVIOUS
    <3>2. CASE d = m
      BY <3>1, <3>2
    <3>3. CASE d # m
      BY <2>1, <3>1, <3>3
    <3> QED
      BY <3>2, <3>3
  <2> HIDE DEF k
  <2>7. Iterates(m, S, a, F)
    BY <2>4, <2>5, <2>6 DEF Iterates
  <2> QED
    BY <2>7
<1> HIDE DEF T
<1>3. \A k \in 0 .. n : k \in T
  BY <1>1, <1>2, Upwards
<1>4. n \in T
  BY <1>3
<1> QED
  BY <1>4 DEF T

\* The least of a set of numbers.
LEMMA MinIs == ASSUME NEW S, S \subseteq Nat, S # {} PROVE Min(S) \in S /\ \A y \in S : Min(S) <= y
BY LeastNat DEF Min

\* Vertices are numbers, finitely many.
LEMMA NodesFinite == Nodes \subseteq Nat /\ IsFiniteSet(Nodes)
<1>1. IsFiniteSet(Nodes)
  BY FS_Interval, NumNodesAssumption DEF Nodes
<1> QED
  BY <1>1, NumNodesAssumption DEF Nodes

Entries == Nat \X Nodes

\* The top of the priority queue is an entry of least distance.
LEMMA TopIsLeast ==
  ASSUME NEW mq \in SUBSET Entries, mq # {}
  PROVE  TopOf(mq) \in mq /\ \A q \in mq : TopOf(mq)[1] <= q[1]
<1>0. \A p \in mq : p[1] \in Nat /\ p[2] \in Nat /\ p = <<p[1], p[2]>>
  <2> SUFFICES ASSUME NEW p \in mq PROVE p[1] \in Nat /\ p[2] \in Nat /\ p = <<p[1], p[2]>>
    OBVIOUS
  <2>1. p \in Nat \X Nodes
    BY DEF Entries
  <2>2. PICK d \in Nat, n \in Nodes : p = <<d, n>>
    BY <2>1
  <2>3. n \in Nat
    BY NodesFinite
  <2> QED
    BY <2>2, <2>3
<1> DEFINE T == {p[1] : p \in mq}
<1>1. PICK d \in T : \A e \in T : d <= e
  <2>1. T \subseteq Nat /\ T # {}
    BY <1>0
  <2> HIDE DEF T
  <2> QED
    BY <2>1, LeastNat
<1> DEFINE U == {n \in Nat : <<d, n>> \in mq}
<1>2. PICK n \in U : \A m \in U : n <= m
  <2>1. U \subseteq Nat /\ U # {}
    BY <1>0, <1>1
  <2> HIDE DEF U
  <2> QED
    BY <2>1, LeastNat
<1>3. \A q \in mq : d <= q[1] /\ (q[1] = d => n <= q[2])
  <2> SUFFICES ASSUME NEW q \in mq PROVE d <= q[1] /\ (q[1] = d => n <= q[2])
    OBVIOUS
  <2>1. d <= q[1]
    BY <1>1
  <2>2. ASSUME q[1] = d PROVE n <= q[2]
    <3>1. q[2] \in U
      BY <1>0, <2>2
    <3> QED
      BY <1>2, <3>1
  <2> QED
    BY <2>1, <2>2
<1>4. <<d, n>> \in mq /\ d \in Nat /\ n \in Nat
  BY <1>0, <1>1, <1>2
<1> HIDE DEF T, U
<1> DEFINE P(p) == \A q \in mq : p[1] < q[1] \/ (p[1] = q[1] /\ p[2] <= q[2])
<1>5. P(<<d, n>>)
  BY <1>0, <1>3, <1>4
<1>6. TopOf(mq) \in mq /\ P(TopOf(mq))
  BY <1>4, <1>5 DEF TopOf
<1> QED
  BY <1>0, <1>6

(***************************************************************************)
(* The oracle pops an entry of least distance and lowers the distances it  *)
(* improves.                                                               *)
(***************************************************************************)
Distances == [Nodes -> 0 .. kDistInf]
OracleStates == [dist : Distances, mq : SUBSET Entries]

Pops(s, r, td, x, better) ==
  /\ <<td, x>> \in s.mq /\ \A q \in s.mq : td <= q[1]
  /\ better = Improved(g, s.dist, td, x)
  /\ \A n \in Nodes : \/ r.dist[n] = s.dist[n]
                      \/ \E j \in better : g.out[x][j] = n /\ r.dist[n] = td + g.weight[x][j]
  /\ \A n \in Nodes : r.dist[n] <= s.dist[n]
  /\ \A j \in better : r.dist[g.out[x][j]] <= td + g.weight[x][j]
  /\ r.mq = (s.mq \ {<<td, x>>}) \cup {<<td + g.weight[x][j], g.out[x][j]>> : j \in better}

LEMMA PopTopPops ==
  ASSUME TypeOK, NEW s \in OracleStates, s.mq # {}
  PROVE  /\ PopTop(g, s) \in OracleStates
         /\ \E td \in Nat, x \in Nodes : \E better \in SUBSET (1 .. out_degree(g, x)) :
              Pops(s, PopTop(g, s), td, x, better)
<1>0. s.dist \in Distances /\ s.mq \in SUBSET Entries
  BY DEF OracleStates
<1>1. TopOf(s.mq) \in s.mq /\ \A q \in s.mq : TopOf(s.mq)[1] <= q[1]
  BY <1>0, TopIsLeast
<1>2. PICK td \in Nat, x \in Nodes : TopOf(s.mq) = <<td, x>>
  BY <1>0, <1>1 DEF Entries
<1>3. PICK better : better = Improved(g, s.dist, td, x)
  OBVIOUS
<1>4. better \in SUBSET (1 .. out_degree(g, x))
  BY <1>3 DEF Improved
<1>5. \A j \in better : /\ g.out[x][j] \in Nodes /\ g.weight[x][j] \in Nat
                        /\ td + g.weight[x][j] < s.dist[g.out[x][j]]
  BY <1>3, <1>4, Edges DEF Improved
<1>6. PICK r : r = PopTop(g, s)
  OBVIOUS
<1> DEFINE offers(n) == {td + g.weight[x][j] : j \in {h \in better : g.out[x][h] = n}}
<1>7. r = [dist |-> [n \in Nodes |-> Min({s.dist[n]} \cup offers(n))],
           mq   |-> (s.mq \ {<<td, x>>}) \cup {<<td + g.weight[x][j], g.out[x][j]>> : j \in better}]
  BY <1>2, <1>3, <1>6 DEF PopTop
<1>8. ASSUME NEW n \in Nodes
      PROVE  /\ r.dist[n] \in {s.dist[n]} \cup offers(n)
             /\ \A y \in {s.dist[n]} \cup offers(n) : r.dist[n] <= y
  <2>1. s.dist[n] \in Nat
    BY <1>0, LimitsAssumption DEF Distances
  <2>2. offers(n) \subseteq Nat
    BY <1>5
  <2>3. r.dist[n] = Min({s.dist[n]} \cup offers(n))
    BY <1>7
  <2> DEFINE S == {s.dist[n]} \cup offers(n)
  <2>4. S \subseteq Nat /\ S # {}
    BY <2>1, <2>2
  <2>5. r.dist[n] = Min(S)
    BY <2>3
  <2> HIDE DEF S
  <2>6. Min(S) \in S /\ \A y \in S : Min(S) <= y
    BY <2>4, MinIs
  <2>7. r.dist[n] \in S /\ \A y \in S : r.dist[n] <= y
    BY <2>5, <2>6
  <2> QED
    BY <2>7 DEF S
<1>9. \A n \in Nodes : /\ r.dist[n] <= s.dist[n]
                       /\ \/ r.dist[n] = s.dist[n]
                          \/ \E j \in better : g.out[x][j] = n /\ r.dist[n] = td + g.weight[x][j]
  BY <1>8
<1>10. \A j \in better : r.dist[g.out[x][j]] <= td + g.weight[x][j]
  <2> SUFFICES ASSUME NEW j \in better PROVE r.dist[g.out[x][j]] <= td + g.weight[x][j]
    OBVIOUS
  <2>1. td + g.weight[x][j] \in offers(g.out[x][j]) /\ g.out[x][j] \in Nodes
    BY <1>5
  <2> QED
    BY <1>8, <2>1
<1> HIDE DEF offers
<1>11. r \in OracleStates
  <2>1. ASSUME NEW n \in Nodes PROVE r.dist[n] \in 0 .. kDistInf
    <3>1. s.dist[n] \in 0 .. kDistInf
      BY <1>0 DEF Distances
    <3>2. r.dist[n] \in Nat
      BY <1>5, <1>9, <3>1, LimitsAssumption
    <3> QED
      BY <1>9, <3>1, <3>2, LimitsAssumption
  <2>2. r.dist \in Distances
    BY <1>7, <2>1 DEF Distances
  <2>3. r.mq \in SUBSET Entries
    BY <1>0, <1>5, <1>7 DEF Entries
  <2>4. r = [dist |-> r.dist, mq |-> r.mq]
    BY <1>7
  <2> QED
    BY <2>2, <2>3, <2>4 DEF OracleStates
<1>12. r.mq = (s.mq \ {<<td, x>>}) \cup {<<td + g.weight[x][j], g.out[x][j]>> : j \in better}
  BY <1>7
<1>13. Pops(s, r, td, x, better)
  BY <1>1, <1>2, <1>3, <1>9, <1>10, <1>12 DEF Pops
<1> QED
  BY <1>4, <1>6, <1>11, <1>13

(***************************************************************************)
(* Dijkstra's invariant: a distance is that of a path, an edge that would  *)
(* shorten one starts at an entry of mq, and the vertices X already        *)
(* expanded are no further away than any entry, so that none is expanded   *)
(* twice.  What has been popped or waits to be was pushed over an edge out *)
(* of X.                                                                   *)
(***************************************************************************)
EdgesOf(X) == UNION {{x} \X (1 .. out_degree(g, x)) : x \in X}

Dijkstra(s, X, k) ==
  /\ IsFiniteSet(s.mq) /\ s.dist[source] = 0
  /\ \A p \in s.mq : s.dist[p[2]] <= p[1]
  /\ \A x \in Nodes : \A j \in 1 .. out_degree(g, x) :
       s.dist[x] + g.weight[x][j] < s.dist[g.out[x][j]] => <<s.dist[x], x>> \in s.mq
  /\ \A y \in Nodes : s.dist[y] < kDistInf /\ y # source =>
       \E x \in Nodes : \E j \in 1 .. out_degree(g, x) :
         g.out[x][j] = y /\ s.dist[x] + g.weight[x][j] <= s.dist[y]
  /\ \A x \in X : <<s.dist[x], x>> \notin s.mq /\ \A p \in s.mq : s.dist[x] <= p[1]
  /\ s.mq = {} \/ Cardinality(s.mq) + k <= 1 + Cardinality(EdgesOf(X))

\* The edges out of a set of vertices, with one vertex more.
LEMMA EdgesCounted ==
  ASSUME TypeOK, NEW X \in SUBSET Nodes
  PROVE  /\ IsFiniteSet(EdgesOf(X)) /\ Cardinality(EdgesOf(X)) \in Nat
         /\ Cardinality(EdgesOf(X)) <= Cardinality(EdgesOf(Nodes))
         /\ \A x \in Nodes \ X :
              Cardinality(EdgesOf(X \cup {x})) = Cardinality(EdgesOf(X)) + out_degree(g, x)
<1> DEFINE R(x) == {x} \X (1 .. out_degree(g, x))
<1>1. ASSUME NEW x \in Nodes PROVE IsFiniteSet(R(x)) /\ Cardinality(R(x)) = out_degree(g, x)
  <2>1. out_degree(g, x) \in Nat
    BY Edges
  <2>2. IsFiniteSet(1 .. out_degree(g, x)) /\ Cardinality(1 .. out_degree(g, x)) = out_degree(g, x)
    BY <2>1, FS_Interval
  <2>3. IsFiniteSet({x}) /\ Cardinality({x}) = 1
    BY FS_Singleton
  <2>4. IsFiniteSet(R(x)) /\ Cardinality(R(x)) = 1 * out_degree(g, x)
    BY ZenonT(60), <2>2, <2>3, FS_Product
  <2> QED
    BY <2>1, <2>4
<1>2. ASSUME NEW Y \in SUBSET Nodes PROVE IsFiniteSet(EdgesOf(Y)) /\ Cardinality(EdgesOf(Y)) \in Nat
  <2> DEFINE Rs == {R(x) : x \in Y}
  <2>1. \A Q \in Rs : IsFiniteSet(Q)
    BY <1>1
  <2>2. IsFiniteSet(Rs)
    <3> DEFINE f == [x \in Y |-> R(x)]
    <3>1. f \in Surjection(Y, Rs)
      BY DEF Surjection
    <3>2. IsFiniteSet(Y)
      BY NodesFinite, FS_Subset
    <3> HIDE DEF f, Rs
    <3> QED
      BY <3>1, <3>2, FS_Surjection
  <2>3. EdgesOf(Y) = UNION Rs
    BY DEF EdgesOf
  <2> HIDE DEF Rs
  <2>4. IsFiniteSet(EdgesOf(Y))
    BY <2>1, <2>2, <2>3, FS_UNION
  <2> QED
    BY <2>4, FS_CardinalityType
<1>3. Cardinality(EdgesOf(X)) <= Cardinality(EdgesOf(Nodes))
  <2>1. EdgesOf(X) \in SUBSET EdgesOf(Nodes)
    BY DEF EdgesOf
  <2> QED
    BY <1>2, <2>1, FS_Subset
<1>4. ASSUME NEW x \in Nodes \ X
      PROVE  Cardinality(EdgesOf(X \cup {x})) = Cardinality(EdgesOf(X)) + out_degree(g, x)
  <2>1. EdgesOf(X \cup {x}) = EdgesOf(X) \cup R(x)
    BY DEF EdgesOf
  <2>2. EdgesOf(X) \cap R(x) = {}
    BY DEF EdgesOf
  <2>3. Cardinality(EdgesOf(X) \cap R(x)) = 0
    BY <2>2, FS_EmptySet
  <2>4. out_degree(g, x) \in Nat
    BY Edges
  <2> HIDE DEF R
  <2>5. Cardinality(EdgesOf(X) \cup R(x)) =
          Cardinality(EdgesOf(X)) + Cardinality(R(x)) - Cardinality(EdgesOf(X) \cap R(x))
    BY <1>1, <1>2, FS_Union
  <2>6. Cardinality(R(x)) = out_degree(g, x) /\ Cardinality(EdgesOf(X)) \in Nat
    BY <1>1, <1>2
  <2>7. Cardinality(EdgesOf(X \cup {x})) =
          Cardinality(EdgesOf(X)) + Cardinality(R(x)) - Cardinality(EdgesOf(X) \cap R(x))
    BY <2>1, <2>5
  <2> QED
    BY <2>3, <2>4, <2>6, <2>7
<1> QED
  BY <1>2, <1>3, <1>4
\* The oracle's facts about numbers.
LEMMA OracleTypes ==
  ASSUME TypeOK, NEW s \in OracleStates
  PROVE  /\ s.mq \in SUBSET Entries
         /\ \A x \in Nodes : /\ s.dist[x] \in Nat /\ s.dist[x] <= kDistInf
                             /\ \A j \in 1 .. out_degree(g, x) :
                                  g.out[x][j] \in Nodes /\ g.weight[x][j] \in Nat \ {0}
<1>1. s.dist \in Distances /\ s.mq \in SUBSET Entries
  BY DEF OracleStates
<1> QED
  BY <1>1, Edges, LimitsAssumption DEF Distances

\* An entry that is out of date is dropped: only its number is missing.
LEMMA StaleKeeps ==
  ASSUME TypeOK, NEW s \in OracleStates, NEW r \in OracleStates, NEW X \in SUBSET Nodes, NEW k \in Nat,
         Dijkstra(s, X, k), NEW td \in Nat, NEW x \in Nodes, NEW better,
         Pops(s, r, td, x, better), td # s.dist[x]
  PROVE  Dijkstra(r, X, k + 1)
<1>1. better = {} /\ <<td, x>> \in s.mq
  BY DEF Pops, Improved
<1>2. r.mq = s.mq \ {<<td, x>>}
  BY <1>1 DEF Pops
<1>3. \A n \in Nodes : r.dist[n] = s.dist[n]
  BY <1>1 DEF Pops
<1>4. IsFiniteSet(s.mq) /\ IsFiniteSet(r.mq) /\ Cardinality(r.mq) = Cardinality(s.mq) - 1
  <2> DEFINE old == s.mq \ {<<td, x>>}
  <2>1. IsFiniteSet(s.mq)
    BY DEF Dijkstra
  <2>2. IsFiniteSet(old) /\ Cardinality(old) = Cardinality(s.mq) - 1
    BY <1>1, <2>1, FS_RemoveElement
  <2> QED
    BY <1>2, <2>1, <2>2
<1>5. \A p \in s.mq : p[2] \in Nodes
  BY OracleTypes DEF Entries
<1>6. r.mq = {} \/ Cardinality(r.mq) + (k + 1) <= 1 + Cardinality(EdgesOf(X))
  <2>1. Cardinality(s.mq) \in Nat /\ Cardinality(EdgesOf(X)) \in Nat
    BY <1>4, FS_CardinalityType, EdgesCounted
  <2>2. Cardinality(s.mq) + k <= 1 + Cardinality(EdgesOf(X))
    BY <1>1 DEF Dijkstra
  <2> QED
    BY <1>4, <2>1, <2>2
<1>7. source \in Nodes
  BY DEF TypeOK
<1>8. ASSUME NEW y \in Nodes, NEW j \in 1 .. out_degree(g, y),
             r.dist[y] + g.weight[y][j] < r.dist[g.out[y][j]]
      PROVE  <<r.dist[y], y>> \in r.mq
  <2>1. s.dist[y] + g.weight[y][j] < s.dist[g.out[y][j]]
    BY <1>3, <1>8, OracleTypes
  <2>2. <<s.dist[y], y>> \in s.mq
    BY <2>1 DEF Dijkstra
  <2>3. <<s.dist[y], y>> # <<td, x>>
    OBVIOUS
  <2> QED
    BY <1>2, <1>3, <2>2, <2>3
<1>9. ASSUME NEW y \in Nodes, r.dist[y] < kDistInf, y # source
      PROVE  \E z \in Nodes : \E j \in 1 .. out_degree(g, z) :
               g.out[z][j] = y /\ r.dist[z] + g.weight[z][j] <= r.dist[y]
  BY <1>3, <1>9 DEF Dijkstra
<1>10. ASSUME NEW y \in X PROVE <<r.dist[y], y>> \notin r.mq /\ \A p \in r.mq : r.dist[y] <= p[1]
  BY <1>2, <1>3 DEF Dijkstra
<1>11. \A p \in r.mq : r.dist[p[2]] <= p[1]
  BY <1>2, <1>3, <1>5 DEF Dijkstra
<1>12. r.dist[source] = 0
  BY <1>3, <1>7 DEF Dijkstra
<1> QED
  BY <1>4, <1>6, <1>8, <1>9, <1>10, <1>11, <1>12 DEF Dijkstra

\* An entry that is up to date expands its vertex, for the only time.
LEMMA ExpandKeeps ==
  ASSUME TypeOK, NEW s \in OracleStates, NEW r \in OracleStates, NEW X \in SUBSET Nodes, NEW k \in Nat,
         Dijkstra(s, X, k), NEW td \in Nat, NEW x \in Nodes, NEW better \in SUBSET (1 .. out_degree(g, x)),
         Pops(s, r, td, x, better), td = s.dist[x]
  PROVE  x \notin X /\ Dijkstra(r, X \cup {x}, k + 1)
<1> DEFINE pushed == {<<td + g.weight[x][j], g.out[x][j]>> : j \in better}
<1>1. /\ <<td, x>> \in s.mq /\ \A q \in s.mq : td <= q[1]
      /\ r.mq = (s.mq \ {<<td, x>>}) \cup pushed
  BY DEF Pops
<1>2. x \notin X
  BY <1>1 DEF Dijkstra
<1>3. \A j \in 1 .. out_degree(g, x) :
        /\ g.out[x][j] \in Nodes /\ g.weight[x][j] \in Nat \ {0}
        /\ j \in better <=> td + g.weight[x][j] < s.dist[g.out[x][j]]
  <2>1. better = {j \in 1 .. out_degree(g, x) : td + g.weight[x][j] < s.dist[g.out[x][j]]}
    BY DEF Pops, Improved
  <2> QED
    BY <2>1, OracleTypes
<1>4. \A n \in Nodes : /\ s.dist[n] \in Nat /\ r.dist[n] \in Nat /\ r.dist[n] <= s.dist[n]
                       /\ \/ r.dist[n] = s.dist[n]
                          \/ \E j \in better : g.out[x][j] = n /\ r.dist[n] = td + g.weight[x][j]
  BY OracleTypes DEF Pops
<1>5. \A j \in better : r.dist[g.out[x][j]] <= td + g.weight[x][j]
  BY DEF Pops
\* What is no further away than the top stays.
<1>6. ASSUME NEW n \in Nodes, s.dist[n] <= td PROVE r.dist[n] = s.dist[n]
  <2>1. ASSUME NEW j \in better, g.out[x][j] = n PROVE FALSE
    <3>1. td + g.weight[x][j] < s.dist[n] /\ g.weight[x][j] \in Nat \ {0}
      BY <1>3, <2>1
    <3> QED
      BY <1>4, <1>6, <3>1
  <2> QED
    BY <1>4, <2>1
<1>7. \A p \in pushed : \E j \in better : p = <<td + g.weight[x][j], g.out[x][j]>>
  OBVIOUS
<1>8. \A p \in pushed : td < p[1] /\ p[1] \in Nat /\ p[2] \in Nodes /\ r.dist[p[2]] <= p[1]
  <2> SUFFICES ASSUME NEW p \in pushed
               PROVE  td < p[1] /\ p[1] \in Nat /\ p[2] \in Nodes /\ r.dist[p[2]] <= p[1]
    OBVIOUS
  <2>1. PICK j \in better : p = <<td + g.weight[x][j], g.out[x][j]>>
    BY <1>7
  <2>2. g.weight[x][j] \in Nat \ {0} /\ g.out[x][j] \in Nodes
    BY <1>3
  <2> QED
    BY <1>5, <2>1, <2>2
<1>9. \A n \in Nodes : r.dist[n] # s.dist[n] => <<r.dist[n], n>> \in pushed
  BY <1>4
<1>10. \A p \in s.mq : p[1] \in Nat /\ p[2] \in Nodes
  BY OracleTypes DEF Entries
<1> HIDE DEF pushed
<1>11. /\ IsFiniteSet(r.mq)
       /\ Cardinality(r.mq) + (k + 1) <= 1 + Cardinality(EdgesOf(X \cup {x}))
  <2> DEFINE f == [j \in better |-> <<td + g.weight[x][j], g.out[x][j]>>]
             old == s.mq \ {<<td, x>>}
  <2>1. f \in Surjection(better, pushed)
    BY DEF Surjection, pushed
  <2>2. IsFiniteSet(1 .. out_degree(g, x)) /\ Cardinality(1 .. out_degree(g, x)) = out_degree(g, x)
    <3>1. out_degree(g, x) \in Nat
      BY Edges
    <3> QED
      BY <3>1, FS_Interval
  <2>3. IsFiniteSet(better) /\ Cardinality(better) <= out_degree(g, x)
    BY ZenonT(60), <2>2, FS_Subset
  <2> HIDE DEF f
  <2>4. IsFiniteSet(pushed) /\ Cardinality(pushed) <= Cardinality(better)
    BY <2>1, <2>3, FS_Surjection
  <2>5. IsFiniteSet(s.mq) /\ IsFiniteSet(old) /\ Cardinality(old) = Cardinality(s.mq) - 1
    BY <1>1, FS_RemoveElement DEF Dijkstra
  <2> HIDE DEF old
  <2>6. /\ IsFiniteSet(old \cup pushed)
        /\ Cardinality(old \cup pushed) = Cardinality(old) + Cardinality(pushed) - Cardinality(old \cap pushed)
    BY <2>4, <2>5, FS_Union
  <2>7. IsFiniteSet(old \cap pushed)
    BY <2>5, FS_Subset
  <2>8. /\ Cardinality(old \cap pushed) \in Nat /\ Cardinality(pushed) \in Nat
        /\ Cardinality(better) \in Nat /\ Cardinality(s.mq) \in Nat
    BY <2>3, <2>4, <2>5, <2>7, FS_CardinalityType
  <2>9. /\ Cardinality(EdgesOf(X)) \in Nat /\ out_degree(g, x) \in Nat
        /\ Cardinality(EdgesOf(X \cup {x})) = Cardinality(EdgesOf(X)) + out_degree(g, x)
    BY <1>2, Edges, EdgesCounted
  <2>10. Cardinality(s.mq) + k <= 1 + Cardinality(EdgesOf(X))
    BY <1>1 DEF Dijkstra
  <2>11. r.mq = old \cup pushed
    BY <1>1 DEF old
  <2>12. Cardinality(old \cup pushed) <= Cardinality(s.mq) - 1 + out_degree(g, x)
    BY <2>3, <2>4, <2>5, <2>6, <2>8, <2>9
  <2>13. Cardinality(old \cup pushed) \in Nat
    BY <2>6, FS_CardinalityType
  <2>14. Cardinality(old \cup pushed) + (k + 1) <= 1 + Cardinality(EdgesOf(X \cup {x}))
    BY <2>8, <2>9, <2>10, <2>12, <2>13
  <2> QED
    BY <2>6, <2>11, <2>14
<1>12. r.dist[source] = 0
  <2>1. source \in Nodes /\ s.dist[source] = 0
    BY DEF TypeOK, Dijkstra
  <2> QED
    BY <1>6, <2>1
<1>13. \A p \in r.mq : r.dist[p[2]] <= p[1]
  <2> SUFFICES ASSUME NEW p \in r.mq PROVE r.dist[p[2]] <= p[1]
    OBVIOUS
  <2>1. ASSUME p \in s.mq PROVE r.dist[p[2]] <= p[1]
    <3>1. s.dist[p[2]] <= p[1] /\ p[1] \in Nat /\ p[2] \in Nodes
      BY <1>10, <2>1 DEF Dijkstra
    <3>2. r.dist[p[2]] <= s.dist[p[2]] /\ r.dist[p[2]] \in Nat /\ s.dist[p[2]] \in Nat
      BY <1>4, <3>1
    <3> QED
      BY <3>1, <3>2
  <2> QED
    BY <1>1, <1>8, <2>1
<1>14. r.dist[x] = td /\ s.dist[x] = td
  BY <1>6
<1>15. ASSUME NEW y \in Nodes, NEW j \in 1 .. out_degree(g, y),
              r.dist[y] + g.weight[y][j] < r.dist[g.out[y][j]]
       PROVE  <<r.dist[y], y>> \in r.mq
  <2>0. g.out[y][j] \in Nodes /\ g.weight[y][j] \in Nat
    BY OracleTypes
  <2>1. CASE r.dist[y] # s.dist[y]
    BY <1>1, <1>9, <2>1
  <2>2. CASE r.dist[y] = s.dist[y] /\ y # x
    <3>1. s.dist[y] + g.weight[y][j] < s.dist[g.out[y][j]]
      <4>1. /\ r.dist[g.out[y][j]] <= s.dist[g.out[y][j]] /\ s.dist[y] \in Nat
            /\ r.dist[g.out[y][j]] \in Nat /\ s.dist[g.out[y][j]] \in Nat
        BY <1>4, <2>0
      <4> QED
        BY <1>15, <2>0, <2>2, <4>1
    <3>2. <<s.dist[y], y>> \in s.mq /\ <<s.dist[y], y>> # <<td, x>>
      BY <2>2, <3>1 DEF Dijkstra
    <3> QED
      BY <1>1, <2>2, <3>2
  <2>3. CASE y = x
    <3>1. ASSUME j \in better PROVE FALSE
      <4>1. r.dist[g.out[x][j]] <= td + g.weight[x][j] /\ td + g.weight[x][j] < r.dist[g.out[x][j]]
        BY <1>5, <1>14, <1>15, <2>3, <3>1
      <4>2. r.dist[g.out[x][j]] \in Nat /\ g.weight[x][j] \in Nat
        BY <1>4, <2>0, <2>3
      <4> QED
        BY <4>1, <4>2
    <3>2. ASSUME j \notin better PROVE FALSE
      <4>1. /\ ~(td + g.weight[x][j] < s.dist[g.out[x][j]])
            /\ td + g.weight[x][j] < r.dist[g.out[x][j]]
        BY <1>3, <1>14, <1>15, <2>3, <3>2
      <4>2. /\ r.dist[g.out[x][j]] \in Nat /\ s.dist[g.out[x][j]] \in Nat /\ g.weight[x][j] \in Nat
            /\ r.dist[g.out[x][j]] <= s.dist[g.out[x][j]]
        BY <1>4, <2>0, <2>3
      <4> QED
        BY <4>1, <4>2
    <3> QED
      BY <3>1, <3>2
  <2> QED
    BY <2>1, <2>2, <2>3
<1>16. ASSUME NEW y \in Nodes, r.dist[y] < kDistInf, y # source
       PROVE  \E z \in Nodes : \E j \in 1 .. out_degree(g, z) :
                g.out[z][j] = y /\ r.dist[z] + g.weight[z][j] <= r.dist[y]
  <2>1. CASE r.dist[y] = s.dist[y]
    <3>1. PICK z \in Nodes : \E j \in 1 .. out_degree(g, z) :
                g.out[z][j] = y /\ s.dist[z] + g.weight[z][j] <= s.dist[y]
      BY <1>16, <2>1 DEF Dijkstra
    <3>2. PICK j \in 1 .. out_degree(g, z) : g.out[z][j] = y /\ s.dist[z] + g.weight[z][j] <= s.dist[y]
      BY <3>1
    <3>3. r.dist[z] <= s.dist[z] /\ r.dist[z] \in Nat /\ s.dist[z] \in Nat /\ s.dist[y] \in Nat
      BY <1>4
    <3>4. g.weight[z][j] \in Nat
      BY OracleTypes
    <3>5. r.dist[z] + g.weight[z][j] <= r.dist[y]
      BY <2>1, <3>2, <3>3, <3>4
    <3> QED
      BY <3>2, <3>5
  <2>2. CASE r.dist[y] # s.dist[y]
    <3>1. PICK j \in better : g.out[x][j] = y /\ r.dist[y] = td + g.weight[x][j]
      BY <1>4, <2>2
    <3>2. r.dist[x] + g.weight[x][j] <= r.dist[y]
      BY <1>4, <1>14, <3>1
    <3> QED
      BY <3>1, <3>2
  <2> QED
    BY <2>1, <2>2
<1>17. ASSUME NEW y \in X \cup {x}
       PROVE  <<r.dist[y], y>> \notin r.mq /\ \A p \in r.mq : r.dist[y] <= p[1]
  <2>1. y \in Nodes /\ s.dist[y] \in Nat /\ s.dist[y] <= td
    <3>1. CASE y \in X
      <4>1. \A p \in s.mq : s.dist[y] <= p[1]
        BY <3>1 DEF Dijkstra
      <4>2. s.dist[y] <= <<td, x>>[1]
        BY <1>1, <4>1
      <4> QED
        BY <1>4, <3>1, <4>2
    <3>2. CASE y = x
      BY <1>4, <1>14, <3>2
    <3> QED
      BY <3>1, <3>2
  <2>2. r.dist[y] = s.dist[y]
    BY <1>6, <2>1
  <2>3. <<s.dist[y], y>> \notin pushed
    BY <1>8, <2>1
  <2>4. <<s.dist[y], y>> \notin s.mq \ {<<td, x>>}
    BY <1>14 DEF Dijkstra
  <2>5. \A p \in s.mq : s.dist[y] <= p[1]
    <3> SUFFICES ASSUME NEW p \in s.mq PROVE s.dist[y] <= p[1]
      OBVIOUS
    <3>1. td <= p[1] /\ p[1] \in Nat
      BY <1>1, <1>10
    <3> QED
      BY <2>1, <3>1
  <2>6. \A p \in pushed : s.dist[y] <= p[1]
    <3> SUFFICES ASSUME NEW p \in pushed PROVE s.dist[y] <= p[1]
      OBVIOUS
    <3>1. td < p[1] /\ p[1] \in Nat
      BY <1>8
    <3> QED
      BY <2>1, <3>1
  <2> QED
    BY <1>1, <2>2, <2>3, <2>4, <2>5, <2>6
<1> QED
  BY <1>2, <1>11, <1>12, <1>13, <1>15, <1>16, <1>17 DEF Dijkstra

\* One turn of the oracle's loop.
OracleTurn(s) == IF s.mq = {} THEN s ELSE PopTop(g, s)

LEMMA TurnKeeps ==
  ASSUME TypeOK, NEW s \in OracleStates, NEW X \in SUBSET Nodes, NEW k \in Nat, Dijkstra(s, X, k)
  PROVE  \E Y \in SUBSET Nodes : Dijkstra(OracleTurn(s), Y, k + 1)
<1>1. CASE s.mq = {}
  <2>1. OracleTurn(s) = s
    BY <1>1 DEF OracleTurn
  <2>2. Dijkstra(s, X, k + 1)
    BY <1>1 DEF Dijkstra
  <2> QED
    BY <2>1, <2>2
<1>2. CASE s.mq # {}
  <2>1. PICK r \in OracleStates : r = PopTop(g, s)
    BY <1>2, PopTopPops
  <2>2. PICK td \in Nat, x \in Nodes : \E better \in SUBSET (1 .. out_degree(g, x)) :
          Pops(s, r, td, x, better)
    BY <1>2, <2>1, PopTopPops
  <2>3. PICK better \in SUBSET (1 .. out_degree(g, x)) : Pops(s, r, td, x, better)
    BY <2>2
  <2>4. \E Y \in SUBSET Nodes : Dijkstra(r, Y, k + 1)
    <3>1. CASE td # s.dist[x]
      BY <2>3, <3>1, StaleKeeps
    <3>2. CASE td = s.dist[x]
      <4>1. Dijkstra(r, X \cup {x}, k + 1)
        BY <2>3, <3>2, ExpandKeeps
      <4> QED
        BY <4>1
    <3> QED
      BY <3>1, <3>2
  <2> QED
    BY <1>2, <2>1, <2>4 DEF OracleTurn
<1> QED
  BY <1>1, <1>2

(***************************************************************************)
(* The queue is empty when the oracle's sequence ends, so that no edge     *)
(* would shorten a distance of its result.                                 *)
(***************************************************************************)
LEMMA OracleShortest ==
  ASSUME TypeOK
  PROVE  LET d == oracle_dist(g, source, kDistInf)
         IN  d \in Distances /\ ShortestDistances(d)
<1> DEFINE first == [dist |-> [n \in Nodes |-> IF n = source THEN 0 ELSE kDistInf],
                     mq   |-> {<<0, source>>}]
           pops == Cardinality(UNION {{x} \X (1 .. out_degree(g, x)) : x \in Nodes}) + 1
           P(z) == z = [k \in 0 .. pops |->
                          IF k = 0 THEN first
                          ELSE IF z[k - 1].mq = {} THEN z[k - 1] ELSE PopTop(g, z[k - 1])]
           w == CHOOSE z : P(z)
<1>1. oracle_dist(g, source, kDistInf) = w[pops].dist
  BY DEF oracle_dist
<1>2. pops \in Nat /\ pops = Cardinality(EdgesOf(Nodes)) + 1
  <2>1. Cardinality(EdgesOf(Nodes)) \in Nat
    BY EdgesCounted
  <2> QED
    BY <2>1 DEF EdgesOf
<1>3. first \in OracleStates
  BY LimitsAssumption DEF OracleStates, Distances, Entries, TypeOK
<1>4. \A s \in OracleStates : OracleTurn(s) \in OracleStates
  BY PopTopPops DEF OracleTurn
<1> HIDE DEF first, pops
<1>5. PICK h \in [0 .. pops -> OracleStates] :
        h[0] = first /\ \A k \in 1 .. pops : h[k] = OracleTurn(h[k - 1])
  <2> DEFINE F == [k \in 1 .. pops |-> [s \in OracleStates |-> OracleTurn(s)]]
  <2>1. F \in [1 .. pops -> [OracleStates -> OracleStates]]
    BY <1>4
  <2>2. \A h \in [0 .. pops -> OracleStates] : \A k \in 1 .. pops : F[k][h[k - 1]] = OracleTurn(h[k - 1])
    BY <1>2
  <2> HIDE DEF F
  <2>3. Iterates(pops, OracleStates, first, F)
    BY <1>2, <1>3, <2>1, Recursion
  <2> QED
    BY <2>2, <2>3 DEF Iterates
<1>6. P(h)
  <2>1. \A k \in 0 .. pops :
          h[k] = IF k = 0 THEN first
                 ELSE IF h[k - 1].mq = {} THEN h[k - 1] ELSE PopTop(g, h[k - 1])
    BY SMTT(30), <1>2, <1>5 DEF OracleTurn
  <2> QED
    BY <2>1
<1>7. P(w)
  BY ZenonT(60), <1>6
<1>8. \A k \in 0 .. pops : w[k] = IF k = 0 THEN first ELSE OracleTurn(w[k - 1])
  BY ZenonT(60), <1>7 DEF OracleTurn
<1> HIDE DEF w, P
<1> DEFINE T == {k \in 0 .. pops : w[k] \in OracleStates /\ \E X \in SUBSET Nodes : Dijkstra(w[k], X, k)}
<1>9. 0 \in T
  <2>1. w[0] = first /\ 0 \in 0 .. pops
    BY <1>2, <1>8
  <2>2. Dijkstra(first, {}, 0)
    <3>1. source \in Nodes /\ kDistInf \in Nat
      BY LimitsAssumption DEF TypeOK
    <3>2. first.mq = {<<0, source>>} /\ \A n \in Nodes : first.dist[n] = IF n = source THEN 0 ELSE kDistInf
      BY DEF first
    <3>3. IsFiniteSet({<<0, source>>}) /\ Cardinality({<<0, source>>}) = 1
      BY FS_Singleton
    <3>4. EdgesOf({}) = {}
      BY DEF EdgesOf
    <3>5. Cardinality(EdgesOf({})) = 0
      BY <3>4, FS_EmptySet
    <3>6. ASSUME NEW x \in Nodes, NEW j \in 1 .. out_degree(g, x),
                 first.dist[x] + g.weight[x][j] < first.dist[g.out[x][j]]
          PROVE  <<first.dist[x], x>> \in first.mq
      <4>1. g.out[x][j] \in Nodes /\ g.weight[x][j] \in Nat \ {0}
        BY Edges
      <4>2. x = source
        BY <3>1, <3>2, <3>6, <4>1
      <4> QED
        BY <3>1, <3>2, <4>2
    <3>7. \A p \in first.mq : first.dist[p[2]] <= p[1]
      BY <3>1, <3>2
    <3>8. \A y \in Nodes : ~(first.dist[y] < kDistInf /\ y # source)
      BY <3>1, <3>2
    <3>9. Cardinality(first.mq) + 0 <= 1 + Cardinality(EdgesOf({}))
      BY <3>2, <3>3, <3>5
    <3>10. IsFiniteSet(first.mq) /\ first.dist[source] = 0
      BY <3>1, <3>2, <3>3
    <3> QED
      BY <3>6, <3>7, <3>8, <3>9, <3>10 DEF Dijkstra
  <2> QED
    BY <1>3, <2>1, <2>2
<1>10. ASSUME NEW k \in 1 .. pops, k - 1 \in T PROVE k \in T
  <2>1. w[k] = OracleTurn(w[k - 1]) /\ k \in 0 .. pops /\ k - 1 \in Nat /\ (k - 1) + 1 = k
    BY <1>2, <1>8
  <2>2. PICK X \in SUBSET Nodes : Dijkstra(w[k - 1], X, k - 1)
    BY <1>10
  <2>3. w[k - 1] \in OracleStates
    BY <1>10
  <2>4. \E Y \in SUBSET Nodes : Dijkstra(OracleTurn(w[k - 1]), Y, (k - 1) + 1)
    BY <2>1, <2>2, <2>3, TurnKeeps
  <2> QED
    BY <1>4, <2>1, <2>3, <2>4
<1> HIDE DEF T
<1>11. pops \in T
  <2>1. \A k \in 1 .. pops : k - 1 \in T => k \in T
    BY <1>10
  <2>2. \A k \in 0 .. pops : k \in T
    BY <1>2, <1>9, <2>1, Upwards
  <2> QED
    BY <1>2, <2>2
<1>12. PICK s \in OracleStates : s = w[pops] /\ \E X \in SUBSET Nodes : Dijkstra(s, X, pops)
  BY <1>11 DEF T
<1>13. PICK X \in SUBSET Nodes : Dijkstra(s, X, pops)
  BY <1>12
<1>14. s.mq = {}
  <2> SUFFICES ASSUME s.mq # {} PROVE FALSE
    OBVIOUS
  <2>1. Cardinality(s.mq) + pops <= 1 + Cardinality(EdgesOf(X)) /\ IsFiniteSet(s.mq)
    BY <1>13 DEF Dijkstra
  <2>2. /\ Cardinality(EdgesOf(X)) <= Cardinality(EdgesOf(Nodes))
        /\ Cardinality(EdgesOf(X)) \in Nat /\ Cardinality(EdgesOf(Nodes)) \in Nat
    BY EdgesCounted
  <2>3. Cardinality(s.mq) \in Nat /\ Cardinality(s.mq) # 0
    BY <2>1, FS_CardinalityType, FS_EmptySet
  <2> QED
    BY <1>2, <2>1, <2>2, <2>3
<1>15. ASSUME NEW x \in Nodes, NEW j \in 1 .. out_degree(g, x)
       PROVE  /\ s.dist[g.out[x][j]] <= s.dist[x] + g.weight[x][j]
              /\ s.dist[x] \in Nat /\ s.dist[g.out[x][j]] \in Nat /\ g.weight[x][j] \in Nat
  <2>1. ~(s.dist[x] + g.weight[x][j] < s.dist[g.out[x][j]])
    BY <1>13, <1>14 DEF Dijkstra
  <2>2. s.dist[x] \in Nat /\ s.dist[g.out[x][j]] \in Nat /\ g.weight[x][j] \in Nat
    BY OracleTypes
  <2> QED
    BY <2>1, <2>2
<1>16. ASSUME NEW y \in Nodes, s.dist[y] < kDistInf, y # source
       PROVE  \E x \in Nodes : \E j \in 1 .. out_degree(g, x) :
                g.out[x][j] = y /\ s.dist[y] = s.dist[x] + g.weight[x][j]
  <2>1. PICK x \in Nodes : \E j \in 1 .. out_degree(g, x) :
               g.out[x][j] = y /\ s.dist[x] + g.weight[x][j] <= s.dist[y]
    BY <1>13, <1>16 DEF Dijkstra
  <2>2. PICK j \in 1 .. out_degree(g, x) : g.out[x][j] = y /\ s.dist[x] + g.weight[x][j] <= s.dist[y]
    BY <2>1
  <2>3. s.dist[y] = s.dist[x] + g.weight[x][j]
    BY <1>15, <2>2
  <2> QED
    BY <2>2, <2>3
<1>17. s.dist[source] = 0
  BY <1>13 DEF Dijkstra
<1>18. s.dist \in Distances /\ ShortestDistances(s.dist)
  BY <1>15, <1>16, <1>17 DEF ShortestDistances, OracleStates
<1> QED
  BY <1>1, <1>12, <1>18

\* There is but one array of shortest distances: weights are positive.
LEMMA ShortestIsUnique ==
  ASSUME TypeOK, NEW d \in Distances, NEW e \in Distances, ShortestDistances(d), ShortestDistances(e)
  PROVE  d = e
<1> DEFINE T == {MinOf(d[y], e[y]) : y \in {z \in Nodes : d[z] # e[z]}}
<1>1. \A y \in Nodes : d[y] \in Nat /\ d[y] <= kDistInf /\ e[y] \in Nat /\ e[y] <= kDistInf
  BY LimitsAssumption DEF Distances
<1>2. ASSUME NEW a \in Distances, NEW b \in Distances, ShortestDistances(a), ShortestDistances(b),
             NEW y \in Nodes, a[y] < b[y]
      PROVE  \E x \in Nodes : a[x] # b[x] /\ MinOf(a[x], b[x]) < a[y]
  <2>1. \A z \in Nodes : a[z] \in Nat /\ a[z] <= kDistInf /\ b[z] \in Nat /\ b[z] <= kDistInf
    BY LimitsAssumption DEF Distances
  <2>2. a[y] < kDistInf /\ y # source
    BY <1>2, <2>1, LimitsAssumption DEF ShortestDistances, TypeOK
  <2>3. PICK x \in Nodes : \E j \in 1 .. out_degree(g, x) :
               g.out[x][j] = y /\ a[y] = a[x] + g.weight[x][j]
    BY <1>2, <2>2 DEF ShortestDistances
  <2>4. PICK j \in 1 .. out_degree(g, x) : g.out[x][j] = y /\ a[y] = a[x] + g.weight[x][j]
    BY <2>3
  <2>5. b[y] <= b[x] + g.weight[x][j] /\ g.weight[x][j] \in Nat \ {0}
    BY <1>2, <2>4, Edges DEF ShortestDistances
  <2>6. a[x] < b[x] /\ a[x] < a[y]
    BY <1>2, <2>1, <2>4, <2>5
  <2>7. MinOf(a[x], b[x]) = a[x] /\ a[x] # b[x]
    BY <2>1, <2>6 DEF MinOf
  <2> QED
    BY <2>6, <2>7
<1>3. T = {}
  <2> SUFFICES ASSUME T # {} PROVE FALSE
    OBVIOUS
  <2>1. T \subseteq Nat
    BY <1>1 DEF MinOf
  <2>2. PICK m \in T : \A n \in T : m <= n
    <3> HIDE DEF T
    <3> QED
      BY <2>1, LeastNat
  <2>3. PICK y \in Nodes : d[y] # e[y] /\ m = MinOf(d[y], e[y])
    BY <2>2
  <2>4. \E x \in Nodes : d[x] # e[x] /\ MinOf(d[x], e[x]) < m
    <3>1. CASE d[y] < e[y]
      <4>1. m = d[y]
        BY <1>1, <2>3, <3>1 DEF MinOf
      <4> QED
        BY <1>2, <3>1, <4>1
    <3>2. CASE e[y] < d[y]
      <4>1. m = e[y]
        BY <1>1, <2>3, <3>2 DEF MinOf
      <4>2. PICK x \in Nodes : e[x] # d[x] /\ MinOf(e[x], d[x]) < m
        BY <1>2, <3>2, <4>1
      <4>3. MinOf(e[x], d[x]) = MinOf(d[x], e[x])
        BY <1>1 DEF MinOf
      <4> QED
        BY <4>2, <4>3
    <3> QED
      BY <1>1, <2>3, <3>1, <3>2
  <2>5. PICK x \in Nodes : d[x] # e[x] /\ MinOf(d[x], e[x]) < m
    BY <2>4
  <2>6. MinOf(d[x], e[x]) \in T
    BY <2>5
  <2>7. m <= MinOf(d[x], e[x]) /\ m \in Nat /\ MinOf(d[x], e[x]) \in Nat
    BY <2>1, <2>2, <2>6
  <2> QED
    BY <2>5, <2>7
<1>4. \A y \in Nodes : d[y] = e[y]
  BY <1>3
<1> QED
  BY <1>4 DEF Distances

\* SSSPVerifier accepts the kernel's result, and no array with another distance in it.
THEOREM VerifierIsExact == Spec => []Correct
<1>1. ASSUME IInv, Done, ShortestFound, NEW n \in Nodes, NEW x \in 0 .. kDistInf
      PROVE  SSSPVerifier(g, source, kDistInf, [dist EXCEPT ![n] = x]) <=> x = dist[n]
  <2> DEFINE d == oracle_dist(g, source, kDistInf)
  <2>1. d \in Distances /\ ShortestDistances(d)
    BY <1>1, OracleShortest DEF IInv
  <2>2. dist \in Distances /\ ShortestDistances(dist)
    BY <1>1 DEF IInv, TypeOK, Distances, ShortestFound
  <2>3. d = dist
    <3> HIDE DEF d
    <3> QED
      BY <1>1, <2>1, <2>2, ShortestIsUnique DEF IInv
  <2>4. SSSPVerifier(g, source, kDistInf, [dist EXCEPT ![n] = x]) <=>
          \A y \in Nodes : [dist EXCEPT ![n] = x][y] = d[y]
    BY DEF SSSPVerifier
  <2> HIDE DEF d
  <2> QED
    BY <2>2, <2>3, <2>4 DEF Distances
<1>2. IInv /\ ShortestFound => Correct
  BY <1>1 DEF Correct
<1> QED
  BY <1>2, Invariant, DistancesShortest, PTL
=============================================================================
