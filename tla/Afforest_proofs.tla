--------------------------- MODULE Afforest_proofs ---------------------------
(***************************************************************************)
(* Afforest is correct for every graph, team of threads and number of      *)
(* sampling rounds.  The inductive invariant comes in three layers, each   *)
(* proved with the help of the ones before it: Shape (who is where, and    *)
(* that parents point down), Safe (no tree leaves a component of the       *)
(* graph) and Complete (what has been linked stays linked, so that at the  *)
(* end every edge lies inside one tree).                                   *)
(***************************************************************************)
EXTENDS Afforest, FiniteSetTheorems, WellFoundedInduction, TLAPS

Active(t) == pc[t] # "idle"

(***************************************************************************)
(* Layer 1.  Threads are where the loop in progress puts them, and no two  *)
(* are at the same iteration; parents point down, and the pairs of labels  *)
(* a Link holds are ordered.                                               *)
(***************************************************************************)
Control ==
  /\ phase = "link" => round <= Rounds
  /\ phase = "compress" => round >= 1
  /\ phase = "sample" => round = Rounds
  /\ phase = "done" => round = Rounds + 1
  /\ \A t \in Threads :
       /\ pc[t] \in LinkPCs \cup {"Skip"} => phase = "link"
       /\ pc[t] \in CompressPCs => phase = "compress"
       /\ pc[t] = "Skip" => round = Rounds
       /\ pc[t] \in LinkPCs => i[t] \in FirstEdge(u[t]) .. LastEdge(u[t])
       /\ Active(t) => u[t] \notin todo
  /\ \A s, t \in Threads : Active(s) /\ Active(t) /\ s # t => u[s] # u[t]

Order ==
  /\ PointsDown(comp)
  /\ \A t \in Threads :
       /\ pc[t] \in {"ReadHigh", "CAS", "Hop1", "Hop2", "Hop3"} => low[t] < high[t]
       /\ pc[t] \in {"Load", "Store"} => comp[u[t]] < u[t]
       /\ pc[t] = "Store" => p1[t] <= comp[u[t]]

Shape == TypeOK /\ Control /\ Order

(***************************************************************************)
(* Layer 2.  A union S of components of the graph is a union of trees, and *)
(* every label a Link holds is on the same side of S as its vertex.        *)
(***************************************************************************)
SafeThread(t, S) ==
  /\ pc[t] \in {"ReadP2", "Hop2", "Hop3"} => (p1[t] \in S <=> u[t] \in S)
  /\ pc[t] \in {"ReadHigh", "CAS", "Hop1"} => (high[t] \in S <=> u[t] \in S)
  /\ pc[t] \in {"ReadHigh", "CAS", "Hop1", "Hop2", "Hop3"} =>
       (low[t] \in S <=> u[t] \in S)

\* What a Compress is about to store is in the tree it already hangs in.
Halving ==
  \A t \in Threads : pc[t] = "Store" =>
    \A S \in SUBSET Nodes :
      SatBelow(comp, S, u[t]) => (comp[u[t]] \in S <=> p1[t] \in S)

Safe ==
  /\ Halving
  /\ \A S \in SUBSET Nodes :
       EdgeClosed(g, S) => Sat(comp, S) /\ \A t \in Threads : SafeThread(t, S)

(***************************************************************************)
(* Layer 3.  When the labels a Link holds end up in one tree, so do the    *)
(* ends of its edge; the edges already processed have got there.           *)
(***************************************************************************)
PendingThread(t, S) ==
  /\ pc[t] = "ReadP2" => (p1[t] \in S <=> u[t] \in S)
  /\ pc[t] \in {"ReadHigh", "CAS", "Hop1"} =>
       ((high[t] \in S <=> low[t] \in S) => (u[t] \in S <=> v(t) \in S))
  /\ pc[t] \in {"Hop2", "Hop3"} =>
       ((p1[t] \in S <=> low[t] \in S) => (u[t] \in S <=> v(t) \in S))

Pending ==
  \A t \in Threads : \A S \in SUBSET Nodes : Sat(comp, S) => PendingThread(t, S)

EdgesLinked(x, first, last) ==
  \A j \in first .. last : Linked(comp, x, EdgeAt(x, j))

Sampled ==
  \A x \in Nodes : \A j \in 1 .. out_degree(g, x) :
    j <= round /\ j <= Rounds => Linked(comp, x, EdgeAt(x, j))

Iterations ==
  phase = "link" =>
    /\ \A t \in Threads :
         pc[t] \in LinkPCs => EdgesLinked(u[t], FirstEdge(u[t]), i[t] - 1)
    /\ \A x \in Nodes \ todo :
         \/ \E t \in Threads : Active(t) /\ u[t] = x
         \/ EdgesLinked(x, FirstEdge(x), LastEdge(x))
         \/ round = Rounds /\ Linked(comp, x, c)

AllLinked ==
  round = Rounds + 1 =>
    \A x \in Nodes : Linked(comp, x, c) \/ EdgesLinked(x, 1, AllEdges(x))

Complete == Pending /\ Sampled /\ Iterations /\ AllLinked

AllFlat == phase = "done" => Flat(comp)

IInv == Shape /\ Safe /\ Complete /\ Compressed /\ AllFlat

-----------------------------------------------------------------------------
(***************************************************************************)
(* Facts about forests and the unions of their trees.                      *)
(***************************************************************************)
\* The min-max swap orders two labels and keeps both.
LEMMA HighLow ==
  ASSUME NEW a \in Nodes, NEW b \in Nodes, a # b
  PROVE  /\ HighOf(a, b) \in Nodes /\ LowOf(a, b) \in Nodes
         /\ LowOf(a, b) < HighOf(a, b)
         /\ \/ HighOf(a, b) = a /\ LowOf(a, b) = b
            \/ HighOf(a, b) = b /\ LowOf(a, b) = a
<1>1. a \in Nat /\ b \in Nat
  BY NumNodesAssumption DEF Nodes
<1> QED
  BY <1>1 DEF HighOf, LowOf

\* A CAS on a root joins two trees: what is a union of trees after it was one
\* before, and has both on one side.
LEMMA HookJoins ==
  ASSUME NEW f \in [Nodes -> Nodes], NEW h \in Nodes, NEW l \in Nodes,
         f[h] = h, NEW S, Sat([f EXCEPT ![h] = l], S)
  PROVE  Sat(f, S) /\ (h \in S <=> l \in S)
BY DEF Sat

\* Moving a vertex below n, within what lies below it, changes no union of
\* trees below n.
LEMMA HalveBelow ==
  ASSUME NEW f \in [Nodes -> Nodes], NEW m \in Nodes, NEW p \in Nodes, NEW n \in Nodes,
         NEW S, m < n, SatBelow(f, S, m) => (f[m] \in S <=> p \in S),
         SatBelow([f EXCEPT ![m] = p], S, n)
  PROVE  SatBelow(f, S, n)
<1> DEFINE ff == [f EXCEPT ![m] = p]
<1>0. \A x \in Nodes : x \in Nat
  BY NumNodesAssumption DEF Nodes
<1>1. \A x \in Nodes : x < n /\ x # m => (x \in S <=> f[x] \in S)
  BY DEF SatBelow
<1>2. SatBelow(f, S, m)
  BY <1>0, <1>1 DEF SatBelow
<1>3. m \in S <=> p \in S
  BY DEF SatBelow
<1> QED
  BY <1>1, <1>2, <1>3 DEF SatBelow

\* The same for the whole forest, in both directions.
LEMMA HalveSat ==
  ASSUME NEW f \in [Nodes -> Nodes], NEW n \in Nodes, NEW p \in Nodes,
         NEW S, SatBelow(f, S, n) => (f[n] \in S <=> p \in S)
  PROVE  Sat([f EXCEPT ![n] = p], S) <=> Sat(f, S)
<1>0. \A x \in Nodes : x \in Nat
  BY NumNodesAssumption DEF Nodes
<1>1. ASSUME Sat(f, S) PROVE Sat([f EXCEPT ![n] = p], S)
  BY <1>1 DEF Sat, SatBelow
<1>2. ASSUME Sat([f EXCEPT ![n] = p], S) PROVE Sat(f, S)
  <2>1. \A x \in Nodes : x # n => (x \in S <=> f[x] \in S)
    BY <1>2 DEF Sat
  <2>2. SatBelow(f, S, n)
    BY <1>0, <2>1 DEF SatBelow
  <2>3. n \in S <=> p \in S
    BY <1>2 DEF Sat
  <2> QED
    BY <2>1, <2>2, <2>3 DEF Sat
<1> QED
  BY <1>1, <1>2

\* Flat trees that are unions inside components and hold every edge label them.
LEMMA FlatSoundLinked ==
  ASSUME NEW gr, NEW f \in [Nodes -> Nodes], Flat(f), Sound(gr, f),
         \A x, y \in Nodes : HasOutEdge(gr, x, y) => Linked(f, x, y)
  PROVE  LabelsComponents(gr, f)
<1> SUFFICES ASSUME NEW x \in Nodes, NEW y \in Nodes
             PROVE  f[x] = f[y] <=> Connected(gr, x, y)
  BY DEF LabelsComponents
<1>1. ASSUME f[x] = f[y] PROVE Connected(gr, x, y)
  BY <1>1 DEF Connected, Sound, Sat
<1>2. ASSUME Connected(gr, x, y) PROVE f[x] = f[y]
  <2> DEFINE S == {z \in Nodes : f[z] = f[x]}
  <2>1. Sat(f, S)
    BY DEF Sat, Flat
  <2>2. EdgeClosed(gr, S)
    BY <2>1 DEF EdgeClosed, Linked
  <2> QED
    BY <1>2, <2>2 DEF Connected
<1> QED
  BY <1>1, <1>2

-----------------------------------------------------------------------------
\* The position EdgeAt is applied to always names a vertex.
LEMMA EdgeAtType ==
  ASSUME IsGraph(g), NEW x \in Nodes, NEW j \in 1 .. AllEdges(x)
  PROVE  EdgeAt(x, j) \in Nodes
<1>1. g.out[x] \in Seq(Nodes) /\ g.inv[x] \in Seq(Nodes)
  BY DEF IsGraph
<1>2. out_degree(g, x) \in Nat /\ in_degree(g, x) \in Nat
  BY <1>1 DEF out_degree, in_degree
<1>3. CASE j <= out_degree(g, x)
  BY <1>1, <1>2, <1>3 DEF EdgeAt, out_degree
<1>4. CASE j > out_degree(g, x)
  <2>1. j - out_degree(g, x) \in 1 .. in_degree(g, x)
    BY <1>2, <1>4 DEF AllEdges
  <2> QED
    BY <1>1, <1>2, <1>4, <2>1 DEF EdgeAt, in_degree
<1> QED
  BY <1>2, <1>3, <1>4

\* The range of edges of a vertex, in either kind of link loop.
LEMMA EdgeRange ==
  ASSUME IsGraph(g), round \in Nat, NEW x \in Nodes
  PROVE  /\ FirstEdge(x) \in Nat \ {0}
         /\ LastEdge(x) \in Nat
         /\ AllEdges(x) \in Nat
         /\ LastEdge(x) <= AllEdges(x)
<1>1. out_degree(g, x) \in Nat /\ in_degree(g, x) \in Nat
  BY DEF IsGraph, out_degree, in_degree
<1>2. AllEdges(x) \in Nat /\ out_degree(g, x) <= AllEdges(x)
  BY <1>1 DEF AllEdges
<1> QED
  BY <1>1, <1>2, RoundsAssumption
  DEF FirstEdge, FirstNeigh, MinOf, LastEdge

\* The edges of a vertex depend on the graph and the link loop alone.
LEMMA SameEdges ==
  ASSUME g' = g, round' = round
  PROVE  \A x : /\ FirstEdge(x)' = FirstEdge(x)
                /\ LastEdge(x)' = LastEdge(x)
                /\ AllEdges(x)' = AllEdges(x)
                /\ \A j : EdgeAt(x, j)' = EdgeAt(x, j)
BY DEF FirstEdge, LastEdge, AllEdges, EdgeAt

\* The locals keep their types over the two ways Link goes on.
LocalsType ==
  /\ pc \in [Threads -> PCs] /\ u \in [Threads -> Nodes] /\ i \in [Threads -> Nat]
  /\ p1 \in [Threads -> Nodes] /\ high \in [Threads -> Nodes] /\ low \in [Threads -> Nodes]

LEMMA ReturnType ==
  ASSUME LocalsType, NEW t \in Threads, Return(t)
  PROVE  LocalsType'
<1>1. 0 \in Nodes
  BY NumNodesAssumption DEF Nodes
<1> QED
  BY <1>1 DEF LocalsType, Return, Forget, EdgeOrEnd, Goto, PCs, LinkPCs

\* Link goes round its loop with the two labels in order.
Enters(t, a, b) ==
  \E h, l \in Nodes :
    /\ l < h
    /\ (h = a /\ l = b) \/ (h = b /\ l = a)
    /\ Goto(t, "ReadHigh")
    /\ high' = [high EXCEPT ![t] = h]
    /\ low' = [low EXCEPT ![t] = l]
    /\ p1' = [p1 EXCEPT ![t] = 0]
    /\ UNCHANGED <<u, i>>

LEMMA WhileSplit ==
  ASSUME NEW t \in Threads, NEW a \in Nodes, NEW b \in Nodes, While(t, a, b)
  PROVE  (a = b /\ Return(t)) \/ (a # b /\ Enters(t, a, b))
BY HighLow DEF While, Enters

LEMMA WhileType ==
  ASSUME LocalsType, NEW t \in Threads, NEW a \in Nodes, NEW b \in Nodes, While(t, a, b)
  PROVE  LocalsType'
<1>1. 0 \in Nodes
  BY NumNodesAssumption DEF Nodes
<1>2. CASE Return(t)
  BY <1>2, ReturnType
<1>3. CASE Enters(t, a, b)
  BY <1>1, <1>3 DEF LocalsType, Enters, Goto, PCs, LinkPCs
<1> QED
  BY <1>2, <1>3, WhileSplit

LEMMA InitShape == Init => Shape
BY NumNodesAssumption, RoundsAssumption
DEF Init, Shape, TypeOK, Control, Order, PCs, LinkPCs, CompressPCs, Active,
    PointsDown, SelfPointing, Nodes

LEMMA NextShape == Shape /\ [Next]_vars => Shape'
<1> SUFFICES ASSUME Shape, [Next]_vars PROVE Shape'
  OBVIOUS
<1> USE DEF Shape
<1>0. IsGraph(g)
  BY GraphsAssumption DEF TypeOK
<1>z. 0 \in Nodes /\ \A x \in Nodes : x \in Nat
  BY NumNodesAssumption DEF Nodes
<1>r. round \in Nat /\ \A x \in Nodes : FirstEdge(x) \in Nat /\ LastEdge(x) \in Nat
  BY <1>0, EdgeRange, RoundsAssumption DEF TypeOK
<1>l. LocalsType
  BY DEF TypeOK, LocalsType
<1>a. \A t \in Threads : pc[t] \in LinkPCs => v(t) \in Nodes
  <2> SUFFICES ASSUME NEW t \in Threads, pc[t] \in LinkPCs PROVE v(t) \in Nodes
    OBVIOUS
  <2>1. i[t] \in FirstEdge(u[t]) .. LastEdge(u[t]) /\ u[t] \in Nodes
    BY DEF Control, TypeOK
  <2>2. i[t] \in 1 .. AllEdges(u[t])
    BY <2>1, <1>0, <1>r, EdgeRange
  <2> QED
    BY <2>1, <2>2, <1>0, EdgeAtType DEF v
<1>1. ASSUME NEW t \in Threads, ClaimLink(t) PROVE Shape'
  <2>0. g' = g /\ round' = round
    BY <1>1 DEF ClaimLink
  <2>1. \A x \in Nodes : FirstEdge(x)' = FirstEdge(x) /\ LastEdge(x)' = LastEdge(x)
    BY <2>0, SameEdges
  <2>2. TypeOK'
    BY <1>1, <1>z, <1>r, <1>a
    DEF TypeOK, Control, ClaimLink, EdgeOrEnd, Goto, PCs, LinkPCs, CompressPCs
  <2>3. Control'
    BY <1>1, <2>1, <1>z, <1>r, <1>a
    DEF TypeOK, Control, ClaimLink, EdgeOrEnd, Goto, PCs, LinkPCs, CompressPCs, Active
  <2>4. Order'
    BY <1>1, <1>z, <1>r, <1>a
    DEF TypeOK, Control, Order, PointsDown, ClaimLink, EdgeOrEnd, Goto, PCs, LinkPCs,
        CompressPCs, Active
  <2> QED
    BY <2>2, <2>3, <2>4
<1>2. ASSUME NEW t \in Threads, Skip(t) PROVE Shape'
  <2>0. g' = g /\ round' = round
    BY <1>2 DEF Skip
  <2>1. \A x \in Nodes : FirstEdge(x)' = FirstEdge(x) /\ LastEdge(x)' = LastEdge(x)
    BY <2>0, SameEdges
  <2>2. TypeOK'
    BY <1>2, <1>z, <1>r, <1>a
    DEF TypeOK, Control, Skip, EdgeOrEnd, Goto, PCs, LinkPCs, CompressPCs
  <2>3. Control'
    BY <1>2, <2>1, <1>z, <1>r, <1>a
    DEF TypeOK, Control, Skip, EdgeOrEnd, Goto, PCs, LinkPCs, CompressPCs, Active
  <2>4. Order'
    BY <1>2, <1>z, <1>r, <1>a
    DEF TypeOK, Control, Order, PointsDown, Skip, EdgeOrEnd, Goto, PCs, LinkPCs,
        CompressPCs, Active
  <2> QED
    BY <2>2, <2>3, <2>4
<1>3. ASSUME NEW t \in Threads, ReadP1(t) PROVE Shape'
  <2>0. g' = g /\ round' = round
    BY <1>3 DEF ReadP1
  <2>1. \A x \in Nodes : FirstEdge(x)' = FirstEdge(x) /\ LastEdge(x)' = LastEdge(x)
    BY <2>0, SameEdges
  <2>2. TypeOK'
    BY <1>3, <1>z, <1>r, <1>a DEF TypeOK, Control, ReadP1, Goto, PCs, LinkPCs, CompressPCs
  <2>3. Control'
    BY <1>3, <2>1, <1>z, <1>r, <1>a
    DEF TypeOK, Control, ReadP1, Goto, PCs, LinkPCs, CompressPCs, Active
  <2>4. Order'
    BY <1>3, <1>z, <1>r, <1>a
    DEF TypeOK, Control, Order, PointsDown, ReadP1, Goto, PCs, LinkPCs, CompressPCs,
        Active
  <2> QED
    BY <2>2, <2>3, <2>4
<1>4. ASSUME NEW t \in Threads, ReadP2(t) PROVE Shape'
  <2>w. \/ p1[t] = comp[v(t)] /\ Return(t)
        \/ p1[t] # comp[v(t)] /\ Enters(t, p1[t], comp[v(t)])
    BY <1>4, <1>a, WhileSplit DEF ReadP2, TypeOK, LinkPCs
  <2>0. g' = g /\ round' = round
    BY <1>4 DEF ReadP2
  <2>1. \A x \in Nodes : FirstEdge(x)' = FirstEdge(x) /\ LastEdge(x)' = LastEdge(x)
    BY <2>0, SameEdges
  <2>2. TypeOK'
    BY <1>4, <1>l, <1>a, WhileType DEF TypeOK, LocalsType, ReadP2, LinkPCs
  <2>3. Control'
    BY <1>4, <2>w, <2>1, <1>z, <1>r, <1>a
    DEF TypeOK, Control, ReadP2, Enters, Return, Forget, EdgeOrEnd, Goto, PCs, LinkPCs,
        CompressPCs, Active
  <2>4. Order'
    BY <1>4, <2>w, <1>z, <1>r, <1>a
    DEF TypeOK, Control, Order, PointsDown, ReadP2, Enters, Return, Forget, EdgeOrEnd,
        Goto, PCs, LinkPCs, CompressPCs, Active
  <2> QED
    BY <2>2, <2>3, <2>4
<1>5. ASSUME NEW t \in Threads, ReadHigh(t) PROVE Shape'
  <2>0. g' = g /\ round' = round
    BY <1>5 DEF ReadHigh
  <2>1. \A x \in Nodes : FirstEdge(x)' = FirstEdge(x) /\ LastEdge(x)' = LastEdge(x)
    BY <2>0, SameEdges
  <2>2. TypeOK'
    <3>1. CASE Return(t)
      BY <1>5, <1>l, <3>1, ReturnType DEF TypeOK, LocalsType, ReadHigh
    <3>2. CASE ~Return(t)
      BY <1>5, <3>2 DEF TypeOK, ReadHigh, Goto, PCs, LinkPCs
    <3> QED
      BY <3>1, <3>2
  <2>3. Control'
    BY <1>5, <2>1, <1>z, <1>r, <1>a
    DEF TypeOK, Control, ReadHigh, Return, Forget, EdgeOrEnd, Goto, PCs, LinkPCs,
        CompressPCs, Active
  <2>4. Order'
    BY <1>5, <1>z, <1>r, <1>a
    DEF TypeOK, Control, Order, PointsDown, ReadHigh, Return, Forget, EdgeOrEnd, Goto,
        PCs, LinkPCs, CompressPCs, Active
  <2> QED
    BY <2>2, <2>3, <2>4
<1>6. ASSUME NEW t \in Threads, CAS(t) PROVE Shape'
  <2>0. g' = g /\ round' = round
    BY <1>6 DEF CAS
  <2>1. \A x \in Nodes : FirstEdge(x)' = FirstEdge(x) /\ LastEdge(x)' = LastEdge(x)
    BY <2>0, SameEdges
  <2>2. TypeOK'
    <3>1. CASE Return(t)
      BY <1>6, <1>l, <3>1, ReturnType DEF TypeOK, LocalsType, CAS
    <3>2. CASE ~Return(t)
      BY <1>6, <3>2 DEF TypeOK, CAS, Goto, PCs, LinkPCs
    <3> QED
      BY <3>1, <3>2
  <2>3. Control'
    BY <1>6, <2>1, <1>z, <1>r, <1>a
    DEF TypeOK, Control, CAS, Return, Forget, EdgeOrEnd, Goto, PCs, LinkPCs,
        CompressPCs, Active
  <2>4. Order'
    BY SMTT(30), <1>6, <1>z, <1>r, <1>a
    DEF TypeOK, Control, Order, PointsDown, CAS, Return, Forget, EdgeOrEnd, Goto, PCs,
        LinkPCs, CompressPCs, Active
  <2> QED
    BY <2>2, <2>3, <2>4
<1>7. ASSUME NEW t \in Threads, Hop1(t) PROVE Shape'
  <2>0. g' = g /\ round' = round
    BY <1>7 DEF Hop1
  <2>1. \A x \in Nodes : FirstEdge(x)' = FirstEdge(x) /\ LastEdge(x)' = LastEdge(x)
    BY <2>0, SameEdges
  <2>2. TypeOK'
    BY <1>7, <1>z, <1>r, <1>a DEF TypeOK, Control, Hop1, Goto, PCs, LinkPCs, CompressPCs
  <2>3. Control'
    BY <1>7, <2>1, <1>z, <1>r, <1>a
    DEF TypeOK, Control, Hop1, Goto, PCs, LinkPCs, CompressPCs, Active
  <2>4. Order'
    BY <1>7, <1>z, <1>r, <1>a
    DEF TypeOK, Control, Order, PointsDown, Hop1, Goto, PCs, LinkPCs, CompressPCs,
        Active
  <2> QED
    BY <2>2, <2>3, <2>4
<1>8. ASSUME NEW t \in Threads, Hop2(t) PROVE Shape'
  <2>0. g' = g /\ round' = round
    BY <1>8 DEF Hop2
  <2>1. \A x \in Nodes : FirstEdge(x)' = FirstEdge(x) /\ LastEdge(x)' = LastEdge(x)
    BY <2>0, SameEdges
  <2>2. TypeOK'
    BY <1>8, <1>z, <1>r, <1>a DEF TypeOK, Control, Hop2, Goto, PCs, LinkPCs, CompressPCs
  <2>3. Control'
    BY <1>8, <2>1, <1>z, <1>r, <1>a
    DEF TypeOK, Control, Hop2, Goto, PCs, LinkPCs, CompressPCs, Active
  <2>4. Order'
    BY <1>8, <1>z, <1>r, <1>a
    DEF TypeOK, Control, Order, PointsDown, Hop2, Goto, PCs, LinkPCs, CompressPCs,
        Active
  <2> QED
    BY <2>2, <2>3, <2>4
<1>9. ASSUME NEW t \in Threads, Hop3(t) PROVE Shape'
  <2>w. \/ p1[t] = comp[low[t]] /\ Return(t)
        \/ p1[t] # comp[low[t]] /\ Enters(t, p1[t], comp[low[t]])
    BY <1>9, <1>a, WhileSplit DEF Hop3, TypeOK, LinkPCs
  <2>0. g' = g /\ round' = round
    BY <1>9 DEF Hop3
  <2>1. \A x \in Nodes : FirstEdge(x)' = FirstEdge(x) /\ LastEdge(x)' = LastEdge(x)
    BY <2>0, SameEdges
  <2>2. TypeOK'
    BY <1>9, <1>l, <1>a, WhileType DEF TypeOK, LocalsType, Hop3, LinkPCs
  <2>3. Control'
    BY <1>9, <2>w, <2>1, <1>z, <1>r, <1>a
    DEF TypeOK, Control, Hop3, Enters, Return, Forget, EdgeOrEnd, Goto, PCs, LinkPCs,
        CompressPCs, Active
  <2>4. Order'
    BY <1>9, <2>w, <1>z, <1>r, <1>a
    DEF TypeOK, Control, Order, PointsDown, Hop3, Enters, Return, Forget, EdgeOrEnd,
        Goto, PCs, LinkPCs, CompressPCs, Active
  <2> QED
    BY <2>2, <2>3, <2>4
<1>10. ASSUME NEW t \in Threads, ClaimCompress(t) PROVE Shape'
  <2>0. g' = g /\ round' = round
    BY <1>10 DEF ClaimCompress
  <2>1. \A x \in Nodes : FirstEdge(x)' = FirstEdge(x) /\ LastEdge(x)' = LastEdge(x)
    BY <2>0, SameEdges
  <2>2. TypeOK'
    BY <1>10, <1>z, <1>r, <1>a
    DEF TypeOK, Control, ClaimCompress, Goto, PCs, LinkPCs, CompressPCs
  <2>3. Control'
    BY <1>10, <2>1, <1>z, <1>r, <1>a
    DEF TypeOK, Control, ClaimCompress, Goto, PCs, LinkPCs, CompressPCs, Active
  <2>4. Order'
    BY <1>10, <1>z, <1>r, <1>a
    DEF TypeOK, Control, Order, PointsDown, ClaimCompress, Goto, PCs, LinkPCs,
        CompressPCs, Active
  <2> QED
    BY <2>2, <2>3, <2>4
<1>11. ASSUME NEW t \in Threads, Test(t) PROVE Shape'
  <2>0. g' = g /\ round' = round
    BY <1>11 DEF Test
  <2>1. \A x \in Nodes : FirstEdge(x)' = FirstEdge(x) /\ LastEdge(x)' = LastEdge(x)
    BY <2>0, SameEdges
  <2>2. TypeOK'
    BY <1>11, <1>z, <1>r, <1>a DEF TypeOK, Control, Test, Goto, PCs, LinkPCs, CompressPCs
  <2>3. Control'
    BY <1>11, <2>1, <1>z, <1>r, <1>a
    DEF TypeOK, Control, Test, Goto, PCs, LinkPCs, CompressPCs, Active
  <2>4. Order'
    BY <1>11, <1>z, <1>r, <1>a
    DEF TypeOK, Control, Order, PointsDown, Test, Goto, PCs, LinkPCs, CompressPCs,
        Active
  <2> QED
    BY <2>2, <2>3, <2>4
<1>12. ASSUME NEW t \in Threads, Load(t) PROVE Shape'
  <2>0. g' = g /\ round' = round
    BY <1>12 DEF Load
  <2>1. \A x \in Nodes : FirstEdge(x)' = FirstEdge(x) /\ LastEdge(x)' = LastEdge(x)
    BY <2>0, SameEdges
  <2>2. TypeOK'
    BY <1>12, <1>z, <1>r, <1>a DEF TypeOK, Control, Load, Goto, PCs, LinkPCs, CompressPCs
  <2>3. Control'
    BY <1>12, <2>1, <1>z, <1>r, <1>a
    DEF TypeOK, Control, Load, Goto, PCs, LinkPCs, CompressPCs, Active
  <2>4. Order'
    BY <1>12, <1>z, <1>r, <1>a
    DEF TypeOK, Control, Order, PointsDown, Load, Goto, PCs, LinkPCs, CompressPCs,
        Active
  <2> QED
    BY <2>2, <2>3, <2>4
<1>13. ASSUME NEW t \in Threads, Store(t) PROVE Shape'
  <2>0. g' = g /\ round' = round
    BY <1>13 DEF Store
  <2>1. \A x \in Nodes : FirstEdge(x)' = FirstEdge(x) /\ LastEdge(x)' = LastEdge(x)
    BY <2>0, SameEdges
  <2>2. TypeOK'
    BY <1>13, <1>z, <1>r, <1>a DEF TypeOK, Control, Store, Goto, PCs, LinkPCs, CompressPCs
  <2>3. Control'
    BY <1>13, <2>1, <1>z, <1>r, <1>a
    DEF TypeOK, Control, Store, Goto, PCs, LinkPCs, CompressPCs, Active
  <2>4. Order'
    BY <1>13, <1>z, <1>r, <1>a
    DEF TypeOK, Control, Order, PointsDown, Store, Goto, PCs, LinkPCs, CompressPCs,
        Active
  <2> QED
    BY <2>2, <2>3, <2>4
<1>14. ASSUME EndLink PROVE Shape'
  BY <1>14, <1>z, RoundsAssumption
  DEF TypeOK, Control, Order, PointsDown, EndLink, Barrier, LinkPCs,
     CompressPCs, Active
<1>15. ASSUME EndCompress PROVE Shape'
  BY <1>15, <1>z, RoundsAssumption DEF TypeOK, Control, Order, PointsDown,
     EndCompress, Barrier, LinkPCs, CompressPCs, Active
<1>16. ASSUME SampleFrequentElement PROVE Shape'
  <2>1. \A t \in Threads : pc[t] = "idle"
    BY <1>16 DEF SampleFrequentElement, TypeOK, Control, PCs
  <2> QED
    BY <1>16, <2>1, <1>z DEF TypeOK, Control, Order, PointsDown,
       SampleFrequentElement, LinkPCs, CompressPCs, Active
<1>17. CASE UNCHANGED vars
  BY <1>17, SameEdges DEF vars, TypeOK, Control, Order, PointsDown, Active
<1> QED
  BY <1>1, <1>2, <1>3, <1>4, <1>5, <1>6, <1>7, <1>8, <1>9, <1>10, <1>11,
     <1>12, <1>13, <1>14, <1>15, <1>16, <1>17
  DEF Next, Thread, Link, Compress

-----------------------------------------------------------------------------
\* The ends of an edge lie on the same side of a union of components.
LEMMA EdgeAtClosed ==
  ASSUME IsGraph(g), NEW x \in Nodes, NEW j \in 1 .. AllEdges(x),
         NEW S, EdgeClosed(g, S)
  PROVE  x \in S <=> EdgeAt(x, j) \in S
<1>0. EdgeAt(x, j) \in Nodes
  BY EdgeAtType
<1>1. out_degree(g, x) \in Nat /\ in_degree(g, x) \in Nat
  BY DEF IsGraph, out_degree, in_degree
<1>2. CASE j <= out_degree(g, x)
  <2>1. HasOutEdge(g, x, EdgeAt(x, j))
    BY <1>1, <1>2 DEF HasOutEdge, EdgeAt
  <2> QED
    BY <1>0, <2>1 DEF EdgeClosed
<1>3. CASE j > out_degree(g, x)
  <2>1. j - out_degree(g, x) \in 1 .. in_degree(g, x)
    BY <1>1, <1>3 DEF AllEdges
  <2>2. HasInEdge(g, x, EdgeAt(x, j))
    BY <1>1, <1>3, <2>1 DEF HasInEdge, EdgeAt
  <2>3. HasOutEdge(g, EdgeAt(x, j), x)
    BY <1>0, <2>2 DEF IsGraph
  <2> QED
    BY <1>0, <2>3 DEF EdgeClosed
<1> QED
  BY <1>1, <1>2, <1>3

-----------------------------------------------------------------------------
LEMMA InitSafe == Init => Safe
BY NumNodesAssumption DEF Init, Safe, Halving, SafeThread, Sat, SelfPointing, Nodes

LEMMA NextSafe == Shape /\ Shape' /\ Safe /\ [Next]_vars => Safe'
<1> SUFFICES ASSUME Shape, Shape', Safe, [Next]_vars PROVE Safe'
  OBVIOUS
<1> USE DEF Shape, Safe
<1>0. IsGraph(g)
  BY GraphsAssumption DEF TypeOK
<1>z. \A x \in Nodes : x \in Nat
  BY NumNodesAssumption DEF Nodes
<1>a. ASSUME NEW t \in Threads, pc[t] \in LinkPCs
      PROVE  /\ v(t) \in Nodes
             /\ \A S : EdgeClosed(g, S) => (u[t] \in S <=> v(t) \in S)
  <2>1. i[t] \in FirstEdge(u[t]) .. LastEdge(u[t]) /\ u[t] \in Nodes
    BY <1>a DEF Control, TypeOK
  <2>2. i[t] \in 1 .. AllEdges(u[t])
    BY <2>1, <1>0, EdgeRange DEF TypeOK
  <2> QED
    BY <2>1, <2>2, <1>0, EdgeAtType, EdgeAtClosed DEF v
<1>1. ASSUME NEW t \in Threads, ClaimLink(t) PROVE Safe'
  <2>1. Halving'
    BY <1>1 DEF TypeOK, Control, Halving, CompressPCs, LinkPCs, ClaimLink
  <2>2. ASSUME NEW S \in SUBSET Nodes, EdgeClosed(g, S)
        PROVE  Sat(comp', S) /\ \A s \in Threads : SafeThread(s, S)'
    BY <1>1, <1>a, <1>z, <2>2 DEF TypeOK, Order, SafeThread, Sat, LinkPCs, Goto,
       ClaimLink, EdgeOrEnd
  <2> QED
    BY <1>1, <2>1, <2>2 DEF ClaimLink
<1>2. ASSUME NEW t \in Threads, Skip(t) PROVE Safe'
  <2>1. Halving'
    BY <1>2 DEF TypeOK, Control, Halving, CompressPCs, LinkPCs, Skip
  <2>2. ASSUME NEW S \in SUBSET Nodes, EdgeClosed(g, S)
        PROVE  Sat(comp', S) /\ \A s \in Threads : SafeThread(s, S)'
    BY <1>2, <1>a, <1>z, <2>2 DEF TypeOK, Order, SafeThread, Sat, LinkPCs, Goto,
       Skip, EdgeOrEnd
  <2> QED
    BY <1>2, <2>1, <2>2 DEF Skip
<1>3. ASSUME NEW t \in Threads, ReadP1(t) PROVE Safe'
  <2>1. Halving'
    BY <1>3 DEF TypeOK, Control, Halving, CompressPCs, LinkPCs, ReadP1
  <2>2. ASSUME NEW S \in SUBSET Nodes, EdgeClosed(g, S)
        PROVE  Sat(comp', S) /\ \A s \in Threads : SafeThread(s, S)'
    BY <1>3, <1>a, <1>z, <2>2 DEF TypeOK, Order, SafeThread, Sat, LinkPCs, Goto,
       ReadP1
  <2> QED
    BY <1>3, <2>1, <2>2 DEF ReadP1
<1>4. ASSUME NEW t \in Threads, ReadP2(t) PROVE Safe'
  <2>w. \/ p1[t] = comp[v(t)] /\ Return(t)
        \/ p1[t] # comp[v(t)] /\ Enters(t, p1[t], comp[v(t)])
    BY <1>4, <1>a, WhileSplit DEF ReadP2, TypeOK, LinkPCs
  <2>1. Halving'
    BY <1>4 DEF TypeOK, Control, Halving, CompressPCs, LinkPCs, ReadP2
  <2>2. ASSUME NEW S \in SUBSET Nodes, EdgeClosed(g, S)
        PROVE  Sat(comp', S) /\ \A s \in Threads : SafeThread(s, S)'
    BY <1>4, <2>w, <1>a, <1>z, <2>2 DEF TypeOK, Order, SafeThread, Sat, LinkPCs, Goto,
       ReadP2, Enters, Return, Forget, EdgeOrEnd
  <2> QED
    BY <1>4, <2>w, <2>1, <2>2 DEF ReadP2
<1>5. ASSUME NEW t \in Threads, ReadHigh(t) PROVE Safe'
  <2>1. Halving'
    BY <1>5 DEF TypeOK, Control, Halving, CompressPCs, LinkPCs, ReadHigh
  <2>2. ASSUME NEW S \in SUBSET Nodes, EdgeClosed(g, S)
        PROVE  Sat(comp', S) /\ \A s \in Threads : SafeThread(s, S)'
    BY <1>5, <1>a, <1>z, <2>2 DEF TypeOK, Order, SafeThread, Sat, LinkPCs, Goto,
       ReadHigh, Return, Forget, EdgeOrEnd
  <2> QED
    BY <1>5, <2>1, <2>2 DEF ReadHigh
<1>6. ASSUME NEW t \in Threads, CAS(t) PROVE Safe'
  <2>1. Halving'
    BY <1>6 DEF TypeOK, Control, Halving, CompressPCs, LinkPCs, CAS
  <2>2. ASSUME NEW S \in SUBSET Nodes, EdgeClosed(g, S)
        PROVE  Sat(comp', S) /\ \A s \in Threads : SafeThread(s, S)'
    BY SMTT(30), <1>6, <1>a, <1>z, <2>2 DEF TypeOK, Order, SafeThread, Sat, LinkPCs, Goto,
       CAS, Return, Forget, EdgeOrEnd
  <2> QED
    BY <1>6, <2>1, <2>2 DEF CAS
<1>7. ASSUME NEW t \in Threads, Hop1(t) PROVE Safe'
  <2>1. Halving'
    BY <1>7 DEF TypeOK, Control, Halving, CompressPCs, LinkPCs, Hop1
  <2>2. ASSUME NEW S \in SUBSET Nodes, EdgeClosed(g, S)
        PROVE  Sat(comp', S) /\ \A s \in Threads : SafeThread(s, S)'
    BY <1>7, <1>a, <1>z, <2>2 DEF TypeOK, Order, SafeThread, Sat, LinkPCs, Goto,
       Hop1
  <2> QED
    BY <1>7, <2>1, <2>2 DEF Hop1
<1>8. ASSUME NEW t \in Threads, Hop2(t) PROVE Safe'
  <2>1. Halving'
    BY <1>8 DEF TypeOK, Control, Halving, CompressPCs, LinkPCs, Hop2
  <2>2. ASSUME NEW S \in SUBSET Nodes, EdgeClosed(g, S)
        PROVE  Sat(comp', S) /\ \A s \in Threads : SafeThread(s, S)'
    BY <1>8, <1>a, <1>z, <2>2 DEF TypeOK, Order, SafeThread, Sat, LinkPCs, Goto,
       Hop2
  <2> QED
    BY <1>8, <2>1, <2>2 DEF Hop2
<1>9. ASSUME NEW t \in Threads, Hop3(t) PROVE Safe'
  <2>w. \/ p1[t] = comp[low[t]] /\ Return(t)
        \/ p1[t] # comp[low[t]] /\ Enters(t, p1[t], comp[low[t]])
    BY <1>9, <1>a, WhileSplit DEF Hop3, TypeOK, LinkPCs
  <2>1. Halving'
    BY <1>9 DEF TypeOK, Control, Halving, CompressPCs, LinkPCs, Hop3
  <2>2. ASSUME NEW S \in SUBSET Nodes, EdgeClosed(g, S)
        PROVE  Sat(comp', S) /\ \A s \in Threads : SafeThread(s, S)'
    BY <1>9, <2>w, <1>a, <1>z, <2>2 DEF TypeOK, Order, SafeThread, Sat, LinkPCs, Goto,
       Hop3, Enters, Return, Forget, EdgeOrEnd
  <2> QED
    BY <1>9, <2>w, <2>1, <2>2 DEF Hop3
<1>10. ASSUME NEW t \in Threads, ClaimCompress(t) PROVE Safe'
  <2>1. Halving'
    BY <1>10 DEF TypeOK, Order, Halving, SatBelow, Goto, ClaimCompress
  <2>2. ASSUME NEW S \in SUBSET Nodes, EdgeClosed(g, S)
        PROVE  Sat(comp', S) /\ \A s \in Threads : SafeThread(s, S)'
    BY <1>10, <1>a, <1>z, <2>2 DEF TypeOK, Order, SafeThread, Sat, LinkPCs, Goto,
       ClaimCompress
  <2> QED
    BY <1>10, <2>1, <2>2 DEF ClaimCompress
<1>11. ASSUME NEW t \in Threads, Test(t) PROVE Safe'
  <2>1. Halving'
    BY <1>11 DEF TypeOK, Order, Halving, SatBelow, Goto, Test
  <2>2. ASSUME NEW S \in SUBSET Nodes, EdgeClosed(g, S)
        PROVE  Sat(comp', S) /\ \A s \in Threads : SafeThread(s, S)'
    BY <1>11, <1>a, <1>z, <2>2 DEF TypeOK, Order, SafeThread, Sat, LinkPCs, Goto,
       Test
  <2> QED
    BY <1>11, <2>1, <2>2 DEF Test
<1>12. ASSUME NEW t \in Threads, Load(t) PROVE Safe'
  <2>1. Halving'
    BY <1>12 DEF TypeOK, Order, Halving, SatBelow, Goto, Load
  <2>2. ASSUME NEW S \in SUBSET Nodes, EdgeClosed(g, S)
        PROVE  Sat(comp', S) /\ \A s \in Threads : SafeThread(s, S)'
    BY <1>12, <1>a, <1>z, <2>2 DEF TypeOK, Order, SafeThread, Sat, LinkPCs, Goto,
       Load
  <2> QED
    BY <1>12, <2>1, <2>2 DEF Load
<1>13. ASSUME NEW t \in Threads, Store(t) PROVE Safe'
  <2> DEFINE n == u[t]
  <2>0. /\ comp \in [Nodes -> Nodes] /\ n \in Nodes /\ p1[t] \in Nodes
        /\ comp' = [comp EXCEPT ![n] = p1[t]]
        /\ comp[n] < n
        /\ pc[t] = "Store"
        /\ g' = g
    BY <1>13 DEF TypeOK, Order, Store
  <2>t. \A S \in SUBSET Nodes : SatBelow(comp, S, n) => (comp[n] \in S <=> p1[t] \in S)
    BY <2>0 DEF Halving
  <2>1. ASSUME NEW s \in Threads, pc'[s] = "Store", NEW S \in SUBSET Nodes,
               SatBelow(comp', S, u'[s])
        PROVE  comp'[u'[s]] \in S <=> p1'[s] \in S
    <3>1. s # t /\ pc[s] = "Store" /\ u'[s] = u[s] /\ p1'[s] = p1[s]
      BY <1>13, <2>1 DEF TypeOK, Store, Goto
    <3>2. u[s] # n /\ u[s] \in Nodes /\ comp'[u[s]] = comp[u[s]]
      BY <2>0, <3>1 DEF Control, Active, TypeOK
    <3>3. SatBelow(comp, S, u[s])
      <4>1. CASE n < u[s]
        BY <2>0, <2>t, <2>1, <3>1, <3>2, <4>1, HalveBelow
      <4>2. CASE ~(n < u[s])
        BY <2>0, <2>1, <3>1, <3>2, <4>2, <1>z DEF SatBelow
      <4> QED
        BY <4>1, <4>2
    <3> QED
      BY <3>1, <3>2, <3>3 DEF Halving
  <2>2. ASSUME NEW S \in SUBSET Nodes, EdgeClosed(g, S)
        PROVE  Sat(comp', S) /\ \A s \in Threads : SafeThread(s, S)'
    <3>1. Sat(comp', S)
      BY <2>0, <2>t, <2>2, HalveSat
    <3> QED
      BY <1>13, <3>1, <2>2
      DEF TypeOK, Control, SafeThread, Store, Goto, LinkPCs, CompressPCs
  <2> QED
    BY <2>0, <2>1, <2>2 DEF Halving
<1>14. CASE EndLink \/ EndCompress \/ SampleFrequentElement \/ UNCHANGED vars
  <2>1. UNCHANGED <<g, comp, pc, u, p1, high, low>>
    BY <1>14 DEF EndLink, EndCompress, SampleFrequentElement, vars
  <2> QED
    BY <2>1 DEF Halving, SafeThread
<1> QED
  BY <1>1, <1>2, <1>3, <1>4, <1>5, <1>6, <1>7, <1>8, <1>9, <1>10, <1>11,
     <1>12, <1>13, <1>14
  DEF Next, Thread, Link, Compress

-----------------------------------------------------------------------------
(***************************************************************************)
(* A union of trees after a step was one before it: trees are joined and   *)
(* rearranged, never taken apart.                                          *)
(***************************************************************************)
Merges == \A S \in SUBSET Nodes : Sat(comp', S) => Sat(comp, S)

LEMMA NextMerges == Shape /\ Safe /\ [Next]_vars => Merges
<1> SUFFICES ASSUME Shape, Safe, [Next]_vars PROVE Merges
  OBVIOUS
<1> USE DEF Shape
<1>1. ASSUME NEW t \in Threads, CAS(t) PROVE Merges
  <2>1. comp \in [Nodes -> Nodes] /\ high[t] \in Nodes /\ low[t] \in Nodes
    BY DEF TypeOK
  <2> QED
    BY <1>1, <2>1, HookJoins DEF CAS, Merges
<1>2. ASSUME NEW t \in Threads, Store(t) PROVE Merges
  <2>1. comp \in [Nodes -> Nodes] /\ u[t] \in Nodes /\ p1[t] \in Nodes
    BY DEF TypeOK
  <2>2. \A S \in SUBSET Nodes :
          SatBelow(comp, S, u[t]) => (comp[u[t]] \in S <=> p1[t] \in S)
    BY <1>2 DEF Safe, Halving, Store
  <2> QED
    BY <1>2, <2>1, <2>2, HalveSat DEF Store, Merges
<1>3. CASE comp' = comp
  BY <1>3 DEF Merges
<1> QED
  BY <1>1, <1>2, <1>3
  DEF Next, Thread, Link, Compress, ClaimLink, Skip, ReadP1, ReadP2, ReadHigh, Hop1,
      Hop2, Hop3, ClaimCompress, Test, Load, EndLink, EndCompress,
      SampleFrequentElement, vars

LEMMA MergesLinked ==
  ASSUME Merges
  PROVE  \A x, y : Linked(comp, x, y) => Linked(comp', x, y)
BY DEF Merges, Linked

LEMMA MergesEdgesLinked ==
  ASSUME Merges, g' = g, NEW x, NEW first, NEW last, EdgesLinked(x, first, last)
  PROVE  \A j \in first .. last : Linked(comp', x, EdgeAt(x, j)')
<1>1. \A j : EdgeAt(x, j)' = EdgeAt(x, j)
  BY DEF EdgeAt
<1> QED
  BY <1>1, MergesLinked DEF EdgesLinked

-----------------------------------------------------------------------------
(***************************************************************************)
(* Layer 3.  Three lemmas say what becomes of Iterations when no thread    *)
(* changes its edge, when thread t passes on to edge j of vertex x, and    *)
(* outside the link loops.                                                 *)
(***************************************************************************)
LEMMA StayIterations ==
  ASSUME Shape, Iterations, Merges, NEW t \in Threads,
         UNCHANGED <<g, round, c, phase, todo, u, i>>,
         pc[t] \in LinkPCs, NEW label \in LinkPCs, Goto(t, label)
  PROVE  Iterations'
<1>1. \A s \in Threads : /\ pc'[s] \in LinkPCs <=> pc[s] \in LinkPCs
                         /\ Active(s)' <=> Active(s)
  BY DEF Shape, TypeOK, Goto, Active, LinkPCs
<1>2. \A x, first, last : EdgesLinked(x, first, last) => EdgesLinked(x, first, last)'
  BY MergesEdgesLinked DEF EdgesLinked
<1>3. \A x : FirstEdge(x)' = FirstEdge(x) /\ LastEdge(x)' = LastEdge(x)
  BY SameEdges
<1> QED
  BY <1>1, <1>2, <1>3, MergesLinked DEF Iterations

LEMMA AdvanceIterations ==
  ASSUME Shape, Iterations, Merges, phase = "link",
         NEW t \in Threads, NEW x \in Nodes, NEW j \in Nat,
         UNCHANGED <<g, round, c, phase>>,
         Active(t) => u[t] = x,
         todo \subseteq todo' \cup {x},
         \A k \in FirstEdge(x) .. (j - 1) : Linked(comp', x, EdgeAt(x, k)),
         EdgeOrEnd(t, x, j)
  PROVE  Iterations'
<1>0. IsGraph(g) /\ round \in Nat
  BY GraphsAssumption DEF Shape, TypeOK
<1>1. \A y, first, last : EdgesLinked(y, first, last) => EdgesLinked(y, first, last)'
  BY MergesEdgesLinked DEF EdgesLinked
<1>2. \A y : FirstEdge(y)' = FirstEdge(y) /\ LastEdge(y)' = LastEdge(y)
  BY SameEdges
<1>3. EdgesLinked(x, FirstEdge(x), j - 1)'
  BY SameEdges, <1>2 DEF EdgesLinked
<1>4. \A s \in Threads : s # t =>
        pc'[s] = pc[s] /\ u'[s] = u[s] /\ i'[s] = i[s]
  BY DEF Shape, TypeOK, EdgeOrEnd, Goto
<1>5. LastEdge(x) \in Nat /\ FirstEdge(x) \in Nat
  BY <1>0, EdgeRange
<1>6. ASSUME NEW s \in Threads, pc'[s] \in LinkPCs
      PROVE  EdgesLinked(u[s], FirstEdge(u[s]), i[s] - 1)'
  <2>1. CASE s = t
    BY <1>3, <1>6, <2>1 DEF Shape, TypeOK, EdgeOrEnd, Goto, LinkPCs
  <2>2. CASE s # t
    BY <1>1, <1>2, <1>4, <1>6, <2>2 DEF Iterations
  <2> QED
    BY <2>1, <2>2
<1>7. ASSUME NEW y \in Nodes \ todo'
      PROVE  \/ \E s \in Threads : Active(s)' /\ u'[s] = y
             \/ EdgesLinked(y, FirstEdge(y), LastEdge(y))'
             \/ round' = Rounds /\ Linked(comp', y, c')
  <2>1. CASE y = x
    <3>1. CASE j <= LastEdge(x)
      BY <2>1, <3>1 DEF Shape, TypeOK, EdgeOrEnd, Goto, Active
    <3>2. CASE j > LastEdge(x)
      BY <2>1, <3>2, <1>2, <1>3, <1>5 DEF EdgesLinked
    <3> QED
      BY <3>1, <3>2, <1>5
  <2>2. CASE y # x
    BY <2>2, <1>1, <1>2, <1>4, <1>7, MergesLinked DEF Iterations, Active
  <2> QED
    BY <2>1, <2>2
<1> QED
  BY <1>6, <1>7 DEF Iterations

LEMMA InitComplete == Init => Complete
<1> SUFFICES ASSUME Init PROVE Complete
  OBVIOUS
<1>1. Pending
  BY DEF Init, Pending, PendingThread
<1>2. Sampled
  BY DEF Init, Sampled
<1>3. Iterations
  BY DEF Init, Iterations, LinkPCs
<1>4. AllLinked
  BY RoundsAssumption DEF Init, AllLinked
<1> QED
  BY <1>1, <1>2, <1>3, <1>4 DEF Complete

\* What a step of a thread leaves of the conjuncts about finished loops.
LEMMA ThreadKeeps ==
  ASSUME Merges, Sampled, AllLinked, UNCHANGED <<g, round, c>>
  PROVE  Sampled' /\ AllLinked'
<1>1. \A x, first, last : EdgesLinked(x, first, last) => EdgesLinked(x, first, last)'
  BY MergesEdgesLinked DEF EdgesLinked
<1> QED
  BY <1>1, SameEdges, MergesLinked DEF Sampled, AllLinked, out_degree

\* Link returns with the ends of its edge in one tree.
LEMMA ReturnIterations ==
  ASSUME Shape, Iterations, Merges, NEW t \in Threads, pc[t] \in LinkPCs,
         UNCHANGED <<g, round, c, phase, todo>>,
         Linked(comp', u[t], v(t)), EdgeOrEnd(t, u[t], i[t] + 1)
  PROVE  Iterations'
<1>1. /\ u[t] \in Nodes /\ i[t] \in Nat /\ phase = "link"
      /\ i[t] \in FirstEdge(u[t]) .. LastEdge(u[t])
  BY DEF Shape, TypeOK, Control
<1>2. FirstEdge(u[t]) \in Nat /\ IsGraph(g)
  BY <1>1, GraphsAssumption, EdgeRange DEF Shape, TypeOK
<1>3. EdgesLinked(u[t], FirstEdge(u[t]), i[t] - 1)
  BY <1>1 DEF Iterations
<1>4. \A k \in FirstEdge(u[t]) .. i[t] : Linked(comp', u[t], EdgeAt(u[t], k))
  BY <1>1, <1>2, <1>3, MergesLinked DEF EdgesLinked, v
<1> QED
  BY <1>1, <1>4, AdvanceIterations

LEMMA NextComplete == Shape /\ Shape' /\ Safe /\ Complete /\ [Next]_vars => Complete'
<1> SUFFICES ASSUME Shape, Shape', Safe, Complete, [Next]_vars PROVE Complete'
  OBVIOUS
<1> USE DEF Shape, Complete
<1>0. IsGraph(g) /\ round \in Nat
  BY GraphsAssumption DEF TypeOK
<1>m. Merges
  BY NextMerges
<1>i. \A S \in SUBSET Nodes : Sat(comp', S) => Sat(comp, S)
  BY <1>m DEF Merges
<1>v. \A t \in Threads : pc[t] \in LinkPCs => v(t) \in Nodes
  <2> SUFFICES ASSUME NEW t \in Threads, pc[t] \in LinkPCs PROVE v(t) \in Nodes
    OBVIOUS
  <2>1. i[t] \in FirstEdge(u[t]) .. LastEdge(u[t]) /\ u[t] \in Nodes
    BY DEF Control, TypeOK
  <2>2. i[t] \in 1 .. AllEdges(u[t])
    BY <2>1, <1>0, EdgeRange DEF TypeOK
  <2> QED
    BY <2>1, <2>2, <1>0, EdgeAtType DEF v
<1>1. ASSUME NEW t \in Threads, ClaimLink(t) PROVE Complete'
  <2>1. Pending'
    BY <1>1 DEF TypeOK, Pending, PendingThread, ClaimLink, EdgeOrEnd, Goto, v, EdgeAt
  <2>2. Sampled' /\ AllLinked'
    BY <1>1, <1>m, ThreadKeeps DEF ClaimLink
  <2>3. Iterations'
    <3>1. PICK n \in todo : /\ todo' = todo \ {n}
                            /\ IF round = Rounds
                               THEN Goto(t, "Skip") /\ u' = [u EXCEPT ![t] = n] /\ i' = i
                               ELSE EdgeOrEnd(t, n, FirstEdge(n))
      BY <1>1 DEF ClaimLink
    <3>2. n \in Nodes /\ FirstEdge(n) \in Nat
      BY <1>0, <3>1, EdgeRange DEF TypeOK
    <3>3. CASE round = Rounds
      <4>1. \A x, first, last : EdgesLinked(x, first, last) => EdgesLinked(x, first, last)'
        BY <1>1, <1>m, MergesEdgesLinked DEF EdgesLinked, ClaimLink
      <4> QED
        BY <1>1, <1>m, <3>1, <3>3, <4>1, SameEdges, MergesLinked
        DEF Iterations, Active, TypeOK, Goto, ClaimLink, LinkPCs
    <3>4. CASE round # Rounds
      BY <1>1, <1>m, <3>1, <3>2, <3>4, AdvanceIterations DEF ClaimLink, Active
    <3> QED
      BY <3>3, <3>4
  <2> QED
    BY <2>1, <2>2, <2>3
<1>2. ASSUME NEW t \in Threads, Skip(t) PROVE Complete'
  <2>1. Pending'
    BY <1>2 DEF TypeOK, Pending, PendingThread, Skip, EdgeOrEnd, Goto, v, EdgeAt
  <2>2. Sampled' /\ AllLinked'
    BY <1>2, <1>m, ThreadKeeps DEF Skip
  <2>3. Iterations'
    <3>1. CASE comp[u[t]] = c
      <4>1. \A x, first, last : EdgesLinked(x, first, last) => EdgesLinked(x, first, last)'
        BY <1>2, <1>m, MergesEdgesLinked DEF EdgesLinked, Skip
      <4>2. Linked(comp', u[t], c) /\ round = Rounds
        BY <1>2, <3>1 DEF Linked, Sat, Skip, TypeOK, Control
      <4> QED
        BY <1>2, <1>m, <3>1, <4>1, <4>2, SameEdges, MergesLinked
        DEF Iterations, Active, TypeOK, Goto, Skip, LinkPCs
    <3>2. CASE comp[u[t]] # c
      <4>1. u[t] \in Nodes /\ FirstEdge(u[t]) \in Nat /\ phase = "link"
        BY <1>0, <1>2, EdgeRange DEF TypeOK, Control, Skip
      <4> QED
        BY <1>2, <1>m, <3>2, <4>1, AdvanceIterations DEF Skip
    <3> QED
      BY <3>1, <3>2
  <2> QED
    BY <2>1, <2>2, <2>3
<1>3. ASSUME NEW t \in Threads, ReadP1(t) PROVE Complete'
  <2>1. Pending'
    BY <1>3, <1>v DEF TypeOK, Pending, PendingThread, Sat, ReadP1, Goto, v, EdgeAt, LinkPCs
  <2>2. Sampled' /\ AllLinked'
    BY <1>3, <1>m, ThreadKeeps DEF ReadP1
  <2>3. Iterations'
    BY <1>3, <1>m, StayIterations DEF ReadP1, LinkPCs
  <2> QED
    BY <2>1, <2>2, <2>3
<1>4. ASSUME NEW t \in Threads, Hop1(t) PROVE Complete'
  <2>1. Pending'
    BY <1>4, <1>v DEF TypeOK, Pending, PendingThread, Sat, Hop1, Goto, v, EdgeAt, LinkPCs
  <2>2. Sampled' /\ AllLinked'
    BY <1>4, <1>m, ThreadKeeps DEF Hop1
  <2>3. Iterations'
    BY <1>4, <1>m, StayIterations DEF Hop1, LinkPCs
  <2> QED
    BY <2>1, <2>2, <2>3
<1>5. ASSUME NEW t \in Threads, Hop2(t) PROVE Complete'
  <2>1. Pending'
    BY <1>5, <1>v DEF TypeOK, Pending, PendingThread, Sat, Hop2, Goto, v, EdgeAt, LinkPCs
  <2>2. Sampled' /\ AllLinked'
    BY <1>5, <1>m, ThreadKeeps DEF Hop2
  <2>3. Iterations'
    BY <1>5, <1>m, StayIterations DEF Hop2, LinkPCs
  <2> QED
    BY <2>1, <2>2, <2>3
<1>6. ASSUME NEW t \in Threads, ReadP2(t) PROVE Complete'
  <2>w. \/ p1[t] = comp[v(t)] /\ Return(t)
        \/ p1[t] # comp[v(t)] /\ Enters(t, p1[t], comp[v(t)])
    BY <1>6, <1>v, WhileSplit DEF ReadP2, TypeOK, LinkPCs
  <2>v. \A s \in Threads : u'[s] = u[s] /\ i'[s] = i[s] => v(s)' = v(s)
    BY <1>6 DEF ReadP2, v, EdgeAt
  <2>1. Pending'
    BY <1>6, <2>w, <2>v, <1>v, <1>i
    DEF TypeOK, Pending, PendingThread, Sat, ReadP2, Enters, Return, Forget, EdgeOrEnd,
       Goto, LinkPCs
  <2>2. Sampled' /\ AllLinked'
    BY <1>6, <2>w, <1>m, ThreadKeeps DEF ReadP2
  <2>3. Iterations'
    <3>1. CASE p1[t] = comp[v(t)]
      <4>1. Linked(comp', u[t], v(t))
        BY <1>6, <2>w, <1>v, <1>i, <3>1
        DEF TypeOK, Pending, PendingThread, Sat, Linked, ReadP2, LinkPCs
      <4> QED
        BY <1>6, <2>w, <1>m, <3>1, <4>1, ReturnIterations DEF ReadP2, Enters, Return, LinkPCs
    <3>2. CASE p1[t] # comp[v(t)]
      BY <1>6, <2>w, <1>m, <3>2, StayIterations DEF ReadP2, Enters, LinkPCs
    <3> QED
      BY <3>1, <3>2
  <2> QED
    BY <2>1, <2>2, <2>3
<1>7. ASSUME NEW t \in Threads, Hop3(t) PROVE Complete'
  <2>w. \/ p1[t] = comp[low[t]] /\ Return(t)
        \/ p1[t] # comp[low[t]] /\ Enters(t, p1[t], comp[low[t]])
    BY <1>7, <1>v, WhileSplit DEF Hop3, TypeOK, LinkPCs
  <2>v. \A s \in Threads : u'[s] = u[s] /\ i'[s] = i[s] => v(s)' = v(s)
    BY <1>7 DEF Hop3, v, EdgeAt
  <2>1. Pending'
    BY <1>7, <2>w, <2>v, <1>v, <1>i
    DEF TypeOK, Pending, PendingThread, Sat, Hop3, Enters, Return, Forget, EdgeOrEnd,
       Goto, LinkPCs
  <2>2. Sampled' /\ AllLinked'
    BY <1>7, <2>w, <1>m, ThreadKeeps DEF Hop3
  <2>3. Iterations'
    <3>1. CASE p1[t] = comp[low[t]]
      <4>1. Linked(comp', u[t], v(t))
        BY <1>7, <2>w, <1>v, <1>i, <3>1
        DEF TypeOK, Pending, PendingThread, Sat, Linked, Hop3, LinkPCs
      <4> QED
        BY <1>7, <2>w, <1>m, <3>1, <4>1, ReturnIterations DEF Hop3, Enters, Return, LinkPCs
    <3>2. CASE p1[t] # comp[low[t]]
      BY <1>7, <2>w, <1>m, <3>2, StayIterations DEF Hop3, Enters, LinkPCs
    <3> QED
      BY <3>1, <3>2
  <2> QED
    BY <2>1, <2>2, <2>3
<1>8. ASSUME NEW t \in Threads, ReadHigh(t) PROVE Complete'
  <2>1. Pending'
    BY <1>8, <1>v, <1>i
    DEF TypeOK, Pending, PendingThread, Sat, ReadHigh, While, Return, Forget, EdgeOrEnd,
       Goto, v, EdgeAt, LinkPCs
  <2>2. Sampled' /\ AllLinked'
    BY <1>8, <1>m, ThreadKeeps DEF ReadHigh
  <2>3. Iterations'
    <3>1. CASE comp[high[t]] = low[t]
      <4>1. Linked(comp', u[t], v(t))
        BY <1>8, <1>v, <1>i, <3>1
        DEF TypeOK, Pending, PendingThread, Sat, Linked, ReadHigh, LinkPCs
      <4> QED
        BY <1>8, <1>m, <3>1, <4>1, ReturnIterations DEF ReadHigh, Return, LinkPCs
    <3>2. CASE comp[high[t]] # low[t]
      BY <1>8, <1>m, <3>2, StayIterations DEF ReadHigh, LinkPCs
    <3> QED
      BY <3>1, <3>2
  <2> QED
    BY <2>1, <2>2, <2>3
<1>9. ASSUME NEW t \in Threads, CAS(t) PROVE Complete'
  <2>1. Pending'
    BY <1>9, <1>v, <1>i
    DEF TypeOK, Pending, PendingThread, Sat, CAS, While, Return, Forget, EdgeOrEnd,
       Goto, v, EdgeAt, LinkPCs
  <2>2. Sampled' /\ AllLinked'
    BY <1>9, <1>m, ThreadKeeps DEF CAS
  <2>3. Iterations'
    <3>1. CASE comp[high[t]] = high[t]
      <4>1. Linked(comp', u[t], v(t))
        BY <1>9, <1>v, <1>i, <3>1
        DEF TypeOK, Pending, PendingThread, Sat, Linked, CAS, LinkPCs
      <4> QED
        BY <1>9, <1>m, <3>1, <4>1, ReturnIterations DEF CAS, Return, LinkPCs
    <3>2. CASE comp[high[t]] # high[t]
      BY <1>9, <1>m, <3>2, StayIterations DEF CAS, LinkPCs
    <3> QED
      BY <3>1, <3>2
  <2> QED
    BY <2>1, <2>2, <2>3
<1>10. ASSUME NEW t \in Threads, Compress(t) PROVE Complete'
  <2>1. phase = "compress" /\ UNCHANGED <<g, round, c, phase>>
    BY <1>10 DEF Compress, ClaimCompress, Test, Load, Store, Control, CompressPCs
  <2>2. Pending'
    <3>1. \A s \in Threads : pc[s] \notin LinkPCs
      BY <2>1 DEF Control
    <3>2. \A s \in Threads : pc'[s] \notin LinkPCs
      BY <1>10, <3>1 DEF TypeOK, Compress, ClaimCompress, Test, Load, Store, Goto, LinkPCs
    <3> QED
      BY <3>2 DEF Pending, PendingThread, LinkPCs
  <2>3. Sampled' /\ AllLinked'
    BY <1>m, <2>1, ThreadKeeps
  <2>4. Iterations'
    BY <2>1 DEF Iterations
  <2> QED
    BY <2>2, <2>3, <2>4
<1>11. ASSUME EndLink PROVE Complete'
  <2>0. /\ UNCHANGED <<g, comp, c, pc, u, i, p1, high, low>>
        /\ phase = "link" /\ phase' = "compress" /\ round' = round + 1 /\ todo = {}
        /\ \A t \in Threads : ~Active(t)
    BY <1>11 DEF EndLink, Barrier, Active
  <2>1. Pending'
    BY <2>0 DEF Pending, PendingThread, v, EdgeAt
  <2>2. Iterations'
    BY <2>0 DEF Iterations
  <2>3. \A x \in Nodes : \/ EdgesLinked(x, FirstEdge(x), LastEdge(x))
                         \/ round = Rounds /\ Linked(comp, x, c)
    BY <2>0 DEF Iterations
  <2>4. \A x : out_degree(g, x)' = out_degree(g, x) /\ AllEdges(x)' = AllEdges(x)
               /\ \A j : EdgeAt(x, j)' = EdgeAt(x, j)
    BY <2>0 DEF out_degree, AllEdges, EdgeAt
  <2>5. Sampled'
    <3> SUFFICES ASSUME NEW x \in Nodes, NEW j \in 1 .. out_degree(g, x),
                        j <= round + 1, j <= Rounds
                 PROVE  Linked(comp, x, EdgeAt(x, j))
      BY <2>0, <2>4 DEF Sampled
    <3>1. CASE j <= round
      BY <3>1 DEF Sampled
    <3>2. CASE j > round
      <4>1. out_degree(g, x) \in Nat
        BY <1>0 DEF IsGraph, out_degree
      <4>2. j = round + 1 /\ round < Rounds
        BY <1>0, <3>2, <4>1, RoundsAssumption
      <4>3. j \in FirstEdge(x) .. LastEdge(x)
        BY <1>0, <4>1, <4>2, RoundsAssumption DEF FirstEdge, FirstNeigh, LastEdge, MinOf
      <4> QED
        BY <2>3, <4>2, <4>3, RoundsAssumption DEF EdgesLinked
    <3> QED
      BY <1>0, <3>1, <3>2
  <2>6. AllLinked'
    <3> SUFFICES ASSUME round = Rounds, NEW x \in Nodes, ~Linked(comp, x, c),
                        NEW j \in 1 .. AllEdges(x)
                 PROVE  Linked(comp, x, EdgeAt(x, j))
      BY <2>0, <2>4, <1>0, RoundsAssumption DEF AllLinked, EdgesLinked
    <3>1. out_degree(g, x) \in Nat /\ AllEdges(x) \in Nat
      BY <1>0, EdgeRange DEF IsGraph, out_degree
    <3>2. CASE j <= Rounds /\ j <= out_degree(g, x)
      BY <3>1, <3>2 DEF Sampled
    <3>3. CASE ~(j <= Rounds /\ j <= out_degree(g, x))
      <4>1. j \in FirstEdge(x) .. LastEdge(x)
        BY <1>0, <3>1, <3>3, RoundsAssumption DEF FirstEdge, FirstNeigh, LastEdge, MinOf
      <4> QED
        BY <2>3, <4>1 DEF EdgesLinked
    <3> QED
      BY <3>2, <3>3
  <2> QED
    BY <2>1, <2>2, <2>5, <2>6
<1>12. ASSUME EndCompress PROVE Complete'
  <2>1. UNCHANGED <<g, comp, round, c, pc, u, i, p1, high, low>>
    BY <1>12 DEF EndCompress
  <2>2. Pending'
    BY <2>1 DEF Pending, PendingThread, v, EdgeAt
  <2>3. Sampled' /\ AllLinked'
    BY <1>m, <2>1, ThreadKeeps
  <2>4. Iterations'
    BY <1>12 DEF EndCompress, Barrier, Iterations, LinkPCs, TypeOK
  <2> QED
    BY <2>2, <2>3, <2>4
<1>13. ASSUME SampleFrequentElement PROVE Complete'
  <2>1. /\ UNCHANGED <<g, comp, round, pc, u, i, p1, high, low>>
        /\ todo' = Nodes /\ round = Rounds
        /\ \A t \in Threads : pc[t] \notin LinkPCs
    BY <1>13 DEF SampleFrequentElement, Control
  <2>2. Pending'
    BY <2>1 DEF Pending, PendingThread, v, EdgeAt
  <2>3. Sampled'
    BY <2>1 DEF Sampled, EdgeAt
  <2>4. Iterations' /\ AllLinked'
    BY <2>1, RoundsAssumption DEF Iterations, AllLinked
  <2> QED
    BY <2>2, <2>3, <2>4
<1>14. CASE UNCHANGED vars
  <2>1. UNCHANGED <<g, comp, phase, round, c, todo, pc, u, i, p1, high, low>>
    BY <1>14 DEF vars
  <2>2. Pending'
    BY <2>1 DEF Pending, PendingThread, v, EdgeAt
  <2>3. Sampled' /\ AllLinked'
    BY <1>m, <2>1, ThreadKeeps
  <2>4. Iterations'
    BY <2>1, SameEdges DEF Iterations, EdgesLinked, Active
  <2> QED
    BY <2>2, <2>3, <2>4
<1> QED
  BY <1>1, <1>2, <1>3, <1>4, <1>5, <1>6, <1>7, <1>8, <1>9, <1>10, <1>11, <1>12,
     <1>13, <1>14
  DEF Next, Thread, Link

-----------------------------------------------------------------------------
(***************************************************************************)
(* Compressing.  Only a vertex that is not a root is moved, so a vertex    *)
(* that was seen to point at a root goes on doing so.                      *)
(***************************************************************************)
LEMMA InitCompressed == Init => Compressed /\ AllFlat
BY DEF Init, Compressed, AllFlat

Busy == {u[t] : t \in {s \in Threads : pc[s] # "idle"}}

LEMMA NextCompressed ==
  Shape /\ Compressed /\ AllFlat /\ [Next]_vars => Compressed' /\ AllFlat'
<1> SUFFICES ASSUME Shape, Compressed, AllFlat, [Next]_vars
             PROVE  Compressed' /\ AllFlat'
  OBVIOUS
<1> USE DEF Shape
<1>1. ASSUME NEW t \in Threads, ClaimCompress(t) PROVE Compressed' /\ AllFlat'
  <2>1. PICK n \in todo : todo' = todo \ {n} /\ u' = [u EXCEPT ![t] = n]
    BY <1>1 DEF ClaimCompress
  <2>2. Nodes \ (todo' \cup Busy') \subseteq Nodes \ (todo \cup Busy)
    BY <1>1, <2>1 DEF ClaimCompress, Goto, Busy, TypeOK
  <2> QED
    BY <1>1, <2>2 DEF ClaimCompress, Compressed, Busy, IsRoot, AllFlat
<1>2. ASSUME NEW t \in Threads, Test(t) PROVE Compressed' /\ AllFlat'
  <2>1. phase = "compress" /\ comp' = comp /\ phase' = phase /\ todo' = todo
    BY <1>2 DEF Test, Control, CompressPCs
  <2>2. ASSUME NEW n \in Nodes \ (todo' \cup Busy') PROVE IsRoot(comp, comp[n])
    <3>1. CASE n = u[t] /\ comp[n] = comp[comp[n]]
      BY <3>1 DEF IsRoot
    <3>2. CASE n # u[t] \/ comp[n] # comp[comp[n]]
      <4>1. n \notin Busy
        BY <1>2, <2>2, <3>2 DEF Test, Goto, Busy, TypeOK
      <4> QED
        BY <2>1, <2>2, <4>1 DEF Compressed, Busy
    <3> QED
      BY <3>1, <3>2
  <2> QED
    BY <2>1, <2>2 DEF Compressed, Busy, AllFlat
<1>3. ASSUME NEW t \in Threads, Load(t) PROVE Compressed' /\ AllFlat'
  <2>1. Busy' = Busy
    BY <1>3 DEF Load, Goto, Busy, TypeOK
  <2> QED
    BY <1>3, <2>1 DEF Load, Compressed, Busy, AllFlat
<1>4. ASSUME NEW t \in Threads, Store(t) PROVE Compressed' /\ AllFlat'
  <2>1. Busy' = Busy /\ u[t] \in Busy
    BY <1>4 DEF Store, Goto, Busy, TypeOK
  <2>2. phase = "compress" /\ phase' = phase /\ todo' = todo
    BY <1>4 DEF Store, Control, CompressPCs
  <2>3. ~IsRoot(comp, u[t])
    BY <1>4, NumNodesAssumption DEF Store, Order, IsRoot, TypeOK, Nodes
  <2>4. ASSUME NEW n \in Nodes \ (todo \cup Busy) PROVE IsRoot(comp', comp'[n])
    <3>1. IsRoot(comp, comp[n]) /\ n # u[t] /\ comp[n] # u[t] /\ comp[n] \in Nodes
      BY <2>1, <2>2, <2>3, <2>4 DEF Compressed, Busy, TypeOK
    <3> QED
      BY <1>4, <3>1 DEF Store, IsRoot, TypeOK
  <2> QED
    BY <2>1, <2>2, <2>4 DEF Compressed, Busy, AllFlat
<1>5. ASSUME EndCompress PROVE Compressed' /\ AllFlat'
  <2>1. Busy = {} /\ todo = {} /\ comp' = comp /\ phase = "compress" /\ phase' # "compress"
    BY <1>5 DEF EndCompress, Barrier, Busy
  <2>2. Flat(comp)
    BY <2>1 DEF Compressed, Busy, Flat, IsRoot
  <2> QED
    BY <2>1, <2>2 DEF Compressed, AllFlat
<1>6. ASSUME EndLink PROVE Compressed' /\ AllFlat'
  BY <1>6 DEF EndLink, Compressed, AllFlat
<1>7. ASSUME SampleFrequentElement PROVE Compressed' /\ AllFlat'
  BY <1>7 DEF SampleFrequentElement, Compressed, AllFlat
<1>8. ASSUME NEW t \in Threads, ClaimLink(t) \/ Skip(t) \/ Link(t)
      PROVE  Compressed' /\ AllFlat'
  <2>1. phase = "link" /\ phase' = phase
    BY <1>8 DEF ClaimLink, Skip, Link, ReadP1, ReadP2, ReadHigh, CAS, Hop1, Hop2, Hop3,
       Control, LinkPCs
  <2> QED
    BY <2>1 DEF Compressed, AllFlat
<1>9. CASE UNCHANGED vars
  BY <1>9 DEF vars, Compressed, AllFlat, IsRoot
<1> QED
  BY <1>1, <1>2, <1>3, <1>4, <1>5, <1>6, <1>7, <1>8, <1>9 DEF Next, Thread, Compress

-----------------------------------------------------------------------------
(***************************************************************************)
(* The skipped edges.  After the last link loop each vertex is in          *)
(* component c or has linked all its edges, the in-edges included when     *)
(* they are not out-edges of the other end: so every edge has been linked  *)
(* from one of its ends, or has both in c.                                 *)
(***************************************************************************)
LEMMA EveryEdgeLinked ==
  ASSUME IsGraph(g), AllLinked, round = Rounds + 1,
         NEW x \in Nodes, NEW y \in Nodes, HasOutEdge(g, x, y)
  PROVE  Linked(comp, x, y)
<1>1. \A z \in Nodes : out_degree(g, z) \in Nat /\ in_degree(g, z) \in Nat
  BY DEF IsGraph, out_degree, in_degree
<1>2. CASE EdgesLinked(x, 1, AllEdges(x))
  <2>1. PICK j \in 1 .. out_degree(g, x) : g.out[x][j] = y
    BY DEF HasOutEdge
  <2>2. j \in 1 .. AllEdges(x) /\ EdgeAt(x, j) = y
    BY <1>1, <2>1 DEF AllEdges, EdgeAt
  <2> QED
    BY <1>2, <2>2 DEF EdgesLinked
<1>3. CASE EdgesLinked(y, 1, AllEdges(y))
  <2>1. PICK k \in 1 .. in_degree(g, y) : g.inv[y][k] = x
    BY DEF IsGraph, HasInEdge
  <2>2. \E j \in 1 .. AllEdges(y) : EdgeAt(y, j) = x
    <3>1. CASE g.directed
      <4>1. out_degree(g, y) + k \in 1 .. AllEdges(y)
        BY <1>1, <3>1 DEF AllEdges
      <4>2. EdgeAt(y, out_degree(g, y) + k) = x
        BY <1>1, <2>1 DEF EdgeAt
      <4> QED
        BY <4>1, <4>2
    <3>2. CASE ~g.directed
      BY <1>1, <2>1, <3>2 DEF IsGraph, AllEdges, EdgeAt, out_degree, in_degree
    <3> QED
      BY <3>1, <3>2
  <2> QED
    BY <1>3, <2>2 DEF EdgesLinked, Linked
<1>4. CASE Linked(comp, x, c) /\ Linked(comp, y, c)
  BY <1>4 DEF Linked
<1> QED
  BY <1>2, <1>3, <1>4 DEF AllLinked

-----------------------------------------------------------------------------
\* The inductive invariant holds of every behaviour.
THEOREM Invariance == Spec => []IInv
<1>1. Init => IInv
  BY InitShape, InitSafe, InitComplete, InitCompressed DEF IInv
<1>2. IInv /\ [Next]_vars => IInv'
  BY NextShape, NextSafe, NextComplete, NextCompressed DEF IInv
<1> QED
  BY <1>1, <1>2, PTL DEF Spec

\* Every variable keeps its type, whatever the graph and the team.
THEOREM TypeCorrect == Spec => []TypeOK
<1>1. IInv => TypeOK
  BY DEF IInv, Shape
<1> QED
  BY <1>1, Invariance, PTL

(***************************************************************************)
(* The kernel's result: labels are equal exactly for connected vertices.   *)
(***************************************************************************)
THEOREM LabelsAreComponents == Spec => []Correct
<1>1. ASSUME IInv, phase = "done" PROVE LabelsComponents(g, comp)
  <2>1. round = Rounds + 1 /\ comp \in [Nodes -> Nodes] /\ IsGraph(g)
    BY <1>1, GraphsAssumption DEF IInv, Shape, TypeOK, Control
  <2>2. Flat(comp) /\ Sound(g, comp) /\ AllLinked
    BY <1>1 DEF IInv, AllFlat, Safe, Sound, Complete
  <2> QED
    BY <2>1, <2>2, EveryEdgeLinked, FlatSoundLinked
<1>2. IInv => Correct
  BY <1>1 DEF Correct
<1> QED
  BY <1>2, Invariance, PTL

\* A vertex Compress is finished with points at a root.
THEOREM CompressFlattens == Spec => []Compressed
<1>1. IInv => Compressed
  BY DEF IInv
<1> QED
  BY <1>1, Invariance, PTL

\* No step of any thread takes two vertices of one tree apart.
THEOREM TreesNeverSplit == Spec => NeverSplit
<1>1. IInv /\ [Next]_vars =>
        [\A x, y \in Nodes : Linked(comp, x, y) => Linked(comp', x, y)]_vars
  BY NextMerges, MergesLinked DEF IInv
<1> QED
  BY <1>1, Invariance, PTL DEF Spec, NeverSplit
-----------------------------------------------------------------------------
(***************************************************************************)
(* What CCVerifier accepts.  Its list of visited vertices is a recursive   *)
(* function: a sequence that begins and goes on as it says exists by       *)
(* induction, and then is that function.                                   *)
(***************************************************************************)
\* A set of numbers that is not empty has a least one.
LEMMA LeastNat == ASSUME NEW T, T \subseteq Nat, T # {} PROVE \E n \in T : \A m \in T : n <= m
<1> DEFINE Below(n) == 0 .. (n - 1)
           R == StrictSubsetOrdering(Nat)
           S == FiniteSubsetsOf(Nat)
           D == {Below(n) : n \in T}
<1>1. IsWellFoundedOn(R, S)
  BY FS_StrictSubsetOrderingWellFounded
<1>2. \A n \in T : Below(n) \in S
  BY FS_Interval DEF FiniteSubsetsOf
<1>3. D \subseteq S /\ D # {}
  BY <1>2
<1> HIDE DEF S, R, D
<1>4. PICK d \in D : \A e \in D : ~(<<e, d>> \in R)
  BY <1>1, <1>3, WFMin
<1>5. PICK n \in T : d = Below(n)
  BY <1>4 DEF D
<1>6. \A m \in T : n <= m
  <2> SUFFICES ASSUME NEW m \in T, m < n PROVE FALSE
    OBVIOUS
  <2>1. Below(m) \subseteq Below(n) /\ Below(m) # Below(n)
    <3>1. m \in Below(n) /\ m \notin Below(m)
      OBVIOUS
    <3> QED
      BY <3>1
  <2>2. <<Below(m), d>> \in R
    BY <1>5, <2>1 DEF R, StrictSubsetOrdering
  <2> QED
    BY <2>2, <1>4 DEF D
<1> QED
  BY <1>6

\* Induction up to n, over a set instead of a predicate.
LEMMA Upwards ==
  ASSUME NEW n \in Nat, NEW T, 0 \in T, \A k \in 1 .. n : k - 1 \in T => k \in T
  PROVE  \A k \in 0 .. n : k \in T
<1> DEFINE C == (0 .. n) \ T
<1> SUFFICES ASSUME C # {} PROVE FALSE
  OBVIOUS
<1>0. C \subseteq Nat
  OBVIOUS
<1>1. PICK k \in C : \A m \in C : k <= m
  <2> HIDE DEF C
  <2> QED
    BY <1>0, LeastNat
<1>2. k # 0 /\ k - 1 \in 0 .. n
  BY <1>1
<1>3. k - 1 \in T
  BY <1>1, <1>2
<1> QED
  BY <1>1, <1>2, <1>3

\* There is a sequence in S that begins with a and goes on with F.
Iterates(n, S, a, F) ==
  \E h \in [0 .. n -> S] : h[0] = a /\ \A d \in 1 .. n : h[d] = F[d][h[d - 1]]

\* Steps from S to S can be repeated.
LEMMA Recursion ==
  ASSUME NEW n \in Nat, NEW S, NEW a \in S, NEW F \in [1 .. n -> [S -> S]]
  PROVE  Iterates(n, S, a, F)
<1> DEFINE T == {m \in 0 .. n : Iterates(m, S, a, F)}
<1>1. 0 \in T
  <2> DEFINE h == [d \in 0 .. 0 |-> a]
  <2>1. h \in [0 .. 0 -> S] /\ h[0] = a /\ 1 .. 0 = {}
    OBVIOUS
  <2> HIDE DEF h
  <2>2. Iterates(0, S, a, F)
    BY <2>1 DEF Iterates
  <2> QED
    BY <2>2
<1>2. \A k \in 1 .. n : k - 1 \in T => k \in T
  <2> SUFFICES ASSUME NEW m \in 1 .. n, m - 1 \in T PROVE m \in T
    OBVIOUS
  <2>1. PICK h \in [0 .. m - 1 -> S] : h[0] = a /\ \A d \in 1 .. m - 1 : h[d] = F[d][h[d - 1]]
    BY DEF Iterates
  <2> DEFINE k == [d \in 0 .. m |-> IF d = m THEN F[m][h[m - 1]] ELSE h[d]]
  <2>2. h[m - 1] \in S /\ F[m] \in [S -> S]
    OBVIOUS
  <2>3. F[m][h[m - 1]] \in S
    BY <2>2
  <2>4. k \in [0 .. m -> S]
    BY <2>3
  <2>5. k[0] = a
    BY <2>1
  <2>6. \A d \in 1 .. m : k[d] = F[d][k[d - 1]]
    <3> SUFFICES ASSUME NEW d \in 1 .. m PROVE k[d] = F[d][k[d - 1]]
      OBVIOUS
    <3>1. k[d - 1] = h[d - 1]
      OBVIOUS
    <3>2. CASE d = m
      BY <3>1, <3>2
    <3>3. CASE d # m
      BY <2>1, <3>1, <3>3
    <3> QED
      BY <3>2, <3>3
  <2> HIDE DEF k
  <2>7. Iterates(m, S, a, F)
    BY <2>4, <2>5, <2>6 DEF Iterates
  <2> QED
    BY <2>7
<1> HIDE DEF T
<1>3. \A k \in 0 .. n : k \in T
  BY <1>1, <1>2, Upwards
<1>4. n \in T
  BY <1>3
<1> QED
  BY <1>4 DEF T

\* Vertices are numbers, finitely many.
LEMMA NodesFinite == /\ Nodes \subseteq Nat /\ IsFiniteSet(Nodes) /\ Cardinality(Nodes) = NumNodes
                     /\ \A Q \in SUBSET Nodes : /\ IsFiniteSet(Q) /\ Cardinality(Q) \in Nat
                                                /\ Cardinality(Q) <= NumNodes
<1>1. IsFiniteSet(Nodes) /\ Cardinality(Nodes) = NumNodes
  BY FS_Interval, NumNodesAssumption DEF Nodes
<1>2. Nodes \subseteq Nat
  BY NumNodesAssumption DEF Nodes
<1> QED
  BY <1>1, <1>2, FS_Subset, FS_CardinalityType

\* The search takes an edge in either direction.
LEMMA NeighboursJoin ==
  ASSUME NEW gr, IsGraph(gr), NEW x \in Nodes, NEW y \in Nodes
  PROVE  y \in NeighboursOf(gr, x) <=> HasOutEdge(gr, x, y) \/ HasOutEdge(gr, y, x)
<1>1. HasOutEdge(gr, y, x) <=> HasInEdge(gr, x, y)
  BY DEF IsGraph
<1>2. CASE gr.directed
  BY <1>1, <1>2 DEF NeighboursOf
<1>3. CASE ~gr.directed
  <2>1. HasInEdge(gr, x, y) <=> HasOutEdge(gr, x, y)
    BY <1>3 DEF IsGraph, HasInEdge, HasOutEdge, in_degree, out_degree
  <2> QED
    BY <1>1, <1>3, <2>1 DEF NeighboursOf
<1> QED
  BY <1>2, <1>3

\* One round of the search from the vertices X.
Reach(gr, X) == X \cup UNION {NeighboursOf(gr, x) : x \in X}

\* A set the search does not leave is closed under edges.
LEMMA ReachedIsClosed ==
  ASSUME NEW gr, IsGraph(gr), NEW X \in SUBSET Nodes
  PROVE  /\ Reach(gr, X) \in SUBSET Nodes /\ X \subseteq Reach(gr, X)
         /\ Reach(gr, X) = X <=> EdgeClosed(gr, X)
<1>1. Reach(gr, X) \in SUBSET Nodes /\ X \subseteq Reach(gr, X)
  BY DEF Reach, NeighboursOf
<1>2. ASSUME Reach(gr, X) = X PROVE EdgeClosed(gr, X)
  <2> SUFFICES ASSUME NEW x \in Nodes, NEW y \in Nodes, HasOutEdge(gr, x, y)
               PROVE  x \in X <=> y \in X
    BY DEF EdgeClosed
  <2>1. y \in NeighboursOf(gr, x) /\ x \in NeighboursOf(gr, y)
    BY NeighboursJoin
  <2> QED
    BY <1>2, <2>1 DEF Reach
<1>3. ASSUME EdgeClosed(gr, X) PROVE Reach(gr, X) = X
  <2>1. \A x \in X : \A y \in NeighboursOf(gr, x) : y \in X
    <3> SUFFICES ASSUME NEW x \in X, NEW y \in NeighboursOf(gr, x) PROVE y \in X
      OBVIOUS
    <3>1. x \in Nodes /\ y \in Nodes
      BY DEF NeighboursOf
    <3> QED
      BY <1>3, <3>1, NeighboursJoin DEF EdgeClosed
  <2> QED
    BY <2>1 DEF Reach
<1> QED
  BY <1>1, <1>2, <1>3

(***************************************************************************)
(* The search from s has visited s and, after as many rounds as there are  *)
(* vertices, all it can: each round that is not the last visits a vertex.  *)
(***************************************************************************)
LEMMA SearchVisits ==
  ASSUME NEW gr, IsGraph(gr), NEW s \in Nodes
  PROVE  /\ VisitedFrom(gr, s) \in SUBSET Nodes /\ s \in VisitedFrom(gr, s)
         /\ EdgeClosed(gr, VisitedFrom(gr, s))
         /\ \A S \in SUBSET Nodes : EdgeClosed(gr, S) /\ s \in S => VisitedFrom(gr, s) \subseteq S
<1> DEFINE P(z) == z = [k \in 0 .. NumNodes |->
                         IF k = 0 THEN {s}
                         ELSE z[k - 1] \cup UNION {NeighboursOf(gr, x) : x \in z[k - 1]}]
           w == CHOOSE z : P(z)
           V == SUBSET Nodes
           first == {s}
<1>1. NumNodes \in Nat /\ first \in V
  BY NumNodesAssumption
<1>2. PICK h \in [0 .. NumNodes -> V] :
        h[0] = first /\ \A k \in 1 .. NumNodes : h[k] = Reach(gr, h[k - 1])
  <2> DEFINE F == [k \in 1 .. NumNodes |-> [X \in V |-> Reach(gr, X)]]
  <2>1. F \in [1 .. NumNodes -> [V -> V]]
    BY ReachedIsClosed
  <2>2. \A h \in [0 .. NumNodes -> V] : \A k \in 1 .. NumNodes : F[k][h[k - 1]] = Reach(gr, h[k - 1])
    BY <1>1
  <2> HIDE DEF F, V, first
  <2>3. Iterates(NumNodes, V, first, F)
    BY <1>1, <2>1, Recursion
  <2> QED
    BY <2>2, <2>3 DEF Iterates
<1>3. P(h)
  <2>1. \A k \in 0 .. NumNodes :
          h[k] = IF k = 0 THEN {s}
                 ELSE h[k - 1] \cup UNION {NeighboursOf(gr, x) : x \in h[k - 1]}
    BY <1>1, <1>2 DEF Reach
  <2> QED
    BY <2>1
<1>4. P(w)
  BY <1>3
<1>5. VisitedFrom(gr, s) = w[NumNodes]
  BY DEF VisitedFrom
<1>6. \A k \in 0 .. NumNodes : w[k] = IF k = 0 THEN {s} ELSE Reach(gr, w[k - 1])
  BY <1>4 DEF Reach
<1> HIDE DEF w, P
<1> DEFINE T == {k \in 0 .. NumNodes :
                   /\ w[k] \in SUBSET Nodes /\ s \in w[k]
                   /\ \A S \in SUBSET Nodes : EdgeClosed(gr, S) /\ s \in S => w[k] \subseteq S
                   /\ Reach(gr, w[k]) # w[k] => Cardinality(w[k]) > k}
<1>7. 0 \in T
  <2>1. w[0] = {s} /\ 0 \in 0 .. NumNodes
    BY <1>1, <1>6
  <2>2. Cardinality({s}) = 1
    BY FS_Singleton
  <2>3. w[0] \in SUBSET Nodes /\ s \in w[0] /\ Cardinality(w[0]) > 0
    BY <2>1, <2>2
  <2>4. \A S \in SUBSET Nodes : s \in S => w[0] \subseteq S
    BY <2>1
  <2> QED
    BY <2>1, <2>3, <2>4
<1>8. ASSUME NEW k \in 1 .. NumNodes, k - 1 \in T PROVE k \in T
  <2>1. w[k] = Reach(gr, w[k - 1]) /\ k \in 0 .. NumNodes /\ k - 1 \in 0 .. NumNodes
    BY <1>1, <1>6
  <2>2. /\ w[k] \in SUBSET Nodes /\ w[k - 1] \in SUBSET Nodes
        /\ w[k - 1] \subseteq w[k] /\ s \in w[k]
    BY <1>8, <2>1, ReachedIsClosed
  <2>3. ASSUME NEW S \in SUBSET Nodes, EdgeClosed(gr, S), s \in S PROVE w[k] \subseteq S
    <3>1. w[k - 1] \subseteq S /\ Reach(gr, S) = S
      BY <1>8, <2>3, ReachedIsClosed
    <3> QED
      BY <2>1, <3>1 DEF Reach
  <2>4. ASSUME Reach(gr, w[k]) # w[k] PROVE Cardinality(w[k]) > k
    <3>1. Reach(gr, w[k - 1]) # w[k - 1]
      BY <2>1, <2>4
    <3>2. Cardinality(w[k - 1]) > k - 1
      BY <1>8, <3>1
    <3>3. Cardinality(w[k - 1]) < Cardinality(w[k])
      <4>1. w[k] # w[k - 1] /\ IsFiniteSet(w[k])
        BY <2>1, <2>2, <3>1, NodesFinite
      <4>2. /\ Cardinality(w[k - 1]) <= Cardinality(w[k])
            /\ Cardinality(w[k]) = Cardinality(w[k - 1]) => w[k] = w[k - 1]
        BY <2>2, <4>1, FS_Subset
      <4>3. Cardinality(w[k]) \in Nat /\ Cardinality(w[k - 1]) \in Nat
        BY <2>2, NodesFinite
      <4> QED
        BY <4>1, <4>2, <4>3
    <3>4. Cardinality(w[k]) \in Nat /\ Cardinality(w[k - 1]) \in Nat
      BY <2>2, NodesFinite
    <3> QED
      BY <3>2, <3>3, <3>4
  <2> QED
    BY <2>1, <2>2, <2>3, <2>4
<1> HIDE DEF T
<1>9. NumNodes \in T
  <2>1. \A k \in 1 .. NumNodes : k - 1 \in T => k \in T
    BY <1>8
  <2>2. \A k \in 0 .. NumNodes : k \in T
    BY <1>1, <1>7, <2>1, Upwards
  <2> QED
    BY <1>1, <2>2
<1> USE DEF T
<1>10. Reach(gr, w[NumNodes]) = w[NumNodes]
  <2>1. w[NumNodes] \in SUBSET Nodes
    BY <1>9
  <2>2. Cardinality(w[NumNodes]) \in Nat /\ Cardinality(w[NumNodes]) <= NumNodes
    BY <2>1, NodesFinite
  <2> QED
    BY <1>1, <1>9, <2>2
<1> QED
  BY <1>5, <1>9, <1>10, ReachedIsClosed

\* A search visits the component of its source.
LEMMA SearchFindsComponent ==
  ASSUME NEW gr, IsGraph(gr), NEW s \in Nodes, NEW y \in Nodes
  PROVE  y \in VisitedFrom(gr, s) <=> Connected(gr, s, y)
<1> DEFINE V == VisitedFrom(gr, s)
<1>1. /\ V \in SUBSET Nodes /\ s \in V /\ EdgeClosed(gr, V)
      /\ \A S \in SUBSET Nodes : EdgeClosed(gr, S) /\ s \in S => V \subseteq S
  BY SearchVisits
<1> HIDE DEF V
<1>2. ASSUME y \in V PROVE Connected(gr, s, y)
  <2> SUFFICES ASSUME NEW S \in SUBSET Nodes, EdgeClosed(gr, S) PROVE s \in S <=> y \in S
    BY DEF Connected
  <2>1. ASSUME s \in S PROVE y \in S
    BY <1>1, <1>2, <2>1
  <2>2. ASSUME s \notin S PROVE y \notin S
    <3>1. Nodes \ S \in SUBSET Nodes /\ s \in Nodes \ S /\ EdgeClosed(gr, Nodes \ S)
      BY <2>2 DEF EdgeClosed
    <3> QED
      BY <1>1, <1>2, <3>1
  <2> QED
    BY <2>1, <2>2
<1>3. ASSUME Connected(gr, s, y) PROVE y \in V
  BY <1>1, <1>3 DEF Connected
<1> QED
  BY <1>2, <1>3 DEF V

\* Every label has a source: a vertex with that label.
LEMMA SourceHasLabel ==
  ASSUME NEW f \in [Nodes -> Nodes], NEW l \in DOMAIN label_to_source(f)
  PROVE  label_to_source(f)[l] \in Nodes /\ f[label_to_source(f)[l]] = l
<1>1. PICK x \in Nodes : f[x] = l
  BY DEF label_to_source
<1> DEFINE T == {k \in Nat : \E n \in Nodes : f[n] = l /\ k = NumNodes - n}
<1>2. NumNodes \in Nat /\ \A n \in Nodes : n \in Nat /\ NumNodes - n \in Nat
  BY NumNodesAssumption DEF Nodes
<1>3. T \subseteq Nat /\ T # {}
  BY <1>1, <1>2
<1>4. \E k \in T : \A j \in T : k <= j
  <2> HIDE DEF T
  <2> QED
    BY <1>3, LeastNat
<1>5. PICK n \in Nodes : f[n] = l /\ \A j \in T : NumNodes - n <= j
  BY <1>4
<1>6. \A m \in Nodes : f[m] = l => m <= n
  <2> SUFFICES ASSUME NEW m \in Nodes, f[m] = l PROVE m <= n
    OBVIOUS
  <2>1. NumNodes - m \in T
    BY <1>2
  <2>2. NumNodes - n <= NumNodes - m
    BY <1>5, <2>1
  <2> QED
    BY <1>2, <2>2
<1>7. label_to_source(f)[l] =
        CHOOSE k \in Nodes : f[k] = l /\ \A m \in Nodes : f[m] = l => m <= k
  BY DEF label_to_source
<1> QED
  BY <1>5, <1>6, <1>7

(***************************************************************************)
(* CCVerifier accepts exactly the labelings of the connected components,   *)
(* whatever the graph and the labels.                                      *)
(***************************************************************************)
LEMMA VerifierDecides ==
  ASSUME NEW gr, IsGraph(gr), NEW f \in [Nodes -> Nodes]
  PROVE  CCVerifier(gr, f) <=> LabelsComponents(gr, f)
<1> DEFINE source == label_to_source(f)
           L == DOMAIN source
           V(l) == VisitedFrom(gr, source[l])
<1>1. \A n \in Nodes : f[n] \in L
  BY DEF label_to_source
<1>2. \A l \in L : source[l] \in Nodes /\ f[source[l]] = l
  BY SourceHasLabel
<1>3. \A l \in L : /\ V(l) \in SUBSET Nodes /\ source[l] \in V(l) /\ EdgeClosed(gr, V(l))
                   /\ \A S \in SUBSET Nodes : EdgeClosed(gr, S) /\ source[l] \in S => V(l) \subseteq S
                   /\ \A y \in Nodes : y \in V(l) <=> Connected(gr, source[l], y)
  BY <1>2, SearchVisits, SearchFindsComponent
<1>4. CCVerifier(gr, f) <=>
        /\ \A l \in L : \A x \in V(l) : \A y \in NeighboursOf(gr, x) : f[y] = l
        /\ Nodes = UNION {V(l) : l \in L}
  BY DEF CCVerifier
<1> HIDE DEF L, source, V
<1>5. ASSUME CCVerifier(gr, f) PROVE LabelsComponents(gr, f)
  <2>1. ASSUME NEW l \in L, NEW z \in V(l) PROVE f[z] = l
    <3> DEFINE S == {y \in V(l) : f[y] = l}
    <3>1. S \in SUBSET Nodes /\ source[l] \in S
      BY <1>2, <1>3
    <3>2. EdgeClosed(gr, S)
      <4> SUFFICES ASSUME NEW x \in Nodes, NEW y \in Nodes, HasOutEdge(gr, x, y)
                   PROVE  x \in S <=> y \in S
        BY DEF EdgeClosed
      <4>1. x \in V(l) <=> y \in V(l)
        BY <1>3 DEF EdgeClosed
      <4>2. y \in NeighboursOf(gr, x) /\ x \in NeighboursOf(gr, y)
        BY NeighboursJoin
      <4>3. x \in V(l) => f[y] = l
        BY <1>4, <1>5, <4>2
      <4>4. y \in V(l) => f[x] = l
        BY <1>4, <1>5, <4>2
      <4> QED
        BY <4>1, <4>3, <4>4
    <3>3. V(l) \subseteq S
      BY <1>3, <3>1, <3>2
    <3> QED
      BY <3>3
  <2>2. \A x \in Nodes : \E l \in L : x \in V(l)
    BY <1>4, <1>5
  <2>3. \A x \in Nodes : x \in V(f[x])
    BY <2>1, <2>2
  <2> SUFFICES ASSUME NEW x \in Nodes, NEW y \in Nodes
               PROVE  f[x] = f[y] <=> Connected(gr, x, y)
    BY DEF LabelsComponents
  <2>4. ASSUME f[x] = f[y] PROVE Connected(gr, x, y)
    <3>1. Connected(gr, source[f[x]], x) /\ Connected(gr, source[f[x]], y)
      BY <1>1, <1>3, <2>3, <2>4
    <3> QED
      BY <3>1 DEF Connected
  <2>5. ASSUME Connected(gr, x, y) PROVE f[x] = f[y]
    <3>1. f[x] \in L /\ x \in V(f[x]) /\ V(f[x]) \in SUBSET Nodes /\ EdgeClosed(gr, V(f[x]))
      BY <1>1, <1>3, <2>3
    <3>2. y \in V(f[x])
      BY <2>5, <3>1 DEF Connected
    <3> QED
      BY <2>1, <3>1, <3>2
  <2> QED
    BY <2>4, <2>5
<1>6. ASSUME LabelsComponents(gr, f) PROVE CCVerifier(gr, f)
  <2>1. ASSUME NEW l \in L, NEW x \in V(l), NEW y \in NeighboursOf(gr, x) PROVE f[y] = l
    <3>1. x \in Nodes /\ y \in Nodes
      BY <1>3 DEF NeighboursOf
    <3>2. y \in V(l)
      BY <1>3, <3>1, NeighboursJoin DEF EdgeClosed
    <3>3. Connected(gr, source[l], y) /\ source[l] \in Nodes /\ f[source[l]] = l
      BY <1>2, <1>3, <3>1, <3>2
    <3> QED
      BY <1>6, <3>1, <3>3 DEF LabelsComponents
  <2>2. ASSUME NEW n \in Nodes PROVE n \in V(f[n])
    <3>1. f[n] \in L /\ source[f[n]] \in Nodes /\ f[source[f[n]]] = f[n]
      BY <1>1, <1>2
    <3>2. Connected(gr, source[f[n]], n)
      BY <1>6, <3>1 DEF LabelsComponents
    <3> QED
      BY <1>3, <3>1, <3>2
  <2>3. Nodes = UNION {V(l) : l \in L}
    BY <1>1, <1>3, <2>2
  <2> QED
    BY <1>4, <2>1, <2>3
<1> QED
  BY <1>5, <1>6

\* A PASS means that the labels are those of the components, for any labels.
THEOREM VerifierIsExact == Spec => []VerifierExact
<1>1. ASSUME TypeOK, NEW labels \in Altered PROVE CCVerifier(g, labels) <=> LabelsComponents(g, labels)
  <2>1. labels \in [Nodes -> Nodes] /\ IsGraph(g)
    BY <1>1, GraphsAssumption DEF Altered, TypeOK
  <2> QED
    BY <2>1, VerifierDecides
<1>2. TypeOK => VerifierExact
  BY <1>1 DEF VerifierExact
<1> QED
  BY <1>2, TypeCorrect, PTL
=============================================================================
