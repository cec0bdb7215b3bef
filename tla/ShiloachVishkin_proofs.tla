---------------------- MODULE ShiloachVishkin_proofs ----------------------
(***************************************************************************)
(* ShiloachVishkin labels the components of every graph, with every team   *)
(* of threads, although its hooks race.  The inductive invariant has three *)
(* layers: Shape (who is where, parents point down), Safe (no tree leaves  *)
(* a component) and Quiet: as long as no thread has set change, comp is as *)
(* flat as the last round left it and every edge passed had equal labels.  *)
(***************************************************************************)
EXTENDS ShiloachVishkin, TLAPS

Active(t) == pc[t] # "idle"

Busy == {u[t] : t \in {s \in Threads : pc[s] # "idle"}}

Control ==
  /\ \A t \in Threads :
       /\ pc[t] \in HookPCs => phase = "hook" /\ i[t] \in 1 .. out_degree(g, u[t])
       /\ pc[t] \in CompressPCs => phase = "compress"
       /\ Active(t) => u[t] \notin todo
  /\ \A s, t \in Threads : Active(s) /\ Active(t) /\ s # t => u[s] # u[t]

Order ==
  /\ PointsDown(comp)
  /\ \A t \in Threads :
       /\ pc[t] \in {"TestRoot", "SetChange", "Hook"} => low[t] < high[t]
       /\ pc[t] \in {"Load", "Store"} => comp[u[t]] < u[t]
       /\ pc[t] = "Store" => label[t] <= comp[u[t]]

Shape == TypeOK /\ Control /\ Order

SafeThread(t, S) ==
  /\ pc[t] = "ReadCompV" => (label[t] \in S <=> u[t] \in S)
  /\ pc[t] \in {"TestRoot", "SetChange", "Hook"} =>
       (high[t] \in S <=> u[t] \in S) /\ (low[t] \in S <=> u[t] \in S)

\* What a compressing thread is about to store is in the tree it hangs in.
Halving ==
  \A t \in Threads : pc[t] = "Store" =>
    \A S \in SUBSET Nodes :
      SatBelow(comp, S, u[t]) => (comp[u[t]] \in S <=> label[t] \in S)

Safe ==
  /\ Halving
  /\ \A S \in SUBSET Nodes :
       EdgeClosed(g, S) => Sat(comp, S) /\ \A t \in Threads : SafeThread(t, S)

\* The first n edges of x have one label at both ends.
SameLabels(x, n) == \A j \in 1 .. n : comp[g.out[x][j]] = comp[x]

QuietThread(t) ==
  /\ pc[t] \notin {"Hook", "Load", "Store"}
  /\ pc[t] = "ReadCompV" => label[t] = comp[u[t]]
  /\ pc[t] \in {"TestRoot", "SetChange"} => IsRoot(comp, high[t])
  /\ pc[t] \in HookPCs => SameLabels(u[t], i[t] - 1)

Quiet ==
  ~change =>
    /\ Flat(comp)
    /\ \A t \in Threads : QuietThread(t)
    /\ \A x \in Nodes : x \notin todo \cup Busy \/ phase # "hook" =>
         SameLabels(x, out_degree(g, x))

\* A vertex the second loop is finished with points at a root.
Compressed ==
  phase = "compress" => \A n \in Nodes \ (todo \cup Busy) : IsRoot(comp, comp[n])

Ended == phase = "done" => ~change

IInv == Shape /\ Safe /\ Compressed /\ Quiet /\ Ended

-----------------------------------------------------------------------------
(***************************************************************************)
(* Facts about forests and the unions of their trees.                      *)
(***************************************************************************)
\* The min-max swap orders two labels and keeps both.
LEMMA HighLow ==
  ASSUME NEW a \in Nodes, NEW b \in Nodes, a # b
  PROVE  /\ HighOf(a, b) \in Nodes /\ LowOf(a, b) \in Nodes
         /\ LowOf(a, b) < HighOf(a, b)
         /\ \/ HighOf(a, b) = a /\ LowOf(a, b) = b
            \/ HighOf(a, b) = b /\ LowOf(a, b) = a
<1>1. a \in Nat /\ b \in Nat
  BY NumNodesAssumption DEF Nodes
<1> QED
  BY <1>1 DEF HighOf, LowOf

\* Moving a vertex below n, within what lies below it, changes no union of
\* trees below n.
LEMMA HalveBelow ==
  ASSUME NEW f \in [Nodes -> Nodes], NEW m \in Nodes, NEW p \in Nodes, NEW n \in Nodes,
         NEW S, m < n, SatBelow(f, S, m) => (f[m] \in S <=> p \in S),
         SatBelow([f EXCEPT ![m] = p], S, n)
  PROVE  SatBelow(f, S, n)
<1> DEFINE ff == [f EXCEPT ![m] = p]
<1>0. \A x \in Nodes : x \in Nat
  BY NumNodesAssumption DEF Nodes
<1>1. \A x \in Nodes : x < n /\ x # m => (x \in S <=> f[x] \in S)
  BY DEF SatBelow
<1>2. SatBelow(f, S, m)
  BY <1>0, <1>1 DEF SatBelow
<1>3. m \in S <=> p \in S
  BY DEF SatBelow
<1> QED
  BY <1>1, <1>2, <1>3 DEF SatBelow

\* The same for the whole forest, in both directions.
LEMMA HalveSat ==
  ASSUME NEW f \in [Nodes -> Nodes], NEW n \in Nodes, NEW p \in Nodes,
         NEW S, SatBelow(f, S, n) => (f[n] \in S <=> p \in S)
  PROVE  Sat([f EXCEPT ![n] = p], S) <=> Sat(f, S)
<1>0. \A x \in Nodes : x \in Nat
  BY NumNodesAssumption DEF Nodes
<1>1. ASSUME Sat(f, S) PROVE Sat([f EXCEPT ![n] = p], S)
  BY <1>1 DEF Sat, SatBelow
<1>2. ASSUME Sat([f EXCEPT ![n] = p], S) PROVE Sat(f, S)
  <2>1. \A x \in Nodes : x # n => (x \in S <=> f[x] \in S)
    BY <1>2 DEF Sat
  <2>2. SatBelow(f, S, n)
    BY <1>0, <2>1 DEF SatBelow
  <2>3. n \in S <=> p \in S
    BY <1>2 DEF Sat
  <2> QED
    BY <2>1, <2>2, <2>3 DEF Sat
<1> QED
  BY <1>1, <1>2

\* Flat trees that are unions inside components and hold every edge label them.
LEMMA FlatSoundLinked ==
  ASSUME NEW gr, NEW f \in [Nodes -> Nodes], Flat(f), Sound(gr, f),
         \A x, y \in Nodes : HasOutEdge(gr, x, y) => Linked(f, x, y)
  PROVE  LabelsComponents(gr, f)
<1> SUFFICES ASSUME NEW x \in Nodes, NEW y \in Nodes
             PROVE  f[x] = f[y] <=> Connected(gr, x, y)
  BY DEF LabelsComponents
<1>1. ASSUME f[x] = f[y] PROVE Connected(gr, x, y)
  BY <1>1 DEF Connected, Sound, Sat
<1>2. ASSUME Connected(gr, x, y) PROVE f[x] = f[y]
  <2> DEFINE S == {z \in Nodes : f[z] = f[x]}
  <2>1. Sat(f, S)
    BY DEF Sat, Flat
  <2>2. EdgeClosed(gr, S)
    BY <2>1 DEF EdgeClosed, Linked
  <2> QED
    BY <1>2, <2>2 DEF Connected
<1> QED
  BY <1>1, <1>2

-----------------------------------------------------------------------------
\* A thread passes on to an edge, or ends its iteration: its locals keep types.
LocalsType ==
  /\ pc \in [Threads -> PCs] /\ u \in [Threads -> Nodes] /\ i \in [Threads -> Nat]
  /\ label \in [Threads -> Nodes] /\ high \in [Threads -> Nodes]
  /\ low \in [Threads -> Nodes]

LEMMA EdgeOrEndType ==
  ASSUME LocalsType, NEW t \in Threads, NEW x \in Nodes, NEW j \in Nat, EdgeOrEnd(t, x, j)
  PROVE  LocalsType'
<1>1. 0 \in Nodes
  BY NumNodesAssumption DEF Nodes
<1> QED
  BY <1>1 DEF LocalsType, EdgeOrEnd, Goto, PCs, HookPCs

\* The two outcomes of reading comp_v.
Enters(t, a, b) ==
  \E h, l \in Nodes :
    /\ l < h
    /\ (h = a /\ l = b) \/ (h = b /\ l = a)
    /\ Goto(t, "TestRoot")
    /\ high' = [high EXCEPT ![t] = h]
    /\ low' = [low EXCEPT ![t] = l]
    /\ label' = [label EXCEPT ![t] = 0]
    /\ UNCHANGED <<u, i>>

LEMMA ReadSplit ==
  ASSUME Shape, NEW t \in Threads, ReadCompV(t)
  PROVE  /\ v(t) \in Nodes /\ HasOutEdge(g, u[t], v(t)) /\ u[t] \in Nodes
         /\ \/ label[t] = comp[v(t)] /\ NextEdge(t)
            \/ label[t] # comp[v(t)] /\ Enters(t, label[t], comp[v(t)])
<1>1. IsGraph(g) /\ u[t] \in Nodes /\ i[t] \in 1 .. out_degree(g, u[t])
  BY GraphsAssumption DEF Shape, TypeOK, Control, ReadCompV, HookPCs
<1>2. v(t) \in Nodes /\ HasOutEdge(g, u[t], v(t))
  BY <1>1 DEF IsGraph, v, out_degree, HasOutEdge
<1>3. label[t] \in Nodes /\ comp[v(t)] \in Nodes
  BY <1>2 DEF Shape, TypeOK
<1> QED
  BY <1>1, <1>2, <1>3, HighLow DEF ReadCompV, Enters

LEMMA EntersType ==
  ASSUME LocalsType, NEW t \in Threads, NEW a \in Nodes, NEW b \in Nodes, Enters(t, a, b)
  PROVE  LocalsType'
<1>1. 0 \in Nodes
  BY NumNodesAssumption DEF Nodes
<1> QED
  BY <1>1 DEF LocalsType, Enters, Goto, PCs, HookPCs

LEMMA InitShape == Init => Shape
<1> SUFFICES ASSUME Init PROVE Shape
  OBVIOUS
<1>1. 0 \in Nodes /\ \A x \in Nodes : x \in Nat
  BY NumNodesAssumption DEF Nodes
<1>2. TypeOK
  BY <1>1 DEF Init, TypeOK, PCs, SelfPointing
<1>3. Control
  BY DEF Init, Control, HookPCs, CompressPCs, Active
<1>4. Order
  BY <1>1 DEF Init, Order, PointsDown, SelfPointing
<1> QED
  BY <1>2, <1>3, <1>4 DEF Shape

LEMMA NextShape == Shape /\ [Next]_vars => Shape'
<1> SUFFICES ASSUME Shape, [Next]_vars PROVE Shape'
  OBVIOUS
<1> USE DEF Shape
<1>y. 0 \in Nodes /\ \A x \in Nodes : x \in Nat
  BY NumNodesAssumption DEF Nodes
<1>x. \A x \in Nodes : out_degree(g, x) \in Nat
  BY GraphsAssumption DEF TypeOK, IsGraph, out_degree
<1>z. 0 \in Nodes /\ \A x \in Nodes : x \in Nat /\ out_degree(g, x) \in Nat
  BY <1>x, <1>y
<1>l. LocalsType
  BY DEF TypeOK, LocalsType
<1>1. ASSUME NEW t \in Threads, ClaimHook(t) PROVE Shape'
  <2>0. g' = g /\ \A x : out_degree(g, x)' = out_degree(g, x)
    BY <1>1 DEF ClaimHook, out_degree
  <2>1. TypeOK'
    BY <1>1, <1>z, <1>l, EdgeOrEndType
    DEF TypeOK, LocalsType, ClaimHook, Goto, PCs, HookPCs, CompressPCs
  <2>2. Control'
    <3>1. PICK n \in todo : todo' = todo \ {n} /\ EdgeOrEnd(t, n, 1)
      BY <1>1 DEF ClaimHook
    <3>2. n \in Nodes /\ phase' = phase /\ phase = "hook" /\ ~Active(t)
      BY <1>1, <3>1 DEF TypeOK, ClaimHook, Active
    <3>3. \A s \in Threads : s # t => pc'[s] = pc[s] /\ u'[s] = u[s] /\ i'[s] = i[s]
      BY <3>1 DEF TypeOK, EdgeOrEnd, Goto
    <3>4. \/ pc'[t] = "idle"
          \/ pc'[t] = "ReadCompU" /\ u'[t] = n /\ i'[t] \in 1 .. out_degree(g, n)
      BY <3>1, <3>2, <1>z DEF TypeOK, EdgeOrEnd, Goto
    <3> QED
      BY <2>0, <3>1, <3>2, <3>3, <3>4 DEF Control, HookPCs, CompressPCs, Active
  <2>3. Order'
    BY <1>1, <1>z
    DEF TypeOK, Control, Order, PointsDown, ClaimHook, EdgeOrEnd, Goto, HookPCs,
        CompressPCs, Active
  <2> QED
    BY <2>1, <2>2, <2>3
<1>2. ASSUME NEW t \in Threads, ReadCompU(t) PROVE Shape'
  <2>0. g' = g /\ \A x : out_degree(g, x)' = out_degree(g, x)
    BY <1>2 DEF ReadCompU, out_degree
  <2>1. TypeOK'
    BY <1>2, <1>z, <1>l, EdgeOrEndType
    DEF TypeOK, LocalsType, ReadCompU, Goto, PCs, HookPCs, CompressPCs
  <2>2. Control'
    BY <1>2, <2>0, <1>z
    DEF TypeOK, Control, ReadCompU, Goto, HookPCs, CompressPCs, Active
  <2>3. Order'
    BY <1>2, <1>z
    DEF TypeOK, Control, Order, PointsDown, ReadCompU, Goto, HookPCs,
        CompressPCs, Active
  <2> QED
    BY <2>1, <2>2, <2>3
<1>3. ASSUME NEW t \in Threads, ReadCompV(t) PROVE Shape'
  <2>w. \/ label[t] = comp[v(t)] /\ NextEdge(t)
        \/ label[t] # comp[v(t)] /\ Enters(t, label[t], comp[v(t)])
    BY <1>3, ReadSplit
  <2>0. g' = g /\ \A x : out_degree(g, x)' = out_degree(g, x)
    BY <1>3 DEF ReadCompV, out_degree
  <2>1. TypeOK'
    <3>1. label[t] \in Nodes /\ comp[v(t)] \in Nodes /\ i[t] + 1 \in Nat /\ u[t] \in Nodes
      BY <1>3, ReadSplit DEF TypeOK
    <3>2. LocalsType'
      BY <2>w, <1>l, <3>1, EdgeOrEndType, EntersType DEF NextEdge
    <3> QED
      BY <1>3, <3>2 DEF TypeOK, LocalsType, ReadCompV
  <2>2. Control'
    BY <1>3, <2>0, <2>w, <1>z
    DEF TypeOK, Control, ReadCompV, Enters, NextEdge, EdgeOrEnd, Goto, HookPCs,
        CompressPCs, Active
  <2>3. Order'
    BY <1>3, <2>w, <1>z
    DEF TypeOK, Control, Order, PointsDown, ReadCompV, Enters, NextEdge, EdgeOrEnd, Goto,
        HookPCs, CompressPCs, Active
  <2> QED
    BY <2>1, <2>2, <2>3
<1>4. ASSUME NEW t \in Threads, TestRoot(t) PROVE Shape'
  <2>0. g' = g /\ \A x : out_degree(g, x)' = out_degree(g, x)
    BY <1>4 DEF TestRoot, out_degree
  <2>1. TypeOK'
    BY <1>4, <1>z, <1>l, EdgeOrEndType
    DEF TypeOK, LocalsType, TestRoot, NextEdge, Goto, PCs, HookPCs, CompressPCs
  <2>2. Control'
    BY <1>4, <2>0, <1>z
    DEF TypeOK, Control, TestRoot, NextEdge, EdgeOrEnd, Goto, HookPCs, CompressPCs, Active
  <2>3. Order'
    BY <1>4, <1>z
    DEF TypeOK, Control, Order, PointsDown, TestRoot, NextEdge, EdgeOrEnd, Goto, HookPCs,
        CompressPCs, Active
  <2> QED
    BY <2>1, <2>2, <2>3
<1>5. ASSUME NEW t \in Threads, SetChange(t) PROVE Shape'
  <2>0. g' = g /\ \A x : out_degree(g, x)' = out_degree(g, x)
    BY <1>5 DEF SetChange, out_degree
  <2>1. TypeOK'
    BY <1>5, <1>z, <1>l, EdgeOrEndType
    DEF TypeOK, LocalsType, SetChange, Goto, PCs, HookPCs, CompressPCs
  <2>2. Control'
    BY <1>5, <2>0, <1>z
    DEF TypeOK, Control, SetChange, Goto, HookPCs, CompressPCs, Active
  <2>3. Order'
    BY <1>5, <1>z
    DEF TypeOK, Control, Order, PointsDown, SetChange, Goto, HookPCs,
        CompressPCs, Active
  <2> QED
    BY <2>1, <2>2, <2>3
<1>6. ASSUME NEW t \in Threads, Hook(t) PROVE Shape'
  <2>0. g' = g /\ \A x : out_degree(g, x)' = out_degree(g, x)
    BY <1>6 DEF Hook, out_degree
  <2>1. TypeOK'
    BY <1>6, <1>z, <1>l, EdgeOrEndType
    DEF TypeOK, LocalsType, Hook, NextEdge, Goto, PCs, HookPCs, CompressPCs
  <2>2. Control'
    BY <1>6, <2>0, <1>z
    DEF TypeOK, Control, Hook, NextEdge, EdgeOrEnd, Goto, HookPCs, CompressPCs, Active
  <2>3. Order'
    BY <1>6, <1>z
    DEF TypeOK, Control, Order, PointsDown, Hook, NextEdge, EdgeOrEnd, Goto, HookPCs,
        CompressPCs, Active
  <2> QED
    BY <2>1, <2>2, <2>3
<1>7. ASSUME NEW t \in Threads, ClaimCompress(t) PROVE Shape'
  <2>0. g' = g /\ \A x : out_degree(g, x)' = out_degree(g, x)
    BY <1>7 DEF ClaimCompress, out_degree
  <2>1. TypeOK'
    BY <1>7, <1>z, <1>l, EdgeOrEndType
    DEF TypeOK, LocalsType, ClaimCompress, Goto, PCs, HookPCs, CompressPCs
  <2>2. Control'
    BY <1>7, <2>0, <1>z
    DEF TypeOK, Control, ClaimCompress, Goto, HookPCs, CompressPCs, Active
  <2>3. Order'
    BY <1>7, <1>z
    DEF TypeOK, Control, Order, PointsDown, ClaimCompress, Goto, HookPCs,
        CompressPCs, Active
  <2> QED
    BY <2>1, <2>2, <2>3
<1>8. ASSUME NEW t \in Threads, Test(t) PROVE Shape'
  <2>0. g' = g /\ \A x : out_degree(g, x)' = out_degree(g, x)
    BY <1>8 DEF Test, out_degree
  <2>1. TypeOK'
    BY <1>8, <1>z, <1>l, EdgeOrEndType
    DEF TypeOK, LocalsType, Test, Goto, PCs, HookPCs, CompressPCs
  <2>2. Control'
    BY <1>8, <2>0, <1>z
    DEF TypeOK, Control, Test, Goto, HookPCs, CompressPCs, Active
  <2>3. Order'
    BY <1>8, <1>z
    DEF TypeOK, Control, Order, PointsDown, Test, Goto, HookPCs,
        CompressPCs, Active
  <2> QED
    BY <2>1, <2>2, <2>3
<1>9. ASSUME NEW t \in Threads, Load(t) PROVE Shape'
  <2>0. g' = g /\ \A x : out_degree(g, x)' = out_degree(g, x)
    BY <1>9 DEF Load, out_degree
  <2>1. TypeOK'
    BY <1>9, <1>z, <1>l, EdgeOrEndType
    DEF TypeOK, LocalsType, Load, Goto, PCs, HookPCs, CompressPCs
  <2>2. Control'
    BY <1>9, <2>0, <1>z
    DEF TypeOK, Control, Load, Goto, HookPCs, CompressPCs, Active
  <2>3. Order'
    BY <1>9, <1>z
    DEF TypeOK, Control, Order, PointsDown, Load, Goto, HookPCs,
        CompressPCs, Active
  <2> QED
    BY <2>1, <2>2, <2>3
<1>10. ASSUME NEW t \in Threads, Store(t) PROVE Shape'
  <2>0. g' = g /\ \A x : out_degree(g, x)' = out_degree(g, x)
    BY <1>10 DEF Store, out_degree
  <2>1. TypeOK'
    BY <1>10, <1>z, <1>l, EdgeOrEndType
    DEF TypeOK, LocalsType, Store, Goto, PCs, HookPCs, CompressPCs
  <2>2. Control'
    BY <1>10, <2>0, <1>z
    DEF TypeOK, Control, Store, Goto, HookPCs, CompressPCs, Active
  <2>3. Order'
    BY <1>10, <1>z
    DEF TypeOK, Control, Order, PointsDown, Store, Goto, HookPCs,
        CompressPCs, Active
  <2> QED
    BY <2>1, <2>2, <2>3
<1>11. CASE EndHook \/ EndCompress
  BY <1>11, <1>z DEF TypeOK, Control, Order, PointsDown, EndHook, EndCompress, Barrier,
     HookPCs, CompressPCs, Active
<1>12. CASE UNCHANGED vars
  BY <1>12 DEF vars, TypeOK, Control, Order, PointsDown, Active
<1> QED
  BY <1>1, <1>2, <1>3, <1>4, <1>5, <1>6, <1>7, <1>8, <1>9, <1>10, <1>11, <1>12
  DEF Next, Thread, HookLoop, CompressLoop

-----------------------------------------------------------------------------
LEMMA InitSafe == Init => Safe
BY NumNodesAssumption DEF Init, Safe, Halving, SafeThread, Sat, SelfPointing, Nodes

LEMMA NextSafe == Shape /\ Shape' /\ Safe /\ [Next]_vars => Safe'
<1> SUFFICES ASSUME Shape, Shape', Safe, [Next]_vars PROVE Safe'
  OBVIOUS
<1> USE DEF Shape, Safe
<1>z. \A x \in Nodes : x \in Nat
  BY NumNodesAssumption DEF Nodes
<1>1. ASSUME NEW t \in Threads, ClaimHook(t) PROVE Safe'
  <2>1. Halving'
    BY <1>1 DEF TypeOK, Control, Halving, CompressPCs, HookPCs, ClaimHook
  <2>2. ASSUME NEW S \in SUBSET Nodes, EdgeClosed(g, S)
        PROVE  Sat(comp', S) /\ \A s \in Threads : SafeThread(s, S)'
    BY <1>1, <1>z, <2>2
    DEF TypeOK, Order, SafeThread, Sat, HookPCs, Goto, ClaimHook, EdgeOrEnd
  <2> QED
    BY <1>1, <2>1, <2>2 DEF ClaimHook
<1>2. ASSUME NEW t \in Threads, ReadCompU(t) PROVE Safe'
  <2>1. Halving'
    BY <1>2 DEF TypeOK, Control, Halving, CompressPCs, HookPCs, ReadCompU
  <2>2. ASSUME NEW S \in SUBSET Nodes, EdgeClosed(g, S)
        PROVE  Sat(comp', S) /\ \A s \in Threads : SafeThread(s, S)'
    BY <1>2, <1>z, <2>2
    DEF TypeOK, Order, SafeThread, Sat, HookPCs, Goto, ReadCompU
  <2> QED
    BY <1>2, <2>1, <2>2 DEF ReadCompU
<1>3. ASSUME NEW t \in Threads, ReadCompV(t) PROVE Safe'
  <2>w. /\ v(t) \in Nodes /\ HasOutEdge(g, u[t], v(t)) /\ u[t] \in Nodes
        /\ \/ label[t] = comp[v(t)] /\ NextEdge(t)
           \/ label[t] # comp[v(t)] /\ Enters(t, label[t], comp[v(t)])
    BY <1>3, ReadSplit
  <2>1. Halving'
    BY <1>3 DEF TypeOK, Control, Halving, CompressPCs, HookPCs, ReadCompV
  <2>2. ASSUME NEW S \in SUBSET Nodes, EdgeClosed(g, S)
        PROVE  Sat(comp', S) /\ \A s \in Threads : SafeThread(s, S)'
    <3>1. (label[t] \in S <=> u[t] \in S) /\ (comp[v(t)] \in S <=> u[t] \in S)
      BY <1>3, <2>w, <2>2 DEF EdgeClosed, Sat, SafeThread, ReadCompV
    <3>2. Sat(comp', S)
      BY <1>3, <2>2 DEF ReadCompV
    <3>3. ASSUME NEW s \in Threads, s # t PROVE SafeThread(s, S)'
      BY <2>w, <2>2, <3>3 DEF TypeOK, SafeThread, Enters, NextEdge, EdgeOrEnd, Goto
    <3>4. SafeThread(t, S)'
      BY <2>w, <3>1 DEF TypeOK, SafeThread, Enters, NextEdge, EdgeOrEnd, Goto
    <3> QED
      BY <3>2, <3>3, <3>4
  <2> QED
    BY <1>3, <2>1, <2>2 DEF ReadCompV
<1>4. ASSUME NEW t \in Threads, TestRoot(t) PROVE Safe'
  <2>1. Halving'
    BY <1>4 DEF TypeOK, Control, Halving, CompressPCs, HookPCs, TestRoot
  <2>2. ASSUME NEW S \in SUBSET Nodes, EdgeClosed(g, S)
        PROVE  Sat(comp', S) /\ \A s \in Threads : SafeThread(s, S)'
    BY <1>4, <1>z, <2>2
    DEF TypeOK, Order, SafeThread, Sat, HookPCs, Goto, TestRoot, NextEdge, EdgeOrEnd
  <2> QED
    BY <1>4, <2>1, <2>2 DEF TestRoot
<1>5. ASSUME NEW t \in Threads, SetChange(t) PROVE Safe'
  <2>1. Halving'
    BY <1>5 DEF TypeOK, Control, Halving, CompressPCs, HookPCs, SetChange
  <2>2. ASSUME NEW S \in SUBSET Nodes, EdgeClosed(g, S)
        PROVE  Sat(comp', S) /\ \A s \in Threads : SafeThread(s, S)'
    BY <1>5, <1>z, <2>2
    DEF TypeOK, Order, SafeThread, Sat, HookPCs, Goto, SetChange
  <2> QED
    BY <1>5, <2>1, <2>2 DEF SetChange
<1>6. ASSUME NEW t \in Threads, Hook(t) PROVE Safe'
  <2>1. Halving'
    BY <1>6 DEF TypeOK, Control, Halving, CompressPCs, HookPCs, Hook
  <2>2. ASSUME NEW S \in SUBSET Nodes, EdgeClosed(g, S)
        PROVE  Sat(comp', S) /\ \A s \in Threads : SafeThread(s, S)'
    BY <1>6, <1>z, <2>2
    DEF TypeOK, Order, SafeThread, Sat, HookPCs, Goto, Hook, NextEdge, EdgeOrEnd
  <2> QED
    BY <1>6, <2>1, <2>2 DEF Hook
<1>7. ASSUME NEW t \in Threads, ClaimCompress(t) PROVE Safe'
  <2>1. Halving'
    BY <1>7 DEF TypeOK, Order, Halving, SatBelow, Goto, ClaimCompress
  <2>2. ASSUME NEW S \in SUBSET Nodes, EdgeClosed(g, S)
        PROVE  Sat(comp', S) /\ \A s \in Threads : SafeThread(s, S)'
    BY <1>7, <1>z, <2>2
    DEF TypeOK, Order, SafeThread, Sat, HookPCs, Goto, ClaimCompress
  <2> QED
    BY <1>7, <2>1, <2>2 DEF ClaimCompress
<1>8. ASSUME NEW t \in Threads, Test(t) PROVE Safe'
  <2>1. Halving'
    BY <1>8 DEF TypeOK, Order, Halving, SatBelow, Goto, Test
  <2>2. ASSUME NEW S \in SUBSET Nodes, EdgeClosed(g, S)
        PROVE  Sat(comp', S) /\ \A s \in Threads : SafeThread(s, S)'
    BY <1>8, <1>z, <2>2
    DEF TypeOK, Order, SafeThread, Sat, HookPCs, Goto, Test
  <2> QED
    BY <1>8, <2>1, <2>2 DEF Test
<1>9. ASSUME NEW t \in Threads, Load(t) PROVE Safe'
  <2>1. Halving'
    BY <1>9 DEF TypeOK, Order, Halving, SatBelow, Goto, Load
  <2>2. ASSUME NEW S \in SUBSET Nodes, EdgeClosed(g, S)
        PROVE  Sat(comp', S) /\ \A s \in Threads : SafeThread(s, S)'
    BY <1>9, <1>z, <2>2
    DEF TypeOK, Order, SafeThread, Sat, HookPCs, Goto, Load
  <2> QED
    BY <1>9, <2>1, <2>2 DEF Load
<1>10. ASSUME NEW t \in Threads, Store(t) PROVE Safe'
  <2> DEFINE n == u[t]
  <2>0. /\ comp \in [Nodes -> Nodes] /\ n \in Nodes /\ label[t] \in Nodes
        /\ comp' = [comp EXCEPT ![n] = label[t]]
        /\ comp[n] < n
        /\ pc[t] = "Store"
        /\ g' = g
    BY <1>10 DEF TypeOK, Order, Store
  <2>t. \A S \in SUBSET Nodes : SatBelow(comp, S, n) => (comp[n] \in S <=> label[t] \in S)
    BY <2>0 DEF Halving
  <2>1. ASSUME NEW s \in Threads, pc'[s] = "Store", NEW S \in SUBSET Nodes,
               SatBelow(comp', S, u'[s])
        PROVE  comp'[u'[s]] \in S <=> label'[s] \in S
    <3>1. s # t /\ pc[s] = "Store" /\ u'[s] = u[s] /\ label'[s] = label[s]
      BY <1>10, <2>1 DEF TypeOK, Store, Goto
    <3>2. u[s] # n /\ u[s] \in Nodes /\ comp'[u[s]] = comp[u[s]]
      BY <2>0, <3>1 DEF Control, Active, TypeOK
    <3>3. SatBelow(comp, S, u[s])
      <4>1. CASE n < u[s]
        BY <2>0, <2>t, <2>1, <3>1, <3>2, <4>1, HalveBelow
      <4>2. CASE ~(n < u[s])
        BY <2>0, <2>1, <3>1, <3>2, <4>2, <1>z DEF SatBelow
      <4> QED
        BY <4>1, <4>2
    <3> QED
      BY <3>1, <3>2, <3>3 DEF Halving
  <2>2. ASSUME NEW S \in SUBSET Nodes, EdgeClosed(g, S)
        PROVE  Sat(comp', S) /\ \A s \in Threads : SafeThread(s, S)'
    <3>1. Sat(comp', S)
      BY <2>0, <2>t, <2>2, HalveSat
    <3> QED
      BY <1>10, <3>1, <2>2
      DEF TypeOK, Control, SafeThread, Store, Goto, HookPCs, CompressPCs
  <2> QED
    BY <2>0, <2>1, <2>2 DEF Halving
<1>11. CASE EndHook \/ EndCompress \/ UNCHANGED vars
  <2>1. UNCHANGED <<g, comp, pc, u, label, high, low>>
    BY <1>11 DEF EndHook, EndCompress, vars
  <2> QED
    BY <2>1 DEF Halving, SafeThread
<1> QED
  BY <1>1, <1>2, <1>3, <1>4, <1>5, <1>6, <1>7, <1>8, <1>9, <1>10, <1>11
  DEF Next, Thread, HookLoop, CompressLoop

-----------------------------------------------------------------------------
LEMMA InitRest == Init => Compressed /\ Quiet /\ Ended
<1> SUFFICES ASSUME Init PROVE Compressed /\ Quiet /\ Ended
  OBVIOUS
<1>1. Compressed /\ Ended
  BY DEF Init, Compressed, Ended
<1>2. Flat(comp)
  BY DEF Init, Flat, SelfPointing
<1>3. \A t \in Threads : QuietThread(t)
  BY DEF Init, QuietThread, HookPCs
<1>4. \A x \in Nodes : ~(x \notin todo \cup Busy \/ phase # "hook")
  BY DEF Init
<1> QED
  BY <1>1, <1>2, <1>3, <1>4 DEF Quiet

(***************************************************************************)
(* Flattening, as in Afforest: a vertex that is not a root is never the    *)
(* root another one was seen to point at.                                  *)
(***************************************************************************)
LEMMA NextCompressed == Shape /\ Compressed /\ [Next]_vars => Compressed'
<1> SUFFICES ASSUME Shape, Compressed, [Next]_vars PROVE Compressed'
  OBVIOUS
<1> USE DEF Shape
<1>1. ASSUME NEW t \in Threads, ClaimCompress(t) PROVE Compressed'
  <2>1. PICK n \in todo : todo' = todo \ {n} /\ u' = [u EXCEPT ![t] = n]
    BY <1>1 DEF ClaimCompress
  <2>2. Nodes \ (todo' \cup Busy') \subseteq Nodes \ (todo \cup Busy)
    BY <1>1, <2>1 DEF ClaimCompress, Goto, Busy, TypeOK
  <2> QED
    BY <1>1, <2>2 DEF ClaimCompress, Compressed, IsRoot
<1>2. ASSUME NEW t \in Threads, Test(t) PROVE Compressed'
  <2>1. phase = "compress" /\ comp' = comp /\ todo' = todo
    BY <1>2 DEF Test, Control, CompressPCs
  <2>2. ASSUME NEW n \in Nodes \ (todo' \cup Busy') PROVE IsRoot(comp, comp[n])
    <3>1. CASE n = u[t] /\ comp[n] = comp[comp[n]]
      BY <3>1 DEF IsRoot
    <3>2. CASE n # u[t] \/ comp[n] # comp[comp[n]]
      <4>1. n \notin Busy
        BY <1>2, <2>2, <3>2 DEF Test, Goto, Busy, TypeOK
      <4> QED
        BY <2>1, <2>2, <4>1 DEF Compressed
    <3> QED
      BY <3>1, <3>2
  <2> QED
    BY <2>1, <2>2 DEF Compressed
<1>3. ASSUME NEW t \in Threads, Load(t) PROVE Compressed'
  <2>1. Busy' = Busy
    BY <1>3 DEF Load, Goto, Busy, TypeOK
  <2> QED
    BY <1>3, <2>1 DEF Load, Compressed, IsRoot
<1>4. ASSUME NEW t \in Threads, Store(t) PROVE Compressed'
  <2>1. Busy' = Busy /\ u[t] \in Busy
    BY <1>4 DEF Store, Goto, Busy, TypeOK
  <2>2. phase = "compress" /\ todo' = todo
    BY <1>4 DEF Store, Control, CompressPCs
  <2>3. ~IsRoot(comp, u[t])
    BY <1>4, NumNodesAssumption DEF Store, Order, IsRoot, TypeOK, Nodes
  <2>4. ASSUME NEW n \in Nodes \ (todo \cup Busy) PROVE IsRoot(comp', comp'[n])
    <3>1. IsRoot(comp, comp[n]) /\ n # u[t] /\ comp[n] # u[t] /\ comp[n] \in Nodes
      BY <2>1, <2>2, <2>3, <2>4 DEF Compressed, TypeOK
    <3> QED
      BY <1>4, <3>1 DEF Store, IsRoot, TypeOK
  <2> QED
    BY <2>1, <2>2, <2>4 DEF Compressed
<1>5. CASE EndHook
  BY <1>5 DEF EndHook, Compressed
<1>6. CASE EndCompress
  BY <1>6 DEF EndCompress, Compressed
<1>7. ASSUME NEW t \in Threads, HookLoop(t) PROVE Compressed'
  <2>1. phase = "hook" /\ phase' = phase
    BY <1>7 DEF HookLoop, ClaimHook, ReadCompU, ReadCompV, TestRoot, SetChange, Hook,
       Control, HookPCs
  <2> QED
    BY <2>1 DEF Compressed
<1>8. CASE UNCHANGED vars
  BY <1>8 DEF vars, Compressed, IsRoot, Busy
<1> QED
  BY <1>1, <1>2, <1>3, <1>4, <1>5, <1>6, <1>7, <1>8 DEF Next, Thread, CompressLoop

-----------------------------------------------------------------------------
(***************************************************************************)
(* Quiet.  With change false a step leaves comp alone; passing an edge, a  *)
(* thread has found equal labels, since in a flat forest the higher of two *)
(* different labels is a root and would have made it set change.           *)
(***************************************************************************)
LEMMA QuietEdge ==
  ASSUME Shape, Quiet, ~change, UNCHANGED <<g, comp, phase>>, phase = "hook",
         NEW t \in Threads, NEW x \in Nodes, NEW j \in Nat,
         Active(t) => u[t] = x,
         todo \subseteq todo' \cup {x},
         SameLabels(x, j - 1), j <= out_degree(g, x) + 1,
         EdgeOrEnd(t, x, j)
  PROVE  Quiet'
<1>0. out_degree(g, x) \in Nat
  BY GraphsAssumption DEF Shape, TypeOK, IsGraph, out_degree
<1>1. \A s \in Threads : s # t =>
        /\ pc'[s] = pc[s] /\ u'[s] = u[s] /\ i'[s] = i[s]
        /\ label'[s] = label[s] /\ high'[s] = high[s]
  BY DEF Shape, TypeOK, EdgeOrEnd, Goto
<1>2. \A y, n : SameLabels(y, n)' <=> SameLabels(y, n)
  BY DEF SameLabels
<1>3. ASSUME NEW s \in Threads PROVE QuietThread(s)'
  <2>1. CASE s = t
    BY <1>2, <2>1 DEF Shape, TypeOK, QuietThread, EdgeOrEnd, Goto, HookPCs
  <2>2. CASE s # t
    BY <1>1, <1>2, <2>2 DEF Quiet, QuietThread, IsRoot
  <2> QED
    BY <2>1, <2>2
<1>4. ASSUME NEW y \in Nodes, y \notin todo' \cup Busy'
      PROVE  SameLabels(y, out_degree(g, y))
  <2>1. CASE y = x
    <3>1. CASE j <= out_degree(g, x)
      BY <1>4, <2>1, <3>1 DEF Shape, TypeOK, EdgeOrEnd, Goto, Busy
    <3>2. CASE j > out_degree(g, x)
      BY <1>0, <2>1, <3>2 DEF SameLabels
    <3> QED
      BY <1>0, <3>1, <3>2
  <2>2. CASE y # x
    <3>1. y \notin Busy
      BY <1>1, <1>4, <2>2 DEF Busy, Active
    <3> QED
      BY <1>4, <2>2, <3>1 DEF Quiet
  <2> QED
    BY <2>1, <2>2
<1>5. Flat(comp)' /\ \A y : out_degree(g, y)' = out_degree(g, y)
  BY DEF Quiet, out_degree
<1> QED
  BY <1>2, <1>3, <1>4, <1>5 DEF Quiet

\* A step that moves thread t alone, to a quiet place, keeps the rest quiet.
LEMMA QuietStay ==
  ASSUME Shape, Quiet, ~change, UNCHANGED <<g, comp, phase, todo, u, i>>,
         NEW t \in Threads, pc[t] # "idle", NEW where \in PCs, where # "idle",
         Goto(t, where), QuietThread(t)',
         \A s \in Threads : s # t => label'[s] = label[s] /\ high'[s] = high[s]
  PROVE  Quiet'
<1>1. Busy' = Busy
  BY DEF Shape, TypeOK, Goto, Busy
<1>2. \A y, n : SameLabels(y, n)' <=> SameLabels(y, n)
  BY DEF SameLabels
<1>3. \A s \in Threads : QuietThread(s)'
  BY <1>2 DEF Shape, TypeOK, Quiet, QuietThread, Goto, IsRoot
<1>4. Flat(comp)' /\ \A y : out_degree(g, y)' = out_degree(g, y)
  BY DEF Quiet, out_degree
<1> QED
  BY <1>1, <1>2, <1>3, <1>4 DEF Quiet

LEMMA NextQuiet ==
  Shape /\ Shape' /\ Compressed /\ Quiet /\ [Next]_vars => Quiet'
<1> SUFFICES ASSUME Shape, Shape', Compressed, Quiet, [Next]_vars PROVE Quiet'
  OBVIOUS
<1> USE DEF Shape
<1>d. \A x \in Nodes : out_degree(g, x) \in Nat
  BY GraphsAssumption DEF TypeOK, IsGraph, out_degree
<1>1. ASSUME NEW t \in Threads, ClaimHook(t), ~change PROVE Quiet'
  <2>1. PICK n \in todo : todo' = todo \ {n} /\ EdgeOrEnd(t, n, 1)
    BY <1>1 DEF ClaimHook
  <2>2. n \in Nodes /\ SameLabels(n, 1 - 1) /\ 1 <= out_degree(g, n) + 1
    BY <1>d, <2>1 DEF TypeOK, SameLabels
  <2> QED
    BY <1>1, <2>1, <2>2, QuietEdge DEF ClaimHook, Active
<1>2. ASSUME NEW t \in Threads, ReadCompU(t), ~change PROVE Quiet'
  <2>1. QuietThread(t)'
    BY <1>2 DEF TypeOK, Quiet, QuietThread, SameLabels, ReadCompU, Goto, HookPCs
  <2> QED
    BY <1>2, <2>1, QuietStay DEF TypeOK, ReadCompU, PCs, HookPCs
<1>3. ASSUME NEW t \in Threads, ReadCompV(t), ~change PROVE Quiet'
  <2>1. /\ v(t) \in Nodes /\ u[t] \in Nodes /\ i[t] \in 1 .. out_degree(g, u[t])
        /\ label[t] = comp[u[t]] /\ SameLabels(u[t], i[t] - 1) /\ phase = "hook"
    BY <1>3, ReadSplit DEF Control, Quiet, QuietThread, ReadCompV, HookPCs
  <2>2. CASE label[t] = comp[v(t)] /\ NextEdge(t)
    <3>1. SameLabels(u[t], (i[t] + 1) - 1)
      BY <1>d, <2>1, <2>2 DEF SameLabels, v
    <3>2. i[t] + 1 \in Nat /\ i[t] + 1 <= out_degree(g, u[t]) + 1
      BY <1>d, <2>1
    <3> QED
      BY <1>3, <2>1, <2>2, <3>1, <3>2, QuietEdge DEF ReadCompV, NextEdge
  <2>3. CASE Enters(t, label[t], comp[v(t)])
    <3>1. IsRoot(comp, label[t]) /\ IsRoot(comp, comp[v(t)])
      BY <1>3, <2>1 DEF Quiet, Flat, IsRoot
    <3>2. QuietThread(t)'
      BY <1>3, <2>1, <2>3, <3>1
      DEF TypeOK, QuietThread, SameLabels, Enters, ReadCompV, Goto, IsRoot
    <3> QED
      BY <1>3, <2>3, <3>2, QuietStay DEF TypeOK, Enters, ReadCompV, PCs, HookPCs
  <2> QED
    BY <1>3, <2>2, <2>3, ReadSplit
<1>4. ASSUME NEW t \in Threads, TestRoot(t), ~change PROVE Quiet'
  <2>1. high[t] = comp[high[t]]
    BY <1>4 DEF Quiet, QuietThread, TestRoot, IsRoot
  <2>2. QuietThread(t)'
    BY <1>4, <2>1 DEF TypeOK, Quiet, QuietThread, SameLabels, TestRoot, Goto, IsRoot,
       HookPCs
  <2> QED
    BY <1>4, <2>1, <2>2, QuietStay DEF TestRoot, PCs, HookPCs
<1>5. ASSUME NEW t \in Threads, SetChange(t) PROVE Quiet'
  BY <1>5 DEF SetChange, Quiet
<1>6. ASSUME NEW t \in Threads, Hook(t), ~change PROVE Quiet'
  BY <1>6 DEF Hook, Quiet, QuietThread
<1>7. ASSUME NEW t \in Threads, ClaimCompress(t), ~change PROVE Quiet'
  <2>1. phase = "compress" /\ UNCHANGED <<g, comp, change, phase>>
    BY <1>7 DEF ClaimCompress
  <2>2. \A y, n : SameLabels(y, n)' <=> SameLabels(y, n)
    BY <2>1 DEF SameLabels
  <2>3. \A s \in Threads : QuietThread(s)'
    BY <1>7, <2>1, <2>2
    DEF TypeOK, Control, Quiet, QuietThread, ClaimCompress, Goto, IsRoot, HookPCs,
        CompressPCs
  <2> QED
    BY <1>7, <2>1, <2>2, <2>3 DEF Quiet, Flat, out_degree
<1>8. ASSUME NEW t \in Threads, Test(t), ~change PROVE Quiet'
  <2>1. phase = "compress" /\ UNCHANGED <<g, comp, change, phase>> /\ u[t] \in Nodes
    BY <1>8 DEF Test, Control, CompressPCs, TypeOK
  <2>2. comp[u[t]] = comp[comp[u[t]]]
    BY <1>8, <2>1 DEF Quiet, Flat
  <2>3. \A y, n : SameLabels(y, n)' <=> SameLabels(y, n)
    BY <2>1 DEF SameLabels
  <2>4. \A s \in Threads : QuietThread(s)'
    BY <1>8, <2>1, <2>2, <2>3
    DEF TypeOK, Control, Quiet, QuietThread, Test, Goto, IsRoot, HookPCs, CompressPCs
  <2> QED
    BY <1>8, <2>1, <2>3, <2>4 DEF Quiet, Flat, out_degree
<1>9. ASSUME NEW t \in Threads, Load(t) \/ Store(t), ~change PROVE Quiet'
  BY <1>9 DEF Load, Store, Quiet, QuietThread
<1>10. ASSUME EndHook, ~change PROVE Quiet'
  <2>1. UNCHANGED <<g, comp, change, pc, u, i, label, high>> /\ todo = {} /\ Busy = {}
    BY <1>10 DEF EndHook, Barrier, Busy
  <2>2. \A y, n : SameLabels(y, n)' <=> SameLabels(y, n)
    BY <2>1 DEF SameLabels
  <2>3. \A s \in Threads : QuietThread(s)'
    BY <1>10, <2>1, <2>2 DEF Quiet, QuietThread, IsRoot
  <2> QED
    BY <1>10, <2>1, <2>2, <2>3 DEF Quiet, Flat, out_degree
<1>11. ASSUME EndCompress PROVE Quiet'
  <2>1. /\ UNCHANGED <<g, comp, pc, u, i, label, high>> /\ phase = "compress"
        /\ todo = {} /\ Busy = {} /\ \A t \in Threads : pc[t] = "idle"
    BY <1>11 DEF EndCompress, Barrier, Busy
  <2>2. Flat(comp)'
    BY <2>1 DEF Compressed, Flat, IsRoot
  <2>3. \A s \in Threads : QuietThread(s)'
    BY <2>1 DEF QuietThread, HookPCs
  <2>4. CASE change
    BY <1>11, <2>2, <2>3, <2>4 DEF EndCompress, Quiet
  <2>5. CASE ~change
    <3>1. \A x \in Nodes : SameLabels(x, out_degree(g, x))
      BY <2>1, <2>5 DEF Quiet
    <3> QED
      BY <2>1, <2>2, <2>3, <3>1 DEF Quiet, SameLabels, out_degree
  <2> QED
    BY <2>4, <2>5
<1>12. ASSUME UNCHANGED vars PROVE Quiet'
  BY <1>12 DEF vars, Quiet, QuietThread, SameLabels, Flat, IsRoot, Busy, out_degree
<1>13. ASSUME NEW t \in Threads, Thread(t), change PROVE Quiet'
  <2>1. change'
    BY <1>13 DEF Thread, HookLoop, CompressLoop, ClaimHook, ReadCompU, ReadCompV, TestRoot,
       SetChange, Hook, ClaimCompress, Test, Load, Store
  <2> QED
    BY <2>1 DEF Quiet
<1>14. ASSUME EndHook, change PROVE Quiet'
  BY <1>14 DEF EndHook, Quiet
<1> QED
  BY <1>1, <1>2, <1>3, <1>4, <1>5, <1>6, <1>7, <1>8, <1>9, <1>10, <1>11, <1>12, <1>13,
     <1>14
  DEF Next, Thread, HookLoop, CompressLoop

LEMMA NextEnded == Shape /\ Ended /\ [Next]_vars => Ended'
<1> SUFFICES ASSUME Shape, Ended, [Next]_vars PROVE Ended'
  OBVIOUS
<1>1. ASSUME NEW t \in Threads, Thread(t) PROVE Ended'
  BY <1>1 DEF Shape, Control, Ended, Thread, HookLoop, CompressLoop, ClaimHook, ReadCompU,
     ReadCompV, TestRoot, SetChange, Hook, ClaimCompress, Test, Load, Store, HookPCs,
     CompressPCs
<1>2. CASE EndHook \/ EndCompress \/ UNCHANGED vars
  BY <1>2 DEF EndHook, EndCompress, vars, Ended
<1> QED
  BY <1>1, <1>2 DEF Next

-----------------------------------------------------------------------------
\* The inductive invariant holds of every behaviour.
THEOREM Invariance == Spec => []IInv
<1>1. Init => IInv
  BY InitShape, InitSafe, InitRest DEF IInv
<1>2. IInv /\ [Next]_vars => IInv'
  BY NextShape, NextSafe, NextCompressed, NextQuiet, NextEnded DEF IInv
<1> QED
  BY <1>1, <1>2, PTL DEF Spec

\* Every variable keeps its type, whatever the graph and the team.
THEOREM TypeCorrect == Spec => []TypeOK
<1>1. IInv => TypeOK
  BY DEF IInv, Shape
<1> QED
  BY <1>1, Invariance, PTL

(***************************************************************************)
(* A round that ends with change false has found equal labels everywhere.  *)
(***************************************************************************)
THEOREM QuietRoundIsLast == Spec => []NoChangeNoWork
<1>1. ASSUME IInv, phase # "hook", ~change,
             NEW x \in Nodes, NEW y \in Nodes, HasOutEdge(g, x, y)
      PROVE  comp[x] = comp[y]
  BY <1>1 DEF IInv, Quiet, SameLabels, HasOutEdge
<1>2. IInv => NoChangeNoWork
  BY <1>1 DEF NoChangeNoWork
<1> QED
  BY <1>2, Invariance, PTL

(***************************************************************************)
(* The kernel's result: labels are equal exactly for connected vertices.   *)
(***************************************************************************)
THEOREM LabelsAreComponents == Spec => []Correct
<1>1. ASSUME IInv, phase = "done" PROVE LabelsComponents(g, comp)
  <2>1. comp \in [Nodes -> Nodes] /\ Flat(comp) /\ Sound(g, comp)
    BY <1>1 DEF IInv, Shape, TypeOK, Ended, Quiet, Safe, Sound
  <2>2. ASSUME NEW x \in Nodes, NEW y \in Nodes, HasOutEdge(g, x, y)
        PROVE  Linked(comp, x, y)
    <3>1. comp[x] = comp[y]
      BY <1>1, <2>2 DEF IInv, Ended, Quiet, SameLabels, HasOutEdge
    <3> QED
      BY <3>1 DEF Linked, Sat
  <2> QED
    BY <2>1, <2>2, FlatSoundLinked
<1>2. IInv => Correct
  BY <1>1 DEF Correct
<1> QED
  BY <1>2, Invariance, PTL

(***************************************************************************)
(* Racing hooks make no cycle and no new root.                             *)
(***************************************************************************)
THEOREM RootsFall == Spec => RootsOnlyFall
<1>1. ASSUME IInv, [Next]_vars, NEW x \in Nodes, comp[x] # x PROVE comp'[x] < x
  <2>0. /\ comp \in [Nodes -> Nodes] /\ comp[x] < x
        /\ \A t \in Threads : high[t] \in Nodes /\ low[t] \in Nodes /\ u[t] \in Nodes
                              /\ label[t] \in Nodes
        /\ \A y \in Nodes : y \in Nat
    BY <1>1, NumNodesAssumption DEF IInv, Shape, TypeOK, Order, PointsDown, Nodes
  <2>1. ASSUME NEW t \in Threads, Hook(t) PROVE comp'[x] < x
    BY <1>1, <2>0, <2>1 DEF IInv, Shape, Order, Hook
  <2>2. ASSUME NEW t \in Threads, Store(t) PROVE comp'[x] < x
    BY <1>1, <2>0, <2>2 DEF IInv, Shape, Order, Store
  <2>3. CASE comp' = comp
    BY <2>0, <2>3
  <2> QED
    BY <1>1, <2>1, <2>2, <2>3
    DEF Next, Thread, HookLoop, CompressLoop, ClaimHook, ReadCompU, ReadCompV, TestRoot,
        SetChange, ClaimCompress, Test, Load, EndHook, EndCompress, vars
<1>2. IInv /\ [Next]_vars => [\A x \in Nodes : comp[x] # x => comp'[x] < x]_vars
  BY <1>1
<1> QED
  BY <1>2, Invariance, PTL DEF Spec, RootsOnlyFall
=============================================================================
