----------------------------- MODULE BFS_proofs -----------------------------
(***************************************************************************)
(* A vertex is claimed by one parent, the queue never runs over, the       *)
(* search goes level by level and its result is a breadth-first tree, for  *)
(* any graph, any team, any heuristics and any size of words and chunks.   *)
(*                                                                         *)
(* That what was appended fits cannot be seen from the counter.  The       *)
(* invariant IInv gives it a meaning: there is a set of as many vertices,  *)
(* all of them visited, and a bottom-up step works on others (those it     *)
(* visits itself), which are appended together when it ends.  That set_bit *)
(* may lose bits of other threads can only make them fewer.                *)
(*                                                                         *)
(* That none is lost takes SearchInv, which says what a step on level d    *)
(* has done and what it has still to do: chunks have one owner, words lie  *)
(* in chunks, and of every edge out of the frontier there is somebody who  *)
(* follows it, or its end is visited.                                      *)
(***************************************************************************)
EXTENDS BFS, FiniteSetTheorems, WellFoundedInduction, TLAPS

\* Where threads are in each phase, and what they hold there.
Place(t) ==
  /\ pc[t] \in {"read", "cas"} => phase = "TD" /\ i[t] \in 1 .. out_degree(g, u[t])
  /\ pc[t] = "cas" => curr_val[t] < 0
  /\ pc[t] \in {"load", "swap"} => phase = "QueueToBitmap"
  /\ pc[t] \in {"scan", "store"} => phase = "BU"
  /\ pc[t] \notin {"swap", "store"} => old_val[t] = {}

Places == \A t \in Threads : Place(t)

\* The vertices appended so far may be Q: a bottom-up step has visited others.
Queued(Q) ==
  /\ Q \subseteq Visited /\ Cardinality(Q) = shared_in
  /\ phase = "BU" =>
       /\ \A w \in Words : curr[w] \subseteq Visited \ Q
       /\ \A t \in Threads : /\ old_val[t] \subseteq Visited \ Q
                             /\ pc[t] = "store" => u[t] \in Visited \ Q

IInv == TypeOK /\ Places /\ \E Q \in SUBSET Nodes : Queued(Q)

-----------------------------------------------------------------------------
\* Adjacency lists hold vertices.
LEMMA Neighbours ==
  ASSUME TypeOK, NEW x \in Nodes
  PROVE  /\ out_degree(g, x) \in Nat /\ in_degree(g, x) \in Nat
         /\ \A j \in 1 .. out_degree(g, x) : g.out[x][j] \in Nodes
         /\ \A j \in 1 .. in_degree(g, x) : g.inv[x][j] \in Nodes
BY GraphsAssumption DEF TypeOK, IsGraph, out_degree, in_degree

\* Vertices are numbers, finitely many.
LEMMA NodesFinite == /\ Nodes \subseteq Nat /\ IsFiniteSet(Nodes) /\ Cardinality(Nodes) = NumNodes
                     /\ \A Q \in SUBSET Nodes : IsFiniteSet(Q) /\ Cardinality(Q) \in Nat
                     /\ \A x \in Nodes : WordOf(x) \in Words /\ ChunkOf(x) \in Chunks
<1>1. IsFiniteSet(Nodes) /\ Cardinality(Nodes) = NumNodes
  BY FS_Interval, NumNodesAssumption DEF Nodes
<1>2. Nodes \subseteq Nat
  BY NumNodesAssumption DEF Nodes
<1> QED
  BY <1>1, <1>2, FS_Subset, FS_CardinalityType DEF Words, Chunks

\* The type of the state at first.
LEMMA InitTypes == Init => TypeOK /\ Places
<1> SUFFICES ASSUME Init PROVE TypeOK /\ Places
  OBVIOUS
<1>1. IsGraph(g) /\ source \in Nodes
  BY GraphsAssumption DEF Init
<1>2. \A n \in Nodes : out_degree(g, n) \in Nat /\ n \in Nat /\ n < NumNodes
  BY <1>1, NumNodesAssumption DEF IsGraph, out_degree, Nodes
<1>3. parent \in [Nodes -> Int] /\ \A n \in Nodes : parent[n] < NumNodes
  <2>1. \A n \in Nodes : parent[n] = IF n = source THEN source
                                     ELSE IF out_degree(g, n) # 0 THEN -out_degree(g, n) ELSE -1
    BY DEF Init, InitParent
  <2> QED
    BY <2>1, <1>1, <1>2, NumNodesAssumption DEF Init, InitParent
<1>4. 0 \in Nodes
  BY NumNodesAssumption DEF Nodes
<1>5. ResetBitmap \in Bitmaps
  BY DEF ResetBitmap, Bitmaps
<1>6. TypeOK
  BY <1>1, <1>3, <1>4, <1>5 DEF Init, TypeOK
<1>7. Places
  BY DEF Init, Places, Place
<1> QED
  BY <1>6, <1>7

\* A thread goes to an edge of x that there is, or becomes idle.
LEMMA EdgeOrEndTypes ==
  ASSUME TypeOK, Places, NEW t \in Threads, NEW x \in Nodes, NEW j \in Nat \ {0}, phase = "TD",
         old_val[t] = {}, EdgeOrEnd(t, x, j), g' = g, phase' = phase
  PROVE  /\ pc' \in [Threads -> {"idle", "read", "cas", "load", "swap", "scan", "store"}]
         /\ u' \in [Threads -> Nodes] /\ i' \in [Threads -> Nat]
         /\ curr_val' \in [Threads -> Int] /\ old_val' \in [Threads -> SUBSET Nodes]
         /\ Places'
<1>1. 0 \in Nodes
  BY NumNodesAssumption DEF Nodes
<1>2. out_degree(g, x) \in Nat
  BY Neighbours
<1>3. CASE j <= out_degree(g, x)
  <2>1. /\ pc' = [pc EXCEPT ![t] = "read"] /\ u' = [u EXCEPT ![t] = x] /\ i' = [i EXCEPT ![t] = j]
        /\ curr_val' = [curr_val EXCEPT ![t] = 0] /\ old_val' = old_val
    BY <1>3 DEF EdgeOrEnd, Goto
  <2>2. Places'
    <3> SUFFICES ASSUME NEW s \in Threads PROVE Place(s)'
      BY DEF Places
    <3>1. CASE s = t
      BY <3>1, <2>1, <1>2, <1>3 DEF TypeOK, Places, Place, out_degree
    <3>2. CASE s # t
      BY <3>2, <2>1 DEF TypeOK, Places, Place, out_degree
    <3> QED
      BY <3>1, <3>2
  <2> QED
    BY <2>1, <2>2 DEF TypeOK
<1>4. CASE ~(j <= out_degree(g, x))
  <2>1. /\ pc' = [pc EXCEPT ![t] = "idle"] /\ u' = [u EXCEPT ![t] = 0] /\ i' = [i EXCEPT ![t] = 0]
        /\ curr_val' = [curr_val EXCEPT ![t] = 0] /\ old_val' = [old_val EXCEPT ![t] = {}]
    BY <1>4 DEF EdgeOrEnd, Forget, Goto
  <2>2. Places'
    <3> SUFFICES ASSUME NEW s \in Threads PROVE Place(s)'
      BY DEF Places
    <3>1. CASE s = t
      BY <3>1, <2>1 DEF TypeOK, Places, Place, out_degree
    <3>2. CASE s # t
      BY <3>2, <2>1 DEF TypeOK, Places, Place, out_degree
    <3> QED
      BY <3>1, <3>2
  <2> QED
    BY <2>1, <2>2, <1>1 DEF TypeOK
<1> QED
  BY <1>3, <1>4

\* A thread goes to a vertex of its chunk, or becomes idle.
LEMMA ScanOrEndTypes ==
  ASSUME TypeOK, Places, NEW t \in Threads, NEW x, phase = "BU", ScanOrEnd(t, x), g' = g,
         phase' = phase
  PROVE  /\ pc' \in [Threads -> {"idle", "read", "cas", "load", "swap", "scan", "store"}]
         /\ u' \in [Threads -> Nodes] /\ i' \in [Threads -> Nat]
         /\ curr_val' \in [Threads -> Int] /\ old_val' \in [Threads -> SUBSET Nodes]
         /\ \A s \in Threads \ {t} : pc'[s] = pc[s] /\ u'[s] = u[s] /\ old_val'[s] = old_val[s]
         /\ pc'[t] # "store" /\ old_val'[t] = {}
         /\ Places'
<1>1. 0 \in Nodes
  BY NumNodesAssumption DEF Nodes
<1>2. CASE x \in Nodes /\ ChunkOf(x) = ChunkOf(u[t])
  BY <1>2 DEF ScanOrEnd, Goto, TypeOK, Places, Place, out_degree
<1>3. CASE ~(x \in Nodes /\ ChunkOf(x) = ChunkOf(u[t]))
  BY <1>1, <1>3 DEF ScanOrEnd, Forget, Goto, TypeOK, Places, Place, out_degree
<1> QED
  BY <1>2, <1>3

\* An action that does not move threads.
Unmoved == UNCHANGED <<g, phase, pc, u, i, curr_val, old_val>>

\* Such a step leaves all threads where they may be.
LEMMA UnmovedKeeps == ASSUME Places, Unmoved PROVE Places'
BY DEF Unmoved, Places, Place

\* At a barrier all threads are idle and hold nothing.
LEMMA BarrierKeeps ==
  ASSUME Places, \A t \in Threads : pc[t] = "idle", UNCHANGED locals
  PROVE  Places'
BY DEF Places, Place, locals

\* Types and places are kept by every step.
LEMMA TypesKeep == TypeOK /\ Places /\ [Next]_vars => TypeOK' /\ Places'
<1> SUFFICES ASSUME TypeOK, Places, [Next]_vars PROVE TypeOK' /\ Places'
  OBVIOUS
<1>0. 0 \in Nodes /\ ResetBitmap \in Bitmaps
  BY NumNodesAssumption DEF Nodes, ResetBitmap, Bitmaps
<1>1. CASE UNCHANGED vars
  BY <1>1, UnmovedKeeps DEF vars, TypeOK, Unmoved
<1>2. CASE StartTD
  <2>1. \A t \in Threads : pc[t] = "idle"
    BY <1>2 DEF StartTD, TypeOK, Places, Place
  <2> QED
    BY <1>2, <2>1, BarrierKeeps DEF StartTD, TypeOK, args, queue, locals
<1>3. ASSUME NEW t \in Threads, ClaimTD(t) PROVE TypeOK' /\ Places'
  <2>1. PICK x \in todo : todo' = todo \ {x} /\ EdgeOrEnd(t, x, 1)
    BY <1>3 DEF ClaimTD
  <2>2. x \in Nodes /\ phase = "TD" /\ old_val[t] = {} /\ g' = g /\ phase' = phase
    BY <1>3, <2>1 DEF ClaimTD, TypeOK, Places, Place, args
  <2>3. UNCHANGED <<source, alpha, beta, parent, window, incoming, shared_in, front, curr>>
    BY <1>3 DEF ClaimTD, args, queue
  <2> HIDE DEF TypeOK
  <2>4. /\ pc' \in [Threads -> {"idle", "read", "cas", "load", "swap", "scan", "store"}]
        /\ u' \in [Threads -> Nodes] /\ i' \in [Threads -> Nat]
        /\ curr_val' \in [Threads -> Int] /\ old_val' \in [Threads -> SUBSET Nodes]
        /\ Places'
    BY <2>1, <2>2, EdgeOrEndTypes
  <2> QED
    BY <2>1, <2>2, <2>3, <2>4 DEF TypeOK
<1>4. ASSUME NEW t \in Threads, Read(t) PROVE TypeOK' /\ Places'
  <2>1. /\ pc[t] = "read" /\ phase = "TD" /\ old_val[t] = {} /\ i[t] \in Nat /\ u[t] \in Nodes
        /\ v(t) \in Nodes
    BY <1>4, Neighbours DEF Read, TypeOK, Places, Place, v
  <2>2. UNCHANGED <<g, source, alpha, beta, parent, window, incoming, shared_in, front, curr, phase, todo>>
    BY <1>4 DEF Read, args, queue
  <2>3. CASE parent[v(t)] < 0
    <3>1. /\ curr_val' = [curr_val EXCEPT ![t] = parent[v(t)]] /\ pc' = [pc EXCEPT ![t] = "cas"]
          /\ UNCHANGED <<u, i, old_val>>
      BY <1>4, <2>3 DEF Read, Goto
    <3>2. Places'
      BY <2>1, <2>2, <2>3, <3>1 DEF TypeOK, Places, Place, out_degree
    <3> QED
      BY <2>1, <2>2, <3>1, <3>2 DEF TypeOK
  <2>4. CASE ~(parent[v(t)] < 0)
    <3>1. EdgeOrEnd(t, u[t], i[t] + 1)
      BY <1>4, <2>4 DEF Read, NextEdge
    <3>2. /\ pc' \in [Threads -> {"idle", "read", "cas", "load", "swap", "scan", "store"}]
          /\ u' \in [Threads -> Nodes] /\ i' \in [Threads -> Nat]
          /\ curr_val' \in [Threads -> Int] /\ old_val' \in [Threads -> SUBSET Nodes]
          /\ Places'
      BY <2>1, <2>2, <3>1, EdgeOrEndTypes
    <3> QED
      BY <2>2, <3>2 DEF TypeOK
  <2> QED
    BY <2>3, <2>4
<1>5. ASSUME NEW t \in Threads, CAS(t) PROVE TypeOK' /\ Places'
  <2>1. /\ phase = "TD" /\ old_val[t] = {} /\ i[t] \in Nat /\ u[t] \in Nodes /\ v(t) \in Nodes
    BY <1>5, Neighbours DEF CAS, TypeOK, Places, Place, v
  <2>2. UNCHANGED <<g, source, alpha, beta, window, front, curr, phase, todo>>
    BY <1>5 DEF CAS, args
  <2>3. EdgeOrEnd(t, u[t], i[t] + 1)
    BY <1>5 DEF CAS, NextEdge
  <2>4. /\ pc' \in [Threads -> {"idle", "read", "cas", "load", "swap", "scan", "store"}]
        /\ u' \in [Threads -> Nodes] /\ i' \in [Threads -> Nat]
        /\ curr_val' \in [Threads -> Int] /\ old_val' \in [Threads -> SUBSET Nodes]
        /\ Places'
    BY <2>1, <2>2, <2>3, EdgeOrEndTypes
  <2>5. /\ parent' = parent \/ parent' = [parent EXCEPT ![v(t)] = u[t]]
        /\ incoming' = incoming \/ incoming' = incoming \cup {v(t)}
        /\ shared_in' = shared_in \/ shared_in' = shared_in + 1
    BY <1>5 DEF CAS
  <2>6. u[t] \in Int /\ u[t] < NumNodes
    BY <2>1, NumNodesAssumption DEF Nodes
  <2>7. parent' \in [Nodes -> Int] /\ \A n \in Nodes : parent'[n] < NumNodes
    BY <2>5, <2>6 DEF TypeOK
  <2>8. shared_in' \in Nat /\ incoming' \subseteq Nodes
    BY <2>1, <2>5 DEF TypeOK
  <2> QED
    BY <2>2, <2>4, <2>7, <2>8 DEF TypeOK
<1>6. CASE EndTD
  BY <1>6, BarrierKeeps DEF EndTD, Barrier, TypeOK, args, counts, locals
<1>7. CASE StartQueueToBitmap
  <2>1. \A t \in Threads : pc[t] = "idle"
    BY <1>7 DEF StartQueueToBitmap, TypeOK, Places, Place
  <2> QED
    BY <1>7, <2>1, BarrierKeeps DEF StartQueueToBitmap, TypeOK, args, queue, counts, locals
<1>8. ASSUME NEW t \in Threads, ClaimQueue(t) PROVE TypeOK' /\ Places'
  <2>1. PICK x \in todo : todo' = todo \ {x} /\ u' = [u EXCEPT ![t] = x]
    BY <1>8 DEF ClaimQueue
  <2>2. /\ pc[t] = "idle" /\ pc' = [pc EXCEPT ![t] = "load"] /\ phase = "QueueToBitmap"
        /\ UNCHANGED <<g, source, alpha, beta, parent, window, incoming, shared_in, front, curr, phase,
                       i, curr_val, old_val>>
    BY <1>8 DEF ClaimQueue, Goto, args, queue
  <2>3. Places'
    BY <2>1, <2>2 DEF TypeOK, Places, Place, out_degree
  <2> QED
    BY <2>1, <2>2, <2>3 DEF TypeOK
<1>9. ASSUME NEW t \in Threads, Load(t) PROVE TypeOK' /\ Places'
  <2>1. /\ pc[t] = "load" /\ pc' = [pc EXCEPT ![t] = "swap"]
        /\ old_val' = [old_val EXCEPT ![t] = front[WordOf(u[t])]]
        /\ UNCHANGED <<g, source, alpha, beta, parent, window, incoming, shared_in, front, curr, phase,
                       todo, u, i, curr_val>>
    BY <1>9 DEF Load, Goto, args, queue
  <2>2. front[WordOf(u[t])] \in SUBSET Nodes
    BY NodesFinite DEF TypeOK, Bitmaps
  <2>3. Places'
    BY <2>1 DEF TypeOK, Places, Place, out_degree
  <2> QED
    BY <2>1, <2>2, <2>3 DEF TypeOK
<1>10. ASSUME NEW t \in Threads, Swap(t) PROVE TypeOK' /\ Places'
  <2>1. /\ pc[t] = "swap"
        /\ UNCHANGED <<g, source, alpha, beta, parent, window, incoming, shared_in, curr, phase, todo>>
    BY <1>10 DEF Swap, args, queue
  <2>2. CASE front[WordOf(u[t])] = old_val[t]
    <3>1. /\ front' = [front EXCEPT ![WordOf(u[t])] = WithBit(old_val[t], u[t])]
          /\ pc' = [pc EXCEPT ![t] = "idle"] /\ u' = [u EXCEPT ![t] = 0] /\ i' = [i EXCEPT ![t] = 0]
          /\ curr_val' = [curr_val EXCEPT ![t] = 0] /\ old_val' = [old_val EXCEPT ![t] = {}]
      BY <1>10, <2>2 DEF Swap, Forget, Goto
    <3>2. front' \in Bitmaps
      BY <3>1 DEF TypeOK, Bitmaps, WithBit
    <3>3. Places'
      BY <2>1, <3>1 DEF TypeOK, Places, Place, out_degree
    <3> QED
      BY <1>0, <2>1, <3>1, <3>2, <3>3 DEF TypeOK
  <2>3. CASE front[WordOf(u[t])] # old_val[t]
    <3>1. /\ pc' = [pc EXCEPT ![t] = "load"] /\ old_val' = [old_val EXCEPT ![t] = {}]
          /\ UNCHANGED <<front, u, i, curr_val>>
      BY <1>10, <2>3 DEF Swap, Goto
    <3>2. Places'
      BY <2>1, <3>1 DEF TypeOK, Places, Place, out_degree
    <3> QED
      BY <2>1, <3>1, <3>2 DEF TypeOK
  <2> QED
    BY <2>2, <2>3
<1>11. CASE EndQueueToBitmap
  <2>1. \A t \in Threads : pc[t] = "idle"
    BY <1>11 DEF EndQueueToBitmap, Barrier
  <2> QED
    BY <1>0, <1>11, <2>1, BarrierKeeps DEF EndQueueToBitmap, BeginBUStep, TypeOK, args, locals
<1>12. CASE NextBUStep
  <2>1. \A t \in Threads : pc[t] = "idle"
    BY <1>12 DEF NextBUStep, Barrier
  <2> QED
    BY <1>0, <1>12, <2>1, BarrierKeeps DEF NextBUStep, BeginBUStep, TypeOK, args, queue, locals
<1>13. CASE BitmapToQueue
  <2>1. \A t \in Threads : pc[t] = "idle"
    BY <1>13 DEF BitmapToQueue, Barrier
  <2>2. BitsOf(curr) \subseteq Nodes /\ Cardinality(BitsOf(curr)) \in Nat
    BY NodesFinite DEF BitsOf
  <2>3. todo' = {} /\ shared_in' \in Nat
    BY <1>13, <2>2 DEF BitmapToQueue, Barrier, TypeOK
  <2> QED
    BY <1>13, <2>1, <2>2, <2>3, BarrierKeeps DEF BitmapToQueue, TypeOK, args, locals
<1>14. ASSUME NEW t \in Threads, ClaimChunk(t) PROVE TypeOK' /\ Places'
  <2>1. PICK x \in Nodes : u' = [u EXCEPT ![t] = x]
    BY <1>14 DEF ClaimChunk
  <2>2. /\ pc[t] = "idle" /\ pc' = [pc EXCEPT ![t] = "scan"] /\ phase = "BU" /\ todo' \subseteq todo
        /\ UNCHANGED <<g, source, alpha, beta, parent, window, incoming, shared_in, front, curr, phase,
                       i, curr_val, old_val>>
    BY <1>14 DEF ClaimChunk, Goto, args, queue
  <2>3. Places'
    BY <2>1, <2>2 DEF TypeOK, Places, Place, out_degree
  <2> QED
    BY <2>1, <2>2, <2>3 DEF TypeOK
<1>15. ASSUME NEW t \in Threads, Scan(t) PROVE TypeOK' /\ Places'
  <2>1. /\ pc[t] = "scan" /\ phase = "BU" /\ u[t] \in Nodes
        /\ UNCHANGED <<g, source, alpha, beta, window, incoming, shared_in, front, curr, phase, todo>>
    BY <1>15 DEF Scan, TypeOK, Places, Place, args, queue
  <2>2. CASE parent[u[t]] < 0 /\ Hits(u[t]) # {}
    <3>1. PICK j \in Hits(u[t]) : parent' = [parent EXCEPT ![u[t]] = g.inv[u[t]][j]]
      BY <1>15, <2>2 DEF Scan
    <3>2. g.inv[u[t]][j] \in Nodes
      BY <2>1, Neighbours DEF Hits
    <3>3. g.inv[u[t]][j] \in Int /\ g.inv[u[t]][j] < NumNodes
      BY <3>2, NumNodesAssumption DEF Nodes
    <3>4. parent' \in [Nodes -> Int] /\ \A n \in Nodes : parent'[n] < NumNodes
      BY <2>1, <3>1, <3>3 DEF TypeOK
    <3>5. /\ pc' = [pc EXCEPT ![t] = "store"] /\ old_val' = [old_val EXCEPT ![t] = curr[WordOf(u[t])]]
          /\ UNCHANGED <<u, i, curr_val>>
      BY <1>15, <2>2 DEF Scan, Goto
    <3>6. curr[WordOf(u[t])] \in SUBSET Nodes
      BY <2>1, NodesFinite DEF TypeOK, Bitmaps
    <3>7. Places'
      BY <2>1, <3>5 DEF TypeOK, Places, Place, out_degree
    <3> QED
      BY <2>1, <3>4, <3>5, <3>6, <3>7 DEF TypeOK
  <2>3. CASE ~(parent[u[t]] < 0 /\ Hits(u[t]) # {})
    <3>1. ScanOrEnd(t, u[t] + 1) /\ parent' = parent
      BY <1>15, <2>3 DEF Scan
    <3>2. /\ pc' \in [Threads -> {"idle", "read", "cas", "load", "swap", "scan", "store"}]
          /\ u' \in [Threads -> Nodes] /\ i' \in [Threads -> Nat]
          /\ curr_val' \in [Threads -> Int] /\ old_val' \in [Threads -> SUBSET Nodes]
          /\ Places'
      BY <2>1, <3>1, ScanOrEndTypes
    <3> QED
      BY <2>1, <3>1, <3>2 DEF TypeOK
  <2> QED
    BY <2>2, <2>3
<1>16. ASSUME NEW t \in Threads, Store(t) PROVE TypeOK' /\ Places'
  <2>1. /\ pc[t] = "store" /\ phase = "BU" /\ u[t] \in Nodes /\ ScanOrEnd(t, u[t] + 1)
        /\ curr' = [curr EXCEPT ![WordOf(u[t])] = WithBit(old_val[t], u[t])]
        /\ UNCHANGED <<g, source, alpha, beta, parent, window, incoming, shared_in, front, phase, todo>>
    BY <1>16 DEF Store, TypeOK, Places, Place, args, queue
  <2>2. curr' \in Bitmaps
    BY <2>1 DEF TypeOK, Bitmaps, WithBit
  <2>3. /\ pc' \in [Threads -> {"idle", "read", "cas", "load", "swap", "scan", "store"}]
        /\ u' \in [Threads -> Nodes] /\ i' \in [Threads -> Nat]
        /\ curr_val' \in [Threads -> Int] /\ old_val' \in [Threads -> SUBSET Nodes]
        /\ Places'
    BY <2>1, ScanOrEndTypes
  <2> QED
    BY <2>1, <2>2, <2>3 DEF TypeOK
<1>17. CASE Finish
  <2>1. \A t \in Threads : pc[t] = "idle"
    BY <1>17 DEF Finish, TypeOK, Places, Place
  <2>2. parent' \in [Nodes -> Int] /\ \A n \in Nodes : parent'[n] < NumNodes
    BY <1>17, NumNodesAssumption DEF Finish, TypeOK
  <2> QED
    BY <1>17, <2>1, <2>2, BarrierKeeps DEF Finish, TypeOK, args, queue, counts, locals
<1> QED
  BY <1>1, <1>2, <1>3, <1>4, <1>5, <1>6, <1>7, <1>8, <1>9, <1>10, <1>11, <1>12, <1>13, <1>14, <1>15,
     <1>16, <1>17
     DEF Next, TDStep, QueueToBitmap, BUStep

-----------------------------------------------------------------------------
\* No step takes a parent away: a compare-and-swap expects a negative number, a
\* bottom-up step tests for one, and the end replaces numbers below -1 only.
LEMMA ParentsStay ==
  ASSUME TypeOK, Places, [Next]_vars
  PROVE  \A n \in Nodes : parent[n] >= 0 => parent'[n] = parent[n]
<1>1. ASSUME NEW t \in Threads, CAS(t)
      PROVE  \A n \in Nodes : parent[n] >= 0 => parent'[n] = parent[n]
  <2>1. curr_val[t] < 0
    BY <1>1 DEF CAS, Places, Place
  <2>2. CASE parent[v(t)] = curr_val[t]
    BY <1>1, <2>1, <2>2 DEF CAS, TypeOK
  <2>3. CASE parent[v(t)] # curr_val[t]
    BY <1>1, <2>3 DEF CAS
  <2> QED
    BY <2>2, <2>3
<1>2. ASSUME NEW t \in Threads, Scan(t)
      PROVE  \A n \in Nodes : parent[n] >= 0 => parent'[n] = parent[n]
  <2>1. CASE parent[u[t]] < 0 /\ Hits(u[t]) # {}
    BY <1>2, <2>1 DEF Scan, TypeOK
  <2>2. CASE ~(parent[u[t]] < 0 /\ Hits(u[t]) # {})
    BY <1>2, <2>2 DEF Scan
  <2> QED
    BY <2>1, <2>2
<1>3. CASE Finish
  BY <1>3 DEF Finish, TypeOK
<1>4. CASE UNCHANGED vars
  BY <1>4 DEF vars
<1>5. CASE StartTD \/ EndTD \/ StartQueueToBitmap \/ EndQueueToBitmap \/ NextBUStep \/ BitmapToQueue
  BY <1>5 DEF StartTD, EndTD, StartQueueToBitmap, EndQueueToBitmap, NextBUStep, BitmapToQueue
<1>6. ASSUME NEW t \in Threads,
             ClaimTD(t) \/ Read(t) \/ ClaimQueue(t) \/ Load(t) \/ Swap(t) \/ ClaimChunk(t) \/ Store(t)
      PROVE  \A n \in Nodes : parent[n] >= 0 => parent'[n] = parent[n]
  BY <1>6 DEF ClaimTD, Read, ClaimQueue, Load, Swap, ClaimChunk, Store
<1> QED
  BY <1>1, <1>2, <1>3, <1>4, <1>5, <1>6 DEF Next, TDStep, QueueToBitmap, BUStep

\* Outside of bottom-up steps, all that matters is that Q stays visited.
LEMMA StillQueued ==
  ASSUME TypeOK, Places, [Next]_vars, NEW Q \in SUBSET Nodes, Queued(Q),
         shared_in' = shared_in,
         phase' # "BU" \/ UNCHANGED <<phase, curr, old_val, pc, u>>
  PROVE  Queued(Q)'
<1>1. Visited \subseteq Visited'
  BY ParentsStay DEF Visited
<1> QED
  BY <1>1 DEF Queued

\* Every step appends vertices that were not appended before.
LEMMA QueuedKeep ==
  ASSUME TypeOK, TypeOK', Places, [Next]_vars, NEW Q \in SUBSET Nodes, Queued(Q)
  PROVE  \E R \in SUBSET Nodes : Queued(R)'
<1>0. Visited \subseteq Visited' /\ IsFiniteSet(Q) /\ Cardinality(Q) = shared_in
  BY ParentsStay, NodesFinite DEF Visited, Queued
<1>1. ASSUME NEW t \in Threads, CAS(t) PROVE \E R \in SUBSET Nodes : Queued(R)'
  <2>1. /\ phase = "TD" /\ phase' = "TD" /\ v(t) \in Nodes /\ u[t] \in Nodes
    BY <1>1, Neighbours DEF CAS, TypeOK, Places, Place, v
  <2>2. CASE parent[v(t)] = curr_val[t]
    <3>1. parent' = [parent EXCEPT ![v(t)] = u[t]] /\ shared_in' = shared_in + 1
      BY <1>1, <2>2 DEF CAS
    <3>2. v(t) \notin Visited
      BY <1>1, <2>2 DEF CAS, Places, Place, Visited, TypeOK
    <3>3. v(t) \in Visited'
      <4>1. parent'[v(t)] = u[t]
        BY <2>1, <3>1 DEF TypeOK
      <4>2. u[t] >= 0
        BY <2>1, NumNodesAssumption DEF Nodes
      <4>3. \A x \in Nodes : parent'[x] >= 0 => x \in Visited'
        BY DEF Visited
      <4> QED
        BY <2>1, <4>1, <4>2, <4>3
    <3>4. v(t) \notin Q /\ Q \subseteq Visited
      BY <3>2 DEF Queued
    <3> PICK x \in Nodes : x = v(t)
      BY <2>1
    <3>5. Cardinality(Q \cup {x}) = shared_in'
      BY <1>0, <3>1, <3>4, FS_AddElement
    <3>6. Queued(Q \cup {x})'
      BY <1>0, <2>1, <3>3, <3>4, <3>5 DEF Queued
    <3> QED
      BY <3>6
  <2>3. CASE parent[v(t)] # curr_val[t]
    BY <1>1, <2>1, <2>3, StillQueued DEF CAS
  <2> QED
    BY <2>2, <2>3
<1>2. ASSUME NEW t \in Threads, Scan(t) PROVE \E R \in SUBSET Nodes : Queued(R)'
  <2>1. /\ pc[t] = "scan" /\ phase = "BU" /\ phase' = "BU" /\ u[t] \in Nodes
        /\ shared_in' = shared_in /\ curr' = curr
    BY <1>2 DEF Scan, TypeOK, Places, Place, queue
  <2>2. CASE parent[u[t]] < 0 /\ Hits(u[t]) # {}
    <3>1. PICK j \in Hits(u[t]) : parent' = [parent EXCEPT ![u[t]] = g.inv[u[t]][j]]
      BY <1>2, <2>2 DEF Scan
    <3>2. g.inv[u[t]][j] \in Nat
      BY <2>1, Neighbours, NodesFinite DEF Hits
    <3>3. u[t] \in Visited' /\ u[t] \notin Q
      BY <2>1, <2>2, <3>1, <3>2 DEF Visited, TypeOK, Queued
    <3>4. /\ pc' = [pc EXCEPT ![t] = "store"] /\ old_val' = [old_val EXCEPT ![t] = curr[WordOf(u[t])]]
          /\ u' = u
      BY <1>2, <2>2 DEF Scan, Goto
    <3>5. curr[WordOf(u[t])] \subseteq Visited \ Q
      BY <2>1, NodesFinite DEF Queued
    <3>6. \A s \in Threads : /\ old_val'[s] \subseteq Visited \ Q
                             /\ pc'[s] = "store" => u'[s] \in Visited' \ Q
      BY <1>0, <2>1, <3>3, <3>4, <3>5 DEF Queued, TypeOK
    <3> QED
      BY <1>0, <2>1, <3>6 DEF Queued
  <2>3. CASE ~(parent[u[t]] < 0 /\ Hits(u[t]) # {})
    <3>1. ScanOrEnd(t, u[t] + 1) /\ g' = g
      BY <1>2, <2>3 DEF Scan, args
    <3>2. /\ \A s \in Threads \ {t} : pc'[s] = pc[s] /\ u'[s] = u[s] /\ old_val'[s] = old_val[s]
          /\ pc'[t] # "store" /\ old_val'[t] = {}
      BY <2>1, <3>1, ScanOrEndTypes
    <3>3. \A s \in Threads : /\ old_val'[s] \subseteq Visited \ Q
                             /\ pc'[s] = "store" => u'[s] \in Visited \ Q
      BY <2>1, <3>2 DEF Queued
    <3> QED
      BY <1>0, <2>1, <3>3 DEF Queued
  <2> QED
    BY <2>2, <2>3
<1>3. ASSUME NEW t \in Threads, Store(t) PROVE \E R \in SUBSET Nodes : Queued(R)'
  <2>1. /\ pc[t] = "store" /\ phase = "BU" /\ phase' = "BU" /\ u[t] \in Nodes
        /\ shared_in' = shared_in /\ g' = g /\ ScanOrEnd(t, u[t] + 1)
        /\ curr' = [curr EXCEPT ![WordOf(u[t])] = WithBit(old_val[t], u[t])]
    BY <1>3 DEF Store, TypeOK, Places, Place, queue, args
  <2>2. /\ \A s \in Threads \ {t} : pc'[s] = pc[s] /\ u'[s] = u[s] /\ old_val'[s] = old_val[s]
        /\ pc'[t] # "store" /\ old_val'[t] = {}
    BY <2>1, ScanOrEndTypes
  <2>3. \A s \in Threads : /\ old_val'[s] \subseteq Visited \ Q
                           /\ pc'[s] = "store" => u'[s] \in Visited \ Q
    BY <2>1, <2>2 DEF Queued
  <2>4. \A w \in Words : curr'[w] \subseteq Visited \ Q
    BY <2>1 DEF Queued, WithBit, TypeOK, Bitmaps
  <2> QED
    BY <1>0, <2>1, <2>3, <2>4 DEF Queued
<1>4. CASE BitmapToQueue
  <2> DEFINE found == BitsOf(curr)
  <2>1. phase = "BU" /\ phase' = "loop" /\ shared_in' = shared_in + Cardinality(found)
    BY <1>4 DEF BitmapToQueue
  <2>2. found \subseteq Visited \ Q /\ found \in SUBSET Nodes
    BY <2>1, NodesFinite DEF BitsOf, get_bit, Queued
  <2>3. IsFiniteSet(found) /\ Cardinality(found) \in Nat
    BY <2>2, NodesFinite
  <2> PICK F \in SUBSET Nodes : F = found
    BY <2>2
  <2>4. Cardinality(Q \cup F) = Cardinality(Q) + Cardinality(F)
    <3>1. Q \cap F = {} /\ Cardinality(Q) \in Nat
      BY <2>2, NodesFinite
    <3> QED
      BY SMTT(30), <1>0, <2>3, <3>1, FS_Union, FS_EmptySet
  <2>5. Queued(Q \cup F)'
    BY <1>0, <2>1, <2>2, <2>4 DEF Queued
  <2> QED
    BY <2>5
<1>5. CASE EndQueueToBitmap \/ NextBUStep
  <2>1. /\ curr' = ResetBitmap /\ shared_in' = shared_in /\ old_val' = old_val /\ pc' = pc
        /\ \A t \in Threads : pc[t] = "idle"
    BY <1>5 DEF EndQueueToBitmap, NextBUStep, BeginBUStep, Barrier, queue, locals
  <2>2. \A t \in Threads : old_val[t] = {}
    BY <2>1 DEF Places, Place
  <2> QED
    BY <1>0, <2>1, <2>2 DEF Queued, ResetBitmap
<1>6. CASE UNCHANGED vars
  BY <1>6, StillQueued DEF vars
<1>7. CASE StartTD \/ EndTD \/ StartQueueToBitmap \/ Finish
  BY <1>7, StillQueued DEF StartTD, EndTD, StartQueueToBitmap, Finish, queue
<1>8. ASSUME NEW t \in Threads, ClaimTD(t) \/ Read(t) \/ ClaimQueue(t) \/ Load(t) \/ Swap(t)
      PROVE  \E R \in SUBSET Nodes : Queued(R)'
  <2>1. phase' # "BU" /\ shared_in' = shared_in
    BY <1>8 DEF ClaimTD, Read, ClaimQueue, Load, Swap, queue, Places, Place
  <2> QED
    BY <2>1, StillQueued
<1>9. ASSUME NEW t \in Threads, ClaimChunk(t) PROVE \E R \in SUBSET Nodes : Queued(R)'
  <2>1. /\ phase = "BU" /\ phase' = "BU" /\ shared_in' = shared_in /\ curr' = curr
        /\ old_val' = old_val
        /\ pc' = [pc EXCEPT ![t] = "scan"] /\ \A s \in Threads \ {t} : u'[s] = u[s]
    BY <1>9 DEF ClaimChunk, Goto, queue, TypeOK
  <2>2. \A s \in Threads : pc'[s] = "store" => pc[s] = "store" /\ u'[s] = u[s]
    BY <2>1 DEF TypeOK
  <2> QED
    BY <1>0, <2>1, <2>2 DEF Queued
<1> QED
  BY <1>1, <1>2, <1>3, <1>4, <1>5, <1>6, <1>7, <1>8, <1>9 DEF Next, TDStep, QueueToBitmap, BUStep

\* The invariant holds at first and after every step.
LEMMA InvariantHolds == (Init => IInv) /\ (IInv /\ [Next]_vars => IInv')
<1>1. ASSUME Init PROVE IInv
  <2>1. TypeOK /\ Places
    BY <1>1, InitTypes
  <2>2. source \in Visited /\ shared_in = 1 /\ phase = "loop" /\ source \in Nodes
    BY <1>1, NodesFinite DEF Init, Visited, InitParent
  <2>3. Queued({source})
    BY <2>2, FS_Singleton DEF Queued
  <2>4. \E Q \in SUBSET Nodes : Queued(Q)
    <3> PICK Q \in SUBSET Nodes : Q = {source}
      BY <2>2
    <3>1. Queued(Q)
      BY <2>3 DEF Queued
    <3> QED
      BY <3>1
  <2> QED
    BY <2>1, <2>4 DEF IInv
<1>2. ASSUME IInv, [Next]_vars PROVE IInv'
  <2>1. TypeOK' /\ Places'
    BY <1>2, TypesKeep DEF IInv
  <2>2. PICK Q \in SUBSET Nodes : Queued(Q)
    BY <1>2 DEF IInv
  <2>3. \E R \in SUBSET Nodes : Queued(R)'
    BY <1>2, <2>1, <2>2, QueuedKeep DEF IInv
  <2> QED
    BY <2>1, <2>3 DEF IInv
<1> QED
  BY <1>1, <1>2

\* Every variable keeps its type, and every index its range.
THEOREM TypeCorrect == Spec => []TypeOK
<1>1. IInv => TypeOK
  BY DEF IInv
<1> QED
  BY <1>1, InvariantHolds, PTL DEF Spec

\* No thread overwrites the parent another one has chosen (bfs.cc:55 and 81).
THEOREM OneParent == Spec => ClaimedOnce
<1>1. IInv /\ [Next]_vars => [\A n \in Nodes : parent[n] >= 0 => parent'[n] = parent[n]]_vars
  BY ParentsStay DEF IInv
<1> QED
  BY <1>1, InvariantHolds, PTL DEF Spec, ClaimedOnce

\* The queue of num_nodes items is large enough for every run (bfs.cc:133).
THEOREM QueueLargeEnough == Spec => []QueueFits
<1>1. IInv => QueueFits
  BY NodesFinite, FS_Subset DEF IInv, Queued, QueueFits
<1> QED
  BY <1>1, InvariantHolds, PTL DEF Spec

-----------------------------------------------------------------------------
(***************************************************************************)
(* The levels of the search.  Within is a recursive function: a sequence that *)
(* begins and goes on as it says exists by induction, and then is Within.  *)
(***************************************************************************)
\* A set of numbers that is not empty has a least one.
LEMMA LeastNat == ASSUME NEW T, T \subseteq Nat, T # {} PROVE \E n \in T : \A m \in T : n <= m
<1> DEFINE Below(n) == 0 .. (n - 1)
           R == StrictSubsetOrdering(Nat)
           S == FiniteSubsetsOf(Nat)
           D == {Below(n) : n \in T}
<1>1. IsWellFoundedOn(R, S)
  BY FS_StrictSubsetOrderingWellFounded
<1>2. \A n \in T : Below(n) \in S
  BY FS_Interval DEF FiniteSubsetsOf
<1>3. D \subseteq S /\ D # {}
  BY <1>2
<1> HIDE DEF S, R, D
<1>4. PICK d \in D : \A e \in D : ~(<<e, d>> \in R)
  BY <1>1, <1>3, WFMin
<1>5. PICK n \in T : d = Below(n)
  BY <1>4 DEF D
<1>6. \A m \in T : n <= m
  <2> SUFFICES ASSUME NEW m \in T, m < n PROVE FALSE
    OBVIOUS
  <2>1. Below(m) \subseteq Below(n) /\ Below(m) # Below(n)
    <3>1. m \in Below(n) /\ m \notin Below(m)
      OBVIOUS
    <3> QED
      BY <3>1
  <2>2. <<Below(m), d>> \in R
    BY <1>5, <2>1 DEF R, StrictSubsetOrdering
  <2> QED
    BY <2>2, <1>4 DEF D
<1> QED
  BY <1>6

\* Induction up to n, over a set instead of a predicate.
LEMMA Upwards ==
  ASSUME NEW n \in Nat, NEW T, 0 \in T, \A k \in 1 .. n : k - 1 \in T => k \in T
  PROVE  \A k \in 0 .. n : k \in T
<1> DEFINE C == (0 .. n) \ T
<1> SUFFICES ASSUME C # {} PROVE FALSE
  OBVIOUS
<1>0. C \subseteq Nat
  OBVIOUS
<1>1. PICK k \in C : \A m \in C : k <= m
  <2> HIDE DEF C
  <2> QED
    BY <1>0, LeastNat
<1>2. k # 0 /\ k - 1 \in 0 .. n
  BY <1>1
<1>3. k - 1 \in T
  BY <1>1, <1>2
<1> QED
  BY <1>1, <1>2, <1>3

\* There is a sequence in S that begins with a and goes on with F.
Iterates(n, S, a, F) ==
  \E h \in [0 .. n -> S] : h[0] = a /\ \A d \in 1 .. n : h[d] = F[d][h[d - 1]]

\* Steps from S to S can be repeated.
LEMMA Recursion ==
  ASSUME NEW n \in Nat, NEW S, NEW a \in S, NEW F \in [1 .. n -> [S -> S]]
  PROVE  Iterates(n, S, a, F)
<1> DEFINE T == {m \in 0 .. n : Iterates(m, S, a, F)}
<1>1. 0 \in T
  <2> DEFINE h == [d \in 0 .. 0 |-> a]
  <2>1. h \in [0 .. 0 -> S] /\ h[0] = a /\ 1 .. 0 = {}
    OBVIOUS
  <2> HIDE DEF h
  <2>2. Iterates(0, S, a, F)
    BY <2>1 DEF Iterates
  <2> QED
    BY <2>2
<1>2. \A k \in 1 .. n : k - 1 \in T => k \in T
  <2> SUFFICES ASSUME NEW m \in 1 .. n, m - 1 \in T PROVE m \in T
    OBVIOUS
  <2>1. PICK h \in [0 .. m - 1 -> S] : h[0] = a /\ \A d \in 1 .. m - 1 : h[d] = F[d][h[d - 1]]
    BY DEF Iterates
  <2> DEFINE k == [d \in 0 .. m |-> IF d = m THEN F[m][h[m - 1]] ELSE h[d]]
  <2>2. h[m - 1] \in S /\ F[m] \in [S -> S]
    OBVIOUS
  <2>3. F[m][h[m - 1]] \in S
    BY <2>2
  <2>4. k \in [0 .. m -> S]
    BY <2>3
  <2>5. k[0] = a
    BY <2>1
  <2>6. \A d \in 1 .. m : k[d] = F[d][k[d - 1]]
    <3> SUFFICES ASSUME NEW d \in 1 .. m PROVE k[d] = F[d][k[d - 1]]
      OBVIOUS
    <3>1. k[d - 1] = h[d - 1]
      OBVIOUS
    <3>2. CASE d = m
      BY <3>1, <3>2
    <3>3. CASE d # m
      BY <2>1, <3>1, <3>3
    <3> QED
      BY <3>2, <3>3
  <2> HIDE DEF k
  <2>7. Iterates(m, S, a, F)
    BY <2>4, <2>5, <2>6 DEF Iterates
  <2> QED
    BY <2>7
<1> HIDE DEF T
<1>3. \A k \in 0 .. n : k \in T
  BY <1>1, <1>2, Upwards
<1>4. n \in T
  BY <1>3
<1> QED
  BY <1>4 DEF T

-----------------------------------------------------------------------------
\* The vertices within d edges are those within d - 1 and their neighbours.
LEMMA WithinSteps ==
  ASSUME TypeOK
  PROVE  /\ Within \in [0 .. NumNodes -> SUBSET Nodes]
         /\ Within[0] = {source}
         /\ \A d \in 1 .. NumNodes : Within[d] = Near(g, Within[d - 1])
<1> DEFINE P(w) == w = [d \in 0 .. NumNodes |-> IF d = 0 THEN {source} ELSE Near(g, w[d - 1])]
           c == CHOOSE w : P(w)
<1>1. NumNodes \in Nat /\ {source} \in SUBSET Nodes
  BY NumNodesAssumption DEF TypeOK
<1>2. PICK h \in [0 .. NumNodes -> SUBSET Nodes] :
        h[0] = {source} /\ \A d \in 1 .. NumNodes : h[d] = Near(g, h[d - 1])
  <2> DEFINE F == [d \in 1 .. NumNodes |-> [X \in SUBSET Nodes |-> Near(g, X)]]
  <2>1. \A X \in SUBSET Nodes : Near(g, X) \in SUBSET Nodes
    BY DEF Near
  <2>2. F \in [1 .. NumNodes -> [SUBSET Nodes -> SUBSET Nodes]]
    BY <2>1
  <2>3. \A h \in [0 .. NumNodes -> SUBSET Nodes] : \A d \in 1 .. NumNodes :
          F[d][h[d - 1]] = Near(g, h[d - 1])
    BY <1>1
  <2> HIDE DEF F
  <2> DEFINE V == SUBSET Nodes
             first == {source}
  <2>4. Iterates(NumNodes, V, first, F)
    <3>1. NumNodes \in Nat /\ first \in V /\ F \in [1 .. NumNodes -> [V -> V]]
      BY <1>1, <2>2
    <3> HIDE DEF V, first
    <3> QED
      BY <3>1, Recursion
  <2> QED
    BY <2>3, <2>4 DEF Iterates
<1>3. P(h)
  <2>1. \A d \in 0 .. NumNodes : h[d] = IF d = 0 THEN {source} ELSE Near(g, h[d - 1])
    BY <1>1, <1>2
  <2> QED
    BY <2>1
<1>4. WithinFrom(g, source) = [d \in 0 .. NumNodes |-> c[d]]
  BY DEF WithinFrom
<1>5. P(c)
  BY <1>3
<1>6. Within = WithinFrom(g, source)
  BY DEF Within, WithinOf, TypeOK
<1>7. \A d \in 0 .. NumNodes : Within[d] = c[d]
  BY <1>4, <1>6
<1>8. \A d \in 0 .. NumNodes : c[d] = IF d = 0 THEN {source} ELSE Near(g, c[d - 1])
  BY <1>5
<1> HIDE DEF c, P
<1>9. Within[0] = {source}
  BY <1>1, <1>7, <1>8
<1>10. \A d \in 1 .. NumNodes : Within[d] = Near(g, Within[d - 1])
  <2> SUFFICES ASSUME NEW d \in 1 .. NumNodes PROVE Within[d] = Near(g, Within[d - 1])
    OBVIOUS
  <2>1. Within[d] = c[d] /\ Within[d - 1] = c[d - 1]
    BY <1>1, <1>7
  <2> QED
    BY <1>1, <1>8, <2>1
<1>11. DOMAIN Within = 0 .. NumNodes /\ Within = [d \in 0 .. NumNodes |-> Within[d]]
  BY <1>4, <1>6
<1>12. \A d \in 0 .. NumNodes : Within[d] \in SUBSET Nodes
  <2> DEFINE T == {d \in 0 .. NumNodes : Within[d] \in SUBSET Nodes}
  <2>1. 0 \in T
    BY <1>1, <1>9
  <2>2. \A k \in 1 .. NumNodes : k - 1 \in T => k \in T
    BY <1>10 DEF Near
  <2> HIDE DEF T
  <2>3. \A k \in 0 .. NumNodes : k \in T
    BY <1>1, <2>1, <2>2, Upwards
  <2> QED
    BY <2>3 DEF T
<1> QED
  BY <1>9, <1>10, <1>11, <1>12

\* The level after d; the last is empty, and so are those after it.
After(d) == IF d < NumNodes THEN d + 1 ELSE NumNodes

\* What is within d edges is within more.
LEMMA WithinGrows ==
  ASSUME TypeOK
  PROVE  \A d, e \in 0 .. NumNodes : d <= e => Within[d] \subseteq Within[e]
<1> SUFFICES ASSUME NEW d \in 0 .. NumNodes
             PROVE  \A e \in 0 .. NumNodes : d <= e => Within[d] \subseteq Within[e]
  OBVIOUS
<1> DEFINE T == {e \in 0 .. NumNodes : d <= e => Within[d] \subseteq Within[e]}
<1>0. NumNodes \in Nat
  BY NumNodesAssumption
<1>1. 0 \in T
  BY <1>0
<1>2. \A k \in 1 .. NumNodes : k - 1 \in T => k \in T
  <2> SUFFICES ASSUME NEW k \in 1 .. NumNodes, k - 1 \in T, d <= k PROVE Within[d] \subseteq Within[k]
    OBVIOUS
  <2>1. Within[k - 1] \subseteq Within[k]
    BY WithinSteps DEF Near
  <2>2. d = k \/ d <= k - 1
    OBVIOUS
  <2> QED
    BY <2>1, <2>2
<1> HIDE DEF T
<1>3. \A e \in 0 .. NumNodes : e \in T
  BY <1>0, <1>1, <1>2, Upwards
<1> QED
  BY <1>3 DEF T

\* A vertex within reach has one depth.
LEMMA OneDepth ==
  ASSUME TypeOK
  PROVE  /\ \A d \in 0 .. NumNodes : AtDepth(d) \subseteq Within[d] /\ AtDepth(d) \subseteq Nodes
         /\ \A d \in 0 .. NumNodes : \A y \in Within[d] : \E k \in 0 .. d : y \in AtDepth(k)
         /\ \A k, m \in 0 .. NumNodes : \A y \in AtDepth(k) : y \in Within[m] => k <= m
<1>0. NumNodes \in Nat
  BY NumNodesAssumption
<1>1. \A d \in 1 .. NumNodes : AtDepth(d) = Within[d] \ Within[d - 1]
  BY DEF AtDepth
<1>2. AtDepth(0) = {source} /\ Within[0] = {source} /\ source \in Nodes
  BY WithinSteps DEF AtDepth, TypeOK
<1>3. \A d \in 0 .. NumNodes : AtDepth(d) \subseteq Within[d] /\ AtDepth(d) \subseteq Nodes
  <2> TAKE d \in 0 .. NumNodes
  <2>1. d = 0 \/ d \in 1 .. NumNodes
    OBVIOUS
  <2> QED
    BY <2>1, <1>1, <1>2, WithinSteps
<1>4. \A d \in 0 .. NumNodes : \A y \in Within[d] : \E k \in 0 .. d : y \in AtDepth(k)
  <2> TAKE d \in 0 .. NumNodes
  <2> TAKE y \in Within[d]
  <2> DEFINE C == {k \in 0 .. d : y \in Within[k]}
  <2>1. PICK k \in C : \A m \in C : k <= m
    <3>1. C \subseteq Nat /\ d \in C
      OBVIOUS
    <3> HIDE DEF C
    <3> QED
      BY <3>1, LeastNat
  <2>2. CASE k = 0
    BY <1>2, <2>1, <2>2
  <2>3. CASE k # 0
    <3>1. k \in 1 .. NumNodes /\ k - 1 \in 0 .. d /\ k \in 0 .. d
      BY <1>0, <2>1, <2>3
    <3>2. k - 1 \notin C
      BY <2>1, <3>1
    <3>3. y \in Within[k] \ Within[k - 1]
      BY <3>1, <3>2
    <3> QED
      BY <1>1, <3>1, <3>3
  <2> QED
    BY <2>2, <2>3
<1>5. ASSUME NEW k \in 0 .. NumNodes, NEW m \in 0 .. NumNodes, NEW y \in AtDepth(k), y \in Within[m]
      PROVE  k <= m
  <2> SUFFICES ASSUME m < k PROVE FALSE
    OBVIOUS
  <2>1. k \in 1 .. NumNodes /\ k - 1 \in 0 .. NumNodes /\ m <= k - 1
    BY <1>0
  <2>2. y \in Within[k - 1]
    BY <1>5, <2>1, WithinGrows
  <2> QED
    BY <1>1, <2>1, <2>2
<1> QED
  BY <1>3, <1>4, <1>5

\* After an empty level no vertices are found.
LEMMA EmptyLevel ==
  ASSUME TypeOK, NEW d \in 1 .. NumNodes, AtDepth(d) = {}
  PROVE  \A e \in 0 .. NumNodes : d - 1 <= e => Within[e] = Within[d - 1]
<1> DEFINE T == {e \in 0 .. NumNodes : d - 1 <= e => Within[e] = Within[d - 1]}
<1>0. NumNodes \in Nat /\ d - 1 \in 0 .. NumNodes
  BY NumNodesAssumption
<1>1. 0 \in T
  BY <1>0
<1>2. Within[d] = Within[d - 1]
  <2>1. Within[d - 1] \subseteq Within[d]
    BY <1>0, WithinGrows
  <2>2. Within[d] \ Within[d - 1] = {}
    BY DEF AtDepth
  <2> QED
    BY <2>1, <2>2
<1>3. \A k \in 1 .. NumNodes : k - 1 \in T => k \in T
  <2> SUFFICES ASSUME NEW k \in 1 .. NumNodes, k - 1 \in T, d - 1 <= k PROVE Within[k] = Within[d - 1]
    OBVIOUS
  <2>1. k = d - 1 \/ d - 1 <= k - 1
    OBVIOUS
  <2>2. ASSUME d - 1 <= k - 1 PROVE Within[k] = Within[d]
    <3>1. Within[k - 1] = Within[d - 1]
      BY <2>2
    <3> QED
      BY <3>1, WithinSteps
  <2> QED
    BY <2>1, <2>2, <1>2
<1> HIDE DEF T
<1>4. \A e \in 0 .. NumNodes : e \in T
  BY <1>0, <1>1, <1>3, Upwards
<1> QED
  BY <1>4 DEF T

\* There are no more levels than vertices: the last one is empty.
LEMMA LastLevel == ASSUME TypeOK PROVE AtDepth(NumNodes) = {}
<1> DEFINE T == {d \in 0 .. NumNodes : d > 0 => AtDepth(d) = {} \/ Cardinality(Within[d]) >= d + 1}
<1>0. NumNodes \in Nat \ {0} /\ \A d \in 0 .. NumNodes : IsFiniteSet(Within[d]) /\ Cardinality(Within[d]) \in Nat
  BY NumNodesAssumption, NodesFinite, WithinSteps
<1>1. 0 \in T
  BY <1>0
<1>2. \A k \in 1 .. NumNodes : k - 1 \in T => k \in T
  <2> SUFFICES ASSUME NEW k \in 1 .. NumNodes, k - 1 \in T, AtDepth(k) # {}
               PROVE  Cardinality(Within[k]) >= k + 1
    OBVIOUS
  <2>1. k - 1 \in 0 .. NumNodes
    BY <1>0
  <2>2. Cardinality(Within[k - 1]) >= k
    <3>1. CASE k = 1
      <4>1. Within[k - 1] = {source}
        BY <3>1, WithinSteps
      <4>2. Cardinality({source}) = 1
        BY FS_Singleton
      <4> QED
        BY <3>1, <4>1, <4>2
    <3>2. CASE k # 1
      <4>1. k - 1 \in 1 .. NumNodes
        BY <3>2
      <4>2. ASSUME AtDepth(k - 1) = {} PROVE FALSE
        <5>1. Within[k] = Within[k - 2] /\ Within[k - 1] = Within[k - 2]
          BY <4>1, <4>2, EmptyLevel
        <5> QED
          BY <5>1 DEF AtDepth
      <4> QED
        BY <4>1, <4>2
    <3> QED
      BY <3>1, <3>2
  <2>3. PICK y \in Within[k] : y \notin Within[k - 1]
    BY DEF AtDepth
  <2>4. Within[k - 1] \cup {y} \subseteq Within[k]
    BY <2>1, WithinGrows
  <2>5. Cardinality(Within[k - 1] \cup {y}) = Cardinality(Within[k - 1]) + 1
    BY <1>0, <2>1, <2>3, FS_AddElement
  <2>6. Cardinality(Within[k - 1] \cup {y}) <= Cardinality(Within[k])
    BY <1>0, <2>4, FS_Subset
  <2> QED
    BY <1>0, <2>1, <2>2, <2>5, <2>6
<1> HIDE DEF T
<1>3. \A d \in 0 .. NumNodes : d \in T
  BY <1>0, <1>1, <1>2, Upwards
<1>4. NumNodes \in T
  BY <1>0, <1>3
<1>5. Cardinality(Within[NumNodes]) <= NumNodes
  <2>1. Within[NumNodes] \subseteq Nodes
    BY <1>0, WithinSteps
  <2> QED
    BY <2>1, NodesFinite, FS_Subset
<1> QED
  BY <1>0, <1>4, <1>5 DEF T

\* One step further from level d is level After(d).
LEMMA NextLevel ==
  ASSUME TypeOK, NEW d \in 0 .. NumNodes
  PROVE  /\ After(d) \in 1 .. NumNodes
         /\ Within[d] \subseteq Within[After(d)]
         /\ Near(g, Within[d]) = Within[After(d)]
         /\ AtDepth(After(d)) = Within[After(d)] \ Within[d]
<1>0. NumNodes \in Nat \ {0}
  BY NumNodesAssumption
<1>1. CASE d < NumNodes
  <2>1. After(d) = d + 1 /\ d + 1 \in 1 .. NumNodes
    BY <1>0, <1>1 DEF After
  <2> QED
    BY <2>1, WithinSteps, WithinGrows DEF AtDepth
<1>2. CASE d = NumNodes
  <2>1. After(d) = NumNodes /\ NumNodes - 1 \in 0 .. NumNodes
    BY <1>0, <1>2 DEF After
  <2>2. Within[NumNodes] = Within[NumNodes - 1]
    BY <1>0, <2>1, EmptyLevel, LastLevel
  <2>3. Near(g, Within[NumNodes]) = Within[NumNodes]
    BY <1>0, <2>2, WithinSteps
  <2> QED
    BY <1>0, <1>2, <2>1, <2>2, <2>3, LastLevel
<1> QED
  BY <1>0, <1>1, <1>2

\* An edge that leaves what is within d edges goes from level d to the next.
LEMMA NextEdges ==
  ASSUME TypeOK, NEW d \in 0 .. NumNodes, NEW x \in Within[d], NEW y \in Nodes \ Within[d],
         HasOutEdge(g, x, y)
  PROVE  x \in AtDepth(d) /\ y \in AtDepth(After(d)) /\ After(d) = d + 1
<1>0. NumNodes \in Nat
  BY NumNodesAssumption
<1>1. y \in Near(g, Within[d])
  BY DEF Near
<1>2. y \in AtDepth(After(d)) /\ After(d) # d
  BY <1>1, NextLevel
<1>3. After(d) = d + 1
  BY <1>0, <1>2 DEF After
<1>4. PICK k \in 0 .. d : x \in AtDepth(k)
  BY OneDepth
<1>5. k = d
  <2> SUFFICES ASSUME k < d PROVE FALSE
    OBVIOUS
  <2>1. k \in 0 .. NumNodes /\ k + 1 \in 1 .. NumNodes /\ k + 1 \in 0 .. NumNodes
    BY <1>0
  <2>2. x \in Within[k]
    BY <1>4, <2>1, OneDepth
  <2>3. y \in Near(g, Within[k])
    BY <2>2 DEF Near
  <2>4. y \in Within[k + 1]
    BY <2>1, <2>3, WithinSteps
  <2> QED
    BY <2>1, <2>4, WithinGrows
<1> QED
  BY <1>2, <1>3, <1>4, <1>5

-----------------------------------------------------------------------------
(***************************************************************************)
(* The invariant of the search.                                            *)
(***************************************************************************)
\* The quotient of a by b.
LEMMA Quotient ==
  ASSUME NEW a \in Nat, NEW b \in Nat \ {0}
  PROVE  a \div b \in Nat /\ b * (a \div b) <= a /\ a < b * (a \div b) + b
OBVIOUS

\* There is one quotient.
LEMMA OneQuotient ==
  ASSUME NEW a \in Nat, NEW b \in Nat \ {0}, NEW c \in Nat, b * c <= a, a < b * c + b
  PROVE  a \div b = c
OBVIOUS

\* Products grow with their factors.
LEMMA ProductsGrow ==
  ASSUME NEW b \in Nat \ {0}, NEW c \in Nat, NEW d \in Nat
  PROVE  (c <= d => b * c <= b * d) /\ (b * c < b * d => c < d)
OBVIOUS

\* A chunk consists of whole words.
LEMMA ChunkOfWord ==
  ASSUME NEW x \in Nat
  PROVE  ChunkOf(x) = (x \div BitsPerWord) \div (Chunk \div BitsPerWord)
<1> DEFINE b == BitsPerWord
           q == Chunk \div BitsPerWord
           w == x \div b
           c == x \div Chunk
<1>1. b \in Nat \ {0} /\ Chunk \in Nat \ {0}
  BY BitsPerWordAssumption, ChunkAssumption
<1>2. q \in Nat \ {0} /\ Chunk = b * q
  BY <1>1, ChunkAssumption
<1>3. w \in Nat /\ b * w <= x /\ x < b * w + b
  BY <1>1, Quotient
<1>4. c \in Nat /\ Chunk * c <= x /\ x < Chunk * c + Chunk
  BY <1>1, Quotient
<1> HIDE DEF b, q, w, c
<1>5. Chunk * c = b * (q * c) /\ Chunk * c + Chunk = b * (q * c + q) /\ q * c \in Nat
  BY <1>1, <1>2, <1>4
<1>6. q * c <= w
  <2>1. b * (q * c) < b * (w + 1) /\ w + 1 \in Nat
    BY <1>1, <1>3, <1>4, <1>5
  <2>2. q * c < w + 1
    BY <1>1, <1>5, <2>1, ProductsGrow
  <2> QED
    BY <1>3, <1>5, <2>2
<1>7. w < q * c + q
  <2>1. b * w < b * (q * c + q) /\ q * c + q \in Nat
    BY <1>1, <1>2, <1>3, <1>4, <1>5
  <2> QED
    BY <1>1, <1>3, <2>1, ProductsGrow
<1>8. w \div q = c
  BY <1>2, <1>3, <1>4, <1>6, <1>7, OneQuotient
<1> QED
  BY <1>8 DEF b, q, w, c, ChunkOf

\* Vertices of one word are in one chunk; chunks are intervals.
LEMMA ChunksApart ==
  /\ \A x, y \in Nodes : WordOf(x) = WordOf(y) => ChunkOf(x) = ChunkOf(y)
  /\ \A x, y, z \in Nodes : x <= y /\ y <= z /\ ChunkOf(x) = ChunkOf(z) => ChunkOf(y) = ChunkOf(x)
<1>1. \A x, y \in Nodes : WordOf(x) = WordOf(y) => ChunkOf(x) = ChunkOf(y)
  BY ChunkOfWord, NodesFinite DEF WordOf
<1>2. ASSUME NEW x \in Nodes, NEW y \in Nodes, NEW z \in Nodes, x <= y, y <= z, ChunkOf(x) = ChunkOf(z)
      PROVE  ChunkOf(y) = ChunkOf(x)
  <2> DEFINE c == x \div Chunk
  <2>1. x \in Nat /\ y \in Nat /\ z \in Nat /\ Chunk \in Nat \ {0}
    BY NodesFinite, ChunkAssumption
  <2>2. c \in Nat /\ Chunk * c <= x /\ c = z \div Chunk
    BY <1>2, <2>1, Quotient DEF ChunkOf
  <2>3. z < Chunk * c + Chunk
    BY <2>1, <2>2, Quotient
  <2> HIDE DEF c
  <2>4. Chunk * c \in Nat
    BY <2>1, <2>2
  <2>5. Chunk * c <= y /\ y < Chunk * c + Chunk
    BY <1>2, <2>1, <2>2, <2>3, <2>4
  <2>6. y \div Chunk = c
    BY <2>1, <2>2, <2>5, OneQuotient
  <2> QED
    BY <2>6 DEF c, ChunkOf
<1> QED
  BY <1>1, <1>2

-----------------------------------------------------------------------------
\* A vertex has its parent one level closer to the source.
TreeEdge(y) ==
  /\ parent[y] \in Nodes /\ HasOutEdge(g, parent[y], y)
  /\ \E k \in 1 .. NumNodes : y \in AtDepth(k) /\ parent[y] \in AtDepth(k - 1)

Tree(d) ==
  /\ parent[source] = source
  /\ \A y \in Visited \ {source} : TreeEdge(y)
  /\ Within[d] \subseteq Visited /\ Visited \subseteq Near(g, Within[d])

\* Between two steps of the search.
WholeLevel(d) == Visited = Within[d] /\ window = AtDepth(d) /\ incoming = {}

\* Edge j of x has been, or will be, followed.
Followed(x, j) ==
  \/ g.out[x][j] \in Visited \/ x \in todo
  \/ \E t \in Threads : pc[t] \in {"read", "cas"} /\ u[t] = x /\ i[t] <= j

AllFollowed == \A x \in window : \A j \in 1 .. out_degree(g, x) : Followed(x, j)

InTD(d) ==
  /\ window = AtDepth(d) /\ todo \subseteq window /\ incoming = Visited \ Within[d]
  /\ \A t \in Threads : pc[t] \in {"read", "cas"} => u[t] \in window
  /\ \A t \in Threads : pc[t] = "cas" => v(t) \in Visited \/ parent[v(t)] = curr_val[t]
  /\ AllFollowed

InQueueToBitmap(d) ==
  /\ WholeLevel(d) /\ todo \subseteq window
  /\ \A t \in Threads : pc[t] \in {"load", "swap"} => u[t] \in window
  /\ \A x \in window : \/ x \in todo \/ get_bit(front, x)
                       \/ \E t \in Threads : pc[t] \in {"load", "swap"} /\ u[t] = x

\* The vertices thread t still has to look at.
Ahead(t, y) ==
  /\ ChunkOf(y) = ChunkOf(u[t])
  /\ (pc[t] = "scan" /\ u[t] <= y) \/ (pc[t] = "store" /\ u[t] < y)

\* Chunks, and with them words, have one owner; so no bit is lost.
Owned ==
  \A t \in Threads : pc[t] \in {"scan", "store"} =>
    /\ ChunkOf(u[t]) \notin todo
    /\ \A s \in Threads \ {t} : pc[s] \in {"scan", "store"} => ChunkOf(u[s]) # ChunkOf(u[t])
    /\ pc[t] = "store" => old_val[t] = curr[WordOf(u[t])]

\* The vertices found have their bit in curr, or are about to get it.
Recorded(d) ==
  /\ \A w \in Words : curr[w] \subseteq Visited \ Within[d]
  /\ \A t \in Threads : pc[t] = "store" => u[t] \in Visited \ Within[d]
  /\ \A y \in Visited \ Within[d] :
       get_bit(curr, y) \/ \E t \in Threads : pc[t] = "store" /\ u[t] = y

\* A vertex next to the frontier has been, or will be, found.
Looked ==
  \A y \in Nodes : \/ y \in Visited \/ Hits(y) = {} \/ ChunkOf(y) \in todo
                   \/ \E t \in Threads : Ahead(t, y)

InBU(d) ==
  /\ window = {} /\ incoming = {} /\ Owned
  /\ AtDepth(d) \subseteq BitsOf(front)
  /\ todo = Chunks => Visited = Within[d]
  /\ Recorded(d) /\ Looked

\* What the search has done when it works on level d.
Level(d) ==
  /\ Tree(d)
  /\ phase # "done" => BitsOf(front) \subseteq Within[d]
  /\ phase = "loop" => WholeLevel(d) /\ todo = {}
  /\ phase = "TD" => InTD(d)
  /\ phase = "QueueToBitmap" => InQueueToBitmap(d)
  /\ phase = "BU" => InBU(d)
  /\ phase = "done" => Visited = Within[NumNodes] /\ \A n \in Nodes : parent[n] >= -1

SearchInv == \E d \in 0 .. NumNodes : Level(d)

-----------------------------------------------------------------------------
\* Levels do not change: they are those of the graph and the source.
LEMMA LevelsStay ==
  ASSUME UNCHANGED <<g, source>>
  PROVE  Within' = Within /\ \A d : AtDepth(d)' = AtDepth(d)
BY DEF Within, AtDepth

\* An edge into y is an entry of y's in-list.
LEMMA BothEnds ==
  ASSUME TypeOK
  PROVE  \A x, y \in Nodes : HasOutEdge(g, x, y) <=> HasInEdge(g, y, x)
BY GraphsAssumption DEF TypeOK, IsGraph

\* The tree is the same, or has only gained an edge from level d.
LEMMA TreeStays ==
  ASSUME TypeOK, NEW d \in 0 .. NumNodes, Tree(d), UNCHANGED <<g, source>>,
         \A n \in Nodes : parent[n] >= 0 => parent'[n] = parent[n], Visited' = Visited
  PROVE  Tree(d)'
<1>1. source \in Visited /\ Visited \subseteq Nodes
  BY NodesFinite DEF Tree, Visited, TypeOK
<1>2. \A y \in Visited : parent'[y] = parent[y]
  BY <1>1 DEF Visited
<1>3. ASSUME NEW y \in Visited \ {source} PROVE TreeEdge(y)'
  BY <1>2, <1>3, LevelsStay DEF Tree, TreeEdge
<1> QED
  BY <1>1, <1>2, <1>3, LevelsStay DEF Tree

\* A vertex found from what is within d edges belongs to the next level.
LEMMA TreeGrows ==
  ASSUME TypeOK, NEW d \in 0 .. NumNodes, Tree(d), UNCHANGED <<g, source>>,
         NEW x \in Within[d], NEW y \in Nodes \ Visited, HasOutEdge(g, x, y),
         parent' = [parent EXCEPT ![y] = x]
  PROVE  Tree(d)' /\ Visited' = Visited \cup {y} /\ y \notin Within[d]
<1>1. source \in Visited /\ Visited \subseteq Nodes /\ x \in Nodes
  BY NodesFinite, WithinSteps DEF Tree, Visited, TypeOK
<1>2. y \notin Within[d] /\ y # source
  BY <1>1 DEF Tree
<1>3. parent'[y] = x /\ x >= 0 /\ \A n \in Nodes \ {y} : parent'[n] = parent[n]
  BY <1>1, NodesFinite DEF TypeOK
<1>4. Visited' = Visited \cup {y}
  BY <1>1, <1>3 DEF Visited
<1>5. x \in AtDepth(d) /\ y \in AtDepth(After(d)) /\ After(d) = d + 1 /\ After(d) \in 1 .. NumNodes
  BY <1>2, NextEdges, NextLevel
<1>6. TreeEdge(y)'
  <2>1. After(d) - 1 = d
    BY <1>5
  <2> QED
    BY <1>1, <1>3, <1>5, <2>1, LevelsStay DEF TreeEdge
<1>7. ASSUME NEW n \in Visited \ {source} PROVE TreeEdge(n)'
  <2>1. n # y /\ n \in Nodes /\ parent'[n] = parent[n] /\ TreeEdge(n)
    BY <1>1, <1>3, <1>7 DEF Tree
  <2> QED
    BY <2>1, LevelsStay DEF TreeEdge
<1>8. y \in Near(g, Within[d])
  BY DEF Near
<1>9. parent'[source] = source
  BY <1>1, <1>2, <1>3 DEF Tree, TypeOK
<1> QED
  BY <1>1, <1>2, <1>4, <1>6, <1>7, <1>8, <1>9, LevelsStay DEF Tree

\* When all neighbours of level d are visited, the next level is whole.
LEMMA LevelDone ==
  ASSUME TypeOK, NEW d \in 0 .. NumNodes, Tree(d), UNCHANGED <<g, source, parent>>,
         \A x \in AtDepth(d), y \in Nodes : HasOutEdge(g, x, y) => y \in Visited
  PROVE  /\ Tree(After(d))' /\ Visited' = Within[After(d)] /\ Visited = Within[After(d)]
         /\ AtDepth(After(d)) = Visited \ Within[d] /\ Within[d] \subseteq Within[After(d)]
<1>1. Visited \subseteq Within[After(d)] /\ Within[d] \subseteq Visited
  BY NextLevel DEF Tree
<1>2. ASSUME NEW y \in Within[After(d)], y \notin Visited PROVE FALSE
  <2>1. y \in Near(g, Within[d]) /\ y \notin Within[d] /\ y \in Nodes
    BY <1>1, <1>2, NextLevel, WithinSteps
  <2>2. PICK x \in Within[d] : HasOutEdge(g, x, y)
    BY <2>1 DEF Near
  <2>3. x \in AtDepth(d)
    BY <2>1, <2>2, NextEdges
  <2> QED
    BY <1>2, <2>1, <2>2, <2>3
<1>3. Visited = Within[After(d)] /\ Visited' = Visited
  BY <1>1, <1>2 DEF Visited
<1>4. Within[After(d)] \subseteq Near(g, Within[After(d)])
  BY DEF Near
<1>5. Tree(After(d))'
  <2>1. Tree(d)'
    BY <1>3, TreeStays
  <2> QED
    BY <1>3, <1>4, <2>1, LevelsStay DEF Tree
<1> QED
  BY <1>1, <1>3, <1>5, NextLevel

-----------------------------------------------------------------------------
(***************************************************************************)
(* Every step keeps it.                                                    *)
(***************************************************************************)
\* When thread t leaves an edge whose end is visited, all others are still followed.
LEMMA EdgeLeft ==
  ASSUME TypeOK, Places, NEW t \in Threads, pc[t] \in {"read", "cas"}, u[t] \in window, AllFollowed,
         \A s \in Threads : pc[s] \in {"read", "cas"} => u[s] \in window,
         EdgeOrEnd(t, u[t], i[t] + 1), UNCHANGED <<g, window, todo>>,
         Visited \subseteq Visited', v(t) \in Visited'
  PROVE  /\ AllFollowed'
         /\ \A s \in Threads : pc'[s] \in {"read", "cas"} => u'[s] \in window
         /\ \A s \in Threads : pc'[s] = "cas" => pc[s] = "cas" /\ s # t /\ UNCHANGED <<u[s], i[s], curr_val[s]>>
<1>1. u[t] \in Nodes /\ i[t] \in Nat /\ out_degree(g, u[t]) \in Nat
  BY Neighbours DEF TypeOK
<1>2. \A s \in Threads \ {t} : pc'[s] = pc[s] /\ u'[s] = u[s] /\ i'[s] = i[s] /\ curr_val'[s] = curr_val[s]
  BY DEF EdgeOrEnd, Forget, Goto, TypeOK
<1>3. \/ i[t] + 1 <= out_degree(g, u[t]) /\ pc'[t] = "read" /\ u'[t] = u[t] /\ i'[t] = i[t] + 1
      \/ i[t] + 1 > out_degree(g, u[t]) /\ pc'[t] = "idle"
  <2>1. CASE i[t] + 1 <= out_degree(g, u[t])
    BY <2>1 DEF EdgeOrEnd, Goto, TypeOK
  <2>2. CASE ~(i[t] + 1 <= out_degree(g, u[t]))
    BY <1>1, <2>2 DEF EdgeOrEnd, Forget, Goto, TypeOK
  <2> QED
    BY <2>1, <2>2
<1>4. AllFollowed'
  <2> SUFFICES ASSUME NEW x \in window, NEW j \in 1 .. out_degree(g, x) PROVE Followed(x, j)'
    BY DEF AllFollowed
  <2>1. Followed(x, j)
    BY DEF AllFollowed
  <2>2. CASE g.out[x][j] \in Visited \/ x \in todo
    BY <2>2 DEF Followed
  <2>3. ASSUME NEW s \in Threads, pc[s] \in {"read", "cas"}, u[s] = x, i[s] <= j
        PROVE  Followed(x, j)'
    <3>1. CASE s # t
      BY <1>2, <2>3, <3>1 DEF Followed
    <3>2. CASE s = t /\ i[t] = j
      BY <2>3, <3>2 DEF Followed, v
    <3>3. CASE s = t /\ i[t] # j
      <4>1. i[t] + 1 <= j /\ j <= out_degree(g, u[t])
        BY <1>1, <2>3, <3>3
      <4>2. pc'[t] = "read" /\ u'[t] = x /\ i'[t] <= j
        BY <1>1, <1>3, <2>3, <3>3, <4>1
      <4> QED
        BY <4>2 DEF Followed
    <3> QED
      BY <3>1, <3>2, <3>3
  <2> QED
    BY <2>1, <2>2, <2>3 DEF Followed
<1> QED
  BY <1>2, <1>3, <1>4

\* The steps of a top-down step keep what is known in it.
LEMMA TDKeeps ==
  ASSUME IInv, NEW d \in 0 .. NumNodes, Level(d), NEW t \in Threads, ClaimTD(t) \/ Read(t) \/ CAS(t)
  PROVE  Level(d)'
<1>1. TypeOK /\ Places /\ phase = "TD" /\ phase' = "TD"
  BY DEF IInv, ClaimTD, Read, CAS, Places, Place
<1>2. Tree(d) /\ InTD(d) /\ BitsOf(front) \subseteq Within[d]
  BY <1>1 DEF Level
<1>3. UNCHANGED <<g, source, window, front>>
  BY DEF ClaimTD, Read, CAS, args, queue
<1>4. SUFFICES Tree(d)' /\ InTD(d)'
  BY <1>1, <1>2, <1>3, LevelsStay DEF Level, BitsOf
<1>5. CASE ClaimTD(t)
  <2>1. PICK x \in todo : todo' = todo \ {x} /\ EdgeOrEnd(t, x, 1)
    BY <1>5 DEF ClaimTD
  <2>2. UNCHANGED <<parent, incoming>> /\ pc[t] = "idle"
    BY <1>5 DEF ClaimTD, queue
  <2>3. x \in window /\ x \in Nodes /\ out_degree(g, x) \in Nat
    BY <1>1, <1>2, Neighbours DEF InTD, TypeOK
  <2>4. Visited' = Visited /\ Tree(d)'
    <3>1. Visited' = Visited
      BY <2>2 DEF Visited
    <3> QED
      BY <1>1, <1>2, <1>3, <2>2, <3>1, TreeStays
  <2>5. \A s \in Threads \ {t} : pc'[s] = pc[s] /\ u'[s] = u[s] /\ i'[s] = i[s] /\ curr_val'[s] = curr_val[s]
    BY <1>1, <2>1 DEF EdgeOrEnd, Forget, Goto, TypeOK
  <2>6. \/ 1 <= out_degree(g, x) /\ pc'[t] = "read" /\ u'[t] = x /\ i'[t] = 1
        \/ 1 > out_degree(g, x) /\ pc'[t] = "idle"
    <3>1. CASE 1 <= out_degree(g, x)
      BY <1>1, <2>1, <3>1 DEF EdgeOrEnd, Goto, TypeOK
    <3>2. CASE ~(1 <= out_degree(g, x))
      BY <1>1, <2>1, <2>3, <3>2 DEF EdgeOrEnd, Forget, Goto, TypeOK
    <3> QED
      BY <3>1, <3>2
  <2>7. AllFollowed'
    <3> SUFFICES ASSUME NEW y \in window, NEW j \in 1 .. out_degree(g, y) PROVE Followed(y, j)'
      BY <1>3 DEF AllFollowed
    <3>1. Followed(y, j)
      BY <1>2 DEF AllFollowed, InTD
    <3>2. CASE y = x
      <4>1. pc'[t] = "read" /\ u'[t] = x /\ i'[t] <= j
        BY <2>3, <2>6, <3>2
      <4> QED
        BY <3>2, <4>1 DEF Followed
    <3>3. CASE y # x
      BY <1>3, <2>1, <2>2, <2>4, <2>5, <3>1, <3>3 DEF Followed
    <3> QED
      BY <3>2, <3>3
  <2>8. \A s \in Threads : pc'[s] \in {"read", "cas"} => u'[s] \in window
    BY <1>2, <2>3, <2>5, <2>6 DEF InTD
  <2>9. \A s \in Threads : pc'[s] = "cas" => v(s)' \in Visited' \/ parent'[v(s)'] = curr_val'[s]
    BY <1>2, <1>3, <2>2, <2>4, <2>5, <2>6 DEF InTD, v
  <2> QED
    BY <1>2, <1>3, <2>1, <2>2, <2>4, <2>7, <2>8, <2>9, LevelsStay DEF InTD
<1>6. CASE Read(t)
  <2>1. /\ pc[t] = "read" /\ UNCHANGED <<parent, incoming, todo>> /\ v(t) \in Nodes
        /\ u[t] \in window
    BY <1>1, <1>2, <1>6, Neighbours DEF Read, TypeOK, Places, Place, v, queue, InTD
  <2>2. Visited' = Visited
    BY <2>1 DEF Visited
  <2>3. Tree(d)'
    BY <1>1, <1>2, <1>3, <2>1, <2>2, TreeStays
  <2>4. CASE parent[v(t)] < 0
    <3>1. /\ curr_val' = [curr_val EXCEPT ![t] = parent[v(t)]] /\ pc' = [pc EXCEPT ![t] = "cas"]
          /\ UNCHANGED <<u, i, old_val>>
      BY <1>6, <2>4 DEF Read, Goto
    <3>2. AllFollowed'
      <4>1. \A s \in Threads : pc[s] \in {"read", "cas"} => pc'[s] \in {"read", "cas"}
        BY <1>1, <3>1 DEF TypeOK
      <4> QED
        BY <1>2, <1>3, <2>1, <2>2, <3>1, <4>1 DEF InTD, AllFollowed, Followed
    <3>3. \A s \in Threads : pc'[s] \in {"read", "cas"} => u'[s] \in window
      BY <1>1, <1>2, <2>1, <3>1 DEF InTD, TypeOK
    <3>4. \A s \in Threads : pc'[s] = "cas" => v(s)' \in Visited' \/ parent'[v(s)'] = curr_val'[s]
      BY <1>1, <1>2, <1>3, <2>1, <2>2, <3>1 DEF InTD, v, TypeOK
    <3> QED
      BY <1>2, <1>3, <2>1, <2>2, <2>3, <3>2, <3>3, <3>4, LevelsStay DEF InTD
  <2>5. CASE ~(parent[v(t)] < 0)
    <3>1. EdgeOrEnd(t, u[t], i[t] + 1) /\ v(t) \in Visited
      BY <1>1, <1>6, <2>1, <2>5 DEF Read, NextEdge, Visited, TypeOK
    <3>2. /\ AllFollowed'
          /\ \A s \in Threads : pc'[s] \in {"read", "cas"} => u'[s] \in window
          /\ \A s \in Threads : pc'[s] = "cas" => pc[s] = "cas" /\ s # t /\ UNCHANGED <<u[s], i[s], curr_val[s]>>
      BY <1>1, <1>2, <1>3, <2>1, <2>2, <3>1, EdgeLeft DEF InTD
    <3>3. \A s \in Threads : pc'[s] = "cas" => v(s)' \in Visited' \/ parent'[v(s)'] = curr_val'[s]
      BY <1>2, <1>3, <2>1, <2>2, <3>2 DEF InTD, v
    <3> QED
      BY <1>2, <1>3, <2>1, <2>2, <2>3, <3>2, <3>3, LevelsStay DEF InTD
  <2> QED
    BY <2>4, <2>5
<1>7. CASE CAS(t)
  <2>1. /\ pc[t] = "cas" /\ UNCHANGED todo /\ v(t) \in Nodes /\ curr_val[t] < 0
        /\ u[t] \in window /\ i[t] \in 1 .. out_degree(g, u[t]) /\ u[t] \in Nodes
    BY <1>1, <1>2, <1>7, Neighbours DEF CAS, TypeOK, Places, Place, v, InTD
  <2>2. /\ Tree(d)' /\ incoming' = Visited' \ Within[d]
        /\ Visited \subseteq Visited' /\ v(t) \in Visited'
        /\ \A n \in Nodes : parent'[n] = parent[n] \/ n \in Visited'
    <3>1. CASE parent[v(t)] = curr_val[t]
      <4>1. parent' = [parent EXCEPT ![v(t)] = u[t]] /\ incoming' = incoming \cup {v(t)}
        BY <1>7, <3>1 DEF CAS
      <4>2. v(t) \in Nodes \ Visited
        BY <1>1, <2>1, <3>1 DEF Visited, TypeOK
      <4>3. u[t] \in Within[d] /\ HasOutEdge(g, u[t], v(t))
        BY <1>1, <1>2, <2>1, OneDepth DEF InTD, HasOutEdge, v
      <4>4. Tree(d)' /\ Visited' = Visited \cup {v(t)} /\ v(t) \notin Within[d]
        BY <1>1, <1>2, <1>3, <4>1, <4>2, <4>3, TreeGrows
      <4>5. \A n \in Nodes : parent'[n] = parent[n] \/ n = v(t)
        BY <1>1, <4>1 DEF TypeOK
      <4> QED
        BY <1>2, <4>1, <4>4, <4>5 DEF InTD
    <3>2. CASE parent[v(t)] # curr_val[t]
      <4>1. UNCHANGED <<parent, incoming>>
        BY <1>7, <3>2 DEF CAS
      <4>2. Visited' = Visited
        BY <4>1 DEF Visited
      <4>3. v(t) \in Visited
        BY <1>2, <2>1, <3>2 DEF InTD
      <4>4. Tree(d)'
        BY <1>1, <1>2, <1>3, <4>1, <4>2, TreeStays
      <4> QED
        BY <1>2, <4>1, <4>2, <4>3, <4>4 DEF InTD
    <3> QED
      BY <3>1, <3>2
  <2>3. EdgeOrEnd(t, u[t], i[t] + 1)
    BY <1>7 DEF CAS, NextEdge
  <2>4. /\ AllFollowed'
        /\ \A s \in Threads : pc'[s] \in {"read", "cas"} => u'[s] \in window
        /\ \A s \in Threads : pc'[s] = "cas" => pc[s] = "cas" /\ s # t /\ UNCHANGED <<u[s], i[s], curr_val[s]>>
    BY <1>1, <1>2, <1>3, <2>1, <2>2, <2>3, EdgeLeft DEF InTD
  <2>5. ASSUME NEW s \in Threads, pc'[s] = "cas" PROVE v(s)' \in Visited' \/ parent'[v(s)'] = curr_val'[s]
    <3>1. pc[s] = "cas" /\ v(s)' = v(s) /\ curr_val'[s] = curr_val[s]
      BY <1>3, <2>4, <2>5 DEF v
    <3>2. v(s) \in Nodes
      BY <1>1, <3>1, Neighbours DEF TypeOK, Places, Place, v
    <3> QED
      BY <1>2, <2>2, <3>1, <3>2 DEF InTD
  <2> QED
    BY SMTT(30), <1>2, <1>3, <2>1, <2>2, <2>4, <2>5, LevelsStay DEF InTD
<1> QED
  BY <1>5, <1>6, <1>7

\* So do those of QueueToBitmap.
LEMMA QueueToBitmapKeeps ==
  ASSUME IInv, NEW d \in 0 .. NumNodes, Level(d), NEW t \in Threads, ClaimQueue(t) \/ Load(t) \/ Swap(t)
  PROVE  Level(d)'
<1>1. TypeOK /\ Places /\ phase = "QueueToBitmap" /\ phase' = "QueueToBitmap"
  BY DEF IInv, ClaimQueue, Load, Swap, Places, Place
<1>2. Tree(d) /\ InQueueToBitmap(d) /\ BitsOf(front) \subseteq Within[d]
  BY <1>1 DEF Level
<1>3. UNCHANGED <<g, source, window, incoming, parent>>
  BY DEF ClaimQueue, Load, Swap, args, queue
<1>4. Visited' = Visited
  BY <1>3 DEF Visited
<1>5. Tree(d)' /\ WholeLevel(d)'
  BY <1>1, <1>2, <1>3, <1>4, TreeStays, LevelsStay DEF WholeLevel, InQueueToBitmap
<1>6. SUFFICES InQueueToBitmap(d)' /\ BitsOf(front') \subseteq Within[d]
  BY <1>1, <1>3, <1>5, LevelsStay DEF Level, BitsOf
<1>7. CASE ClaimQueue(t)
  <2>1. PICK x \in todo : todo' = todo \ {x} /\ u' = [u EXCEPT ![t] = x]
    BY <1>7 DEF ClaimQueue
  <2>2. pc[t] = "idle" /\ pc' = [pc EXCEPT ![t] = "load"] /\ UNCHANGED front
    BY <1>7 DEF ClaimQueue, Goto
  <2>3. /\ \A s \in Threads \ {t} : pc'[s] = pc[s] /\ u'[s] = u[s]
        /\ pc'[t] = "load" /\ u'[t] = x
    BY <1>1, <1>2, <2>1, <2>2 DEF TypeOK
  <2>4. \A y \in window : \/ y \in todo' \/ get_bit(front', y)
                          \/ \E s \in Threads : pc'[s] \in {"load", "swap"} /\ u'[s] = y
    BY <1>2, <2>1, <2>2, <2>3 DEF InQueueToBitmap
  <2> QED
    BY <1>2, <1>3, <1>5, <2>1, <2>2, <2>3, <2>4 DEF InQueueToBitmap, get_bit
<1>8. CASE Load(t)
  <2>1. pc[t] = "load" /\ pc' = [pc EXCEPT ![t] = "swap"] /\ UNCHANGED <<u, front, todo>>
    BY <1>8 DEF Load, Goto
  <2>2. \A s \in Threads : pc'[s] \in {"load", "swap"} <=> pc[s] \in {"load", "swap"}
    BY <1>1, <2>1 DEF TypeOK
  <2> QED
    BY <1>2, <1>3, <1>5, <2>1, <2>2 DEF InQueueToBitmap, get_bit
<1>9. CASE Swap(t)
  <2>1. pc[t] = "swap" /\ UNCHANGED todo /\ u[t] \in window /\ u[t] \in Nodes /\ WordOf(u[t]) \in Words
    BY <1>1, <1>2, <1>9, NodesFinite DEF Swap, InQueueToBitmap, TypeOK
  <2>2. CASE front[WordOf(u[t])] = old_val[t]
    <3>1. /\ front' = [front EXCEPT ![WordOf(u[t])] = front[WordOf(u[t])] \cup {u[t]}]
          /\ pc' = [pc EXCEPT ![t] = "idle"] /\ u' = [u EXCEPT ![t] = 0]
      BY <1>9, <2>2 DEF Swap, Forget, Goto, WithBit
    <3>2. \A y \in Nodes : get_bit(front', y) <=> get_bit(front, y) \/ y = u[t]
      BY <1>1, <2>1, <3>1, NodesFinite DEF get_bit, TypeOK, Bitmaps
    <3>3. /\ \A s \in Threads \ {t} : pc'[s] = pc[s] /\ u'[s] = u[s]
          /\ pc'[t] = "idle"
      BY <1>1, <3>1 DEF TypeOK
    <3>4. u[t] \in Within[d]
      BY <1>1, <1>2, <2>1, OneDepth DEF InQueueToBitmap, WholeLevel
    <3>5. BitsOf(front') \subseteq Within[d]
      BY <1>2, <3>2, <3>4 DEF BitsOf
    <3>6. window \subseteq Nodes
      BY <1>1 DEF TypeOK
    <3>7. \A y \in window : \/ y \in todo' \/ get_bit(front', y)
                            \/ \E s \in Threads : pc'[s] \in {"load", "swap"} /\ u'[s] = y
      BY <1>2, <2>1, <3>2, <3>3, <3>6 DEF InQueueToBitmap
    <3> QED
      BY <1>2, <1>3, <1>5, <2>1, <3>3, <3>5, <3>7 DEF InQueueToBitmap, get_bit
  <2>3. CASE front[WordOf(u[t])] # old_val[t]
    <3>1. pc' = [pc EXCEPT ![t] = "load"] /\ UNCHANGED <<u, front>>
      BY <1>9, <2>3 DEF Swap, Goto
    <3>2. \A s \in Threads : pc'[s] \in {"load", "swap"} <=> pc[s] \in {"load", "swap"}
      BY <1>1, <2>1, <3>1 DEF TypeOK
    <3> QED
      BY <1>2, <1>3, <1>5, <2>1, <3>1, <3>2 DEF InQueueToBitmap, get_bit
  <2> QED
    BY <2>2, <2>3
<1> QED
  BY <1>7, <1>8, <1>9

\* Thread t goes on in its chunk, or has nothing more to look at in it.
LEMMA GoesOn ==
  ASSUME TypeOK, Places, NEW t \in Threads, phase = "BU", ScanOrEnd(t, u[t] + 1), g' = g, phase' = phase,
         pc[t] \in {"scan", "store"}
  PROVE  /\ \A s \in Threads \ {t} : pc'[s] = pc[s] /\ u'[s] = u[s] /\ old_val'[s] = old_val[s]
         /\ pc'[t] # "store"
         /\ pc'[t] = "scan" => ChunkOf(u'[t]) = ChunkOf(u[t])
         /\ \A y \in Nodes : u[t] < y /\ ChunkOf(y) = ChunkOf(u[t]) => Ahead(t, y)'
<1>1. /\ \A s \in Threads \ {t} : pc'[s] = pc[s] /\ u'[s] = u[s] /\ old_val'[s] = old_val[s]
      /\ pc'[t] # "store"
  BY ScanOrEndTypes
<1>2. CASE u[t] + 1 \in Nodes /\ ChunkOf(u[t] + 1) = ChunkOf(u[t])
  <2>1. pc'[t] = "scan" /\ u'[t] = u[t] + 1
    BY <1>2 DEF ScanOrEnd, Goto, TypeOK
  <2>2. \A y \in Nodes : u[t] < y => u[t] + 1 <= y
    <3>1. u[t] \in Nat /\ \A y \in Nodes : y \in Nat
      BY NodesFinite DEF TypeOK
    <3> QED
      BY <3>1
  <2> QED
    BY <1>1, <1>2, <2>1, <2>2 DEF Ahead
<1>3. CASE ~(u[t] + 1 \in Nodes /\ ChunkOf(u[t] + 1) = ChunkOf(u[t]))
  <2>1. pc'[t] = "idle"
    BY <1>3 DEF ScanOrEnd, Forget, Goto, TypeOK
  <2>2. ASSUME NEW y \in Nodes, u[t] < y, ChunkOf(y) = ChunkOf(u[t]) PROVE FALSE
    <3>1. u[t] + 1 \in Nodes /\ u[t] <= u[t] + 1 /\ u[t] + 1 <= y /\ u[t] \in Nodes
      BY <2>2, NumNodesAssumption DEF TypeOK, Nodes
    <3> QED
      BY <1>3, <2>2, <3>1, ChunksApart
  <2> QED
    BY <1>1, <2>1, <2>2
<1> QED
  BY <1>2, <1>3

\* And those of a bottom-up step.
LEMMA BUKeeps ==
  ASSUME IInv, NEW d \in 0 .. NumNodes, Level(d), NEW t \in Threads, ClaimChunk(t) \/ Scan(t) \/ Store(t)
  PROVE  Level(d)'
<1>1. TypeOK /\ Places /\ phase = "BU" /\ phase' = "BU"
  BY DEF IInv, ClaimChunk, Scan, Store, Places, Place
<1>2. Tree(d) /\ InBU(d) /\ BitsOf(front) \subseteq Within[d]
  BY <1>1 DEF Level
<1>3. UNCHANGED <<g, source, window, incoming, front>>
  BY DEF ClaimChunk, Scan, Store, args, queue
<1>4. \A y : Hits(y)' = Hits(y)
  BY <1>3 DEF Hits
<1>5. SUFFICES Tree(d)' /\ Owned' /\ (todo' = Chunks => Visited' = Within[d]) /\ Recorded(d)' /\ Looked'
  <2>1. Within' = Within /\ AtDepth(d)' = AtDepth(d) /\ BitsOf(front)' = BitsOf(front)
    BY <1>3, LevelsStay DEF BitsOf
  <2> QED
    BY <1>1, <1>2, <1>3, <1>5, <2>1 DEF Level, InBU
<1>6. u[t] \in Nodes /\ u[t] \in Nat /\ WordOf(u[t]) \in Words /\ ChunkOf(u[t]) \in Chunks
  BY <1>1, NodesFinite DEF TypeOK
<1>7. CASE ClaimChunk(t)
  <2>1. PICK k \in todo : /\ todo' = todo \ {k}
                          /\ \E x \in Nodes : /\ ChunkOf(x) = k /\ \A y \in Nodes : ChunkOf(y) = k => x <= y
                                              /\ u' = [u EXCEPT ![t] = x]
    BY <1>7 DEF ClaimChunk
  <2>2. PICK x \in Nodes : ChunkOf(x) = k /\ (\A y \in Nodes : ChunkOf(y) = k => x <= y) /\ u' = [u EXCEPT ![t] = x]
    BY <2>1
  <2>3. pc[t] = "idle" /\ pc' = [pc EXCEPT ![t] = "scan"] /\ UNCHANGED <<parent, curr, old_val>>
    BY <1>7 DEF ClaimChunk, Goto
  <2>4. /\ \A s \in Threads \ {t} : pc'[s] = pc[s] /\ u'[s] = u[s]
        /\ pc'[t] = "scan" /\ u'[t] = x
    BY <1>1, <2>2, <2>3 DEF TypeOK
  <2>5. Visited' = Visited
    BY <2>3 DEF Visited
  <2>6. Tree(d)'
    BY <1>1, <1>2, <1>3, <2>3, <2>5, TreeStays
  <2>7. todo' # Chunks
    BY <1>1, <2>1 DEF TypeOK
  <2>8. Owned'
    <3> SUFFICES ASSUME NEW s \in Threads, pc'[s] \in {"scan", "store"}
                 PROVE  /\ ChunkOf(u'[s]) \notin todo'
                        /\ \A r \in Threads \ {s} : pc'[r] \in {"scan", "store"} => ChunkOf(u'[r]) # ChunkOf(u'[s])
                        /\ pc'[s] = "store" => old_val'[s] = curr'[WordOf(u'[s])]
      BY DEF Owned
    <3> QED
      BY <1>2, <2>1, <2>2, <2>3, <2>4 DEF InBU, Owned
  <2>9. Recorded(d)'
    <3>1. \A s \in Threads : pc'[s] = "store" <=> pc[s] = "store" /\ s # t
      BY <2>3, <2>4
    <3>2. \A s \in Threads : pc'[s] = "store" => u'[s] = u[s]
      BY <2>4
    <3> QED
      BY <1>2, <1>3, <2>3, <2>4, <2>5, <3>1, <3>2, LevelsStay DEF InBU, Recorded, get_bit
  <2>10. Looked'
    <3> SUFFICES ASSUME NEW y \in Nodes, y \notin Visited, Hits(y) # {}, ChunkOf(y) \notin todo'
                 PROVE  \E s \in Threads : Ahead(s, y)'
      BY <1>4, <2>5 DEF Looked
    <3>1. CASE ChunkOf(y) = k
      BY <2>2, <2>4, <3>1 DEF Ahead
    <3>2. CASE ChunkOf(y) # k
      <4>1. PICK s \in Threads : Ahead(s, y)
        BY <1>2, <2>1, <3>2 DEF InBU, Looked
      <4>2. s # t
        BY <2>3, <4>1 DEF Ahead
      <4> QED
        BY <2>4, <4>1, <4>2 DEF Ahead
    <3> QED
      BY <3>1, <3>2
  <2> QED
    BY <2>6, <2>7, <2>8, <2>9, <2>10
<1>8. CASE Scan(t)
  <2>1. pc[t] = "scan" /\ UNCHANGED <<curr, todo>>
    BY <1>8 DEF Scan
  <2>2. ChunkOf(u[t]) \notin todo /\ todo # Chunks
    BY <1>2, <1>6, <2>1 DEF InBU, Owned
  <2>3. CASE parent[u[t]] < 0 /\ Hits(u[t]) # {}
    <3>1. PICK j \in Hits(u[t]) : parent' = [parent EXCEPT ![u[t]] = g.inv[u[t]][j]]
      BY <1>8, <2>3 DEF Scan
    <3> DEFINE x == g.inv[u[t]][j]
    <3>2. /\ old_val' = [old_val EXCEPT ![t] = curr[WordOf(u[t])]] /\ pc' = [pc EXCEPT ![t] = "store"]
          /\ UNCHANGED u
      BY <1>8, <2>3 DEF Scan, Goto
    <3>3. x \in Within[d] /\ HasOutEdge(g, x, u[t])
      <4>1. j \in 1 .. in_degree(g, u[t]) /\ get_bit(front, x)
        BY DEF Hits
      <4>2. x \in Nodes /\ HasInEdge(g, u[t], x)
        BY <1>1, <1>6, <4>1, Neighbours DEF HasInEdge
      <4> QED
        BY <1>1, <1>2, <1>6, <4>1, <4>2, BothEnds DEF BitsOf
    <3>4. u[t] \in Nodes \ Visited
      BY <1>1, <1>6, <2>3 DEF Visited, TypeOK
    <3>5. Tree(d)' /\ Visited' = Visited \cup {u[t]} /\ u[t] \notin Within[d]
      BY <1>1, <1>2, <1>3, <3>1, <3>3, <3>4, TreeGrows
    <3>6. /\ \A s \in Threads \ {t} : pc'[s] = pc[s] /\ u'[s] = u[s] /\ old_val'[s] = old_val[s]
          /\ pc'[t] = "store" /\ u'[t] = u[t] /\ old_val'[t] = curr[WordOf(u[t])]
      BY <1>1, <3>2 DEF TypeOK
    <3>7. Owned'
      BY <1>2, <2>1, <3>6 DEF InBU, Owned
    <3>8. Recorded(d)'
      <4>1. \A s \in Threads : pc[s] = "store" => pc'[s] = "store"
        BY <2>1, <3>6
      <4>2. \A s \in Threads : u'[s] = u[s]
        BY <3>6
      <4>3. \A y \in Visited' \ Within[d] :
              get_bit(curr, y) \/ \E s \in Threads : pc'[s] = "store" /\ u'[s] = y
        BY <1>2, <3>5, <3>6, <4>1, <4>2 DEF InBU, Recorded
      <4>4. \A s \in Threads : pc'[s] = "store" => u'[s] \in Visited' \ Within[d]
        BY <1>2, <3>5, <3>6 DEF InBU, Recorded
      <4>5. \A w \in Words : curr[w] \subseteq Visited' \ Within[d]
        BY <1>2, <3>5 DEF InBU, Recorded
      <4> QED
        BY <1>3, <2>1, <4>3, <4>4, <4>5, LevelsStay DEF Recorded, get_bit
    <3>9. Looked'
      <4> SUFFICES ASSUME NEW y \in Nodes, y \notin Visited', Hits(y) # {}, ChunkOf(y) \notin todo
                   PROVE  \E s \in Threads : Ahead(s, y)'
        BY <1>4, <2>1 DEF Looked
      <4>1. y \notin Visited /\ y # u[t]
        BY <3>5
      <4>2. PICK s \in Threads : Ahead(s, y)
        BY <1>2, <4>1 DEF InBU, Looked
      <4>3. CASE s = t
        BY <1>6, <2>1, <3>6, <4>1, <4>2, <4>3, NodesFinite DEF Ahead
      <4>4. CASE s # t
        BY <3>6, <4>2, <4>4 DEF Ahead
      <4> QED
        BY <4>3, <4>4
    <3> QED
      BY <2>1, <2>2, <3>5, <3>7, <3>8, <3>9
  <2>4. CASE ~(parent[u[t]] < 0 /\ Hits(u[t]) # {})
    <3>1. ScanOrEnd(t, u[t] + 1) /\ UNCHANGED parent
      BY <1>8, <2>4 DEF Scan
    <3>2. /\ \A s \in Threads \ {t} : pc'[s] = pc[s] /\ u'[s] = u[s] /\ old_val'[s] = old_val[s]
          /\ pc'[t] # "store"
          /\ pc'[t] = "scan" => ChunkOf(u'[t]) = ChunkOf(u[t])
          /\ \A y \in Nodes : u[t] < y /\ ChunkOf(y) = ChunkOf(u[t]) => Ahead(t, y)'
      BY <1>1, <1>3, <2>1, <3>1, GoesOn
    <3>3. Visited' = Visited
      BY <3>1 DEF Visited
    <3>4. Tree(d)'
      BY <1>1, <1>2, <1>3, <3>1, <3>3, TreeStays
    <3>5. Owned'
      BY <1>2, <2>1, <3>2 DEF InBU, Owned
    <3>6. Recorded(d)'
      <4>1. \A s \in Threads : pc'[s] = "store" <=> pc[s] = "store"
        BY <2>1, <3>2
      <4>2. \A s \in Threads : pc'[s] = "store" => u'[s] = u[s]
        BY <3>2
      <4> QED
        BY <1>2, <1>3, <2>1, <3>3, <4>1, <4>2, LevelsStay DEF InBU, Recorded, get_bit
    <3>7. Looked'
      <4> SUFFICES ASSUME NEW y \in Nodes, y \notin Visited, Hits(y) # {}, ChunkOf(y) \notin todo
                   PROVE  \E s \in Threads : Ahead(s, y)'
        BY <1>4, <2>1, <3>3 DEF Looked
      <4>1. y # u[t]
        BY <1>1, <1>6, <2>4 DEF Visited, TypeOK
      <4>2. PICK s \in Threads : Ahead(s, y)
        BY <1>2 DEF InBU, Looked
      <4>3. CASE s = t
        <5>1. u[t] < y /\ ChunkOf(y) = ChunkOf(u[t])
          BY <1>6, <2>1, <4>1, <4>2, <4>3, NodesFinite DEF Ahead
        <5> QED
          BY <3>2, <5>1
      <4>4. CASE s # t
        BY <3>2, <4>2, <4>4 DEF Ahead
      <4> QED
        BY <4>3, <4>4
    <3> QED
      BY <2>1, <2>2, <3>4, <3>5, <3>6, <3>7
  <2> QED
    BY <2>3, <2>4
<1>9. CASE Store(t)
  <2>1. /\ pc[t] = "store" /\ UNCHANGED <<todo, parent>> /\ ScanOrEnd(t, u[t] + 1)
        /\ curr' = [curr EXCEPT ![WordOf(u[t])] = old_val[t] \cup {u[t]}]
    BY <1>9 DEF Store, WithBit
  <2>2. /\ \A s \in Threads \ {t} : pc'[s] = pc[s] /\ u'[s] = u[s] /\ old_val'[s] = old_val[s]
        /\ pc'[t] # "store"
        /\ pc'[t] = "scan" => ChunkOf(u'[t]) = ChunkOf(u[t])
        /\ \A y \in Nodes : u[t] < y /\ ChunkOf(y) = ChunkOf(u[t]) => Ahead(t, y)'
    BY <1>1, <1>3, <2>1, GoesOn
  <2>3. /\ ChunkOf(u[t]) \notin todo /\ todo # Chunks /\ old_val[t] = curr[WordOf(u[t])]
        /\ u[t] \in Visited \ Within[d]
    BY <1>2, <1>6, <2>1 DEF InBU, Owned, Recorded
  <2>4. Visited' = Visited
    BY <2>1 DEF Visited
  <2>5. Tree(d)'
    BY <1>1, <1>2, <1>3, <2>1, <2>4, TreeStays
  <2>6. /\ curr'[WordOf(u[t])] = curr[WordOf(u[t])] \cup {u[t]}
        /\ \A w \in Words : w # WordOf(u[t]) => curr'[w] = curr[w]
    BY <1>1, <1>6, <2>1, <2>3 DEF TypeOK, Bitmaps
  <2>7. Owned'
    <3> SUFFICES ASSUME NEW s \in Threads, pc'[s] \in {"scan", "store"}
                 PROVE  /\ ChunkOf(u'[s]) \notin todo
                        /\ \A r \in Threads \ {s} : pc'[r] \in {"scan", "store"} => ChunkOf(u'[r]) # ChunkOf(u'[s])
                        /\ pc'[s] = "store" => old_val'[s] = curr'[WordOf(u'[s])]
      BY <2>1 DEF Owned
    <3>1. /\ ChunkOf(u'[s]) \notin todo
          /\ \A r \in Threads \ {s} : pc'[r] \in {"scan", "store"} => ChunkOf(u'[r]) # ChunkOf(u'[s])
      BY <1>2, <2>1, <2>2 DEF InBU, Owned
    <3>2. ASSUME pc'[s] = "store" PROVE old_val'[s] = curr'[WordOf(u'[s])]
      <4>1. s # t /\ pc[s] = "store" /\ u'[s] = u[s] /\ old_val'[s] = old_val[s] /\ u[s] \in Nodes
        BY <1>1, <2>2, <3>2 DEF TypeOK
      <4>2. ChunkOf(u[s]) # ChunkOf(u[t]) /\ old_val[s] = curr[WordOf(u[s])]
        BY <1>2, <2>1, <4>1 DEF InBU, Owned
      <4>3. WordOf(u[s]) # WordOf(u[t]) /\ WordOf(u[s]) \in Words
        BY <1>6, <4>1, <4>2, ChunksApart, NodesFinite
      <4> QED
        BY <2>6, <4>1, <4>2, <4>3
    <3> QED
      BY <3>1, <3>2
  <2>8. Recorded(d)'
    <3>1. \A w \in Words : curr'[w] \subseteq Visited \ Within[d]
      BY <1>2, <2>3, <2>6 DEF InBU, Recorded
    <3>2. \A s \in Threads : pc'[s] = "store" => u'[s] \in Visited \ Within[d]
      BY <1>2, <2>2 DEF InBU, Recorded
    <3>3. ASSUME NEW y \in Visited \ Within[d], ~get_bit(curr', y)
          PROVE  \E s \in Threads : pc'[s] = "store" /\ u'[s] = y
      <4>1. y \in Nodes /\ WordOf(y) \in Words
        BY NodesFinite DEF Visited
      <4>2. ~get_bit(curr, y) /\ y # u[t]
        BY <2>6, <3>3, <4>1 DEF get_bit
      <4> QED
        BY <1>2, <2>2, <4>2 DEF InBU, Recorded
    <3> QED
      BY <1>3, <2>4, <3>1, <3>2, <3>3, LevelsStay DEF Recorded, get_bit
  <2>9. Looked'
    <3> SUFFICES ASSUME NEW y \in Nodes, y \notin Visited, Hits(y) # {}, ChunkOf(y) \notin todo
                 PROVE  \E s \in Threads : Ahead(s, y)'
      BY <1>4, <2>1, <2>4 DEF Looked
    <3>1. PICK s \in Threads : Ahead(s, y)
      BY <1>2 DEF InBU, Looked
    <3>2. CASE s = t
      BY <2>1, <2>2, <3>1, <3>2 DEF Ahead
    <3>3. CASE s # t
      BY <2>2, <3>1, <3>3 DEF Ahead
    <3> QED
      BY <3>2, <3>3
  <2> QED
    BY <2>1, <2>3, <2>5, <2>7, <2>8, <2>9
<1> QED
  BY <1>7, <1>8, <1>9

\* At the end of a bottom-up step every vertex next to the frontier is visited.
LEMMA BUDone ==
  ASSUME TypeOK, NEW d \in 0 .. NumNodes, Tree(d), InBU(d), Barrier
  PROVE  /\ \A x \in AtDepth(d), y \in Nodes : HasOutEdge(g, x, y) => y \in Visited
         /\ BitsOf(curr) = Visited \ Within[d]
<1>1. ASSUME NEW x \in AtDepth(d), NEW y \in Nodes, HasOutEdge(g, x, y), y \notin Visited PROVE FALSE
  <2>1. x \in Nodes /\ get_bit(front, x)
    BY OneDepth DEF InBU, BitsOf
  <2>2. HasInEdge(g, y, x)
    BY <1>1, <2>1, BothEnds
  <2>3. Hits(y) # {}
    BY <2>1, <2>2 DEF Hits, HasInEdge
  <2> QED
    BY <1>1, <2>3 DEF InBU, Looked, Ahead, Barrier
<1>2. ASSUME NEW y \in Nodes PROVE get_bit(curr, y) <=> y \in Visited \ Within[d]
  <2>1. WordOf(y) \in Words
    BY NodesFinite
  <2> QED
    BY <2>1 DEF InBU, Recorded, Barrier, get_bit
<1> QED
  BY <1>1, <1>2 DEF BitsOf, Visited

\* A step between the parallel loops ends a level, or begins the work on it.
LEMMA RegionKeeps ==
  ASSUME IInv, NEW d \in 0 .. NumNodes, Level(d),
         \/ StartTD \/ EndTD \/ StartQueueToBitmap \/ EndQueueToBitmap \/ NextBUStep \/ BitmapToQueue
         \/ Finish \/ UNCHANGED vars
  PROVE  SearchInv'
<1>0. TypeOK /\ Places /\ Tree(d)
  BY DEF IInv, Level
<1>1. After(d) \in 0 .. NumNodes /\ \A e \in 0 .. NumNodes : Level(e)' => SearchInv'
  BY <1>0, NextLevel, NumNodesAssumption DEF SearchInv
<1>2. \A t \in Threads : phase = "loop" => pc[t] = "idle"
  BY <1>0 DEF TypeOK, Places, Place
<1>3. CASE UNCHANGED vars
  <2>1. Within' = Within /\ \A e : AtDepth(e)' = AtDepth(e)
    BY <1>3, LevelsStay DEF vars
  <2>2. Visited' = Visited /\ BitsOf(front)' = BitsOf(front) /\ \A y : Hits(y)' = Hits(y)
    BY <1>3 DEF vars, Visited, BitsOf, Hits
  <2>3. Tree(d)'
    BY <1>0, <1>3, <2>2, TreeStays DEF vars
  <2>4. AllFollowed => AllFollowed'
    BY <1>3, <2>2 DEF vars, AllFollowed, Followed
  <2>5. InTD(d) => InTD(d)'
    BY <1>3, <2>1, <2>2, <2>4 DEF vars, InTD, v
  <2>6. WholeLevel(d) => WholeLevel(d)'
    BY <1>3, <2>1, <2>2 DEF vars, WholeLevel
  <2>7. InQueueToBitmap(d) => InQueueToBitmap(d)'
    BY <1>3, <2>6 DEF vars, InQueueToBitmap, get_bit
  <2>8. InBU(d) => InBU(d)'
    BY <1>3, <2>1, <2>2 DEF vars, InBU, Owned, Recorded, Looked, Ahead, get_bit
  <2> QED
    BY <1>1, <1>3, <2>1, <2>2, <2>3, <2>5, <2>6, <2>7, <2>8 DEF vars, Level
<1>4. CASE StartTD
  <2>1. phase = "loop" /\ phase' = "TD" /\ todo' = window /\ UNCHANGED <<g, source, parent, window, incoming, front, pc>>
    BY <1>4 DEF StartTD, args, queue, locals
  <2>2. Visited' = Visited /\ WholeLevel(d) /\ BitsOf(front)' = BitsOf(front) /\ BitsOf(front) \subseteq Within[d]
    BY <2>1 DEF Visited, Level, BitsOf
  <2>3. Tree(d)'
    BY <1>0, <2>1, <2>2, TreeStays
  <2>4. AllFollowed'
    BY <2>1 DEF AllFollowed, Followed
  <2>5. InTD(d)'
    BY <1>2, <2>1, <2>2, <2>4, LevelsStay DEF WholeLevel, InTD
  <2> QED
    BY <1>1, <2>1, <2>2, <2>3, <2>5, LevelsStay DEF Level
<1>5. CASE StartQueueToBitmap
  <2>1. /\ phase = "loop" /\ phase' = "QueueToBitmap" /\ todo' = window
        /\ UNCHANGED <<g, source, parent, window, incoming, front, pc>>
    BY <1>5 DEF StartQueueToBitmap, args, queue, locals
  <2>2. Visited' = Visited /\ WholeLevel(d) /\ BitsOf(front)' = BitsOf(front) /\ BitsOf(front) \subseteq Within[d]
    BY <2>1 DEF Visited, Level, BitsOf
  <2>3. Tree(d)'
    BY <1>0, <2>1, <2>2, TreeStays
  <2>4. InQueueToBitmap(d)'
    BY <1>2, <2>1, <2>2, LevelsStay DEF WholeLevel, InQueueToBitmap
  <2> QED
    BY <1>1, <2>1, <2>2, <2>3, <2>4, LevelsStay DEF Level
<1>6. CASE EndTD
  <2>1. /\ phase = "TD" /\ phase' = "loop" /\ window' = incoming /\ incoming' = {} /\ todo' = {} /\ todo = {}
        /\ UNCHANGED <<g, source, parent, front>> /\ \A t \in Threads : pc[t] = "idle"
    BY <1>6 DEF EndTD, Barrier, args
  <2>2. InTD(d) /\ BitsOf(front) \subseteq Within[d]
    BY <2>1 DEF Level
  <2>3. ASSUME NEW x \in AtDepth(d), NEW y \in Nodes, HasOutEdge(g, x, y) PROVE y \in Visited
    <3>1. PICK j \in 1 .. out_degree(g, x) : g.out[x][j] = y
      BY <2>3 DEF HasOutEdge
    <3>2. Followed(x, j)
      BY <2>2 DEF InTD, AllFollowed
    <3> QED
      BY <2>1, <3>1, <3>2 DEF Followed
  <2>4. /\ Tree(After(d))' /\ Visited' = Within[After(d)] /\ Visited = Within[After(d)]
        /\ AtDepth(After(d)) = Visited \ Within[d] /\ Within[d] \subseteq Within[After(d)]
    BY <1>0, <2>1, <2>3, LevelDone
  <2>5. WholeLevel(After(d))'
    BY <2>1, <2>2, <2>4, LevelsStay DEF InTD, WholeLevel
  <2>6. BitsOf(front)' \subseteq Within[After(d)]
    BY <2>1, <2>2, <2>4 DEF BitsOf
  <2> QED
    BY <1>1, <2>1, <2>4, <2>5, <2>6, LevelsStay DEF Level
<1>7. CASE EndQueueToBitmap
  <2>1. /\ phase = "QueueToBitmap" /\ phase' = "BU" /\ window' = incoming /\ incoming' = {}
        /\ curr' = ResetBitmap /\ todo' = Chunks /\ todo = {}
        /\ UNCHANGED <<g, source, parent, front, pc>> /\ \A t \in Threads : pc[t] = "idle"
    BY <1>7 DEF EndQueueToBitmap, BeginBUStep, Barrier, args, locals
  <2>2. Visited' = Visited /\ InQueueToBitmap(d) /\ BitsOf(front)' = BitsOf(front) /\ BitsOf(front) \subseteq Within[d]
    BY <2>1 DEF Visited, Level, BitsOf
  <2>3. AtDepth(d) \subseteq BitsOf(front)
    BY <1>0, <2>1, <2>2, OneDepth DEF InQueueToBitmap, WholeLevel, BitsOf
  <2>4. Tree(d)'
    BY <1>0, <2>1, <2>2, TreeStays
  <2>5. Owned' /\ Looked'
    BY <2>1, NodesFinite DEF Owned, Looked
  <2>6. Recorded(d)'
    BY <2>1, <2>2, LevelsStay DEF Recorded, ResetBitmap, InQueueToBitmap, WholeLevel
  <2>7. InBU(d)'
    BY <2>1, <2>2, <2>3, <2>5, <2>6, LevelsStay DEF InBU, InQueueToBitmap, WholeLevel
  <2> QED
    BY <1>1, <2>1, <2>2, <2>4, <2>7, LevelsStay DEF Level
<1>8. CASE NextBUStep
  <2>1. /\ phase = "BU" /\ phase' = "BU" /\ front' = curr /\ curr' = ResetBitmap /\ todo' = Chunks /\ Barrier
        /\ UNCHANGED <<g, source, parent, window, incoming, pc>> /\ \A t \in Threads : pc[t] = "idle"
    BY <1>8 DEF NextBUStep, BeginBUStep, Barrier, args, queue, locals
  <2>2. InBU(d)
    BY <2>1 DEF Level
  <2>3. /\ Tree(After(d))' /\ Visited' = Within[After(d)] /\ Visited = Within[After(d)]
        /\ AtDepth(After(d)) = Visited \ Within[d] /\ Within[d] \subseteq Within[After(d)]
    BY <1>0, <2>1, <2>2, BUDone, LevelDone
  <2>4. BitsOf(front)' = AtDepth(After(d)) /\ AtDepth(After(d)) \subseteq Within[After(d)]
    <3>1. BitsOf(front)' = BitsOf(curr)
      BY <2>1 DEF BitsOf
    <3> QED
      BY <1>0, <1>1, <2>1, <2>2, <2>3, <3>1, BUDone, OneDepth
  <2>5. Owned' /\ Looked'
    BY <2>1, NodesFinite DEF Owned, Looked
  <2>6. Recorded(After(d))'
    BY <2>1, <2>3, LevelsStay DEF Recorded, ResetBitmap
  <2>7. InBU(After(d))'
    BY <2>1, <2>2, <2>3, <2>4, <2>5, <2>6, LevelsStay DEF InBU
  <2> QED
    BY <1>1, <2>1, <2>3, <2>4, <2>7, LevelsStay DEF Level
<1>9. CASE BitmapToQueue
  <2>1. /\ phase = "BU" /\ phase' = "loop" /\ front' = curr /\ todo' = {} /\ Barrier
        /\ window' = incoming \cup BitsOf(curr) /\ incoming' = {}
        /\ UNCHANGED <<g, source, parent>>
    BY <1>9 DEF BitmapToQueue, Barrier, args
  <2>2. InBU(d)
    BY <2>1 DEF Level
  <2>3. /\ Tree(After(d))' /\ Visited' = Within[After(d)] /\ Visited = Within[After(d)]
        /\ AtDepth(After(d)) = Visited \ Within[d] /\ Within[d] \subseteq Within[After(d)]
    BY <1>0, <2>1, <2>2, BUDone, LevelDone
  <2>4. BitsOf(curr) = AtDepth(After(d)) /\ AtDepth(After(d)) \subseteq Within[After(d)]
    BY <1>0, <1>1, <2>1, <2>2, <2>3, BUDone, OneDepth
  <2>5. BitsOf(front)' = BitsOf(curr)
    BY <2>1 DEF BitsOf
  <2>6. WholeLevel(After(d))'
    BY <2>1, <2>2, <2>3, <2>4, LevelsStay DEF InBU, WholeLevel
  <2> QED
    BY <1>1, <2>1, <2>3, <2>4, <2>5, <2>6, LevelsStay DEF Level
<1>10. CASE Finish
  <2>1. /\ phase = "loop" /\ window = {} /\ phase' = "done" /\ UNCHANGED <<g, source>>
        /\ parent' = [n \in Nodes |-> IF parent[n] < -1 THEN -1 ELSE parent[n]]
    BY <1>10 DEF Finish, args
  <2>2. WholeLevel(d)
    BY <2>1 DEF Level
  <2>3. \A n \in Nodes : parent[n] \in Int
    BY <1>0 DEF TypeOK
  <2>4. /\ \A n \in Nodes : parent[n] >= 0 => parent'[n] = parent[n]
        /\ \A n \in Nodes : parent'[n] >= -1 /\ (parent'[n] >= 0 <=> parent[n] >= 0)
    BY <2>1, <2>3
  <2>5. Visited' = Visited
    BY <2>4 DEF Visited
  <2>6. Tree(d)'
    BY <1>0, <2>1, <2>4, <2>5, TreeStays
  <2>7. Within[d] = Within[NumNodes]
    <3>1. d # 0
      BY <2>1, <2>2 DEF WholeLevel, AtDepth
    <3>2. d \in 1 .. NumNodes /\ NumNodes \in 0 .. NumNodes /\ d - 1 <= NumNodes /\ d - 1 <= d
      BY <3>1, NumNodesAssumption
    <3> QED
      BY <1>0, <2>1, <2>2, <3>2, EmptyLevel DEF WholeLevel
  <2> QED
    BY <1>1, <2>1, <2>2, <2>4, <2>5, <2>6, <2>7, LevelsStay DEF Level, WholeLevel
<1> QED
  BY <1>3, <1>4, <1>5, <1>6, <1>7, <1>8, <1>9, <1>10

\* The first level is the source.
LEMMA SearchBegins == Init => SearchInv
<1> SUFFICES ASSUME Init PROVE SearchInv
  OBVIOUS
<1>1. TypeOK /\ 0 \in 0 .. NumNodes
  BY InitTypes, NumNodesAssumption
<1>2. \A n \in Nodes : parent[n] >= 0 <=> n = source
  <2>1. \A n \in Nodes : out_degree(g, n) \in Nat
    BY <1>1, Neighbours
  <2>2. \A n \in Nodes : parent[n] = IF n = source THEN source
                                     ELSE IF out_degree(g, n) # 0 THEN -out_degree(g, n) ELSE -1
    BY DEF Init, InitParent
  <2>3. source \in Nodes /\ source \in Nat
    BY <1>1, NodesFinite DEF TypeOK
  <2> QED
    BY <2>1, <2>2, <2>3
<1>3. Visited = {source} /\ parent[source] = source
  <2>1. source \in Nodes
    BY <1>1 DEF TypeOK
  <2>2. Visited = {source}
    BY <1>2, <2>1 DEF Visited
  <2> QED
    BY <2>1, <2>2 DEF Init, InitParent
<1>4. Within[0] = {source} /\ AtDepth(0) = {source}
  BY <1>1, WithinSteps DEF AtDepth
<1>5. Tree(0)
  BY <1>3, <1>4 DEF Tree, Near
<1>6. WholeLevel(0)
  BY <1>3, <1>4 DEF WholeLevel, Init
<1>7. BitsOf(front) = {}
  BY NodesFinite DEF Init, BitsOf, get_bit, ResetBitmap
<1>8. Level(0)
  BY <1>5, <1>6, <1>7 DEF Level, Init
<1> QED
  BY <1>1, <1>8 DEF SearchInv

\* The search goes level by level.
LEMMA SearchKeeps == IInv /\ SearchInv /\ [Next]_vars => SearchInv'
<1> SUFFICES ASSUME IInv, SearchInv, [Next]_vars PROVE SearchInv'
  OBVIOUS
<1>1. PICK d \in 0 .. NumNodes : Level(d)
  BY DEF SearchInv
<1>2. Level(d)' => SearchInv'
  BY DEF SearchInv
<1>3. ASSUME NEW t \in Threads, ClaimTD(t) \/ Read(t) \/ CAS(t) PROVE SearchInv'
  BY <1>1, <1>2, <1>3, TDKeeps
<1>4. ASSUME NEW t \in Threads, ClaimQueue(t) \/ Load(t) \/ Swap(t) PROVE SearchInv'
  BY <1>1, <1>2, <1>4, QueueToBitmapKeeps
<1>5. ASSUME NEW t \in Threads, ClaimChunk(t) \/ Scan(t) \/ Store(t) PROVE SearchInv'
  BY <1>1, <1>2, <1>5, BUKeeps
<1>6. CASE \/ StartTD \/ EndTD \/ StartQueueToBitmap \/ EndQueueToBitmap \/ NextBUStep \/ BitmapToQueue
           \/ Finish \/ UNCHANGED vars
  BY <1>1, <1>6, RegionKeeps
<1> QED
  BY <1>3, <1>4, <1>5, <1>6 DEF Next, TDStep, QueueToBitmap, BUStep

-----------------------------------------------------------------------------
(***************************************************************************)
(* What it says at the end.                                                *)
(***************************************************************************)
\* Whole levels, in the words of the property.
LEMMA LevelsSynchronous == IInv /\ SearchInv => LevelSynchronous
<1> SUFFICES ASSUME IInv, SearchInv PROVE LevelSynchronous
  OBVIOUS
<1>1. PICK d \in 0 .. NumNodes : Level(d)
  BY DEF SearchInv
<1>2. QueueFits
  BY NodesFinite, FS_Subset DEF IInv, Queued, QueueFits
<1>3. ASSUME phase = "loop" PROVE window = AtDepth(d) /\ Visited = Within[d]
  BY <1>1, <1>3 DEF Level, WholeLevel
<1>4. ASSUME phase = "BU", todo = Chunks
      PROVE  Visited = Within[d] /\ AtDepth(d) \subseteq BitsOf(front) /\ BitsOf(front) \subseteq Within[d]
  BY <1>1, <1>4 DEF Level, InBU
<1> QED
  BY <1>2, <1>3, <1>4 DEF LevelSynchronous

\* The parents found are a breadth-first tree.
LEMMA TreeFound == IInv /\ SearchInv /\ phase = "done" => IsBFSTree(parent)
<1> SUFFICES ASSUME IInv, SearchInv, phase = "done" PROVE IsBFSTree(parent)
  OBVIOUS
<1>0. TypeOK /\ NumNodes \in Nat
  BY NumNodesAssumption DEF IInv
<1>1. PICK d \in 0 .. NumNodes : Level(d)
  BY DEF SearchInv
<1>2. Tree(d) /\ Visited = Within[NumNodes] /\ \A n \in Nodes : parent[n] \in Int /\ parent[n] >= -1
  BY <1>0, <1>1 DEF Level, TypeOK
<1>3. ASSUME NEW k \in 1 .. NumNodes, NEW y \in AtDepth(k)
      PROVE  \E x \in AtDepth(k - 1) : parent[y] = x /\ HasOutEdge(g, x, y)
  <2>1. k \in 0 .. NumNodes /\ NumNodes \in 0 .. NumNodes /\ 0 \in 0 .. NumNodes
    BY <1>0
  <2>2. y \in Visited
    BY <1>0, <1>2, <2>1, OneDepth, WithinGrows
  <2>3. y # source
    BY <1>0, <2>1, OneDepth, WithinSteps
  <2>4. PICK m \in 1 .. NumNodes : y \in AtDepth(m) /\ parent[y] \in AtDepth(m - 1) /\ HasOutEdge(g, parent[y], y)
    BY <1>2, <2>2, <2>3 DEF Tree, TreeEdge
  <2>5. m = k
    <3>1. m \in 0 .. NumNodes /\ y \in Within[m] /\ y \in Within[k]
      BY <1>0, <2>1, <2>4, OneDepth
    <3>2. m <= k /\ k <= m
      BY <1>0, <2>1, <2>4, <3>1, OneDepth
    <3> QED
      BY <3>2
  <2> QED
    BY <2>4, <2>5
<1>4. ASSUME NEW y \in Nodes \ Within[NumNodes] PROVE parent[y] = -1
  BY <1>2 DEF Visited
<1> QED
  BY <1>2, <1>3, <1>4 DEF IsBFSTree, Tree

\* The depths the serial search has found when it has done a level.
DepthsTo(level, depth) ==
  \A y \in Nodes : /\ \A k \in 0 .. level : depth[y] = k <=> y \in AtDepth(k)
                   /\ y \notin Within[level] => depth[y] = -1

\* One level of the serial search.
LEMMA SerialLevel ==
  ASSUME TypeOK, NEW level \in 1 .. NumNodes, NEW depth \in [Nodes -> Int], DepthsTo(level - 1, depth)
  PROVE  DepthsTo(level, NewDepths(g, level, depth))
<1> DEFINE above == {x \in Nodes : depth[x] = level - 1}
           new == {y \in Nodes : depth[y] = -1 /\ \E x \in above : HasOutEdge(g, x, y)}
<1>0. level - 1 \in 0 .. NumNodes /\ level - 1 \in 0 .. level - 1 /\ level \in 0 .. NumNodes /\ NumNodes \in Nat
  BY NumNodesAssumption
<1>1. above = AtDepth(level - 1)
  BY <1>0, OneDepth DEF DepthsTo
<1>2. \A y \in Nodes : depth[y] = -1 <=> y \notin Within[level - 1]
  <2> SUFFICES ASSUME NEW y \in Within[level - 1], y \in Nodes PROVE depth[y] # -1
    BY DEF DepthsTo
  <2>1. PICK k \in 0 .. level - 1 : y \in AtDepth(k)
    BY <1>0, OneDepth
  <2> QED
    BY <2>1 DEF DepthsTo
<1>3. new = AtDepth(level)
  <2>1. AtDepth(level) = Near(g, Within[level - 1]) \ Within[level - 1]
    BY WithinSteps DEF AtDepth
  <2>2. ASSUME NEW y \in new PROVE y \in AtDepth(level)
    BY <1>0, <1>1, <1>2, <2>1, OneDepth DEF Near
  <2>3. ASSUME NEW y \in AtDepth(level) PROVE y \in new
    <3>1. y \in Nodes /\ y \notin Within[level - 1]
      BY <1>0, <2>1, OneDepth
    <3>2. PICK x \in Within[level - 1] : HasOutEdge(g, x, y)
      BY <2>1, <3>1 DEF Near
    <3>3. x \in AtDepth(level - 1)
      BY <1>0, <3>1, <3>2, NextEdges
    <3> QED
      BY <1>1, <1>2, <3>1, <3>2, <3>3
  <2> QED
    BY <2>2, <2>3
<1>4. \A n \in Nodes : NewDepths(g, level, depth)[n] = IF n \in new THEN level ELSE depth[n]
  BY DEF NewDepths
<1> HIDE DEF above, new
<1>5. ASSUME NEW y \in Nodes, NEW k \in 0 .. level PROVE NewDepths(g, level, depth)[y] = k <=> y \in AtDepth(k)
  <2>1. CASE y \in AtDepth(level)
    <3>1. NewDepths(g, level, depth)[y] = level
      BY <1>3, <1>4, <2>1
    <3>2. ASSUME y \in AtDepth(k) PROVE k = level
      <4>1. y \in Within[k] /\ y \in Within[level] /\ k \in 0 .. NumNodes
        BY <1>0, <2>1, <3>2, OneDepth
      <4>2. k <= level /\ level <= k
        BY <1>0, <2>1, <3>2, <4>1, OneDepth
      <4> QED
        BY <1>0, <4>2
    <3> QED
      BY <2>1, <3>1, <3>2
  <2>2. CASE y \notin AtDepth(level)
    <3>1. NewDepths(g, level, depth)[y] = depth[y]
      BY <1>3, <1>4, <2>2
    <3>2. CASE k # level
      <4>1. k \in 0 .. level - 1
        BY <3>2
      <4> QED
        BY <3>1, <4>1 DEF DepthsTo
    <3>3. CASE k = level
      <4>1. depth[y] # level
        <5>1. CASE y \in Within[level - 1]
          <6>1. PICK m \in 0 .. level - 1 : y \in AtDepth(m)
            BY <1>0, <5>1, OneDepth
          <6> QED
            BY <6>1 DEF DepthsTo
        <5>2. CASE y \notin Within[level - 1]
          BY <1>2, <5>2
        <5> QED
          BY <5>1, <5>2
      <4> QED
        BY <2>2, <3>1, <3>3, <4>1
    <3> QED
      BY <3>2, <3>3
  <2> QED
    BY <2>1, <2>2
<1>6. ASSUME NEW y \in Nodes, y \notin Within[level] PROVE NewDepths(g, level, depth)[y] = -1
  <2>1. y \notin Within[level - 1] /\ y \notin AtDepth(level)
    BY <1>0, <1>6, WithinGrows, OneDepth
  <2> QED
    BY <1>2, <1>3, <1>4, <2>1
<1> QED
  BY <1>5, <1>6 DEF DepthsTo

\* The serial search of the verifier finds the depths.
LEMMA SerialSearchCorrect == ASSUME TypeOK PROVE DepthsTo(NumNodes, SerialDepths(g, source))
<1> DEFINE first == [n \in Nodes |-> IF n = source THEN 0 ELSE -1]
           P(w) == w = [level \in 0 .. NumNodes |-> IF level = 0 THEN first ELSE NewDepths(g, level, w[level - 1])]
           c == CHOOSE w : P(w)
           V == [Nodes -> Int]
<1>1. NumNodes \in Nat /\ first \in V
  BY NumNodesAssumption
<1>2. \A level \in 1 .. NumNodes : \A depth \in V : NewDepths(g, level, depth) \in V
  BY DEF NewDepths
<1> HIDE DEF first
<1>3. PICK h \in [0 .. NumNodes -> V] :
        h[0] = first /\ \A level \in 1 .. NumNodes : h[level] = NewDepths(g, level, h[level - 1])
  <2> DEFINE F == [level \in 1 .. NumNodes |-> [depth \in V |-> NewDepths(g, level, depth)]]
  <2>1. F \in [1 .. NumNodes -> [V -> V]]
    BY <1>2
  <2>2. \A h \in [0 .. NumNodes -> V] : \A level \in 1 .. NumNodes :
          F[level][h[level - 1]] = NewDepths(g, level, h[level - 1])
    BY <1>1
  <2> HIDE DEF F, V
  <2>3. Iterates(NumNodes, V, first, F)
    BY <1>1, <2>1, Recursion
  <2> QED
    BY <2>2, <2>3 DEF Iterates
<1>4. P(h)
  <2>1. \A level \in 0 .. NumNodes : h[level] = IF level = 0 THEN first ELSE NewDepths(g, level, h[level - 1])
    BY <1>1, <1>3
  <2> QED
    BY <2>1
<1>5. P(c)
  BY <1>4
<1>6. SerialDepths(g, source) = c[NumNodes]
  BY DEF SerialDepths, first
<1>7. \A level \in 0 .. NumNodes : c[level] = IF level = 0 THEN first ELSE NewDepths(g, level, c[level - 1])
  BY <1>5
<1> HIDE DEF c, P
<1> DEFINE T == {level \in 0 .. NumNodes : c[level] \in V /\ DepthsTo(level, c[level])}
<1>8. 0 \in T
  <2>1. c[0] = first /\ 0 \in 0 .. NumNodes
    BY <1>1, <1>7
  <2>2. AtDepth(0) = {source} /\ Within[0] = {source}
    BY WithinSteps DEF AtDepth
  <2>3. DepthsTo(0, first)
    BY <2>2 DEF DepthsTo, first
  <2> QED
    BY <1>1, <2>1, <2>3
<1>9. \A k \in 1 .. NumNodes : k - 1 \in T => k \in T
  <2> SUFFICES ASSUME NEW k \in 1 .. NumNodes, k - 1 \in T PROVE k \in T
    OBVIOUS
  <2>1. c[k] = NewDepths(g, k, c[k - 1]) /\ k \in 0 .. NumNodes
    BY <1>1, <1>7
  <2>2. c[k] \in V
    BY <1>2, <2>1
  <2>3. DepthsTo(k, c[k])
    BY <2>1, SerialLevel
  <2> QED
    BY <2>1, <2>2, <2>3
<1> HIDE DEF T
<1>10. \A k \in 0 .. NumNodes : k \in T
  BY <1>1, <1>8, <1>9, Upwards
<1> QED
  BY <1>1, <1>6, <1>10 DEF T

\* BFSVerifier accepts exactly the breadth-first trees (bfs.cc:198-237).
LEMMA VerifierExact ==
  ASSUME TypeOK, NEW tree \in [Nodes -> Nodes \cup {-1}]
  PROVE  BFSVerifier(g, source, tree) <=> IsBFSTree(tree)
<1> DEFINE depth == SerialDepths(g, source)
<1>0. NumNodes \in Nat /\ NumNodes \in 0 .. NumNodes /\ 0 \in 0 .. NumNodes /\ source \in Nodes /\ Nodes \subseteq Nat
  BY NumNodesAssumption, NodesFinite DEF TypeOK
<1>1. \A y \in Nodes, k \in 0 .. NumNodes : depth[y] = k <=> y \in AtDepth(k)
  BY SerialSearchCorrect DEF DepthsTo
<1>2. \A y \in Nodes : depth[y] = -1 <=> y \notin Within[NumNodes]
  <2> SUFFICES ASSUME NEW y \in Within[NumNodes], y \in Nodes PROVE depth[y] # -1
    BY SerialSearchCorrect DEF DepthsTo
  <2>1. PICK k \in 0 .. NumNodes : y \in AtDepth(k)
    BY <1>0, OneDepth
  <2> QED
    BY <1>1, <2>1
<1>3. depth[source] = 0
  <2>1. source \in AtDepth(0)
    BY DEF AtDepth
  <2> QED
    BY <1>0, <1>1, <2>1
<1>4. BFSVerifier(g, source, tree) <=>
        \A x \in Nodes : IF depth[x] # -1 /\ tree[x] # -1
                         THEN IF x = source THEN tree[x] = x
                              ELSE HasInEdge(g, x, tree[x]) /\ depth[tree[x]] = depth[x] - 1
                         ELSE depth[x] = tree[x]
  BY DEF BFSVerifier
<1> HIDE DEF depth
<1>5. ASSUME BFSVerifier(g, source, tree) PROVE IsBFSTree(tree)
  <2>1. tree[source] = source
    BY <1>0, <1>3, <1>4, <1>5
  <2>2. ASSUME NEW k \in 1 .. NumNodes, NEW y \in AtDepth(k)
        PROVE  \E x \in AtDepth(k - 1) : tree[y] = x /\ HasOutEdge(g, x, y)
    <3>1. k \in 0 .. NumNodes /\ k - 1 \in 0 .. NumNodes /\ y \in Nodes
      BY <1>0, OneDepth
    <3>2. depth[y] = k
      BY <1>1, <3>1
    <3>3. y # source
      BY <1>3, <3>2
    <3>4. tree[y] # -1
      BY <1>4, <1>5, <3>1, <3>2
    <3>5. tree[y] \in Nodes
      BY <3>1, <3>4
    <3>6. HasInEdge(g, y, tree[y]) /\ depth[tree[y]] = k - 1
      BY <1>4, <1>5, <3>1, <3>2, <3>3, <3>4
    <3> QED
      BY <1>1, <3>1, <3>5, <3>6, BothEnds
  <2>3. ASSUME NEW y \in Nodes \ Within[NumNodes] PROVE tree[y] = -1
    BY <1>2, <1>4, <1>5
  <2> QED
    BY <2>1, <2>2, <2>3 DEF IsBFSTree
<1>6. ASSUME IsBFSTree(tree) PROVE BFSVerifier(g, source, tree)
  <2> SUFFICES ASSUME NEW x \in Nodes
               PROVE  IF depth[x] # -1 /\ tree[x] # -1
                      THEN IF x = source THEN tree[x] = x
                           ELSE HasInEdge(g, x, tree[x]) /\ depth[tree[x]] = depth[x] - 1
                      ELSE depth[x] = tree[x]
    BY <1>4
  <2>1. CASE x \notin Within[NumNodes]
    BY <1>2, <1>6, <2>1 DEF IsBFSTree
  <2>2. CASE x = source
    BY <1>0, <1>3, <1>6, <2>2 DEF IsBFSTree
  <2>3. CASE x \in Within[NumNodes] /\ x # source
    <3>1. PICK k \in 0 .. NumNodes : x \in AtDepth(k)
      BY <1>0, <2>3, OneDepth
    <3>2. k # 0
      BY <2>3, <3>1 DEF AtDepth
    <3>3. k \in 1 .. NumNodes /\ k - 1 \in 0 .. NumNodes
      BY <1>0, <3>2
    <3>4. tree[x] \in AtDepth(k - 1) /\ HasOutEdge(g, tree[x], x)
      BY <1>6, <3>1, <3>3 DEF IsBFSTree
    <3>5. tree[x] \in Nodes /\ tree[x] # -1
      BY <1>0, <3>3, <3>4, OneDepth
    <3>6. depth[tree[x]] = k - 1 /\ depth[x] = k
      BY <1>1, <3>1, <3>3, <3>4, <3>5
    <3> QED
      BY <2>3, <3>3, <3>4, <3>5, <3>6, BothEnds
  <2> QED
    BY <2>1, <2>2, <2>3
<1> QED
  BY <1>5, <1>6

\* The result is a breadth-first tree, and the verifier can tell.
LEMMA TreesCorrect == IInv /\ SearchInv => TreeCorrect
<1> SUFFICES ASSUME IInv, SearchInv, phase = "done" PROVE TreeCorrect
  BY DEF TreeCorrect
<1>1. TypeOK /\ IsBFSTree(parent)
  BY TreeFound DEF IInv
<1>2. parent \in [Nodes -> Nodes \cup {-1}]
  <2>1. \A n \in Nodes : parent[n] \in Int /\ parent[n] >= -1 /\ parent[n] < NumNodes
    BY <1>1 DEF SearchInv, Level, TypeOK
  <2>2. \A n \in Nodes : parent[n] \in Nodes \cup {-1}
    BY <2>1, NumNodesAssumption DEF Nodes
  <2> QED
    BY <1>1, <2>2 DEF TypeOK
<1>3. ASSUME NEW n \in Nodes, NEW x \in Nodes \cup {-1}
      PROVE  BFSVerifier(g, source, [parent EXCEPT ![n] = x]) <=> IsBFSTree([parent EXCEPT ![n] = x])
  <2>1. [parent EXCEPT ![n] = x] \in [Nodes -> Nodes \cup {-1}]
    BY <1>2
  <2> QED
    BY <1>1, <2>1, VerifierExact
<1> QED
  BY <1>1, <1>3 DEF TreeCorrect

\* All that is known of a run.
FullInv == IInv /\ SearchInv

LEMMA FullInvariant == Spec => []FullInv
<1>1. Init => FullInv
  BY InvariantHolds, SearchBegins DEF FullInv
<1>2. FullInv /\ [Next]_vars => FullInv'
  BY InvariantHolds, SearchKeeps DEF FullInv
<1> QED
  BY <1>1, <1>2, PTL DEF Spec

\* Each step works on one whole level, in both directions (bfs.cc:45-111).
THEOREM WholeLevels == Spec => []LevelSynchronous
<1>1. FullInv => LevelSynchronous
  BY LevelsSynchronous DEF FullInv
<1> QED
  BY <1>1, FullInvariant, PTL

\* The parents are a breadth-first tree, and BFSVerifier accepts such trees and no others.
THEOREM TreeIsBreadthFirst == Spec => []TreeCorrect
<1>1. FullInv => TreeCorrect
  BY TreesCorrect DEF FullInv
<1> QED
  BY <1>1, FullInvariant, PTL
=============================================================================
