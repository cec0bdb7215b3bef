------------------------------ MODULE Afforest ------------------------------
(***************************************************************************)
(* The Afforest connected-components kernel (gapbs/src/cc.cc).             *)
(*                                                                         *)
(* A team of threads runs a series of parallel loops over the vertices.    *)
(* A link loop calls Link(u, v) for some edges of every vertex u; a        *)
(* compress loop flattens the trees.  The loops share comp without any     *)
(* lock: the one synchronised access is the compare-and-swap in Link, all  *)
(* the others are plain loads and stores that race with it.  Each shared   *)
(* load, store and CAS is a step of its own here, except that comp[n] is   *)
(* read together with comp[comp[n]] by the thread that compresses n, the   *)
(* only one that writes comp[n] then.                                      *)
(***************************************************************************)
EXTENDS CompForest, Verifiers

CONSTANTS
  Threads,    \* the OpenMP team
  Rounds,     \* neighbor_rounds
  Graphs      \* the graphs the kernel may be given

ASSUME RoundsAssumption == Rounds \in Nat \ {0}
ASSUME GraphsAssumption == \A gr \in Graphs : IsGraph(gr)

VARIABLES
  g,          \* the graph
  comp,       \* the forest, shared by all threads
  phase,      \* the loop in progress: "link", "compress"; "sample", "done"
  round,      \* link loops completed; the one with round = Rounds is the last
  c,          \* the component the last link loop skips
  todo,       \* iterations of the loop no thread has taken yet
  pc,         \* what each thread does next, "idle" between iterations
  u,          \* the iteration (vertex) each thread is at
  i,          \* position in the vertex's list of edges
  p1, high, low  \* the locals of Link; p1 also holds a half-read comp[comp[.]]

locals == <<pc, u, i, p1, high, low>>
vars == <<g, comp, phase, round, c, todo, pc, u, i, p1, high, low>>

LinkPCs == {"ReadP1", "ReadP2", "ReadHigh", "CAS", "Hop1", "Hop2", "Hop3"}
CompressPCs == {"Test", "Load", "Store"}
PCs == {"idle", "Skip"} \cup LinkPCs \cup CompressPCs

(***************************************************************************)
(* The edges of vertex x a link loop works on: one neighbour at offset     *)
(* round while sampling, the rest of the out-list in the last loop, then   *)
(* the whole in-list when the graph is directed.                           *)
(***************************************************************************)
EdgeAt(x, j) ==
  IF j <= out_degree(g, x) THEN g.out[x][j] ELSE g.inv[x][j - out_degree(g, x)]

FirstEdge(x) == FirstNeigh(g, x, round)

\* Mutant of AllEdges: the in-list of a directed graph is not processed.
AllEdgesOutOnly(x) == out_degree(g, x)

AllEdges(x) == out_degree(g, x) + (IF g.directed THEN in_degree(g, x) ELSE 0)

LastEdge(x) ==
  IF round < Rounds THEN MinOf(round + 1, out_degree(g, x)) ELSE AllEdges(x)

Init ==
  /\ g \in Graphs
  /\ comp = SelfPointing
  /\ phase = "link"
  /\ round = 0
  /\ c = 0
  /\ todo = Nodes
  /\ pc = [t \in Threads |-> "idle"]
  /\ u = [t \in Threads |-> 0]
  /\ i = [t \in Threads |-> 0]
  /\ p1 = [t \in Threads |-> 0]
  /\ high = [t \in Threads |-> 0]
  /\ low = [t \in Threads |-> 0]

-----------------------------------------------------------------------------
Goto(t, label) == pc' = [pc EXCEPT ![t] = label]

\* The locals of Link go out of scope when it returns.
Forget(t) ==
  /\ p1' = [p1 EXCEPT ![t] = 0]
  /\ high' = [high EXCEPT ![t] = 0]
  /\ low' = [low EXCEPT ![t] = 0]

\* Thread t moves to edge j of vertex x, or ends the iteration after the last.
EdgeOrEnd(t, x, j) ==
  IF j <= LastEdge(x)
  THEN /\ Goto(t, "ReadP1")
       /\ u' = [u EXCEPT ![t] = x]
       /\ i' = [i EXCEPT ![t] = j]
  ELSE /\ Goto(t, "idle")
       /\ u' = [u EXCEPT ![t] = 0]
       /\ i' = [i EXCEPT ![t] = 0]

Return(t) == Forget(t) /\ EdgeOrEnd(t, u[t], i[t] + 1)

\* The test and the head of Link's while loop, with p1 = a and p2 = b.
While(t, a, b) ==
  IF a = b
  THEN Return(t)
  ELSE /\ Goto(t, "ReadHigh")
       /\ high' = [high EXCEPT ![t] = HighOf(a, b)]
       /\ low' = [low EXCEPT ![t] = LowOf(a, b)]
       /\ p1' = [p1 EXCEPT ![t] = 0]
       /\ UNCHANGED <<u, i>>

(***************************************************************************)
(* The scheduler hands iteration n to thread t.                            *)
(***************************************************************************)
ClaimLink(t) ==
  /\ phase = "link"
  /\ pc[t] = "idle"
  /\ \E n \in todo :
       /\ todo' = todo \ {n}
       /\ IF round = Rounds
          THEN /\ Goto(t, "Skip")
               /\ u' = [u EXCEPT ![t] = n]
               /\ i' = i
          ELSE EdgeOrEnd(t, n, FirstEdge(n))
  /\ UNCHANGED <<g, comp, phase, round, c, p1, high, low>>

\* The last link loop: vertices already in component c are not processed.
Skip(t) ==
  /\ pc[t] = "Skip"
  /\ IF comp[u[t]] = c
     THEN /\ Goto(t, "idle")
          /\ u' = [u EXCEPT ![t] = 0]
          /\ i' = i
     ELSE EdgeOrEnd(t, u[t], FirstEdge(u[t]))
  /\ UNCHANGED <<g, comp, phase, round, c, todo, p1, high, low>>
-----------------------------------------------------------------------------
(***************************************************************************)
(* Link(u, v), one shared access at a time.                                *)
(***************************************************************************)
v(t) == EdgeAt(u[t], i[t])

ReadP1(t) ==
  /\ pc[t] = "ReadP1"
  /\ p1' = [p1 EXCEPT ![t] = comp[u[t]]]
  /\ Goto(t, "ReadP2")
  /\ UNCHANGED <<g, comp, phase, round, c, todo, u, i, high, low>>

ReadP2(t) ==
  /\ pc[t] = "ReadP2"
  /\ While(t, p1[t], comp[v(t)])
  /\ UNCHANGED <<g, comp, phase, round, c, todo>>

\* p_high = comp[high]: already low, still a root, or climb.
ReadHigh(t) ==
  /\ pc[t] = "ReadHigh"
  /\ LET p_high == comp[high[t]]
     IN  \/ /\ p_high = low[t]
            /\ Return(t)
         \/ /\ p_high # low[t]
            /\ Goto(t, IF p_high = high[t] THEN "CAS" ELSE "Hop1")
            /\ UNCHANGED <<u, i, p1, high, low>>
  /\ UNCHANGED <<g, comp, phase, round, c, todo>>

\* Mutant of CAS: a plain store of low, whether or not high is still a root.
CASUnchecked(t) ==
  /\ pc[t] = "CAS"
  /\ comp' = [comp EXCEPT ![high[t]] = low[t]]
  /\ Return(t)
  /\ UNCHANGED <<g, phase, round, c, todo>>

\* Mutant of CAS: on failure it is tried again with the same labels.
CASRetry(t) ==
  /\ pc[t] = "CAS"
  /\ \/ /\ comp[high[t]] = high[t]
        /\ comp' = [comp EXCEPT ![high[t]] = low[t]]
        /\ Return(t)
     \/ /\ comp[high[t]] # high[t]
        /\ UNCHANGED <<comp, pc, u, i, p1, high, low>>
  /\ UNCHANGED <<g, phase, round, c, todo>>

\* compare_and_swap(comp[high], high, low)
CAS(t) ==
  /\ pc[t] = "CAS"
  /\ \/ /\ comp[high[t]] = high[t]
        /\ comp' = [comp EXCEPT ![high[t]] = low[t]]
        /\ Return(t)
     \/ /\ comp[high[t]] # high[t]
        /\ Goto(t, "Hop1")
        /\ UNCHANGED <<comp, u, i, p1, high, low>>
  /\ UNCHANGED <<g, phase, round, c, todo>>

\* p1 = comp[comp[high]] is two loads, p2 = comp[low] a third.
Hop1(t) ==
  /\ pc[t] = "Hop1"
  /\ p1' = [p1 EXCEPT ![t] = comp[high[t]]]
  /\ Goto(t, "Hop2")
  /\ UNCHANGED <<g, comp, phase, round, c, todo, u, i, high, low>>

Hop2(t) ==
  /\ pc[t] = "Hop2"
  /\ p1' = [p1 EXCEPT ![t] = comp[p1[t]]]
  /\ Goto(t, "Hop3")
  /\ UNCHANGED <<g, comp, phase, round, c, todo, u, i, high, low>>

Hop3(t) ==
  /\ pc[t] = "Hop3"
  /\ While(t, p1[t], comp[low[t]])
  /\ UNCHANGED <<g, comp, phase, round, c, todo>>

Link(t) ==
  \/ ReadP1(t) \/ ReadP2(t) \/ ReadHigh(t) \/ CAS(t)
  \/ Hop1(t) \/ Hop2(t) \/ Hop3(t)

-----------------------------------------------------------------------------
(***************************************************************************)
(* Compress: while (comp[n] != comp[comp[n]]) comp[n] = comp[comp[n]].     *)
(***************************************************************************)
ClaimCompress(t) ==
  /\ phase = "compress"
  /\ pc[t] = "idle"
  /\ \E n \in todo :
       /\ todo' = todo \ {n}
       /\ u' = [u EXCEPT ![t] = n]
  /\ Goto(t, "Test")
  /\ UNCHANGED <<g, comp, phase, round, c, i, p1, high, low>>

Test(t) ==
  /\ pc[t] = "Test"
  /\ IF comp[u[t]] = comp[comp[u[t]]]
     THEN Goto(t, "idle") /\ u' = [u EXCEPT ![t] = 0]
     ELSE Goto(t, "Load") /\ u' = u
  /\ UNCHANGED <<g, comp, phase, round, c, todo, i, p1, high, low>>

Load(t) ==
  /\ pc[t] = "Load"
  /\ p1' = [p1 EXCEPT ![t] = comp[comp[u[t]]]]
  /\ Goto(t, "Store")
  /\ UNCHANGED <<g, comp, phase, round, c, todo, u, i, high, low>>

\* Mutant of Store: the pointer jumps once, an if in place of the while.
StoreOnce(t) ==
  /\ pc[t] = "Store"
  /\ comp' = [comp EXCEPT ![u[t]] = p1[t]]
  /\ p1' = [p1 EXCEPT ![t] = 0]
  /\ u' = [u EXCEPT ![t] = 0]
  /\ Goto(t, "idle")
  /\ UNCHANGED <<g, phase, round, c, todo, i, high, low>>

Store(t) ==
  /\ pc[t] = "Store"
  /\ comp' = [comp EXCEPT ![u[t]] = p1[t]]
  /\ p1' = [p1 EXCEPT ![t] = 0]
  /\ Goto(t, "Test")
  /\ UNCHANGED <<g, phase, round, c, todo, u, i, high, low>>

Compress(t) == ClaimCompress(t) \/ Test(t) \/ Load(t) \/ Store(t)

-----------------------------------------------------------------------------
(***************************************************************************)
(* The sequential code between the loops.  A loop ends at its implicit     *)
(* barrier, when no iteration is left and no thread is inside one.         *)
(***************************************************************************)
Barrier == todo = {} /\ \A t \in Threads : pc[t] = "idle"

EndLink ==
  /\ phase = "link"
  /\ Barrier
  /\ phase' = "compress"
  /\ round' = round + 1
  /\ todo' = Nodes
  /\ UNCHANGED <<g, comp, c, pc, u, i, p1, high, low>>

\* Mutant of EndCompress: the sampling rounds never give way to the last loop.
EndCompressNoSample ==
  /\ phase = "compress"
  /\ Barrier
  /\ phase' = "link" /\ todo' = Nodes
  /\ UNCHANGED <<g, comp, round, c, pc, u, i, p1, high, low>>

EndCompress ==
  /\ phase = "compress"
  /\ Barrier
  /\ \/ round < Rounds /\ phase' = "link" /\ todo' = Nodes
     \/ round = Rounds /\ phase' = "sample" /\ todo' = todo
     \/ round > Rounds /\ phase' = "done" /\ todo' = todo
  /\ UNCHANGED <<g, comp, round, c, pc, u, i, p1, high, low>>

(***************************************************************************)
(* The most frequent value among 1024 random elements of comp: any element *)
(* may be the one, however rare, since the sample decides.                 *)
(***************************************************************************)
SampleFrequentElement ==
  /\ phase = "sample"
  /\ \E n \in Nodes : c' = comp[n]
  /\ phase' = "link"
  /\ todo' = Nodes
  /\ UNCHANGED <<g, comp, round, pc, u, i, p1, high, low>>

Thread(t) == ClaimLink(t) \/ Skip(t) \/ Link(t) \/ Compress(t)

Next ==
  \/ \E t \in Threads : Thread(t)
  \/ EndLink \/ EndCompress \/ SampleFrequentElement

Spec == Init /\ [][Next]_vars

(***************************************************************************)
(* The operating system runs every thread of the team, and the master goes *)
(* on after a barrier.                                                     *)
(***************************************************************************)
Fairness ==
  /\ \A t \in Threads : WF_vars(Thread(t))
  /\ WF_vars(EndLink) /\ WF_vars(EndCompress) /\ WF_vars(SampleFrequentElement)

FairSpec == Spec /\ Fairness

-----------------------------------------------------------------------------
TypeOK ==
  /\ g \in Graphs
  /\ comp \in [Nodes -> Nodes]
  /\ phase \in {"link", "compress", "sample", "done"}
  /\ round \in 0 .. (Rounds + 1)
  /\ c \in Nodes
  /\ todo \subseteq Nodes
  /\ pc \in [Threads -> PCs]
  /\ u \in [Threads -> Nodes]
  /\ i \in [Threads -> Nat]
  /\ p1 \in [Threads -> Nodes]
  /\ high \in [Threads -> Nodes]
  /\ low \in [Threads -> Nodes]

(***************************************************************************)
(* The result of Afforest (CCVerifier checks the same of a run): vertices  *)
(* have one label exactly when they are connected, although every Link may *)
(* race with every other, and the last loop skips the vertices of one      *)
(* component together with their unprocessed edges.                        *)
(***************************************************************************)
Correct == phase = "done" => LabelsComponents(g, comp)

\* comp with the label of one vertex, or one label altogether, replaced.
Altered ==
  {[comp EXCEPT ![n] = l] : n, l \in Nodes}
    \cup {[n \in Nodes |-> IF comp[n] = k THEN l ELSE comp[n]] : k, l \in Nodes}

(***************************************************************************)
(* A PASS of CCVerifier means something: it accepts the result (k = l) and *)
(* of the labelings that differ from it a little exactly those that still  *)
(* label the connected components.                                         *)
(***************************************************************************)
VerifierExact ==
  phase = "done" => \A labels \in Altered : CCVerifier(g, labels) <=> LabelsComponents(g, labels)

(***************************************************************************)
(* Compress leaves trees of depth one even though each thread climbs       *)
(* through parents that other threads are moving: a vertex no thread has   *)
(* still to process points at a root.                                      *)
(***************************************************************************)
Compressed ==
  phase = "compress" =>
    \A n \in Nodes \ (todo \cup {u[t] : t \in {s \in Threads : pc[s] # "idle"}}) :
      IsRoot(comp, comp[n])

(***************************************************************************)
(* No step takes two vertices of one tree apart: what a Link has joined,   *)
(* neither a concurrent Link (whose CAS may only move a root) nor a        *)
(* concurrent or later Compress undoes.                                    *)
(***************************************************************************)
NeverSplit ==
  [][\A x, y \in Nodes : Linked(comp, x, y) => Linked(comp', x, y)]_vars

\* The climb in Link and the one in Compress both end, whatever the others do.
Termination == <>(phase = "done")
=============================================================================
