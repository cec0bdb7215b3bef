-------------------------- MODULE ShiloachVishkin --------------------------
(***************************************************************************)
(* The Shiloach-Vishkin connected-components kernel (gapbs/src/cc_sv.cc).  *)
(*                                                                         *)
(* A round is a parallel loop that hooks the root of one end of an edge    *)
(* under the label of the other, and a parallel loop that flattens the     *)
(* trees; rounds go on until one sets no change.  Nothing is atomic: the   *)
(* test that high_comp is a root and the store that hooks it are separate, *)
(* so two threads can hook one root twice, and the second store undoes the *)
(* first.  Each shared load and store is a step, except that comp[n] is    *)
(* read together with comp[comp[n]] in the second loop, where one thread   *)
(* only writes comp[n].                                                    *)
(***************************************************************************)
EXTENDS CompForest

CONSTANTS
  Threads,    \* the OpenMP team
  Graphs      \* the graphs the kernel may be given

ASSUME GraphsAssumption == \A gr \in Graphs : IsGraph(gr)

VARIABLES
  g,          \* the graph
  comp,       \* the labels, shared by all threads
  change,     \* did a thread hook in this round
  phase,      \* the loop in progress: "hook" or "compress"; "done" after both
  todo,       \* iterations of the loop no thread has taken yet
  pc,         \* what each thread does next, "idle" between iterations
  u,          \* the iteration (vertex) each thread is at
  i,          \* position in the vertex's adjacency list
  label,      \* comp_u, and in the second loop a loaded comp[comp[n]]
  high, low   \* high_comp and low_comp

vars == <<g, comp, change, phase, todo, pc, u, i, label, high, low>>

HookPCs == {"ReadCompU", "ReadCompV", "TestRoot", "SetChange", "Hook"}
CompressPCs == {"Test", "Load", "Store"}
PCs == {"idle"} \cup HookPCs \cup CompressPCs

\* comp[n] = n for every n, change = true: the while loop is entered.
Init ==
  /\ g \in Graphs
  /\ comp = SelfPointing
  /\ change = FALSE
  /\ phase = "hook"
  /\ todo = Nodes
  /\ pc = [t \in Threads |-> "idle"]
  /\ u = [t \in Threads |-> 0]
  /\ i = [t \in Threads |-> 0]
  /\ label = [t \in Threads |-> 0]
  /\ high = [t \in Threads |-> 0]
  /\ low = [t \in Threads |-> 0]

-----------------------------------------------------------------------------
Goto(t, where) == pc' = [pc EXCEPT ![t] = where]

\* Thread t moves to edge j of vertex x, or ends the iteration after the last.
EdgeOrEnd(t, x, j) ==
  /\ label' = [label EXCEPT ![t] = 0]
  /\ high' = [high EXCEPT ![t] = 0]
  /\ low' = [low EXCEPT ![t] = 0]
  /\ IF j <= out_degree(g, x)
     THEN /\ Goto(t, "ReadCompU")
          /\ u' = [u EXCEPT ![t] = x]
          /\ i' = [i EXCEPT ![t] = j]
     ELSE /\ Goto(t, "idle")
          /\ u' = [u EXCEPT ![t] = 0]
          /\ i' = [i EXCEPT ![t] = 0]

NextEdge(t) == EdgeOrEnd(t, u[t], i[t] + 1)

v(t) == g.out[u[t]][i[t]]

\* Mutant of ClaimHook: change is reset inside the parallel loop.
ClaimHookResets(t) ==
  /\ phase = "hook"
  /\ pc[t] = "idle"
  /\ \E n \in todo : todo' = todo \ {n} /\ EdgeOrEnd(t, n, 1)
  /\ change' = FALSE
  /\ UNCHANGED <<g, comp, phase>>

ClaimHook(t) ==
  /\ phase = "hook"
  /\ pc[t] = "idle"
  /\ \E n \in todo : todo' = todo \ {n} /\ EdgeOrEnd(t, n, 1)
  /\ UNCHANGED <<g, comp, change, phase>>

ReadCompU(t) ==
  /\ pc[t] = "ReadCompU"
  /\ label' = [label EXCEPT ![t] = comp[u[t]]]
  /\ Goto(t, "ReadCompV")
  /\ UNCHANGED <<g, comp, change, phase, todo, u, i, high, low>>

\* Mutant of ReadCompV: comp_u is hooked under comp_v without the min-max swap.
ReadCompVNoSwap(t) ==
  /\ pc[t] = "ReadCompV"
  /\ LET comp_u == label[t]
         comp_v == comp[v(t)]
     IN  IF comp_u = comp_v
         THEN NextEdge(t)
         ELSE /\ high' = [high EXCEPT ![t] = comp_u]
              /\ low' = [low EXCEPT ![t] = comp_v]
              /\ label' = [label EXCEPT ![t] = 0]
              /\ Goto(t, "TestRoot")
              /\ UNCHANGED <<u, i>>
  /\ UNCHANGED <<g, comp, change, phase, todo>>

\* comp_v is read; equal labels need no hook, others are put in order.
ReadCompV(t) ==
  /\ pc[t] = "ReadCompV"
  /\ LET comp_u == label[t]
         comp_v == comp[v(t)]
     IN  IF comp_u = comp_v
         THEN NextEdge(t)
         ELSE /\ high' = [high EXCEPT ![t] = HighOf(comp_u, comp_v)]
              /\ low' = [low EXCEPT ![t] = LowOf(comp_u, comp_v)]
              /\ label' = [label EXCEPT ![t] = 0]
              /\ Goto(t, "TestRoot")
              /\ UNCHANGED <<u, i>>
  /\ UNCHANGED <<g, comp, change, phase, todo>>

TestRoot(t) ==
  /\ pc[t] = "TestRoot"
  /\ IF high[t] = comp[high[t]]
     THEN Goto(t, "SetChange") /\ UNCHANGED <<u, i, label, high, low>>
     ELSE NextEdge(t)
  /\ UNCHANGED <<g, comp, change, phase, todo>>

\* Mutant of SetChange: only the hook of a root's own vertex counts as a change.
SetChangeOwn(t) ==
  /\ pc[t] = "SetChange"
  /\ change' = (change \/ high[t] = u[t])
  /\ Goto(t, "Hook")
  /\ UNCHANGED <<g, comp, phase, todo, u, i, label, high, low>>

SetChange(t) ==
  /\ pc[t] = "SetChange"
  /\ change' = TRUE
  /\ Goto(t, "Hook")
  /\ UNCHANGED <<g, comp, phase, todo, u, i, label, high, low>>

\* comp[high_comp] = low_comp, whatever happened to high_comp since the test.
Hook(t) ==
  /\ pc[t] = "Hook"
  /\ comp' = [comp EXCEPT ![high[t]] = low[t]]
  /\ NextEdge(t)
  /\ UNCHANGED <<g, change, phase, todo>>

HookLoop(t) ==
  \/ ClaimHook(t) \/ ReadCompU(t) \/ ReadCompV(t)
  \/ TestRoot(t) \/ SetChange(t) \/ Hook(t)

-----------------------------------------------------------------------------
ClaimCompress(t) ==
  /\ phase = "compress"
  /\ pc[t] = "idle"
  /\ \E n \in todo :
       /\ todo' = todo \ {n}
       /\ u' = [u EXCEPT ![t] = n]
  /\ Goto(t, "Test")
  /\ UNCHANGED <<g, comp, change, phase, i, label, high, low>>

\* Mutant of Test: climb until comp[n] is n itself.
TestSelf(t) ==
  /\ pc[t] = "Test"
  /\ IF comp[u[t]] = u[t]
     THEN Goto(t, "idle") /\ u' = [u EXCEPT ![t] = 0]
     ELSE Goto(t, "Load") /\ u' = u
  /\ UNCHANGED <<g, comp, change, phase, todo, i, label, high, low>>

Test(t) ==
  /\ pc[t] = "Test"
  /\ IF comp[u[t]] = comp[comp[u[t]]]
     THEN Goto(t, "idle") /\ u' = [u EXCEPT ![t] = 0]
     ELSE Goto(t, "Load") /\ u' = u
  /\ UNCHANGED <<g, comp, change, phase, todo, i, label, high, low>>

Load(t) ==
  /\ pc[t] = "Load"
  /\ label' = [label EXCEPT ![t] = comp[comp[u[t]]]]
  /\ Goto(t, "Store")
  /\ UNCHANGED <<g, comp, change, phase, todo, u, i, high, low>>

Store(t) ==
  /\ pc[t] = "Store"
  /\ comp' = [comp EXCEPT ![u[t]] = label[t]]
  /\ label' = [label EXCEPT ![t] = 0]
  /\ Goto(t, "Test")
  /\ UNCHANGED <<g, change, phase, todo, u, i, high, low>>

CompressLoop(t) == ClaimCompress(t) \/ Test(t) \/ Load(t) \/ Store(t)

-----------------------------------------------------------------------------
\* A loop ends when no iteration is left and no thread is inside one.
Barrier == todo = {} /\ \A t \in Threads : pc[t] = "idle"

EndHook ==
  /\ phase = "hook"
  /\ Barrier
  /\ phase' = "compress"
  /\ todo' = Nodes
  /\ UNCHANGED <<g, comp, change, pc, u, i, label, high, low>>

\* while (change): one more round, or the labels are returned.
EndCompress ==
  /\ phase = "compress"
  /\ Barrier
  /\ \/ change /\ phase' = "hook" /\ change' = FALSE /\ todo' = Nodes
     \/ ~change /\ phase' = "done" /\ UNCHANGED <<change, todo>>
  /\ UNCHANGED <<g, comp, pc, u, i, label, high, low>>

Thread(t) == HookLoop(t) \/ CompressLoop(t)

Next == (\E t \in Threads : Thread(t)) \/ EndHook \/ EndCompress

Spec == Init /\ [][Next]_vars

\* Every thread of the team runs; the master goes on after a barrier.
Fairness ==
  /\ \A t \in Threads : WF_vars(Thread(t))
  /\ WF_vars(EndHook) /\ WF_vars(EndCompress)

FairSpec == Spec /\ Fairness

-----------------------------------------------------------------------------
TypeOK ==
  /\ g \in Graphs
  /\ comp \in [Nodes -> Nodes]
  /\ change \in BOOLEAN
  /\ phase \in {"hook", "compress", "done"}
  /\ todo \subseteq Nodes
  /\ pc \in [Threads -> PCs]
  /\ u \in [Threads -> Nodes]
  /\ i \in [Threads -> Nat]
  /\ label \in [Threads -> Nodes]
  /\ high \in [Threads -> Nodes]
  /\ low \in [Threads -> Nodes]

(***************************************************************************)
(* The result (what CCVerifier checks of a run): one label exactly for     *)
(* connected vertices.  A hook that another thread's store undoes within   *)
(* the round must not be lost: some later round has to make up for it.     *)
(***************************************************************************)
Correct == phase = "done" => LabelsComponents(g, comp)

(***************************************************************************)
(* The flag is not set too late or reset too early: when a hook loop is    *)
(* over and change is still false, every edge has equal labels at its      *)
(* ends, so leaving the while loop is right.                               *)
(***************************************************************************)
NoChangeNoWork ==
  phase # "hook" /\ ~change =>
    \A x, y \in Nodes : HasOutEdge(g, x, y) => comp[x] = comp[y]

(***************************************************************************)
(* Racing hooks never make a cycle or a root again: a vertex that stopped  *)
(* being a root points to a lower one ever after.  The number of rounds    *)
(* is bounded by it.                                                       *)
(***************************************************************************)
RootsOnlyFall ==
  [][\A x \in Nodes : comp[x] # x => comp'[x] < x]_vars

\* The rounds come to an end although one round may undo its own hooks.
Termination == <>(phase = "done")
=============================================================================
