------------------------------ MODULE PageRank ------------------------------
(***************************************************************************)
(* PageRank in the pull direction (gapbs/src/pr.cc and pr_spmv.cc).        *)
(*                                                                         *)
(* Each iteration gives every vertex a score from the contributions of its *)
(* in-neighbours.  In pr_spmv the contributions are computed before, from  *)
(* the scores of the last iteration.  In pr a vertex stores its new        *)
(* contribution at once, while other threads add up contributions: what a  *)
(* sum is made of, old and new ones, is decided by the schedule.           *)
(*                                                                         *)
(* Where the code has floats, scores are whole numbers of 1/One, and a     *)
(* quotient is rounded down to one.  A score is read by the thread that    *)
(* writes it only, and a contribution outside the pull loop too, so that   *)
(* only loads and stores of contributions in that loop are steps of their  *)
(* own.  Any free thread may take any vertex: the code hands them out in   *)
(* chunks of 16384.                                                        *)
(***************************************************************************)
EXTENDS CSRGraph, FiniteSetsExt

CONSTANTS
  Threads,    \* the OpenMP team
  Graphs,     \* the graphs the kernel may be given
  max_iters,  \* option -i
  Epsilons,   \* option -t: the tolerances, in 1/One
  One         \* the sum of the initial scores

ASSUME GraphsAssumption == \A gr \in Graphs : IsGraph(gr) /\ IsSimple(gr)
ASSUME NumbersAssumption == /\ max_iters \in Nat \ {0} /\ One \in Nat \ {0}
                            /\ Epsilons \subseteq Nat

VARIABLES
  scheme,            \* "gs" for pr.cc, "spmv" for pr_spmv.cc
  g, epsilon,
  scores, outgoing_contrib,
  iter, error,       \* iterations done, and the sum of the changes in this one
  phase,             \* "contrib", "pull", "done"
  todo,              \* vertices no thread has taken yet
  pc, u, i,          \* per thread: next step, vertex, position in its in-list
  incoming_total

locals == <<pc, u, i, incoming_total>>
vars == <<scheme, g, epsilon, scores, outgoing_contrib, iter, error, phase, todo, pc, u, i,
          incoming_total>>

\* kDamp is 0.85.
Damped(x) == (17 * x) \div 20
init_score == One \div NumNodes
base_score == (One - Damped(One)) \div NumNodes

Abs(x) == IF x < 0 THEN -x ELSE x

\* Without out-edges it is an infinity, which no in-list leads to.
Contribution(score, n) == IF out_degree(g, n) = 0 THEN 0 ELSE score \div out_degree(g, n)

Init ==
  /\ scheme \in {"gs", "spmv"} /\ g \in Graphs /\ epsilon \in Epsilons
  /\ scores = [n \in Nodes |-> init_score]
  /\ outgoing_contrib = [n \in Nodes |-> 0]
  /\ iter = 0 /\ error = 0
  /\ phase = "contrib" /\ todo = {}
  /\ pc = [t \in Threads |-> "idle"]
  /\ u = [t \in Threads |-> 0] /\ i = [t \in Threads |-> 0]
  /\ incoming_total = [t \in Threads |-> 0]

\* The loop without races: once in pr, in each iteration of pr_spmv.
Contribute ==
  /\ phase = "contrib"
  /\ outgoing_contrib' = [n \in Nodes |-> Contribution(scores[n], n)]
  /\ error' = 0 /\ todo' = Nodes /\ phase' = "pull"
  /\ UNCHANGED <<scheme, g, epsilon, scores, iter, locals>>

Claim(t) ==
  /\ phase = "pull" /\ pc[t] = "idle"
  /\ \E n \in todo : /\ todo' = todo \ {n}
                     /\ u' = [u EXCEPT ![t] = n]
  /\ i' = [i EXCEPT ![t] = 1]
  /\ pc' = [pc EXCEPT ![t] = "pull"]
  /\ UNCHANGED <<scheme, g, epsilon, scores, outgoing_contrib, iter, error, phase, incoming_total>>

Pull(t) ==
  /\ pc[t] = "pull" /\ i[t] <= in_degree(g, u[t])
  /\ incoming_total' = [incoming_total EXCEPT ![t] = @ + outgoing_contrib[g.inv[u[t]][i[t]]]]
  /\ i' = [i EXCEPT ![t] = @ + 1]
  /\ UNCHANGED <<scheme, g, epsilon, scores, outgoing_contrib, iter, error, phase, todo, pc, u>>

Return(t) == /\ pc' = [pc EXCEPT ![t] = "idle"]
             /\ u' = [u EXCEPT ![t] = 0] /\ i' = [i EXCEPT ![t] = 0]
             /\ incoming_total' = [incoming_total EXCEPT ![t] = 0]

\* Mutant of Store: the contribution is that of the old score.
StoreOldContribution(t) ==
  /\ pc[t] = "pull" /\ i[t] > in_degree(g, u[t])
  /\ LET new == base_score + Damped(incoming_total[t])
     IN  /\ scores' = [scores EXCEPT ![u[t]] = new]
         /\ error' = error + Abs(new - scores[u[t]])
         /\ outgoing_contrib' =
              IF scheme = "spmv" THEN outgoing_contrib
              ELSE [outgoing_contrib EXCEPT ![u[t]] = Contribution(scores[u[t]], u[t])]
  /\ Return(t)
  /\ UNCHANGED <<scheme, g, epsilon, iter, phase, todo>>

Store(t) ==
  /\ pc[t] = "pull" /\ i[t] > in_degree(g, u[t])
  /\ LET new == base_score + Damped(incoming_total[t])
     IN  /\ scores' = [scores EXCEPT ![u[t]] = new]
         /\ error' = error + Abs(new - scores[u[t]])
         /\ outgoing_contrib' =
              IF scheme = "spmv" THEN outgoing_contrib
              ELSE [outgoing_contrib EXCEPT ![u[t]] = Contribution(new, u[t])]
  /\ Return(t)
  /\ UNCHANGED <<scheme, g, epsilon, iter, phase, todo>>

\* Mutant of EndIteration: nobody waits for the vertices that others still work on.
EndIterationNoWait ==
  /\ phase = "pull" /\ todo = {}
  /\ iter' = iter + 1
  /\ IF error < epsilon \/ iter' = max_iters
     THEN phase' = "done" /\ UNCHANGED <<error, todo>>
     ELSE IF scheme = "spmv" THEN phase' = "contrib" /\ UNCHANGED <<error, todo>>
     ELSE error' = 0 /\ todo' = Nodes /\ UNCHANGED phase
  /\ UNCHANGED <<scheme, g, epsilon, scores, outgoing_contrib, locals>>

EndIteration ==
  /\ phase = "pull" /\ todo = {} /\ \A t \in Threads : pc[t] = "idle"
  /\ iter' = iter + 1
  /\ IF error < epsilon \/ iter' = max_iters
     THEN phase' = "done" /\ UNCHANGED <<error, todo>>
     ELSE IF scheme = "spmv" THEN phase' = "contrib" /\ UNCHANGED <<error, todo>>
     ELSE error' = 0 /\ todo' = Nodes /\ UNCHANGED phase
  /\ UNCHANGED <<scheme, g, epsilon, scores, outgoing_contrib, locals>>

Next == \/ Contribute \/ EndIteration
        \/ \E t \in Threads : Claim(t) \/ Pull(t) \/ Store(t)

Spec == Init /\ [][Next]_vars

-----------------------------------------------------------------------------
\* One iteration in the push direction, from the scores s.
Pushed(s) ==
  LET sums(n) == MapThenSumSet(LAMBDA x : Contribution(s[x], x),
                               {x \in Nodes : HasOutEdge(g, x, n)})
  IN  [n \in Nodes |-> base_score + Damped(sums(n))]

TotalError(s) == MapThenSumSet(LAMBDA n : Abs(Pushed(s)[n] - s[n]), Nodes)

PRVerifier(s, target_error) == TotalError(s) < target_error

\* What rounding adds up to: one unit for each quotient of an iteration.
Slack == num_edges_directed(g) + 2 * NumNodes

(***************************************************************************)
(* Whatever mixture of old and new contributions the sums of the last      *)
(* iteration were made of, it left the scores nearer to their fixpoint     *)
(* than it moved them: one more iteration would move them by at most kDamp *)
(* times as much.  So a kernel that stops because it moved them by less    *)
(* than epsilon passes the verifier, which knows nothing of the schedule;  *)
(* with one score that is off by the whole mass it would not.              *)
(***************************************************************************)
StopsSettled ==
  phase = "done" =>
    /\ 20 * (TotalError(scores) - Slack) <= 17 * error
    /\ error < epsilon /\ epsilon > 10 * Slack => PRVerifier(scores, epsilon)
    /\ 20 * (epsilon + Slack) + 17 * error <= 20 * One =>
         \A n \in Nodes : ~PRVerifier([scores EXCEPT ![n] = @ + One], epsilon)

(***************************************************************************)
(* In pr_spmv no contribution changes while it is read, and the schedule   *)
(* does not show: after k iterations the scores are those of k serial      *)
(* iterations in the push direction.                                       *)
(***************************************************************************)
Reproducible ==
  scheme = "spmv" /\ phase # "pull" =>
    LET after[k \in Nat] == IF k = 0 THEN [n \in Nodes |-> init_score] ELSE Pushed(after[k - 1])
    IN  scores = after[iter]
=============================================================================
