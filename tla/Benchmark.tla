----------------------------- MODULE Benchmark -----------------------------
(***************************************************************************)
(* The driver of the kernels (gapbs/src/benchmark.h), as main of bc.cc     *)
(* uses it: trials of Brandes, each followed by the analysis and the       *)
(* verification that were asked for.                                       *)
(*                                                                         *)
(* The kernel and the verifier draw their sources from two pickers of      *)
(* their own, whose engines have the same seed: that a verifier works on   *)
(* the sources the kernel had rests on both drawing equally often.  The    *)
(* numbers of the engines are chosen when one of them is the first to      *)
(* draw; for the other they are then coming.                               *)
(***************************************************************************)
EXTENDS Brandes, TLC

CONSTANTS
  Options,   \* records [num_trials, analysis, verify, start_vertex] of the command line
  kTop,      \* how many scores are printed (5 in the code)
  MaxDraws   \* bound: numbers one engine may be ahead of the other

VARIABLES
  cli,       \* the options
  trial,     \* the trial that runs, from 1
  stage,     \* what BenchmarkKernel does: "kernel", "stats", "verify" or "done"
  coming,    \* per picker: the next numbers of its engine, as far as they are chosen
  vsources,  \* the sources the verifier picked in this trial
  verdict,   \* of the last verification
  top        \* what was printed in the analysis

driverVars == <<cli, trial, stage, coming, vsources, verdict, top>>
benchmarkVars == <<vars, driverVars>>

Pickers == {"sp", "vsp"}

BenchmarkInit ==
  /\ BrandesInit
  /\ cli \in Options
  /\ trial = 1 /\ stage = "kernel"
  /\ coming = [p \in Pickers |-> <<>>]
  /\ vsources = <<>> /\ verdict = "none" /\ top = <<>>

\* udist(rng) of picker p gives x.
Draw(p, x) ==
  IF coming[p] # <<>>
  THEN x = Head(coming[p]) /\ coming' = [coming EXCEPT ![p] = Tail(@)]
  ELSE /\ \A q \in Pickers : Len(coming[q]) < MaxDraws
       /\ coming' = [q \in Pickers |-> IF q = p THEN <<>> ELSE Append(coming[q], x)]

\* PickNext returns x: the one given, or one drawn that has neighbours.
PickNext(p, x) ==
  IF cli.start_vertex # -1 THEN x = cli.start_vertex /\ UNCHANGED coming
                           ELSE out_degree(g, x) # 0 /\ Draw(p, x)

\* PickNext draws a vertex without neighbours, and goes on.
Redraw(p) ==
  /\ cli.start_vertex = -1
  /\ \E x \in Nodes : out_degree(g, x) = 0 /\ Draw(p, x)

\* Whether picker p is being asked for a source.
Asked(p) == IF p = "sp" THEN stage = "kernel" /\ part = "pick"
                        ELSE cli.verify /\ stage = "verify" /\ Len(vsources) < num_iters

PickAgain ==
  /\ \E p \in Pickers : Asked(p) /\ Redraw(p)
  /\ UNCHANGED <<vars, cli, trial, stage, vsources, verdict, top>>

BeginSource ==
  /\ Asked("sp")
  /\ \E x \in Nodes : PickNext("sp", x) /\ Begin(x)
  /\ UNCHANGED <<cli, trial, stage, vsources, verdict, top>>

Kernel ==
  /\ stage = "kernel" /\ (PBFS \/ Accumulate \/ NextDepth \/ Normalize)
  /\ UNCHANGED driverVars

\* The statistics are those of the last trial.
Return ==
  /\ stage = "kernel" /\ part = "done"
  /\ stage' = IF cli.analysis /\ trial = cli.num_trials THEN "stats" ELSE "verify"
  /\ UNCHANGED <<vars, cli, trial, coming, vsources, verdict, top>>

(***************************************************************************)
(* TopK over <<score, vertex>>, the pairs in the order of the vertices.    *)
(***************************************************************************)
Greater(a, b) == a[1] > b[1] \/ (a[1] = b[1] /\ a[2] > b[2])

TopK(s, k) ==
  LET after[n \in 0 .. NumNodes] ==
        IF n = 0 THEN <<>>
        ELSE LET top_k == after[n - 1]
                 min_so_far == IF top_k = <<>> THEN 0 ELSE top_k[Len(top_k)][1]
                 sorted == SortSeq(Append(top_k, <<s[n - 1], n - 1>>), Greater)
             IN  IF Len(top_k) < k \/ s[n - 1] > min_so_far
                 THEN IF Len(sorted) > k THEN SubSeq(sorted, 1, k) ELSE sorted
                 ELSE top_k
  IN  after[NumNodes]

PrintTopScores ==
  /\ stage = "stats"
  /\ top' = TopK(scores, kTop)
  /\ stage' = "verify"
  /\ UNCHANGED <<vars, cli, trial, coming, vsources, verdict>>

\* Mutant of VerifierPicks: the verifier uses the picker of the kernel.
VerifierPicksOn ==
  /\ Asked("vsp")
  /\ \E x \in Nodes : PickNext("sp", x) /\ vsources' = Append(vsources, x)
  /\ UNCHANGED <<vars, cli, trial, stage, verdict, top>>

VerifierPicks ==
  /\ Asked("vsp")
  /\ \E x \in Nodes : PickNext("vsp", x) /\ vsources' = Append(vsources, x)
  /\ UNCHANGED <<vars, cli, trial, stage, verdict, top>>

Verify ==
  /\ stage = "verify" /\ cli.verify /\ Len(vsources) = num_iters
  /\ verdict' = IF BCVerifier(g, vsources, Unit, scores, biggest_score) THEN "PASS" ELSE "FAIL"
  /\ stage' = "trial over"
  /\ UNCHANGED <<vars, cli, trial, coming, vsources, top>>

\* The next trial begins with a call of the kernel; its locals are gone.
EndTrial ==
  /\ stage = IF cli.verify THEN "trial over" ELSE "verify"
  /\ IF trial < cli.num_trials
     THEN /\ trial' = trial + 1 /\ stage' = "kernel"
          /\ part' = "pick" /\ sources' = <<>>
          /\ scores' = [n \in Nodes |-> 0] /\ biggest_score' = 0
     ELSE stage' = "done" /\ UNCHANGED <<trial, part, sources, scores, biggest_score>>
  /\ vsources' = <<>>
  /\ UNCHANGED <<g, bfs, levels, deltas, d, pending, threadVars, cli, coming, verdict, top>>

BenchmarkNext ==
  \/ PickAgain \/ BeginSource \/ Kernel \/ Return
  \/ PrintTopScores \/ VerifierPicks \/ Verify \/ EndTrial

BenchmarkSpec == BenchmarkInit /\ [][BenchmarkNext]_benchmarkVars

-----------------------------------------------------------------------------
\* result lists the k biggest scores, in order, each vertex once.
IsTop(result, k) ==
  /\ Len(result) = Min({k, NumNodes})
  /\ \A j \in DOMAIN result : result[j][1] = scores[result[j][2]]
  /\ \A j \in 1 .. (Len(result) - 1) : Greater(result[j], result[j + 1])
  /\ \A x \in Nodes : \/ \E j \in DOMAIN result : result[j][2] = x
                      \/ scores[x] <= result[Len(result)][1]

(***************************************************************************)
(* In every trial the verifier has picked the same sources as the kernel,  *)
(* and it accepts what the kernel returned, however its threads ran and    *)
(* whatever the divisions round off.                                       *)
(***************************************************************************)
TrialsVerified ==
  /\ stage = "trial over" => vsources = sources /\ verdict = "PASS"
  /\ verdict # "FAIL"

(***************************************************************************)
(* The scores of every trial are exact, whatever an earlier source or      *)
(* trial left in the arrays, and what is printed in the end are the        *)
(* biggest ones of the last trial.                                         *)
(***************************************************************************)
ScoresPrinted ==
  /\ ScoresExact
  /\ top # <<>> => trial = cli.num_trials /\ IsTop(top, kTop)
=============================================================================
