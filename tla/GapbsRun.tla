------------------------------ MODULE GapbsRun ------------------------------
(***************************************************************************)
(* Measuring the kernels (run-gapbs.sh, run-gapbs-pin.sh and the scripts   *)
(* collect-gapbs.sh and coalesce-bytes.sh of both trees) and what the      *)
(* report then shows (gapbs_rows of compare-zray-pin.py).                  *)
(*                                                                         *)
(* A figure is represented by the number of the script it was measured by, *)
(* a log of a tool likewise; 0 stands for a missing one.  No script uses   *)
(* set -e: a kernel that is not built, or that fails, is passed over, and  *)
(* what its lines then find is part of the model.  Kill ends a script      *)
(* between any two steps.                                                  *)
(***************************************************************************)
EXTENDS Integers, Sequences, FiniteSets, SequencesExt

CONSTANTS
  NumKernels,   \* bc, bfs, ..., in the order of the scripts
  MaxScripts,   \* bound: how often a script is started
  MaxMishaps    \* bound: incomplete builds, failing runs and kills

ASSUME NumKernelsAssumption == NumKernels \in Nat \ {0}

VARIABLES
  tool,     \* whose script runs
  line,     \* where it is
  kernel,   \* the next kernel of the loop
  number,   \* scripts started so far
  tree,     \* per tool and kernel: what its directory has
  stats,    \* zray-gapbs-stats.csv and pin-gapbs-stats.csv: their rows
  bytes,    \* zray-byte-stats.csv and pin-byte-stats.csv
  mishaps

gapbsVars == <<tool, line, kernel, number, tree, stats, bytes, mishaps>>

Tools == {"zray", "pin"}
Kernels == 1 .. NumKernels

\* Of a directory: whether it is there, whether the kernel is in it, and the log.
NoDir == [there |-> FALSE, bin |-> FALSE, log |-> 0]

GapbsInit ==
  /\ tool = "none" /\ line = "idle" /\ kernel = 0 /\ number = 0
  /\ tree = [t \in Tools |-> [k \in Kernels |-> NoDir]]
  /\ stats = [t \in Tools |-> <<>>] /\ bytes = [t \in Tools |-> <<>>]
  /\ mishaps = 0

Mishap == mishaps < MaxMishaps /\ mishaps' = mishaps + 1

\* The loop goes on with the next kernel, and after the last at line next.
NextKernel(next) ==
  IF kernel < NumKernels THEN kernel' = kernel + 1 /\ line' = line
                         ELSE kernel' = 1 /\ line' = next

\* Mutant of StartScript: the summary of the last script is not removed.
StartOverRows(t) ==
  /\ tool = "none" /\ number < MaxScripts
  /\ tool' = t /\ line' = "clean" /\ kernel' = 1
  /\ number' = number + 1
  /\ UNCHANGED <<tree, stats, bytes, mishaps>>

\* rm -f: the ZRay script leaves the bytes to coalesce-bytes.sh.
StartScript(t) ==
  /\ tool = "none" /\ number < MaxScripts
  /\ tool' = t /\ line' = "clean" /\ kernel' = 1
  /\ number' = number + 1
  /\ stats' = [stats EXCEPT ![t] = <<>>]
  /\ bytes' = [bytes EXCEPT ![t] = IF t = "pin" THEN <<>> ELSE @]
  /\ UNCHANGED <<tree, mishaps>>

\* make clean, which removes the directories with the logs in them.
Clean ==
  /\ line = "clean"
  /\ tree' = [tree EXCEPT ![tool][kernel] = NoDir]
  /\ NextKernel("make")
  /\ UNCHANGED <<tool, number, stats, bytes, mishaps>>

\* A make that fails leaves kernels without a directory, or without a binary in it.
Make ==
  /\ line = "make"
  /\ \E there \in SUBSET Kernels : \E built \in SUBSET there :
       /\ IF built = Kernels THEN mishaps' = mishaps ELSE Mishap
       /\ tree' = [tree EXCEPT ![tool] =
                     [k \in Kernels |-> [NoDir EXCEPT !.there = k \in there, !.bin = k \in built]]]
  /\ line' = "measure" /\ kernel' = 1
  /\ UNCHANGED <<tool, number, stats, bytes>>

\* The control run, the removal of the log, and the run under the tool.  A run
\* that fails leaves no log or the part it had written.
Measure ==
  /\ line = "measure" /\ tree[tool][kernel].there
  /\ \E log \in {0, number} :
       /\ log = number => tree[tool][kernel].bin
       /\ \/ tree[tool][kernel].bin /\ log = number /\ mishaps' = mishaps
          \/ tree[tool][kernel].bin /\ Mishap
          \/ ~tree[tool][kernel].bin /\ mishaps' = mishaps
       /\ tree' = [tree EXCEPT ![tool][kernel].log = log]
  /\ line' = "row"
  /\ UNCHANGED <<tool, kernel, number, stats, bytes>>

\* Elapsed time is that of this run, whether it failed or not; sums come from the log.
AppendStats ==
  /\ line = "row"
  /\ stats' = [stats EXCEPT ![tool] =
                 Append(@, [name |-> kernel, time |-> number, sums |-> tree[tool][kernel].log])]
  /\ IF kernel < NumKernels THEN kernel' = kernel + 1 /\ line' = "measure"
                            ELSE kernel' = 1 /\ line' = "coalesce"
  /\ UNCHANGED <<tool, number, tree, bytes, mishaps>>

\* cd fails, and what follows happens one directory above: the row goes to a file
\* that nobody reads.
NoDirectory ==
  /\ line \in {"measure", "bytes"} /\ ~tree[tool][kernel].there
  /\ NextKernel(IF line = "measure" THEN "coalesce" ELSE "done")
  /\ UNCHANGED <<tool, number, tree, stats, bytes, mishaps>>

\* coalesce-bytes.sh of gapbs begins its file anew, that of gapbs-pin appends.
Coalesce ==
  /\ line = "coalesce"
  /\ bytes' = [bytes EXCEPT ![tool] = IF tool = "zray" THEN <<>> ELSE @]
  /\ line' = "bytes" /\ kernel' = 1
  /\ UNCHANGED <<tool, number, tree, stats, mishaps>>

AppendBytes ==
  /\ line = "bytes" /\ tree[tool][kernel].there
  /\ bytes' = [bytes EXCEPT ![tool] = Append(@, [name |-> kernel, sums |-> tree[tool][kernel].log])]
  /\ NextKernel("done")
  /\ UNCHANGED <<tool, number, tree, stats, mishaps>>

EndScript == tool' = "none" /\ line' = "idle" /\ kernel' = 0 /\ UNCHANGED <<number, tree, stats, bytes>>

Done == line = "done" /\ EndScript /\ UNCHANGED mishaps

Kill == tool # "none" /\ line # "done" /\ EndScript /\ Mishap

GapbsNext ==
  \/ \E t \in Tools : StartScript(t)
  \/ Clean \/ Make \/ Measure \/ AppendStats \/ NoDirectory
  \/ Coalesce \/ AppendBytes \/ Done \/ Kill

-----------------------------------------------------------------------------
(* The report: counts and bytes from the log, times from the last row.     *)

\* The rows of kernel k, of which last_rows keeps the last.
StatsFor(t, k) == {i \in DOMAIN stats[t] : stats[t][i].name = k}

gapbs_rows(k) ==
  [t \in Tools |->
     [log  |-> tree[t][k].log,
      time |-> IF StatsFor(t, k) = {} THEN 0 ELSE stats[t][Max(StatsFor(t, k))].time]]

\* Which scripts the figures of a tool come from.
Sources(t) ==
  (UNION {{gapbs_rows(k)[t].log, gapbs_rows(k)[t].time} : k \in Kernels}) \ {0}

(***************************************************************************)
(* README.md, "Re-running experiments": results reflect a single run.      *)
(* Whatever failed or was killed, all that the report shows of a tool is   *)
(* from one script; so is all that is in one of its CSV files, which has a *)
(* kernel at most once, and whose sums are those of the log.               *)
(***************************************************************************)
SingleRun ==
  \A t \in Tools :
    /\ Cardinality(Sources(t)) <= 1
    /\ Cardinality({bytes[t][i].sums : i \in DOMAIN bytes[t]} \ {0}) <= 1
    /\ \A rows \in {stats[t], bytes[t]} :
         \A i, j \in DOMAIN rows : rows[i].name = rows[j].name => i = j
    /\ \A i \in DOMAIN stats[t] : stats[t][i].sums = tree[t][stats[t][i].name].log
=============================================================================
