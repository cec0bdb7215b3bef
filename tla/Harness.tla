------------------------------ MODULE Harness ------------------------------
(***************************************************************************)
(* The scripts of the artifact together, as run-ae.sh or a user starts     *)
(* them: those that measure the kernels and those that measure SPEC, in    *)
(* any order, one at a time, with setup.sh adding the Pintool in between.  *)
(*                                                                         *)
(* What they share is the Pintool.  Otherwise the two suites touch files   *)
(* of their own only, so that a session is about one of them: interleaving *)
(* them would add states, but no step that sees another's state.           *)
(***************************************************************************)
EXTENDS SpecRun, GapbsRun

VARIABLE suite  \* of this session: "gapbs" or "spec"

harnessVars == <<vars, gapbsVars, suite>>

HarnessInit == Init /\ GapbsInit /\ suite \in {"gapbs", "spec"}

\* run-gapbs-pin.sh ends at once if Pin is not installed.
Gapbs == /\ suite = "gapbs"
         /\ GapbsNext
         /\ tool' = "pin" => pin
         /\ UNCHANGED vars

\* setup.sh is no script that measures; none runs while it does.
Setup == suite = "gapbs" /\ tool = "none" /\ InstallPin /\ UNCHANGED gapbsVars

SpecCPU == suite = "spec" /\ Next /\ UNCHANGED gapbsVars

HarnessNext == UNCHANGED suite /\ (Setup \/ Gapbs \/ SpecCPU)

HarnessSpec == HarnessInit /\ [][HarnessNext]_harnessVars

\* Workloads are built and measured alike (for TLC).
Symmetry == Permutations(Workloads)
=============================================================================
