----------------------------- MODULE SpecBuild -----------------------------
(***************************************************************************)
(* Building the SPEC workloads (spec/build-spec.sh, with the scripts it    *)
(* calls, spec/apply-roi-patches.py and spec/make-build-scripts.py).       *)
(*                                                                         *)
(* A run script calls it before it measures; it skips what is built and    *)
(* may be killed at any point, with the jobs it started, as may every      *)
(* script it calls: the next call finds whatever was left in the build and *)
(* run directories, files that cp had not finished included.               *)
(*                                                                         *)
(* SPEC numbers both kinds of directory and takes the first free number,   *)
(* and every script here resolves number 0000 only: set up beside one that *)
(* is still there, a new directory is one that nobody reads.               *)
(***************************************************************************)
EXTENDS Integers, Sequences, FiniteSets

CONSTANTS
  Workloads,
  NumCommands,  \* the commands in a workload's list
  PARALLEL,     \* workloads built at a time
  MaxFaults     \* bound: steps that fail, and scripts that are killed

ASSUME NumCommandsAssumption == NumCommands \in Nat

Variants == {"baseline", "zray", "pin"}
Files == Variants \cup {"zlog"}  \* the binaries and ZRay's static metadata
Commands == 1 .. NumCommands
Kinds == {"zray", "pin"}   \* run-spec.sh and run-spec-pin.sh

VARIABLES
  pin,      \* whether the Pintool is installed
  builds,   \* stock builds so far: files are stamped with the one they are of
  bd, rd,   \* per workload: its build and run directories
  pc,       \* what the script does: "idle", ..., "header" once all is built
  request,  \* the workloads the script was started for
  force,    \* FORCE_BUILD=1
  todo,     \* the workloads to be built
  job,      \* per workload: how far the script is with it
  copied,   \* per workload: how many files build_one has tried to copy
  faults    \* failed steps and kills so far

buildVars == <<pin, builds, bd, rd, pc, request, force, todo, job, copied, faults>>

Needed == IF pin THEN Files ELSE Files \ {"pin"}

NoLog == [c \in Commands |-> 0]

\* Whether it is there, its sources are patched, and it holds .zray-binary.
BuildDir(here) == [here |-> here, patched |-> FALSE, marker |-> FALSE]

\* The builds its command list and its files are of (0: they are not there), the
\* files that are cut short, and the logs of the tools.  SPEC creates it with the
\* command list.
RunDir(build) == [cmds |-> build, files |-> [f \in Files |-> 0], cut |-> {},
                  log |-> [k \in Kinds |-> NoLog]]

BuildInit ==
  /\ pin \in BOOLEAN
  /\ builds = 0
  /\ bd = [w \in Workloads |-> BuildDir(FALSE)]
  /\ rd = [w \in Workloads |-> RunDir(0)]
  /\ pc = "idle" /\ request = {} /\ force = FALSE /\ todo = {}
  /\ job = [w \in Workloads |-> "none"]
  /\ copied = [w \in Workloads |-> 0]
  /\ faults = 0

-----------------------------------------------------------------------------
\* The test that skips a workload: files that are there, whatever is in them.
Built(w) == bd[w].marker /\ \A f \in Needed : rd[w].files[f] # 0

Fault == faults < MaxFaults /\ faults' = faults + 1

Check ==
  /\ pc = "check"
  /\ todo' = IF force THEN request ELSE {w \in request : ~Built(w)}
  /\ IF todo' = {} THEN pc' = "header" /\ UNCHANGED builds
                   ELSE pc' = "setup" /\ builds' = builds + 1
  /\ force' = FALSE
  /\ UNCHANGED <<pin, bd, rd, request, job, copied, faults>>

\* rm -rf build run, for every workload before SPEC creates any of them again.
RemoveBuild(w) ==
  /\ pc = "setup" /\ w \in todo /\ job[w] = "none"
  /\ \A x \in todo : job[x] \in {"none", "removed"}
  /\ bd' = [bd EXCEPT ![w] = BuildDir(FALSE)]
  /\ job' = [job EXCEPT ![w] = "half removed"]
  /\ UNCHANGED <<pin, builds, rd, pc, request, force, todo, copied, faults>>

\* Mutant of RemoveRun: "deleting build/ while leaving a stale run/ behind".
RemoveRunNot(w) ==
  /\ pc = "setup" /\ w \in todo /\ job[w] = "half removed"
  /\ job' = [job EXCEPT ![w] = "removed"]
  /\ UNCHANGED <<pin, builds, bd, rd, pc, request, force, todo, copied, faults>>

RemoveRun(w) ==
  /\ pc = "setup" /\ w \in todo /\ job[w] = "half removed"
  /\ rd' = [rd EXCEPT ![w] = RunDir(0)]
  /\ job' = [job EXCEPT ![w] = "removed"]
  /\ UNCHANGED <<pin, builds, bd, pc, request, force, todo, copied, faults>>

\* runcpu --action=setup.
SetupOne(w) ==
  /\ pc = "setup" /\ w \in todo /\ job[w] = "removed"
  /\ \A x \in todo : job[x] \in {"removed", "set up"}
  /\ bd' = [bd EXCEPT ![w] = IF @.here THEN @ ELSE BuildDir(TRUE)]
  /\ rd' = [rd EXCEPT ![w] = IF @.cmds # 0 THEN @ ELSE RunDir(builds)]
  /\ job' = [job EXCEPT ![w] = "set up"]
  /\ UNCHANGED <<pin, builds, pc, request, force, todo, copied, faults>>

\* Phase 1 of apply-roi-patches.py; if it finds a source that is not pristine
\* the script ends.
Verify ==
  /\ pc = "setup"
  /\ \A w \in todo : job[w] = "set up" /\ ~bd[w].patched
  /\ pc' = "patch"
  /\ UNCHANGED <<pin, builds, bd, rd, request, force, todo, job, copied, faults>>

PatchOne(w) ==
  /\ pc = "patch" /\ w \in todo /\ job[w] = "set up"
  /\ bd' = [bd EXCEPT ![w].patched = TRUE]
  /\ job' = [job EXCEPT ![w] = "patched"]
  /\ UNCHANGED <<pin, builds, rd, pc, request, force, todo, copied, faults>>

StartBuilds ==
  /\ pc = "patch" /\ \A w \in todo : job[w] = "patched"
  /\ pc' = "build"
  /\ UNCHANGED <<pin, builds, bd, rd, request, force, todo, job, copied, faults>>

Running == {w \in todo : job[w] \in {"compiling", "copying", "writing"}}

\* make-build-scripts.py leaves the marker as its last act.
MakeScripts(w) ==
  /\ pc = "build" /\ w \in todo /\ job[w] = "patched"
  /\ Cardinality(Running) < PARALLEL
  /\ \/ /\ bd' = [bd EXCEPT ![w].marker = TRUE]
        /\ job' = [job EXCEPT ![w] = "compiling"]
        /\ UNCHANGED faults
     \/ /\ Fault
        /\ job' = [job EXCEPT ![w] = "failed"]
        /\ UNCHANGED bd
  /\ UNCHANGED <<pin, builds, rd, pc, request, force, todo, copied>>

\* The variants are built concurrently, in files of their own; one failure fails
\* the workload, and what the others made is never copied.
BuildVariants(w) ==
  /\ pc = "build" /\ w \in todo /\ job[w] = "compiling"
  /\ \/ job' = [job EXCEPT ![w] = "copying"] /\ UNCHANGED faults
     \/ job' = [job EXCEPT ![w] = "failed"] /\ Fault
  /\ copied' = [copied EXCEPT ![w] = 0]
  /\ UNCHANGED <<pin, builds, bd, rd, pc, request, force, todo>>

\* The files copied to the run directory, in this order.
Staged == IF pin THEN <<"baseline", "zray", "pin", "zlog">> ELSE <<"baseline", "zray", "zlog">>

NextFile(w) == Staged[copied[w] + 1]

\* The cp of the next file has ended, one way or the other: a failure ends nothing,
\* since build_one runs under ||, where set -e has no effect.
EndCopy(w) ==
  /\ copied' = [copied EXCEPT ![w] = @ + 1]
  /\ job' = [job EXCEPT ![w] = IF copied'[w] = Len(Staged) THEN "ok" ELSE "copying"]

\* cp creates the file, executable if it is to be, and has yet to fill it; or it
\* fails before, and there is no file.
CopyOpens(w) ==
  /\ pc = "build" /\ w \in todo /\ job[w] = "copying"
  /\ \/ /\ rd' = [rd EXCEPT ![w].files[NextFile(w)] = builds, ![w].cut = @ \cup {NextFile(w)}]
        /\ job' = [job EXCEPT ![w] = "writing"]
        /\ UNCHANGED <<copied, faults>>
     \/ Fault /\ EndCopy(w) /\ UNCHANGED rd
  /\ UNCHANGED <<pin, builds, bd, pc, request, force, todo>>

\* The file is whole, or a full disk leaves what was written of it, as does a kill
\* between the two steps.
CopyEnds(w) ==
  /\ pc = "build" /\ w \in todo /\ job[w] = "writing"
  /\ \/ rd' = [rd EXCEPT ![w].cut = @ \ {NextFile(w)}] /\ UNCHANGED faults
     \/ Fault /\ UNCHANGED rd
  /\ EndCopy(w)
  /\ UNCHANGED <<pin, builds, bd, pc, request, force, todo>>

Idle == /\ pc' = "idle" /\ request' = {} /\ force' = FALSE /\ todo' = {}
        /\ job' = [w \in Workloads |-> "none"]
        /\ copied' = [w \in Workloads |-> 0]

\* One failed workload fails the build, and with it the script that called it.
WaitForBuilds ==
  /\ pc = "build" /\ \A w \in todo : job[w] \in {"ok", "failed"}
  /\ IF \E w \in todo : job[w] = "failed"
     THEN Idle
     ELSE /\ pc' = "header"
          /\ todo' = {}
          /\ job' = [w \in Workloads |-> "none"]
          /\ copied' = [w \in Workloads |-> 0]
          /\ UNCHANGED <<request, force>>
  /\ UNCHANGED <<pin, builds, bd, rd, faults>>

BuildNext == \/ Check \/ Verify \/ StartBuilds \/ WaitForBuilds
             \/ \E w \in Workloads : \/ RemoveBuild(w) \/ RemoveRun(w) \/ SetupOne(w)
                                     \/ PatchOne(w) \/ MakeScripts(w)
                                     \/ BuildVariants(w) \/ CopyOpens(w) \/ CopyEnds(w)

-----------------------------------------------------------------------------
(* Properties.                                                             *)

(***************************************************************************)
(* The skip test (build-spec.sh:49-58) against the removal of both trees:  *)
(* after any sequence of builds that failed or were killed, a workload     *)
(* that would be skipped has patched sources, and its command list, its    *)
(* binaries and its static metadata are of one build.  They need not be    *)
(* whole, whatever the comment before the test says of what is built; but  *)
(* each file that is cut short, other than the one that is being copied,   *)
(* has cost a failure or a kill of its own.                                *)
(***************************************************************************)
SkipMeansUsable ==
  \A w \in Workloads : Built(w) =>
    /\ bd[w].patched
    /\ \A f \in Needed : rd[w].files[f] = rd[w].cmds
    /\ job[w] # "writing" => Cardinality(rd[w].cut) <= faults
=============================================================================
