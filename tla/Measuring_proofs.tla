-------------------------- MODULE Measuring_proofs --------------------------
(***************************************************************************)
(* The two sides of a measurement: the scripts that build, run and collect *)
(* (Harness), and the Pin tool that counts in the program (PinTool).       *)
(*                                                                         *)
(* The scripts of the artifact, for any set of workloads, kernels and      *)
(* commands, and any number of scripts, failures and kills: what the skip  *)
(* test of build-spec.sh lets through is of one build and patched, with no *)
(* more files cut short than failures and kills; a row of SPEC covers      *)
(* every command once, a script given workloads leaves the others as they  *)
(* were, and the figures of the kernels are of one script.                 *)
(*                                                                         *)
(* The invariant of the builds says what a run directory can hold: files   *)
(* of the build its command list is of, and no others.  It is kept because *)
(* both trees are gone before SPEC sets up, so that what build_one copies  *)
(* is of the build that made the directory.  A second one counts the files *)
(* that are cut short: cp cuts one at a time, and one it leaves so has     *)
(* cost a failure or a kill.                                               *)
(***************************************************************************)
EXTENDS Harness, PinTool, SequenceTheorems, FiniteSetTheorems, WellFoundedInduction,
        TLAPS

Logs == [Kinds -> [Commands -> Nat]]
BuildDirs == [here : BOOLEAN, patched : BOOLEAN, marker : BOOLEAN]
RunDirs == [cmds : Nat, files : [Files -> Nat], cut : SUBSET Files, log : Logs]

Jobs == {"none", "half removed", "removed", "set up", "patched", "compiling", "copying",
         "writing", "ok", "failed"}

Types ==
  /\ pin \in BOOLEAN /\ builds \in Nat
  /\ bd \in [Workloads -> BuildDirs] /\ rd \in [Workloads -> RunDirs]
  /\ job \in [Workloads -> Jobs]
  /\ kind \in Kinds \cup {None}
  /\ pc = "commands" => current \in Workloads /\ trace \in {0} \cup Commands

OneBuild == \A w \in Workloads : \A f \in Files : rd[w].files[f] \in {0, rd[w].cmds}

Marked == \A w \in Workloads : bd[w].marker => bd[w].patched

\* How far a job is and what is on disk.
Progress ==
  /\ pc \notin {"setup", "patch", "build"} => \A w \in Workloads : job[w] = "none"
  /\ \A w \in Workloads :
       /\ job[w] = "half removed" => ~bd[w].here /\ ~bd[w].marker
       /\ job[w] = "removed" => ~bd[w].here /\ ~bd[w].marker /\ rd[w].cmds = 0
       /\ job[w] \in {"set up", "patched", "compiling", "copying", "writing"} =>
            rd[w].cmds = builds
       /\ job[w] \in {"patched", "compiling", "copying", "writing"} => bd[w].patched

IInv == Types /\ OneBuild /\ Marked /\ Progress

\* A cp is at a file there is, and has cut no other short that is not paid for.
CopyOf(w) ==
  /\ job[w] \in {"copying", "writing"} =>
       pc = "build" /\ w \in todo /\ copied[w] + 1 \in 1 .. Len(Staged)
  /\ IF job[w] = "writing"
     THEN NextFile(w) \in rd[w].cut /\ Cardinality(rd[w].cut) <= faults + 1
     ELSE Cardinality(rd[w].cut) <= faults

CutInv ==
  /\ copied \in [Workloads -> Nat] /\ faults \in Nat
  /\ \A w \in Workloads : CopyOf(w)

-----------------------------------------------------------------------------
LEMMA NewDirs ==
  ASSUME NEW b \in Nat
  PROVE  /\ RunDir(b) \in RunDirs
         /\ RunDir(b).cmds = b /\ RunDir(b).cut = {}
         /\ \A f \in Files : RunDir(b).files[f] = 0
BY DEF RunDir, RunDirs, Logs, NoLog

LEMMA NewBuildDirs ==
  ASSUME NEW h \in BOOLEAN
  PROVE  /\ BuildDir(h) \in BuildDirs
         /\ BuildDir(h).here = h /\ ~BuildDir(h).marker /\ ~BuildDir(h).patched
BY DEF BuildDir, BuildDirs

\* A step that touches neither the trees nor the jobs keeps the invariant.
LEMMA OtherKeeps ==
  ASSUME IInv, UNCHANGED <<pin, builds, bd, rd>>,
         job' = job \/ job' = [w \in Workloads |-> "none"],
         pc' \notin {"setup", "patch", "build"} => \A w \in Workloads : job'[w] = "none",
         kind' \in Kinds \cup {None}, pc' # "commands"
  PROVE  IInv'
<1>1. job' \in [Workloads -> Jobs]
  BY DEF IInv, Types, Jobs
<1>2. Types' /\ OneBuild' /\ Marked'
  BY <1>1 DEF IInv, Types, OneBuild, Marked
<1>3. CASE job' = job
  <2>1. \A w \in Workloads : job'[w] = job[w] /\ rd'[w] = rd[w] /\ bd'[w] = bd[w]
    BY <1>3
  <2> QED
    BY <1>2, <2>1 DEF IInv, Progress
<1>4. CASE job' = [w \in Workloads |-> "none"]
  <2>1. \A w \in Workloads : job'[w] = "none"
    BY <1>4
  <2> QED
    BY <1>2, <2>1 DEF IInv, Progress
<1> QED
  BY <1>2, <1>3, <1>4 DEF IInv

LEMMA InitInv == Init => IInv
<1> SUFFICES ASSUME Init PROVE IInv
  OBVIOUS
<1>1. RunDir(0) \in RunDirs /\ \A f \in Files : RunDir(0).files[f] = 0
  BY NewDirs
<1>2. BuildDir(FALSE) \in BuildDirs /\ ~BuildDir(FALSE).marker
  BY NewBuildDirs
<1> QED
  BY <1>1, <1>2 DEF Init, BuildInit, IInv, Types, OneBuild, Marked, Progress, Jobs

LEMMA CheckKeeps == ASSUME IInv, Check, kind' = kind PROVE IInv'
<1>1. /\ UNCHANGED <<pin, bd, rd, job>> /\ builds' \in Nat
      /\ pc' \in {"header", "setup"}
      /\ \A w \in Workloads : job[w] = "none"
  <2>1. UNCHANGED <<pin, bd, rd, job>> /\ pc = "check"
    BY DEF Check
  <2>2. builds' = builds \/ builds' = builds + 1
    BY DEF Check
  <2>3. pc' \in {"header", "setup"}
    BY DEF Check
  <2>4. builds' \in Nat
    BY <2>2 DEF IInv, Types
  <2>5. \A w \in Workloads : job[w] = "none"
    BY <2>1 DEF IInv, Progress
  <2> QED
    BY <2>1, <2>3, <2>4, <2>5
<1>2. Types' /\ OneBuild' /\ Marked'
  BY <1>1 DEF IInv, Types, OneBuild, Marked
<1>3. Progress'
  BY <1>1 DEF Progress
<1> QED
  BY <1>2, <1>3 DEF IInv

LEMMA RemoveKeeps ==
  ASSUME IInv, NEW w \in Workloads, RemoveBuild(w) \/ RemoveRun(w), UNCHANGED position
  PROVE  IInv'
<1>1. CASE RemoveBuild(w)
  BY <1>1, NewBuildDirs DEF RemoveBuild, IInv, Types, OneBuild, Marked, Progress, Jobs, position
<1>2. CASE RemoveRun(w)
  <2>1. /\ RunDir(0) \in RunDirs /\ RunDir(0).cmds = 0
        /\ \A f \in Files : RunDir(0).files[f] = 0
    BY NewDirs
  <2> QED
    BY <1>2, <2>1 DEF RemoveRun, IInv, Types, OneBuild, Marked, Progress, Jobs, position
<1> QED
  BY <1>1, <1>2

LEMMA SetupKeeps ==
  ASSUME IInv, NEW w \in Workloads, SetupOne(w), UNCHANGED position
  PROVE  IInv'
<1>1. /\ RunDir(builds) \in RunDirs /\ RunDir(builds).cmds = builds
      /\ \A f \in Files : RunDir(builds).files[f] = 0
  BY NewDirs DEF IInv, Types
<1>2. /\ rd' = [rd EXCEPT ![w] = RunDir(builds)]
      /\ bd' = [bd EXCEPT ![w] = BuildDir(TRUE)]
  BY DEF SetupOne, IInv, Types, Progress, BuildDirs
<1>3. BuildDir(TRUE) \in BuildDirs /\ ~BuildDir(TRUE).marker
  BY NewBuildDirs
<1>4. /\ job' \in [Workloads -> Jobs] /\ job'[w] = "set up"
      /\ \A x \in Workloads : x # w => job'[x] = job[x]
      /\ UNCHANGED <<pin, builds, pc>> /\ pc = "setup"
  BY DEF SetupOne, IInv, Types, Jobs
<1>5. Types'
  BY <1>1, <1>2, <1>3, <1>4 DEF IInv, Types, position
<1>6. OneBuild' /\ Marked'
  BY <1>1, <1>2, <1>3, <1>4 DEF IInv, Types, OneBuild, Marked
<1>7. Progress'
  BY <1>1, <1>2, <1>3, <1>4 DEF IInv, Types, Progress
<1> QED
  BY <1>5, <1>6, <1>7 DEF IInv

LEMMA PatchKeeps ==
  ASSUME IInv, NEW w \in Workloads, PatchOne(w) \/ MakeScripts(w) \/ BuildVariants(w),
         UNCHANGED position
  PROVE  IInv'
<1> DEFINE NowBuildDir(b) == bd' = [bd EXCEPT ![w] = b]
<1>1. CASE PatchOne(w)
  <2>1. PICK b \in BuildDirs : NowBuildDir(b) /\ b.patched /\ b = [bd[w] EXCEPT !.patched = TRUE]
    BY <1>1 DEF PatchOne, IInv, Types, BuildDirs
  <2>2. /\ job' \in [Workloads -> Jobs] /\ job'[w] = "patched"
        /\ \A x \in Workloads : x # w => job'[x] = job[x]
        /\ UNCHANGED <<pin, builds, rd, pc>> /\ pc = "patch"
    BY <1>1 DEF PatchOne, IInv, Types, Jobs
  <2>3. rd[w].cmds = builds
    BY <1>1 DEF PatchOne, IInv, Progress
  <2>4. Types' /\ OneBuild' /\ Marked'
    BY <2>1, <2>2 DEF IInv, Types, OneBuild, Marked, position
  <2>5. Progress'
    BY <2>1, <2>2, <2>3 DEF IInv, Types, Progress
  <2> QED
    BY <2>4, <2>5 DEF IInv
<1>2. CASE MakeScripts(w)
  <2>1. PICK b \in BuildDirs : NowBuildDir(b) /\ b.patched = bd[w].patched
    <3>1. CASE bd' = bd
      BY <3>1 DEF IInv, Types, BuildDirs
    <3>2. CASE bd' = [bd EXCEPT ![w].marker = TRUE]
      <4> DEFINE b == [bd[w] EXCEPT !.marker = TRUE]
      <4>1. b \in BuildDirs /\ b.patched = bd[w].patched
        BY DEF IInv, Types, BuildDirs
      <4>2. NowBuildDir(b)
        BY <3>2
      <4> QED
        BY <4>1, <4>2
    <3> QED
      BY <1>2, <3>1, <3>2 DEF MakeScripts
  <2>2. bd[w].patched
    BY <1>2 DEF MakeScripts, IInv, Progress
  <2>3. job' \in [Workloads -> Jobs] /\ job'[w] \in {"compiling", "failed"}
        /\ \A x \in Workloads : x # w => job'[x] = job[x]
    BY <1>2 DEF MakeScripts, IInv, Types, Jobs
  <2>4. rd[w].cmds = builds
    BY <1>2 DEF MakeScripts, IInv, Progress
  <2> QED
    BY ZenonT(60), <1>2, <2>1, <2>2, <2>3, <2>4
       DEF MakeScripts, IInv, Types, OneBuild, Marked, Progress, position
<1>3. CASE BuildVariants(w)
  <2>1. /\ job' \in [Workloads -> Jobs] /\ job'[w] \in {"copying", "failed"}
        /\ \A x \in Workloads : x # w => job'[x] = job[x]
        /\ UNCHANGED <<pin, builds, bd, rd, pc>> /\ pc = "build"
    BY <1>3 DEF BuildVariants, IInv, Types, Jobs
  <2>2. bd[w].patched /\ rd[w].cmds = builds
    BY <1>3 DEF BuildVariants, IInv, Progress
  <2>3. Types' /\ OneBuild' /\ Marked'
    BY <2>1 DEF IInv, Types, OneBuild, Marked, position
  <2>4. Progress'
    BY <2>1, <2>2 DEF IInv, Progress
  <2> QED
    BY <2>3, <2>4 DEF IInv
<1> QED
  BY <1>1, <1>2, <1>3

LEMMA StagedAre == Len(Staged) \in {3, 4} /\ \A k \in 1 .. Len(Staged) : Staged[k] \in Files
<1>1. CASE pin
  <2>1. Staged = <<"baseline", "zray", "pin", "zlog">>
    BY <1>1 DEF Staged
  <2> QED
    BY <2>1 DEF Files, Variants
<1>2. CASE ~pin
  <2>1. Staged = <<"baseline", "zray", "zlog">>
    BY <1>2 DEF Staged
  <2> QED
    BY <2>1 DEF Files, Variants
<1> QED
  BY <1>1, <1>2

\* What the two steps of a cp do to the run directory.
LEMMA CopyStep ==
  ASSUME IInv, CutInv, NEW w \in Workloads, CopyOpens(w) \/ CopyEnds(w)
  PROVE  \E r \in RunDirs :
           /\ rd' = [rd EXCEPT ![w] = r]
           /\ r.cmds = rd[w].cmds
           /\ \A f \in Files : r.files[f] \in {rd[w].files[f], builds}
           /\ \/ rd' = rd
              \/ CopyOpens(w) /\ job'[w] = "writing" /\ r.cut = rd[w].cut \cup {NextFile(w)}
              \/ CopyEnds(w) /\ faults' = faults /\ r.cut = rd[w].cut \ {NextFile(w)}
<1> DEFINE n == NextFile(w)
<1>1. builds \in Nat /\ rd \in [Workloads -> RunDirs] /\ job \in [Workloads -> Jobs]
  BY DEF IInv, Types
<1>2. n \in Files
  <2>1. job[w] \in {"copying", "writing"}
    BY DEF CopyOpens, CopyEnds
  <2>2. copied[w] + 1 \in 1 .. Len(Staged)
    BY <2>1 DEF CutInv, CopyOf
  <2> QED
    BY <2>2, StagedAre DEF NextFile
<1> HIDE DEF n
<1>3. /\ rd[w] = [cmds |-> rd[w].cmds, files |-> rd[w].files, cut |-> rd[w].cut, log |-> rd[w].log]
      /\ rd[w] \in RunDirs
  BY <1>1 DEF RunDirs
<1>4. CASE rd' = rd
  BY <1>1, <1>3, <1>4
<1>5. CASE /\ CopyOpens(w)
           /\ rd' = [rd EXCEPT ![w].files[n] = builds, ![w].cut = @ \cup {n}]
           /\ job' = [job EXCEPT ![w] = "writing"]
  <2> DEFINE b == [rd[w].files EXCEPT ![n] = builds]
             r == [rd[w] EXCEPT !.files = b, !.cut = rd[w].cut \cup {n}]
  <2>1. b \in [Files -> Nat] /\ \A f \in Files : b[f] \in {rd[w].files[f], builds}
    BY <1>1, <1>3 DEF RunDirs
  <2>2. rd' = [rd EXCEPT ![w] = r]
    BY <1>5
  <2> HIDE DEF b
  <2>3. r \in RunDirs
    BY <1>2, <1>3, <2>1 DEF RunDirs
  <2>4. r.cmds = rd[w].cmds /\ r.files = b /\ r.cut = rd[w].cut \cup {n} /\ job'[w] = "writing"
    BY <1>1, <1>3, <1>5 DEF RunDirs
  <2> HIDE DEF r
  <2> QED
    BY <1>5, <2>1, <2>2, <2>3, <2>4 DEF n
<1>6. CASE CopyEnds(w) /\ rd' = [rd EXCEPT ![w].cut = @ \ {n}] /\ faults' = faults
  <2> DEFINE r == [rd[w] EXCEPT !.cut = rd[w].cut \ {n}]
  <2>1. rd' = [rd EXCEPT ![w] = r]
    BY <1>6
  <2>2. r \in RunDirs
    BY <1>3 DEF RunDirs
  <2>3. r.cmds = rd[w].cmds /\ r.files = rd[w].files /\ r.cut = rd[w].cut \ {n}
    BY <1>3 DEF RunDirs
  <2> HIDE DEF r
  <2> QED
    BY <1>6, <2>1, <2>2, <2>3 DEF n
<1> QED
  BY <1>4, <1>5, <1>6 DEF CopyOpens, CopyEnds, n

LEMMA CopyKeeps ==
  ASSUME IInv, CutInv, NEW w \in Workloads, CopyOpens(w) \/ CopyEnds(w), UNCHANGED position
  PROVE  IInv'
<1>1. /\ pc = "build" /\ UNCHANGED <<pin, builds, bd, pc>>
      /\ job[w] \in {"copying", "writing"}
      /\ \E j \in {"copying", "writing", "ok"} : job' = [job EXCEPT ![w] = j]
  BY DEF CopyOpens, CopyEnds, EndCopy
<1>2. builds \in Nat /\ rd \in [Workloads -> RunDirs] /\ rd[w].cmds = builds /\ bd[w].patched
  BY <1>1 DEF IInv, Types, Progress
<1>3. PICK r \in RunDirs :
        /\ rd' = [rd EXCEPT ![w] = r]
        /\ r.cmds = rd[w].cmds
        /\ \A f \in Files : r.files[f] \in {rd[w].files[f], builds}
  BY CopyStep
<1>4. /\ job' \in [Workloads -> Jobs] /\ job'[w] \in {"ok", "copying", "writing"}
      /\ \A x \in Workloads : x # w => job'[x] = job[x]
  BY <1>1 DEF IInv, Types, Jobs
<1>5. rd' \in [Workloads -> RunDirs] /\ rd'[w] = r /\ \A x \in Workloads : x # w => rd'[x] = rd[x]
  BY <1>2, <1>3
<1>6. Types' /\ Marked'
  BY <1>1, <1>4, <1>5 DEF IInv, Types, Marked, position
<1>7. OneBuild'
  <2> SUFFICES ASSUME NEW x \in Workloads, NEW f \in Files
               PROVE  rd'[x].files[f] \in {0, rd'[x].cmds}
    BY DEF OneBuild
  <2> QED
    BY <1>2, <1>3, <1>5 DEF IInv, OneBuild
<1>8. Progress'
  <2>1. \A x \in Workloads : rd'[x].cmds = rd[x].cmds
    BY <1>3, <1>5
  <2>2. \A x \in Workloads : x # w => job'[x] = job[x] /\ bd'[x] = bd[x]
    BY <1>1, <1>4
  <2> QED
    BY <1>1, <1>2, <1>4, <2>1, <2>2 DEF IInv, Progress
<1> QED
  BY <1>6, <1>7, <1>8 DEF IInv

\* What the scripts of SpecRun do to the run directories: they write logs.
LEMMA LogKeeps ==
  ASSUME IInv, UNCHANGED <<pin, builds, bd, job, pc, kind>>, pc # "check",
         pc' = "commands" => current' \in Workloads /\ trace' \in {0} \cup Commands,
         rd' \in [Workloads -> RunDirs],
         \A w \in Workloads : rd'[w].cmds = rd[w].cmds /\ rd'[w].files = rd[w].files
  PROVE  IInv'
BY DEF IInv, Types, OneBuild, Marked, Progress

LEMMA LogsOnly ==
  ASSUME IInv, (\E w \in Workloads : Begin(w)) \/ Command \/ CommandFails
  PROVE  /\ rd' \in [Workloads -> RunDirs]
         /\ \A x \in Workloads : /\ rd'[x].cmds = rd[x].cmds /\ rd'[x].files = rd[x].files
                                 /\ rd'[x].cut = rd[x].cut
<1> DEFINE OnlyLog(w) == \E l \in Logs : rd' = [rd EXCEPT ![w] = [rd[w] EXCEPT !.log = l]]
<1>1. ASSUME NEW w \in Workloads, OnlyLog(w)
      PROVE  /\ rd' \in [Workloads -> RunDirs]
             /\ \A x \in Workloads : /\ rd'[x].cmds = rd[x].cmds /\ rd'[x].files = rd[x].files
                                     /\ rd'[x].cut = rd[x].cut
  <2>1. PICK l \in Logs : rd' = [rd EXCEPT ![w] = [rd[w] EXCEPT !.log = l]]
    BY <1>1
  <2> DEFINE r == [rd[w] EXCEPT !.log = l]
  <2>2. rd \in [Workloads -> RunDirs]
    BY DEF IInv, Types
  <2>3. r \in RunDirs /\ r.cmds = rd[w].cmds /\ r.files = rd[w].files /\ r.cut = rd[w].cut
    BY <2>2 DEF RunDirs
  <2> HIDE DEF r
  <2> QED
    BY <2>1, <2>2, <2>3 DEF r
<1>2. ASSUME NEW w \in Workloads, Begin(w) PROVE OnlyLog(w)
  <2>1. rd' = [rd EXCEPT ![w].log[kind] = NoLog]
    BY <1>2 DEF Begin
  <2>2. rd[w].log \in Logs
    BY DEF IInv, Types, RunDirs
  <2>3. [rd[w].log EXCEPT ![kind] = NoLog] \in Logs
    BY <2>2 DEF Logs, NoLog
  <2> QED
    BY <2>1, <2>3
<1>3. ASSUME pc = "commands", NEW c \in Commands,
             rd' = rd \/ rd' = [rd EXCEPT ![current].log[kind][c] = @ + 1]
      PROVE  OnlyLog(current)
  <2>1. current \in Workloads /\ rd[current] \in RunDirs /\ rd \in [Workloads -> RunDirs]
    BY <1>3 DEF IInv, Types
  <2>2. rd[current].log \in Logs
    BY <2>1 DEF RunDirs
  <2> DEFINE m == [rd[current].log[kind] EXCEPT ![c] = @ + 1]
             l == [rd[current].log EXCEPT ![kind] = m]
  <2>3. CASE rd' = rd
    <3>1. rd' = [rd EXCEPT ![current] = [rd[current] EXCEPT !.log = rd[current].log]]
      BY <2>1, <2>3 DEF RunDirs
    <3> QED
      BY <2>2, <3>1
  <2>4. CASE rd' = [rd EXCEPT ![current].log[kind][c] = @ + 1]
    <3>1. rd' = [rd EXCEPT ![current] = [rd[current] EXCEPT !.log = l]]
      BY <2>4
    <3>2. l \in Logs
      <4>1. CASE kind \in Kinds
        <5>1. rd[current].log[kind] \in [Commands -> Nat]
          BY <2>2, <4>1 DEF Logs
        <5>2. rd[current].log[kind][c] + 1 \in Nat
          BY <1>3, <5>1
        <5>3. m \in [Commands -> Nat]
          BY <5>1, <5>2
        <5> HIDE DEF m
        <5> QED
          BY <2>2, <5>3 DEF Logs
      <4>2. CASE kind \notin Kinds
        BY <2>2, <4>2 DEF Logs
      <4> QED
        BY <4>1, <4>2
    <3> QED
      BY <3>1, <3>2
  <2> QED
    BY <1>3, <2>3, <2>4
<1>4. ASSUME Command \/ CommandFails PROVE current \in Workloads /\ OnlyLog(current)
  <2>1. pc = "commands" /\ current \in Workloads /\ trace \in {0} \cup Commands
    BY <1>4 DEF Command, CommandFails, IInv, Types
  <2>2. CASE Command
    <3>1. cmd \in Commands /\ rd' = [rd EXCEPT ![current].log[kind][cmd] = @ + 1]
      BY <2>2 DEF Command
    <3> QED
      BY <1>3, <2>1, <3>1
  <2>3. CASE CommandFails
    <3>1. cmd \in Commands
          /\ \/ rd' = rd
             \/ trace \in Commands /\ rd' = [rd EXCEPT ![current].log[kind][trace] = @ + 1]
      BY <2>1, <2>3 DEF CommandFails
    <3> QED
      BY <1>3, <2>1, <3>1
  <2> QED
    BY <1>4, <2>1, <2>2, <2>3
<1> HIDE DEF OnlyLog
<1> QED
  BY <1>1, <1>2, <1>4

LEMMA MeasureKeeps ==
  ASSUME IInv, (\E w \in Workloads : Begin(w)) \/ Command \/ CommandFails
  PROVE  IInv'
<1>1. ASSUME NEW w \in Workloads, Begin(w) PROVE IInv'
  <2>1. /\ pc' = "commands" /\ UNCHANGED <<pin, builds, bd, job, kind>>
        /\ current' = w /\ trace' = 0 /\ pc = "loop"
    BY <1>1 DEF Begin
  <2>2. Types' /\ OneBuild' /\ Marked'
    BY <1>1, <2>1, LogsOnly DEF IInv, Types, OneBuild, Marked
  <2>3. Progress'
    BY <1>1, <2>1, LogsOnly DEF IInv, Progress
  <2> QED
    BY <2>2, <2>3 DEF IInv
<1>2. ASSUME Command \/ CommandFails PROVE IInv'
  <2>1. /\ pc = "commands" /\ pc' = pc
        /\ UNCHANGED <<pin, builds, bd, job, kind, current>>
    BY <1>2 DEF Command, CommandFails
  <2>2. current \in Workloads /\ trace \in {0} \cup Commands
    BY <2>1 DEF IInv, Types
  <2>3. trace' \in {0} \cup Commands
    BY <1>2, <2>2 DEF Command, CommandFails
  <2> QED
    BY <1>2, <2>1, <2>2, <2>3, LogsOnly, LogKeeps
<1> QED
  BY <1>1, <1>2

LEMMA NextInv == IInv /\ CutInv /\ [Next]_vars => IInv'
<1> SUFFICES ASSUME IInv, CutInv, [Next]_vars PROVE IInv'
  OBVIOUS
<1>1. ASSUME InstallPin PROVE IInv'
  <2>1. UNCHANGED <<builds, bd, rd, pc, job, kind, current, trace>> /\ pin' \in BOOLEAN
    BY <1>1 DEF InstallPin, position
  <2> QED
    BY <2>1 DEF IInv, Types, OneBuild, Marked, Progress
<1>2. ASSUME NEW k \in Kinds, NEW ws, NEW s, NEW f, Start(k, ws, s, f) PROVE IInv'
  <2>1. /\ UNCHANGED <<pin, builds, bd, rd, job>>
        /\ pc = "idle" /\ pc' = "check" /\ kind' = k
    BY <1>2 DEF Start
  <2>2. \A w \in Workloads : job'[w] = "none"
    BY <2>1 DEF IInv, Progress
  <2> QED
    BY <2>1, <2>2, OtherKeeps
<1>3. ASSUME Build PROVE IInv'
  <2>1. BuildNext /\ ((UNCHANGED position) \/ (pc' = "idle" /\ Nowhere))
    BY <1>3 DEF Build, position
  <2>2. kind' \in Kinds \cup {None}
    BY <2>1 DEF IInv, Types, position, Nowhere
  <2>3. CASE Check
    <3>1. pc' # "idle"
      BY <2>3 DEF Check
    <3> QED
      BY <2>1, <2>3, <3>1, CheckKeeps DEF position
  <2>4. CASE Verify \/ StartBuilds
    <3>1. UNCHANGED <<pin, builds, bd, rd, job>> /\ pc' \in {"patch", "build"}
      BY <2>4 DEF Verify, StartBuilds
    <3> QED
      BY <2>2, <3>1, OtherKeeps
  <2>5. CASE WaitForBuilds
    <3>1. /\ UNCHANGED <<pin, builds, bd, rd>> /\ pc' \in {"idle", "header"}
          /\ job' = [w \in Workloads |-> "none"]
      BY <2>5 DEF WaitForBuilds, Idle
    <3>2. \A w \in Workloads : job'[w] = "none"
      BY <3>1
    <3> QED
      BY <2>2, <3>1, <3>2, OtherKeeps
  <2>6. ASSUME NEW w \in Workloads,
               \/ RemoveBuild(w) \/ RemoveRun(w) \/ SetupOne(w) \/ PatchOne(w)
               \/ MakeScripts(w) \/ BuildVariants(w) \/ CopyOpens(w) \/ CopyEnds(w)
        PROVE  IInv'
    <3>1. pc' # "idle"
      BY <2>6 DEF RemoveBuild, RemoveRun, SetupOne, PatchOne, MakeScripts, BuildVariants,
                  CopyOpens, CopyEnds
    <3>2. UNCHANGED position
      BY <2>1, <3>1
    <3> QED
      BY <2>6, <3>2, RemoveKeeps, SetupKeeps, PatchKeeps, CopyKeeps
  <2> QED
    BY <2>1, <2>3, <2>4, <2>5, <2>6 DEF BuildNext
<1>4. ASSUME Header \/ AppendRow PROVE IInv'
  <2>1. /\ UNCHANGED <<pin, builds, bd, rd, job, kind>> /\ pc' = "loop"
        /\ pc \in {"header", "commands"}
    BY <1>4 DEF Header, AppendRow
  <2>2. /\ kind' \in Kinds \cup {None}
        /\ \A w \in Workloads : job'[w] = "none"
    BY <2>1 DEF IInv, Types, Progress
  <2> QED
    BY <2>1, <2>2, OtherKeeps
<1>5. ASSUME Finish \/ Abort PROVE IInv'
  <2>1. /\ UNCHANGED <<pin, builds, bd, rd>> /\ pc' = "idle" /\ kind' = None
        /\ job' = [w \in Workloads |-> "none"]
    BY <1>5 DEF Finish, Abort, Idle, Nowhere
  <2>2. \A w \in Workloads : job'[w] = "none"
    BY <2>1
  <2> QED
    BY <2>1, <2>2, OtherKeeps
<1>6. CASE UNCHANGED vars
  BY <1>6 DEF vars, buildVars, position, IInv, Types, OneBuild, Marked, Progress
<1> QED
  BY <1>1, <1>2, <1>3, <1>4, <1>5, <1>6, MeasureKeeps DEF Next

-----------------------------------------------------------------------------
(***************************************************************************)
(* The files that are cut short.                                           *)
(***************************************************************************)
LEMMA CutSize ==
  ASSUME IInv, NEW w \in Workloads
  PROVE  IsFiniteSet(rd[w].cut) /\ Cardinality(rd[w].cut) \in Nat
<1>1. IsFiniteSet(Files)
  <2>1. IsFiniteSet({"baseline"})
    BY FS_Singleton
  <2>2. IsFiniteSet({"baseline"} \cup {"zray"})
    BY <2>1, FS_AddElement
  <2>3. IsFiniteSet({"baseline"} \cup {"zray"} \cup {"pin"})
    BY <2>2, FS_AddElement
  <2>4. IsFiniteSet({"baseline"} \cup {"zray"} \cup {"pin"} \cup {"zlog"})
    BY <2>3, FS_AddElement
  <2>5. Files = {"baseline"} \cup {"zray"} \cup {"pin"} \cup {"zlog"}
    BY DEF Files, Variants
  <2> QED
    BY <2>4, <2>5
<1>2. rd[w].cut \in SUBSET Files
  BY DEF IInv, Types, RunDirs
<1> QED
  BY <1>1, <1>2, FS_Subset, FS_CardinalityType

\* A step after which no file is being copied; if one was, what is left of it is
\* paid for.
LEMMA NothingCopied ==
  ASSUME IInv, CutInv, copied' \in [Workloads -> Nat], faults' \in {faults, faults + 1},
         \A w \in Workloads : job'[w] \notin {"copying", "writing"},
         \A w \in Workloads : rd'[w].cut \in {rd[w].cut, {}},
         \A w \in Workloads : job[w] = "writing" => faults' = faults + 1
  PROVE  CutInv'
<1>1. faults \in Nat /\ faults' \in Nat
  BY DEF CutInv
<1>2. ASSUME NEW w \in Workloads PROVE CopyOf(w)'
  <2>1. Cardinality(rd[w].cut) <= IF job[w] = "writing" THEN faults + 1 ELSE faults
    BY DEF CutInv, CopyOf
  <2>2. Cardinality(rd[w].cut) <= faults'
    BY <1>1, <2>1, CutSize
  <2>3. Cardinality(rd'[w].cut) <= faults'
    <3>1. CASE rd'[w].cut = rd[w].cut
      BY <2>2, <3>1
    <3>2. CASE rd'[w].cut = {}
      <4>1. Cardinality(rd'[w].cut) = 0
        BY <3>2, FS_EmptySet
      <4> QED
        BY <1>1, <4>1
    <3> QED
      BY <3>1, <3>2
  <2> QED
    BY <2>3 DEF CopyOf
<1> QED
  BY <1>1, <1>2 DEF CutInv

\* A step of the job of one workload.
LEMMA OneJob ==
  ASSUME IInv, CutInv, NEW w \in Workloads,
         UNCHANGED <<pin, pc, todo>>, faults' \in {faults, faults + 1},
         copied' \in [Workloads -> Nat],
         \A x \in Workloads : x # w => /\ job'[x] = job[x] /\ copied'[x] = copied[x]
                                       /\ rd'[x].cut = rd[x].cut,
         CopyOf(w)'
  PROVE  CutInv'
<1>1. faults \in Nat /\ faults' \in Nat
  BY DEF CutInv
<1>2. ASSUME NEW x \in Workloads, x # w PROVE CopyOf(x)'
  <2>1. Staged' = Staged /\ NextFile(x)' = NextFile(x)
    BY <1>2 DEF Staged, NextFile
  <2>2. CopyOf(x) /\ Cardinality(rd[x].cut) \in Nat
    BY CutSize DEF CutInv
  <2> QED
    BY <1>1, <1>2, <2>1, <2>2 DEF CopyOf
<1> QED
  BY <1>1, <1>2 DEF CutInv

LEMMA ScriptsCut ==
  ASSUME IInv, CutInv, NEW w \in Workloads, MakeScripts(w) \/ BuildVariants(w)
  PROVE  CutInv'
<1>1. /\ UNCHANGED <<pin, pc, todo, rd>> /\ pc = "build" /\ w \in todo
      /\ faults' \in {faults, faults + 1} /\ job[w] # "writing"
  BY DEF MakeScripts, BuildVariants, Fault
<1>2. /\ job'[w] \in {"compiling", "copying", "failed"}
      /\ \A x \in Workloads : x # w => job'[x] = job[x]
  BY DEF MakeScripts, BuildVariants, IInv, Types
<1>3. /\ copied' \in [Workloads -> Nat]
      /\ \A x \in Workloads : x # w => copied'[x] = copied[x]
      /\ job'[w] = "copying" => copied'[w] = 0
  <2>1. CASE MakeScripts(w)
    BY <2>1 DEF MakeScripts, CutInv, IInv, Types
  <2>2. CASE BuildVariants(w)
    BY <2>2 DEF BuildVariants, CutInv
  <2> QED
    BY <2>1, <2>2
<1>4. CopyOf(w)'
  <2>1. Cardinality(rd[w].cut) <= faults /\ Cardinality(rd[w].cut) \in Nat /\ faults \in Nat
    BY <1>1, CutSize DEF CutInv, CopyOf
  <2>2. Cardinality(rd'[w].cut) <= faults'
    BY <1>1, <2>1
  <2>3. Staged' = Staged /\ Len(Staged) \in {3, 4}
    BY <1>1, StagedAre DEF Staged
  <2>4. job'[w] = "copying" => copied'[w] + 1 \in 1 .. Len(Staged')
    BY <1>3, <2>3
  <2>5. pc' = "build" /\ w \in todo' /\ job'[w] # "writing"
    BY <1>1, <1>2
  <2> QED
    BY <2>2, <2>4, <2>5 DEF CopyOf
<1> QED
  BY <1>1, <1>2, <1>3, <1>4, OneJob

LEMMA CopyCut ==
  ASSUME IInv, CutInv, NEW w \in Workloads, CopyOpens(w) \/ CopyEnds(w)
  PROVE  CutInv'
<1> DEFINE n == NextFile(w)
           cut == rd[w].cut
<1>1. /\ UNCHANGED <<pin, pc, todo>> /\ pc = "build" /\ w \in todo
      /\ faults' \in {faults, faults + 1} /\ job[w] \in {"copying", "writing"}
  BY DEF CopyOpens, CopyEnds, Fault
<1>2. /\ faults \in Nat /\ copied \in [Workloads -> Nat] /\ job \in [Workloads -> Jobs]
      /\ copied[w] + 1 \in 1 .. Len(Staged) /\ Len(Staged) \in {3, 4} /\ Staged' = Staged
      /\ IsFiniteSet(cut) /\ Cardinality(cut) \in Nat
      /\ IF job[w] = "writing" THEN n \in cut /\ Cardinality(cut) <= faults + 1
                               ELSE Cardinality(cut) <= faults
  BY <1>1, CutSize, StagedAre DEF CutInv, CopyOf, Staged, IInv, Types
<1>3. \A x \in Workloads : x # w => rd'[x].cut = rd[x].cut
  BY CopyStep DEF IInv, Types
<1>4. CASE CopyOpens(w) /\ job' = [job EXCEPT ![w] = "writing"] /\ UNCHANGED <<copied, faults>>
           /\ rd' = [rd EXCEPT ![w].files[n] = builds, ![w].cut = @ \cup {n}]
  <2>1. rd'[w].cut = cut \cup {n}
    BY <1>4 DEF IInv, Types, RunDirs
  <2>2. Cardinality(cut \cup {n}) <= faults' + 1
    <3>1. Cardinality(cut \cup {n}) \in {Cardinality(cut), Cardinality(cut) + 1}
      BY <1>2, FS_AddElement
    <3>2. Cardinality(cut) <= faults
      BY <1>2, <1>4 DEF CopyOpens
    <3> HIDE DEF n, cut
    <3> QED
      BY <1>2, <1>4, <3>1, <3>2
  <2>3. NextFile(w)' = n /\ job'[w] = "writing"
    BY <1>2, <1>4 DEF NextFile
  <2>4. CopyOf(w)'
    BY <1>1, <1>2, <1>4, <2>1, <2>2, <2>3 DEF CopyOf
  <2> QED
    BY <1>1, <1>2, <1>3, <1>4, <2>4, OneJob
<1>5. CASE EndCopy(w)
  <2>1. /\ copied' \in [Workloads -> Nat] /\ copied'[w] = copied[w] + 1
        /\ \A x \in Workloads : x # w => copied'[x] = copied[x] /\ job'[x] = job[x]
        /\ job'[w] = IF copied'[w] = Len(Staged) THEN "ok" ELSE "copying"
    BY <1>2, <1>5 DEF EndCopy
  <2>2. Cardinality(rd'[w].cut) <= faults'
    <3>1. CASE CopyOpens(w) /\ Fault /\ rd' = rd
      BY <3>1, <1>2 DEF CopyOpens, Fault
    <3>2. CASE CopyEnds(w) /\ Fault /\ rd' = rd
      BY <3>2, <1>2 DEF CopyEnds, Fault
    <3>3. CASE CopyEnds(w) /\ faults' = faults /\ rd' = [rd EXCEPT ![w].cut = @ \ {n}]
      <4>1. rd'[w].cut = cut \ {n}
        BY <3>3 DEF IInv, Types, RunDirs
      <4>2. Cardinality(cut \ {n}) = Cardinality(cut) - 1 /\ Cardinality(cut) <= faults + 1
        BY <3>3, <1>2, FS_RemoveElement DEF CopyEnds
      <4>3. /\ faults' = faults /\ faults \in Nat /\ Cardinality(cut) \in Nat
            /\ Cardinality(rd'[w].cut) = Cardinality(cut) - 1
        BY <3>3, <4>1, <4>2, <1>2
      <4> HIDE DEF n, cut
      <4> QED
        BY <4>2, <4>3
    <3>4. job' # [job EXCEPT ![w] = "writing"]
      BY <2>1, <1>2
    <3> QED
      BY <3>1, <3>2, <3>3, <3>4 DEF CopyOpens, CopyEnds
  <2>3. CopyOf(w)'
    BY <1>1, <1>2, <2>1, <2>2 DEF CopyOf
  <2> QED
    BY <1>1, <1>2, <1>3, <2>1, <2>3, OneJob
<1> QED
  BY <1>4, <1>5 DEF CopyOpens, CopyEnds

LEMMA CutInit == Init => CutInv
<1> SUFFICES ASSUME Init PROVE CutInv
  OBVIOUS
<1>1. /\ copied \in [Workloads -> Nat] /\ faults = 0
      /\ \A w \in Workloads : job[w] = "none" /\ rd[w].cut = {}
  BY NewDirs DEF Init, BuildInit
<1>2. Cardinality({}) <= 0
  BY FS_EmptySet
<1> QED
  BY <1>1, <1>2 DEF CutInv, CopyOf

\* The steps that copy nothing: those of BuildNext before and after the jobs, and
\* those of the scripts that measure.
LEMMA BuildCut == ASSUME IInv, CutInv, BuildNext PROVE CutInv'
<1>1. /\ faults \in Nat /\ copied \in [Workloads -> Nat] /\ job \in [Workloads -> Jobs]
      /\ rd \in [Workloads -> RunDirs]
      /\ \A w \in Workloads : job[w] \in {"copying", "writing"} => pc = "build" /\ w \in todo
  BY DEF IInv, Types, CutInv, CopyOf
<1>2. CASE Check \/ Verify \/ StartBuilds
  <2>1. pc # "build" /\ UNCHANGED <<rd, job, copied, faults>>
    BY <1>2 DEF Check, Verify, StartBuilds
  <2> QED
    BY <1>1, <2>1, NothingCopied
<1>3. CASE WaitForBuilds
  <2>1. /\ UNCHANGED <<rd, faults>> /\ job' = [w \in Workloads |-> "none"]
        /\ copied' = [w \in Workloads |-> 0] /\ \A w \in todo : job[w] \in {"ok", "failed"}
    BY <1>3 DEF WaitForBuilds, Idle
  <2> QED
    BY <1>1, <2>1, NothingCopied
<1>4. ASSUME NEW w \in Workloads, RemoveBuild(w) \/ RemoveRun(w) \/ SetupOne(w) \/ PatchOne(w)
      PROVE  CutInv'
  <2>1. /\ pc # "build" /\ UNCHANGED <<copied, faults>>
        /\ \E j \in {"half removed", "removed", "set up", "patched"} :
             job' = [job EXCEPT ![w] = j]
    BY <1>4 DEF RemoveBuild, RemoveRun, SetupOne, PatchOne
  <2>2. rd' = rd \/ \E b \in Nat : rd' = [rd EXCEPT ![w] = RunDir(b)]
    BY <1>4 DEF RemoveBuild, RemoveRun, SetupOne, PatchOne, IInv, Types
  <2>3. \A x \in Workloads : rd'[x].cut \in {rd[x].cut, {}}
    BY <1>1, <2>2, NewDirs
  <2> QED
    BY <1>1, <2>1, <2>3, NothingCopied
<1> QED
  BY <1>2, <1>3, <1>4, ScriptsCut, CopyCut DEF BuildNext

LEMMA CutNext == IInv /\ CutInv /\ [Next]_vars => CutInv'
<1> SUFFICES ASSUME IInv, CutInv, [Next]_vars PROVE CutInv'
  OBVIOUS
<1>1. /\ faults \in Nat /\ copied \in [Workloads -> Nat]
      /\ \A w \in Workloads : job[w] \in {"copying", "writing"} => pc = "build"
  BY DEF CutInv, CopyOf
<1>2. CASE InstallPin \/ Header \/ AppendRow \/ \E k, ws, s, f : Start(k, ws, s, f)
  <2>1. pc # "build" /\ UNCHANGED <<rd, job, copied, faults>>
    BY <1>2 DEF InstallPin, Header, AppendRow, Start
  <2> QED
    BY <1>1, <2>1, NothingCopied
<1>3. CASE Finish \/ Abort
  <2>1. /\ rd' = rd /\ faults' \in {faults, faults + 1}
        /\ pc = "build" => faults' = faults + 1
        /\ job' = [w \in Workloads |-> "none"] /\ copied' = [w \in Workloads |-> 0]
    BY <1>3 DEF Finish, Abort, Idle, Fault
  <2> QED
    BY <1>1, <2>1, NothingCopied
<1>4. CASE (\E w \in Workloads : Begin(w)) \/ Command \/ CommandFails
  <2>1. pc # "build" /\ UNCHANGED <<job, copied>> /\ faults' \in {faults, faults + 1}
    BY <1>4 DEF Begin, Command, CommandFails, Fault
  <2> QED
    BY <1>1, <1>4, <2>1, LogsOnly, NothingCopied
<1>5. CASE UNCHANGED vars
  BY <1>5 DEF vars, buildVars, CutInv, CopyOf, NextFile, Staged
<1> QED
  BY <1>2, <1>3, <1>4, <1>5, BuildCut DEF Next, Build

-----------------------------------------------------------------------------
(***************************************************************************)
(* The measurements of SPEC.                                               *)
(***************************************************************************)
Rows == [name : Workloads, sums : [Commands -> Nat]]

\* How often a command is in the log that is being written.
Times(c) == rd[current].log[kind][c]

\* Scripts work on what they were asked for; a log has the commands run so far,
\* each of them once unless something failed.
Measured ==
  /\ csv \in [Kinds -> Seq(Rows)] /\ faults \in Nat
  /\ request \subseteq Workloads /\ todo \subseteq request /\ left \subseteq request
  /\ IF pc = "idle" THEN request = {} ELSE kind \in Kinds
  /\ pc = "commands" =>
       /\ current \in left /\ cmd \in 1 .. (NumCommands + 1)
       /\ kind = "zray" => trace = 0
       /\ \A c \in Commands :
            /\ kind = "zray" => Times(c) <= IF c < cmd THEN 1 ELSE 0
            /\ faults = 0 => Times(c) = IF c < cmd THEN 1 ELSE 0

MInv == Measured /\ RowsComplete

LEMMA InitMeasured == Init => MInv
<1> SUFFICES ASSUME Init PROVE MInv
  OBVIOUS
<1>1. \A k \in Kinds : csv[k] = <<>>
  BY DEF Init
<1>2. csv \in [Kinds -> Seq(Rows)]
  BY DEF Init
<1> QED
  BY <1>1, <1>2 DEF Init, BuildInit, MInv, Measured, RowsComplete

\* A step that measures nothing and adds no row.
LEMMA NotMeasuring ==
  ASSUME MInv, csv' = csv, faults' \in {faults, faults + 1}, pc' # "commands",
         request' \subseteq Workloads, todo' \subseteq request', left' \subseteq request',
         IF pc' = "idle" THEN request' = {} ELSE kind' \in Kinds
  PROVE  MInv'
<1>1. faults \in Nat /\ faults' \in Nat /\ (faults' = 0 => faults = 0)
  BY DEF MInv, Measured
<1>2. Measured'
  BY <1>1 DEF MInv, Measured
<1>3. RowsComplete'
  BY <1>1 DEF MInv, RowsComplete
<1> QED
  BY <1>2, <1>3 DEF MInv

LEMMA BuildMeasured == ASSUME MInv, Build PROVE MInv'
<1>1. /\ BuildNext /\ csv' = csv
      /\ IF pc' = "idle" THEN Nowhere ELSE UNCHANGED position
  BY DEF Build, position
<1>2. faults' \in {faults, faults + 1} /\ pc' # "commands" /\ pc # "idle"
      /\ \/ request' = request /\ todo' \in {todo, request, {}, {w \in request : ~Built(w)}}
            /\ pc' # "idle"
         \/ request' = {} /\ todo' = {} /\ pc' = "idle"
  BY <1>1 DEF BuildNext, Check, Verify, StartBuilds, WaitForBuilds, RemoveBuild, RemoveRun,
              SetupOne, PatchOne, MakeScripts, BuildVariants, CopyOpens, CopyEnds, EndCopy,
              Fault, Idle
<1>3. request' \subseteq Workloads /\ todo' \subseteq request'
  BY <1>2 DEF MInv, Measured
<1>4. left' \subseteq request' /\ IF pc' = "idle" THEN request' = {} ELSE kind' \in Kinds
  BY <1>1, <1>2 DEF MInv, Measured, Nowhere, position
<1> QED
  BY <1>1, <1>2, <1>3, <1>4, NotMeasuring

LEMMA HeaderMeasured == ASSUME MInv, Header PROVE MInv'
<1>1. /\ pc = "header" /\ pc' = "loop" /\ left' = request
      /\ csv' = [csv EXCEPT ![kind] = IF subset THEN @ ELSE <<>>]
      /\ UNCHANGED <<request, todo, faults, kind>>
  BY DEF Header
<1>2. csv' \in [Kinds -> Seq(Rows)] /\ \A k \in Kinds : csv'[k] = csv[k] \/ csv'[k] = <<>>
  BY <1>1 DEF MInv, Measured
<1>3. Measured'
  BY <1>1, <1>2 DEF MInv, Measured
<1>4. RowsComplete'
  BY <1>1, <1>2 DEF MInv, RowsComplete
<1> QED
  BY <1>3, <1>4 DEF MInv

LEMMA BeginMeasured == ASSUME IInv, MInv, NEW w \in Workloads, Begin(w) PROVE MInv'
<1>1. /\ pc = "loop" /\ pc' = "commands" /\ w \in left /\ current' = w /\ cmd' = 1 /\ trace' = 0
      /\ rd' = [rd EXCEPT ![w].log[kind] = NoLog]
      /\ UNCHANGED <<request, todo, left, faults, kind, csv>>
  BY DEF Begin
<1>2. kind \in Kinds /\ rd \in [Workloads -> RunDirs] /\ rd[w].log \in Logs
  BY <1>1 DEF MInv, Measured, IInv, Types, RunDirs
<1>3. rd'[w].log[kind] = NoLog
  <2>1. rd'[w].log = [rd[w].log EXCEPT ![kind] = NoLog]
    BY <1>1, <1>2 DEF RunDirs
  <2> QED
    BY <2>1, <1>2 DEF Logs
<1>4. \A c \in Commands : c \in Nat /\ ~(c < 1) /\ Times(c)' = 0
  BY <1>1, <1>3, NumCommandsAssumption DEF Times, NoLog, Commands
<1>5. Measured'
  BY <1>1, <1>4, NumCommandsAssumption DEF MInv, Measured
<1>6. RowsComplete'
  BY <1>1 DEF MInv, RowsComplete
<1> QED
  BY <1>5, <1>6 DEF MInv

LEMMA CommandMeasured == ASSUME IInv, MInv, Command \/ CommandFails PROVE MInv'
<1>1. /\ pc = "commands" /\ cmd \in Commands /\ cmd' = cmd + 1
      /\ UNCHANGED <<request, todo, left, kind, csv, pc, current>>
  BY DEF Command, CommandFails
<1>2. /\ kind \in Kinds /\ current \in Workloads /\ current \in left
      /\ rd \in [Workloads -> RunDirs]
      /\ rd[current].log \in Logs /\ cmd \in Nat /\ cmd + 1 \in 1 .. (NumCommands + 1)
      /\ \A c \in Commands : c \in Nat /\ Times(c) \in Nat
  BY <1>1, NumCommandsAssumption DEF MInv, Measured, IInv, Types, RunDirs, Logs, Times, Commands
<1>3. ASSUME NEW n \in Commands, rd' = [rd EXCEPT ![current].log[kind][n] = @ + 1]
      PROVE  \A c \in Commands : Times(c)' = IF c = n THEN Times(c) + 1 ELSE Times(c)
  <2> DEFINE m == [rd[current].log[kind] EXCEPT ![n] = rd[current].log[kind][n] + 1]
  <2>1. rd'[current].log = [rd[current].log EXCEPT ![kind] = m]
    BY <1>2, <1>3 DEF RunDirs
  <2>2. rd[current].log[kind] \in [Commands -> Nat]
    BY <1>2 DEF Logs
  <2>3. \A c \in Commands : m[c] = IF c = n THEN Times(c) + 1 ELSE Times(c)
    BY <2>2 DEF Times
  <2> HIDE DEF m
  <2>4. rd'[current].log[kind] = m
    BY <2>1, <1>2 DEF Logs
  <2> QED
    BY <2>3, <2>4, <1>1 DEF Times
<1>4. CASE Command
  <2>1. /\ rd' = [rd EXCEPT ![current].log[kind][cmd] = @ + 1] /\ faults' = faults
        /\ trace' = IF kind = "pin" THEN cmd ELSE 0
    BY <1>4 DEF Command
  <2>2. \A c \in Commands : Times(c)' = IF c = cmd THEN Times(c) + 1 ELSE Times(c)
    BY <2>1, <1>1, <1>3
  <2>3. ASSUME NEW c \in Commands
        PROVE  /\ kind' = "zray" => Times(c)' <= IF c < cmd' THEN 1 ELSE 0
               /\ faults' = 0 => Times(c)' = IF c < cmd' THEN 1 ELSE 0
    BY <2>1, <2>2, <1>1, <1>2 DEF MInv, Measured
  <2>4. Measured'
    BY <2>1, <2>3, <1>1, <1>2 DEF MInv, Measured
  <2> QED
    BY <2>1, <2>4, <1>1 DEF MInv, RowsComplete
<1>5. CASE CommandFails
  <2>1. /\ faults' = faults + 1 /\ trace' = trace
        /\ rd' = IF trace = 0 THEN rd ELSE [rd EXCEPT ![current].log[kind][trace] = @ + 1]
    BY <1>5 DEF CommandFails, Fault
  <2>2. faults' \in Nat /\ faults' # 0 /\ trace \in {0} \cup Commands
    BY <2>1, <1>1 DEF MInv, Measured, IInv, Types
  <2>3. ASSUME NEW c \in Commands, kind = "zray"
        PROVE  Times(c)' <= IF c < cmd' THEN 1 ELSE 0
    <3>1. rd' = rd
      BY <2>1, <2>3, <1>1 DEF MInv, Measured
    <3>2. Times(c)' = Times(c) /\ Times(c) <= IF c < cmd THEN 1 ELSE 0
      BY <3>1, <2>3, <1>1 DEF MInv, Measured, Times
    <3> QED
      BY <3>2, <1>1, <1>2
  <2>4. Measured'
    BY <2>1, <2>2, <2>3, <1>1, <1>2 DEF MInv, Measured
  <2> QED
    BY <2>2, <2>4, <1>1 DEF MInv, RowsComplete
<1> QED
  BY <1>4, <1>5

LEMMA AppendMeasured == ASSUME IInv, MInv, AppendRow PROVE MInv'
<1> DEFINE log == rd[current].log[kind]
           row == [name |-> current, sums |-> log]
<1>1. /\ pc = "commands" /\ cmd > NumCommands /\ pc' = "loop" /\ left' = left \ {current}
      /\ csv' = csv \/ csv' = [csv EXCEPT ![kind] = Append(csv[kind], row)]
      /\ UNCHANGED <<request, todo, faults, kind>>
  BY DEF AppendRow
<1>2. /\ kind \in Kinds /\ current \in Workloads /\ log \in [Commands -> Nat] /\ cmd \in Nat
      /\ csv \in [Kinds -> Seq(Rows)] /\ row \in Rows
      /\ \A c \in Commands : c < cmd
  <2>1. /\ kind \in Kinds /\ current \in left /\ left \subseteq request
        /\ cmd \in 1 .. (NumCommands + 1)
        /\ csv \in [Kinds -> Seq(Rows)] /\ request \subseteq Workloads
    BY <1>1 DEF MInv, Measured
  <2>2. \A c \in Commands : c < cmd
    BY <1>1, <2>1, NumCommandsAssumption DEF Commands
  <2>3. current \in Workloads /\ rd[current].log \in Logs
    BY <2>1 DEF IInv, Types, RunDirs
  <2>4. log \in [Commands -> Nat]
    BY <2>1, <2>3 DEF Logs
  <2> HIDE DEF log
  <2>5. row \in Rows
    BY <2>3, <2>4 DEF Rows
  <2> HIDE DEF row
  <2>6. cmd \in Nat
    BY <2>1, NumCommandsAssumption
  <2> QED
    BY <2>1, <2>2, <2>3, <2>4, <2>5, <2>6
<1>3. \A c \in Commands : (faults = 0 => log[c] = 1) /\ (kind = "zray" => log[c] <= 1)
  BY <1>1, <1>2 DEF MInv, Measured, Times
<1> HIDE DEF log
<1>4. row.sums = log
  OBVIOUS
<1> HIDE DEF row
<1>5. csv' \in [Kinds -> Seq(Rows)]
  <2>1. Append(csv[kind], row) \in Seq(Rows)
    BY <1>2
  <2> QED
    BY <1>1, <1>2, <2>1
<1>6. Measured'
  BY <1>1, <1>5 DEF MInv, Measured
<1>7. RowsComplete'
  <2> SUFFICES ASSUME NEW k \in Kinds, NEW i \in DOMAIN csv'[k], NEW c \in Commands
               PROVE  /\ faults = 0 => csv'[k][i].sums[c] = 1
                      /\ k = "zray" => csv'[k][i].sums[c] <= 1
    BY <1>1 DEF RowsComplete
  <2>1. CASE csv'[k] = csv[k]
    BY <2>1 DEF MInv, RowsComplete
  <2>2. CASE k = kind /\ csv'[k] = Append(csv[k], row)
    <3>1. csv[k] \in Seq(Rows) /\ i \in 1 .. (Len(csv[k]) + 1)
      BY <2>2, <1>2
    <3>2. CASE i = Len(csv[k]) + 1
      <4>1. csv'[k][i] = row
        BY <2>2, <3>1, <3>2, <1>2
      <4> QED
        BY <4>1, <2>2, <1>3, <1>4
    <3>3. CASE i # Len(csv[k]) + 1
      <4>1. i \in DOMAIN csv[k] /\ csv'[k][i] = csv[k][i]
        BY <2>2, <3>1, <3>3, <1>2
      <4> QED
        BY <4>1 DEF MInv, RowsComplete
    <3> QED
      BY <3>2, <3>3
  <2> QED
    BY <2>1, <2>2, <1>1, <1>2
<1> QED
  BY <1>6, <1>7 DEF MInv

LEMMA NextMeasured == IInv /\ MInv /\ [Next]_vars => MInv'
<1> SUFFICES ASSUME IInv, MInv, [Next]_vars PROVE MInv'
  OBVIOUS
<1>1. ASSUME InstallPin PROVE MInv'
  <2>1. /\ UNCHANGED <<csv, faults, pc, request, todo, left, kind>> /\ pc = "idle"
    BY <1>1 DEF InstallPin, position
  <2> QED
    BY <2>1, NotMeasuring DEF MInv, Measured
<1>2. ASSUME NEW k \in Kinds, NEW ws \in SUBSET Workloads, NEW s, NEW f, Start(k, ws, s, f)
      PROVE  MInv'
  <2>1. /\ UNCHANGED <<csv, faults, todo, left>> /\ pc' = "check" /\ request' = ws /\ kind' = k
        /\ pc = "idle"
    BY <1>2 DEF Start
  <2>2. todo = {} /\ left = {}
    BY <2>1 DEF MInv, Measured
  <2> QED
    BY <2>1, <2>2, NotMeasuring DEF MInv, Measured
<1>3. ASSUME Finish \/ Abort PROVE MInv'
  <2>1. /\ csv' = csv /\ faults' \in {faults, faults + 1} /\ pc' = "idle"
        /\ request' = {} /\ todo' = {} /\ left' = {}
    BY <1>3 DEF Finish, Abort, Idle, Nowhere, Fault
  <2> QED
    BY <2>1, NotMeasuring
<1>4. CASE UNCHANGED vars
  BY <1>4 DEF vars, buildVars, position, MInv, Measured, RowsComplete, Times
<1> QED
  BY <1>1, <1>2, <1>3, <1>4, BuildMeasured, HeaderMeasured, BeginMeasured, CommandMeasured,
     AppendMeasured DEF Next

-----------------------------------------------------------------------------
(***************************************************************************)
(* What the report shows of a workload the script was not given.           *)
(***************************************************************************)
\* A set of numbers has a least one: of the intervals below them, a least one is
\* well-founded choice among finite sets.
LEMMA LeastNat ==
  ASSUME NEW T, T \subseteq Nat, T # {}
  PROVE  \E n \in T : \A m \in T : n <= m
<1> DEFINE Below(n) == 0 .. (n - 1)
           R == StrictSubsetOrdering(Nat)
           S == FiniteSubsetsOf(Nat)
           D == {Below(n) : n \in T}
<1>1. IsWellFoundedOn(R, S)
  BY FS_StrictSubsetOrderingWellFounded
<1>2. \A n \in T : Below(n) \in S
  BY FS_Interval DEF FiniteSubsetsOf
<1>3. D \subseteq S /\ D # {}
  BY <1>2
<1> HIDE DEF S, R, D
<1>4. PICK d \in D : \A e \in D : ~(<<e, d>> \in R)
  BY <1>1, <1>3, WFMin
<1>5. PICK n \in T : d = Below(n)
  BY <1>4 DEF D
<1>6. \A m \in T : n <= m
  <2> SUFFICES ASSUME NEW m \in T, m < n PROVE FALSE
    OBVIOUS
  <2>1. Below(m) \subseteq Below(n) /\ Below(m) # Below(n)
    <3>1. m \in Below(n) /\ m \notin Below(m)
      OBVIOUS
    <3> QED
      BY <3>1
  <2>2. <<Below(m), d>> \in R
    BY <1>5, <2>1 DEF R, StrictSubsetOrdering
  <2> QED
    BY <2>2, <1>4 DEF D
<1> QED
  BY <1>6

\* The greatest of some positions of a sequence is one of them.
LEMMA MaxIn ==
  ASSUME NEW n \in Nat, NEW S, S \subseteq 1 .. n, S # {}
  PROVE  Max(S) \in S
<1> DEFINE T == {n - x : x \in S}
<1>1. T \subseteq Nat /\ T # {}
  <2>1. \A x \in S : n - x \in Nat
    <3> SUFFICES ASSUME NEW x \in S PROVE n - x \in Nat
      OBVIOUS
    <3>1. x \in 1 .. n
      OBVIOUS
    <3> QED
      BY <3>1
  <2> QED
    BY <2>1
<1> HIDE DEF T
<1>2. PICK m \in T : \A y \in T : m <= y
  BY <1>1, LeastNat
<1>3. PICK x \in S : m = n - x
  BY DEF T
<1>4. \A y \in S : x >= y
  <2> SUFFICES ASSUME NEW y \in S PROVE x >= y
    OBVIOUS
  <2>1. n - y \in T
    BY DEF T
  <2>2. n - x <= n - y /\ x \in 1 .. n /\ y \in 1 .. n
    BY <2>1, <1>2, <1>3
  <2> QED
    BY <2>2
<1> QED
  BY <1>4 DEF Max

\* Only rows of other workloads are added, and its log stays.
LEMMA FiguresKept ==
  ASSUME MInv, NEW w \in Workloads, rd'[w].log = rd[w].log,
         \A k \in Kinds :
           \/ csv'[k] = csv[k]
           \/ \E row \in Rows : row.name # w /\ csv'[k] = Append(csv[k], row)
  PROVE  spec_rows(w)' = spec_rows(w)
<1>1. ASSUME NEW k \in Kinds
      PROVE  RowsFor(k, w)' = RowsFor(k, w) /\ last_row(k, w)' = last_row(k, w)
  <2>1. csv[k] \in Seq(Rows) /\ RowsFor(k, w) \subseteq 1 .. Len(csv[k]) /\ Len(csv[k]) \in Nat
    BY DEF MInv, Measured, RowsFor
  <2>2. CASE csv'[k] = csv[k]
    BY <2>2 DEF RowsFor, last_row
  <2>3. ASSUME NEW row \in Rows, row.name # w, csv'[k] = Append(csv[k], row)
        PROVE  RowsFor(k, w)' = RowsFor(k, w) /\ last_row(k, w)' = last_row(k, w)
    <3>1. /\ DOMAIN csv'[k] = 1 .. (Len(csv[k]) + 1) /\ DOMAIN csv[k] = 1 .. Len(csv[k])
          /\ csv'[k][Len(csv[k]) + 1] = row
          /\ \A i \in DOMAIN csv[k] : csv'[k][i] = csv[k][i]
      BY <2>1, <2>3
    <3>2. RowsFor(k, w)' = RowsFor(k, w)
      <4>1. \A i : i \in RowsFor(k, w)' <=> i \in DOMAIN csv'[k] /\ csv'[k][i].name = w
        BY DEF RowsFor
      <4>2. \A i : i \in RowsFor(k, w) <=> i \in DOMAIN csv[k] /\ csv[k][i].name = w
        BY DEF RowsFor
      <4>3. \A i : i \in RowsFor(k, w)' <=> i \in RowsFor(k, w)
        BY <2>1, <2>3, <3>1, <4>1, <4>2
      <4> QED
        BY <4>3 DEF RowsFor
    <3>3. CASE RowsFor(k, w) = {}
      BY <3>2, <3>3 DEF last_row
    <3>4. CASE RowsFor(k, w) # {}
      <4>1. Max(RowsFor(k, w)) \in RowsFor(k, w)
        BY <2>1, <3>4, MaxIn
      <4>2. csv'[k][Max(RowsFor(k, w))] = csv[k][Max(RowsFor(k, w))]
        BY <4>1, <3>1, <2>1
      <4>3. last_row(k, w)' = csv'[k][Max(RowsFor(k, w)')].sums
        BY <3>2, <3>4 DEF last_row
      <4> QED
        BY <4>2, <4>3, <3>2, <3>4 DEF last_row
    <3> QED
      BY <3>3, <3>4, <3>2
  <2> QED
    BY <2>2, <2>3
<1>2. \A k \in Kinds : Figures(k, w)' = Figures(k, w)
  BY <1>1 DEF Figures
<1>3. RowsFor("zray", w)' = RowsFor("zray", w)
  BY <1>1 DEF Kinds
<1>4. CASE RowsFor("zray", w) = {}
  BY <1>3, <1>4 DEF spec_rows
<1>5. CASE RowsFor("zray", w) # {}
  <2>1. spec_rows(w)' = [k \in Kinds |-> Figures(k, w)']
    BY <1>3, <1>5 DEF spec_rows
  <2> QED
    BY <2>1, <1>2, <1>5 DEF spec_rows
<1> QED
  BY <1>4, <1>5

LEMMA StepKeepsOthers ==
  ASSUME IInv, MInv, Next, pc # "idle", subset, NEW w \in Workloads \ request
  PROVE  spec_rows(w)' = spec_rows(w)
<1>1. /\ rd \in [Workloads -> RunDirs] /\ request \subseteq Workloads
      /\ todo \subseteq request /\ left \subseteq request
      /\ kind \in Kinds /\ w \in Workloads /\ csv \in [Kinds -> Seq(Rows)]
  BY DEF IInv, Types, MInv, Measured
<1>2. CASE Build
  <2>1. csv' = csv
    BY <1>2 DEF Build, position
  <2>2. rd' = rd \/ \E x \in todo : \E d : rd' = [rd EXCEPT ![x] = d]
    <3>1. ASSUME NEW x, CopyOpens(x) \/ CopyEnds(x)
          PROVE  x \in todo /\ (rd' = rd \/ \E d : rd' = [rd EXCEPT ![x] = d])
      BY <3>1 DEF CopyOpens, CopyEnds
    <3> QED
      BY <1>2, <3>1
         DEF Build, BuildNext, Check, Verify, StartBuilds, WaitForBuilds, RemoveBuild,
             RemoveRun, SetupOne, PatchOne, MakeScripts, BuildVariants
  <2>3. rd'[w] = rd[w]
    BY <2>2, <1>1
  <2> QED
    BY <2>1, <2>3, <1>1, FiguresKept
<1>3. CASE Header
  <2>1. csv' = [csv EXCEPT ![kind] = csv[kind]] /\ rd' = rd
    BY <1>3 DEF Header
  <2>2. \A k \in Kinds : csv'[k] = csv[k]
    BY <2>1, <1>1
  <2> QED
    BY <2>1, <2>2, <1>1, FiguresKept
<1>4. ASSUME NEW x \in Workloads, Begin(x) PROVE spec_rows(w)' = spec_rows(w)
  <2>1. csv' = csv /\ x \in left /\ rd' = [rd EXCEPT ![x].log[kind] = NoLog]
    BY <1>4 DEF Begin
  <2>2. rd'[w] = rd[w]
    BY <2>1, <1>1
  <2> QED
    BY <2>1, <2>2, <1>1, FiguresKept
<1>5. CASE Command \/ CommandFails
  <2>1. /\ csv' = csv /\ pc = "commands"
        /\ rd' = rd \/ \E d : rd' = [rd EXCEPT ![current] = d]
    BY <1>5 DEF Command, CommandFails
  <2>2. current \in left
    BY <2>1 DEF MInv, Measured
  <2>3. rd'[w] = rd[w]
    BY <2>1, <2>2, <1>1
  <2> QED
    BY <2>1, <2>3, <1>1, FiguresKept
<1>6. CASE AppendRow
  <2> DEFINE log == rd[current].log[kind]
             row == [name |-> current, sums |-> log]
  <2>1. /\ rd' = rd /\ pc = "commands"
        /\ csv' = csv \/ csv' = [csv EXCEPT ![kind] = Append(csv[kind], row)]
    BY <1>6 DEF AppendRow
  <2>2. current \in left /\ current # w /\ current \in Workloads
    BY <2>1, <1>1 DEF MInv, Measured
  <2>3. log \in [Commands -> Nat]
    <3>1. rd[current].log \in Logs
      BY <2>2, <1>1 DEF RunDirs
    <3> QED
      BY <3>1, <1>1 DEF Logs
  <2>4. row \in Rows /\ row.name # w
    BY <2>2, <2>3 DEF Rows
  <2> HIDE DEF row, log
  <2>5. ASSUME NEW k \in Kinds
        PROVE  csv'[k] = csv[k] \/ (row.name # w /\ csv'[k] = Append(csv[k], row))
    BY <2>1, <2>4, <1>1
  <2>6. rd'[w].log = rd[w].log
    BY <2>1
  <2> QED
    BY <2>4, <2>5, <2>6, <1>1, FiguresKept
<1>7. CASE Finish \/ Abort
  <2>1. csv' = csv /\ rd' = rd
    BY <1>7 DEF Finish, Abort
  <2> QED
    BY <2>1, <1>1, FiguresKept
<1>8. ~InstallPin /\ \A k, ws, s, f : ~Start(k, ws, s, f)
  BY DEF InstallPin, Start
<1> QED
  BY <1>2, <1>3, <1>4, <1>5, <1>6, <1>7, <1>8 DEF Next

-----------------------------------------------------------------------------
(***************************************************************************)
(* The figures of the kernels.  A tool's script empties its rows before it *)
(* removes the directories with the logs, and writes a row only once       *)
(* every log left is one of its own: so the logs and the rows of a tool    *)
(* have one source at every step, and also if the script stops there.      *)
(***************************************************************************)
Dirs == [there : BOOLEAN, bin : BOOLEAN, log : Nat]
StatRows == [name : Kernels, time : Nat, sums : Nat]
ByteRows == [name : Kernels, sums : Nat]
Lines == {"clean", "make", "measure", "row", "coalesce", "bytes", "done"}

GapbsTypes ==
  /\ tool \in Tools \cup {"none"} /\ number \in Nat
  /\ tool # "none" => kernel \in Kernels /\ line \in Lines
  /\ tool = "none" => line = "idle"
  /\ tree \in [Tools -> [Kernels -> Dirs]]
  /\ stats \in [Tools -> Seq(StatRows)] /\ bytes \in [Tools -> Seq(ByteRows)]

InOrder(rows) == \A i, j \in DOMAIN rows : i < j => rows[i].name < rows[j].name
NamesBelow(rows, k) == \A i \in DOMAIN rows : rows[i].name < k

\* The logs and the rows with times are of script r.
Logged(t, r) == \A k \in Kernels : tree[t][k].log \in {0, r}
Timed(t, r) == \A i \in DOMAIN stats[t] : stats[t][i].time = r
Summed(t, r) == \A i \in DOMAIN bytes[t] : bytes[t][i].sums \in {0, r}

\* What the script that runs has made by the line it is at.
Made(t) ==
  /\ line \in {"clean", "make"} => stats[t] = <<>>
  /\ line \in {"measure", "row", "coalesce", "bytes"} => Logged(t, number) /\ Timed(t, number)
  /\ line \in {"measure", "row"} => NamesBelow(stats[t], kernel)
  /\ line = "bytes" => Summed(t, number) /\ NamesBelow(bytes[t], kernel)
  /\ t = "pin" /\ line \notin {"bytes", "done"} => bytes[t] = <<>>

OneScript(t) ==
  /\ InOrder(stats[t]) /\ InOrder(bytes[t])
  /\ \A i \in DOMAIN stats[t] : stats[t][i].sums = tree[t][stats[t][i].name].log
  /\ \E r \in Nat : Logged(t, r) /\ Timed(t, r)
  /\ \E r \in Nat : Summed(t, r)
  /\ tool = t => Made(t)

GInv == GapbsTypes /\ \A t \in Tools : OneScript(t)

\* Of a tool whose script does not run after the step, nothing else matters.
LEMMA OtherTool ==
  ASSUME NEW t \in Tools, OneScript(t), tool' # t,
         tree'[t] = tree[t], stats'[t] = stats[t], bytes'[t] = bytes[t]
  PROVE  OneScript(t)'
<1>1. PICK r \in Nat : Logged(t, r) /\ Timed(t, r)
  BY DEF OneScript
<1>2. PICK b \in Nat : Summed(t, b)
  BY DEF OneScript
<1>3. Logged(t, r)' /\ Timed(t, r)' /\ Summed(t, b)'
  BY <1>1, <1>2 DEF Logged, Timed, Summed
<1> QED
  BY <1>3 DEF OneScript, InOrder

LEMMA NamesAreNumbers ==
  ASSUME GapbsTypes, NEW t \in Tools, NEW rows \in {stats[t], bytes[t]}, NEW i \in DOMAIN rows
  PROVE  rows[i].name \in Nat
<1>1. \A k \in Kernels : k \in Nat
  BY NumKernelsAssumption DEF Kernels
<1>2. CASE rows = stats[t]
  <2>1. rows \in Seq(StatRows)
    BY <1>2 DEF GapbsTypes
  <2>2. rows[i] \in StatRows
    BY <2>1
  <2> QED
    BY <2>2, <1>1 DEF StatRows
<1>3. CASE rows = bytes[t]
  <2>1. rows \in Seq(ByteRows)
    BY <1>3 DEF GapbsTypes
  <2>2. rows[i] \in ByteRows
    BY <2>1
  <2> QED
    BY <2>2, <1>1 DEF ByteRows
<1> QED
  BY <1>2, <1>3

\* Rows are added in the order of the kernels.
LEMMA RowAdded ==
  ASSUME NEW R, NEW rows \in Seq(R), NEW row \in R, NEW k \in Nat, row.name = k,
         InOrder(rows), NamesBelow(rows, k), \A i \in DOMAIN rows : rows[i].name \in Nat
  PROVE  LET new == Append(rows, row)
         IN  /\ new \in Seq(R) /\ InOrder(new) /\ NamesBelow(new, k + 1)
             /\ \A i \in DOMAIN new : (i \in DOMAIN rows /\ new[i] = rows[i]) \/ new[i] = row
<1> DEFINE new == Append(rows, row)
           n == Len(rows)
<1>1. /\ new \in Seq(R) /\ DOMAIN new = 1 .. (n + 1) /\ DOMAIN rows = 1 .. n /\ n \in Nat
      /\ new[n + 1] = row /\ \A i \in 1 .. n : new[i] = rows[i]
  OBVIOUS
<1> HIDE DEF new, n
<1>2. ASSUME NEW i \in DOMAIN new, NEW j \in DOMAIN new, i < j
      PROVE  new[i].name < new[j].name
  <2>1. i \in DOMAIN rows /\ new[i] = rows[i]
    BY <1>1, <1>2
  <2>2. CASE j = n + 1
    BY <1>1, <2>1, <2>2 DEF NamesBelow
  <2>3. CASE j # n + 1
    <3>1. j \in DOMAIN rows /\ new[j] = rows[j]
      BY <1>1, <1>2, <2>3
    <3> QED
      BY <2>1, <3>1, <1>2 DEF InOrder
  <2> QED
    BY <2>2, <2>3
<1>3. \A i \in DOMAIN new : (i \in DOMAIN rows /\ new[i] = rows[i]) \/ new[i] = row
  BY <1>1
<1>4. ASSUME NEW i \in DOMAIN new PROVE new[i].name < k + 1
  <2>1. CASE new[i] = row
    BY <2>1
  <2>2. CASE i \in DOMAIN rows /\ new[i] = rows[i]
    <3>1. rows[i].name < k /\ rows[i].name \in Nat
      BY <2>2 DEF NamesBelow
    <3> QED
      BY <3>1, <2>2
  <2> QED
    BY <2>1, <2>2, <1>3
<1>5. InOrder(new) /\ NamesBelow(new, k + 1)
  BY <1>2, <1>4 DEF InOrder, NamesBelow
<1> QED
  BY <1>1, <1>3, <1>5 DEF new

LEMMA GapbsInitInv == GapbsInit => GInv
<1> SUFFICES ASSUME GapbsInit PROVE GInv
  OBVIOUS
<1>1. GapbsTypes
  BY DEF GapbsInit, GapbsTypes, Dirs, NoDir
<1>2. ASSUME NEW t \in Tools PROVE OneScript(t)
  <2>1. /\ stats[t] = <<>> /\ bytes[t] = <<>> /\ tool # t
        /\ \A k \in Kernels : tree[t][k].log = 0
    BY DEF GapbsInit, NoDir, Tools
  <2>2. Logged(t, 0) /\ Timed(t, 0) /\ Summed(t, 0)
    BY <2>1 DEF Logged, Timed, Summed
  <2> QED
    BY <2>1, <2>2 DEF OneScript, InOrder
<1> QED
  BY <1>1, <1>2 DEF GInv

LEMMA StartKeepsScript == ASSUME GInv, NEW t \in Tools, StartScript(t) PROVE GInv'
<1>1. /\ tool = "none" /\ tool' = t /\ line' = "clean" /\ kernel' = 1 /\ number' = number + 1
      /\ stats' = [stats EXCEPT ![t] = <<>>]
      /\ bytes' = [bytes EXCEPT ![t] = IF t = "pin" THEN <<>> ELSE bytes[t]]
      /\ tree' = tree
  BY DEF StartScript
<1>2. GapbsTypes
  BY DEF GInv
<1>3. /\ stats'[t] = <<>> /\ bytes'[t] = (IF t = "pin" THEN <<>> ELSE bytes[t])
      /\ tree'[t] = tree[t]
      /\ stats' \in [Tools -> Seq(StatRows)] /\ bytes' \in [Tools -> Seq(ByteRows)]
  BY <1>1, <1>2 DEF GapbsTypes
<1>4. GapbsTypes'
  BY <1>1, <1>2, <1>3, NumKernelsAssumption DEF GapbsTypes, Kernels, Lines, Tools
<1>5. OneScript(t)'
  <2>1. PICK r \in Nat : Logged(t, r)
    BY DEF GInv, OneScript
  <2>2. PICK b \in Nat : Summed(t, b)
    BY DEF GInv, OneScript
  <2>3. Logged(t, r)' /\ Timed(t, r)' /\ Summed(t, b)'
    BY <2>1, <2>2, <1>3 DEF Logged, Timed, Summed
  <2>4. Made(t)'
    BY <1>1, <1>3 DEF Made
  <2> QED
    BY <1>3, <2>3, <2>4 DEF GInv, OneScript, InOrder
<1>6. ASSUME NEW u \in Tools, u # t PROVE OneScript(u)'
  BY <1>1, <1>2, <1>6, OtherTool DEF GInv, GapbsTypes
<1> QED
  BY <1>4, <1>5, <1>6 DEF GInv

\* A step of the script that runs: what is shown for it, for its own tool.
LEMMA OwnTool ==
  ASSUME GInv, GapbsTypes', NEW t \in Tools, tool = t, tool' = t,
         \A u \in Tools \ {t} :
           tree'[u] = tree[u] /\ stats'[u] = stats[u] /\ bytes'[u] = bytes[u],
         OneScript(t)'
  PROVE  GInv'
<1>1. ASSUME NEW u \in Tools, u # t PROVE OneScript(u)'
  BY <1>1, OtherTool DEF GInv
<1> QED
  BY <1>1 DEF GInv

\* The loop over the kernels.
LEMMA NextKernelIs ==
  ASSUME GInv, tool # "none", NEW next \in Lines, NextKernel(next)
  PROVE  /\ kernel' \in Kernels /\ line' \in Lines /\ kernel \in Kernels /\ kernel \in Nat
         /\ \/ kernel' = kernel + 1 /\ line' = line
            \/ line' = next
BY NumKernelsAssumption DEF NextKernel, GInv, GapbsTypes, Kernels

LEMMA CleanKeepsScript == ASSUME GInv, NEW t \in Tools, tool = t, Clean PROVE GInv'
<1>1. /\ line = "clean" /\ tree' = [tree EXCEPT ![t][kernel] = NoDir] /\ NextKernel("make")
      /\ tool' = t /\ UNCHANGED <<number, stats, bytes>>
  BY DEF Clean
<1>2. GapbsTypes /\ OneScript(t) /\ t # "none"
  BY DEF GInv, Tools
<1>3. kernel' \in Kernels /\ line' \in {"clean", "make"} /\ kernel \in Kernels
  BY <1>1, <1>2, NextKernelIs DEF Lines
<1>4. /\ tree' \in [Tools -> [Kernels -> Dirs]] /\ \A u \in Tools \ {t} : tree'[u] = tree[u]
      /\ \A k \in Kernels : tree'[t][k] = IF k = kernel THEN NoDir ELSE tree[t][k]
  BY <1>1, <1>2, <1>3 DEF GapbsTypes, Dirs, NoDir
<1>5. GapbsTypes'
  BY <1>1, <1>2, <1>3, <1>4 DEF GapbsTypes, Lines
<1>6. OneScript(t)'
  <2>1. PICK r \in Nat : Logged(t, r)
    BY <1>2 DEF OneScript
  <2>2. PICK b \in Nat : Summed(t, b)
    BY <1>2 DEF OneScript
  <2>3. stats[t] = <<>> /\ (t = "pin" => bytes[t] = <<>>)
    BY <1>1, <1>2 DEF OneScript, Made
  <2>4. Logged(t, r)' /\ Timed(t, r)' /\ Summed(t, b)'
    BY <2>1, <2>2, <2>3, <1>1, <1>4 DEF Logged, Timed, Summed, NoDir
  <2>5. Made(t)'
    BY <2>3, <1>1, <1>3 DEF Made
  <2> QED
    BY <2>3, <2>4, <2>5, <1>1, <1>2 DEF OneScript, InOrder
<1> QED
  BY <1>1, <1>4, <1>5, <1>6, OwnTool

LEMMA MakeKeepsScript == ASSUME GInv, NEW t \in Tools, tool = t, Make PROVE GInv'
<1>1. PICK there \in SUBSET Kernels, built \in SUBSET Kernels :
        /\ tree' = [tree EXCEPT ![t] =
             [k \in Kernels |-> [NoDir EXCEPT !.there = k \in there, !.bin = k \in built]]]
        /\ line = "make" /\ line' = "measure" /\ kernel' = 1
        /\ tool' = t /\ UNCHANGED <<number, stats, bytes>>
  BY DEF Make
<1>2. GapbsTypes /\ OneScript(t) /\ kernel' \in Kernels
  <2>1. 1 \in Kernels
    BY NumKernelsAssumption DEF Kernels
  <2> QED
    BY <1>1, <2>1 DEF GInv
<1>3. /\ \A u \in Tools \ {t} : tree'[u] = tree[u]
      /\ tree'[t] =
           [k \in Kernels |-> [NoDir EXCEPT !.there = k \in there, !.bin = k \in built]]
  BY <1>1, <1>2 DEF GapbsTypes
<1>4. \A k \in Kernels : tree'[t][k].log = 0 /\ tree'[t][k] \in Dirs
  <2>1. ASSUME NEW p \in BOOLEAN, NEW q \in BOOLEAN
        PROVE  LET d == [NoDir EXCEPT !.there = p, !.bin = q] IN d.log = 0 /\ d \in Dirs
    BY DEF NoDir, Dirs
  <2>2. \A k \in Kernels : (k \in there) \in BOOLEAN /\ (k \in built) \in BOOLEAN
    OBVIOUS
  <2>3. ASSUME NEW k \in Kernels PROVE tree'[t][k].log = 0 /\ tree'[t][k] \in Dirs
    <3>1. tree'[t][k] = [NoDir EXCEPT !.there = k \in there, !.bin = k \in built]
      BY <1>3
    <3> QED
      BY <3>1, <2>1, <2>2
  <2> QED
    BY <2>3
<1>5. tree' \in [Tools -> [Kernels -> Dirs]]
  <2>1. tree'[t] \in [Kernels -> Dirs]
    BY <1>3, <1>4
  <2> QED
    BY <2>1, <1>1, <1>2 DEF GapbsTypes
<1>6. GapbsTypes'
  BY ZenonT(60), <1>1, <1>2, <1>5 DEF GapbsTypes, Lines
<1>7. OneScript(t)'
  <2>1. PICK b \in Nat : Summed(t, b)
    BY <1>2 DEF OneScript
  <2>2. stats[t] = <<>> /\ (t = "pin" => bytes[t] = <<>>) /\ number \in Nat
    BY <1>1, <1>2 DEF OneScript, Made, GapbsTypes
  <2>0. stats'[t] = <<>> /\ bytes' = bytes /\ DOMAIN stats'[t] = {} /\ number' = number
    <3>1. stats'[t] = <<>>
      BY <2>2, <1>1
    <3>2. DOMAIN stats'[t] = {}
      BY <3>1
    <3> QED
      BY <3>1, <3>2, <1>1
  <2>3. /\ Logged(t, number)' /\ Timed(t, number)' /\ Summed(t, b)'
        /\ NamesBelow(stats[t], kernel)'
    BY <2>1, <2>0, <1>4 DEF Logged, Timed, Summed, NamesBelow
  <2>4. Made(t)'
    BY <2>2, <2>3, <1>1 DEF Made
  <2>5. number' \in Nat
    BY <1>6 DEF GapbsTypes
  <2>6. \E r \in Nat : Logged(t, r)' /\ Timed(t, r)'
    BY <2>3, <2>5, <1>1 DEF Logged, Timed
  <2>7. InOrder(stats[t])' /\ InOrder(bytes[t])'
    BY <2>2, <1>1, <1>2 DEF OneScript, InOrder
  <2>8. \A i \in DOMAIN stats'[t] : stats'[t][i].sums = tree'[t][stats'[t][i].name].log
    BY <2>0
  <2> QED
    BY <2>3, <2>4, <2>6, <2>7, <2>8, <1>1 DEF OneScript
<1> QED
  BY <1>1, <1>3, <1>6, <1>7, OwnTool

\* Its log is the script's or missing, and no row has the kernel yet.
LEMMA MeasureKeepsScript == ASSUME GInv, NEW t \in Tools, tool = t, Measure PROVE GInv'
<1>1. PICK log \in {0, number} :
        /\ tree' = [tree EXCEPT ![t][kernel].log = log]
        /\ line = "measure" /\ line' = "row" /\ tool' = t
        /\ UNCHANGED <<kernel, number, stats, bytes>>
  BY DEF Measure
<1>2. GapbsTypes /\ OneScript(t) /\ t # "none" /\ kernel \in Kernels /\ number \in Nat
  BY DEF GInv, Tools, GapbsTypes
<1>3. tree[t] \in [Kernels -> Dirs]
  BY <1>2 DEF GapbsTypes
<1>4. /\ \A u \in Tools \ {t} : tree'[u] = tree[u]
      /\ tree'[t] = [tree[t] EXCEPT ![kernel] = [tree[t][kernel] EXCEPT !.log = log]]
  BY <1>1, <1>2 DEF GapbsTypes
<1>5. /\ tree'[t] \in [Kernels -> Dirs]
      /\ \A k \in Kernels : tree'[t][k].log = IF k = kernel THEN log ELSE tree[t][k].log
  BY <1>1, <1>2, <1>3, <1>4 DEF Dirs
<1>6. GapbsTypes'
  <2>1. tree' \in [Tools -> [Kernels -> Dirs]]
    BY <1>1, <1>2, <1>5 DEF GapbsTypes
  <2> QED
    BY <2>1, <1>1, <1>2 DEF GapbsTypes, Lines
<1>7. OneScript(t)'
  <2>1. PICK b \in Nat : Summed(t, b)
    BY <1>2 DEF OneScript
  <2>2. /\ Logged(t, number) /\ Timed(t, number) /\ NamesBelow(stats[t], kernel)
        /\ t = "pin" => bytes[t] = <<>>
    BY <1>1, <1>2 DEF OneScript, Made
  <2>3. /\ Logged(t, number)' /\ Timed(t, number)' /\ Summed(t, b)'
        /\ NamesBelow(stats[t], kernel)'
    BY <2>1, <2>2, <1>1, <1>5 DEF Logged, Timed, Summed, NamesBelow
  <2>4. Made(t)'
    BY <2>2, <2>3, <1>1 DEF Made
  <2>5. \E r \in Nat : Logged(t, r)' /\ Timed(t, r)'
    BY <2>3, <1>1, <1>2 DEF Logged, Timed
  <2>6. ASSUME NEW i \in DOMAIN stats[t]
        PROVE  stats[t][i].sums = tree'[t][stats[t][i].name].log
    <3>0. stats[t] \in Seq(StatRows) /\ stats[t][i] \in StatRows
      BY <1>2 DEF GapbsTypes
    <3>1. stats[t][i].name \in Kernels /\ stats[t][i].name < kernel
      BY <2>2, <3>0 DEF StatRows, NamesBelow
    <3>2. stats[t][i].name # kernel
      BY <3>1, <1>2 DEF Kernels
    <3> QED
      BY <3>1, <3>2, <1>2, <1>5 DEF OneScript
  <2>7. InOrder(stats[t])' /\ InOrder(bytes[t])'
    BY <1>1, <1>2 DEF OneScript, InOrder
  <2> QED
    BY <2>3, <2>4, <2>5, <2>6, <2>7, <1>1 DEF OneScript
<1> QED
  BY <1>1, <1>4, <1>6, <1>7, OwnTool

LEMMA AppendKeepsScript == ASSUME GInv, NEW t \in Tools, tool = t, AppendStats PROVE GInv'
<1> DEFINE row == [name |-> kernel, time |-> number, sums |-> tree[t][kernel].log]
<1>1. /\ line = "row" /\ stats' = [stats EXCEPT ![t] = Append(stats[t], row)] /\ tool' = t
      /\ UNCHANGED <<number, tree, bytes>>
      /\ \/ kernel < NumKernels /\ kernel' = kernel + 1 /\ line' = "measure"
         \/ kernel' = 1 /\ line' = "coalesce"
  BY DEF AppendStats
<1>2. /\ GapbsTypes /\ OneScript(t) /\ kernel \in Kernels /\ number \in Nat
      /\ stats[t] \in Seq(StatRows) /\ kernel \in Nat
  BY DEF GInv, Tools, GapbsTypes, Kernels
<1>3. row \in StatRows
  <2>1. tree[t][kernel].log \in Nat
    BY <1>2 DEF GapbsTypes, Dirs
  <2> QED
    BY <2>1, <1>2 DEF StatRows
<1>4. row.name = kernel /\ row.time = number /\ row.sums = tree[t][kernel].log
  OBVIOUS
<1> HIDE DEF row
<1>5. kernel' \in Kernels
  BY <1>1, <1>2, NumKernelsAssumption DEF Kernels
<1>6. stats'[t] = Append(stats[t], row) /\ \A u \in Tools \ {t} : stats'[u] = stats[u]
  BY <1>1, <1>2 DEF GapbsTypes
<1>7. /\ Logged(t, number) /\ Timed(t, number) /\ NamesBelow(stats[t], kernel)
      /\ InOrder(stats[t]) /\ (t = "pin" => bytes[t] = <<>>)
  BY <1>1, <1>2 DEF OneScript, Made
<1>8. \A i \in DOMAIN stats[t] : stats[t][i].name \in Nat
  BY <1>2, NamesAreNumbers
<1>9. /\ stats'[t] \in Seq(StatRows) /\ InOrder(stats'[t]) /\ NamesBelow(stats'[t], kernel + 1)
      /\ \A i \in DOMAIN stats'[t] :
           (i \in DOMAIN stats[t] /\ stats'[t][i] = stats[t][i]) \/ stats'[t][i] = row
  BY <1>2, <1>3, <1>4, <1>6, <1>7, <1>8, RowAdded
<1>10. GapbsTypes'
  <2>1. stats' \in [Tools -> Seq(StatRows)]
    BY <1>1, <1>2, <1>6, <1>9 DEF GapbsTypes
  <2> QED
    BY <2>1, <1>1, <1>2, <1>5 DEF GapbsTypes, Lines
<1>11. OneScript(t)'
  <2>1. Logged(t, number)' /\ Timed(t, number)'
    BY <1>1, <1>4, <1>7, <1>9 DEF Logged, Timed
  <2>2. Made(t)'
    BY <2>1, <1>1, <1>7, <1>9 DEF Made
  <2>3. \A i \in DOMAIN stats'[t] : stats'[t][i].sums = tree'[t][stats'[t][i].name].log
    BY <1>1, <1>2, <1>4, <1>9 DEF OneScript
  <2>4. \E r \in Nat : Logged(t, r)' /\ Timed(t, r)'
    BY <2>1, <1>1, <1>2 DEF Logged, Timed
  <2>5. InOrder(stats[t])' /\ InOrder(bytes[t])' /\ \E r \in Nat : Summed(t, r)'
    BY <1>1, <1>2, <1>9 DEF OneScript, InOrder, Summed
  <2> QED
    BY <2>2, <2>3, <2>4, <2>5, <1>1 DEF OneScript
<1> QED
  BY <1>1, <1>6, <1>10, <1>11, OwnTool

LEMMA NoDirectoryKeepsScript ==
  ASSUME GInv, NEW t \in Tools, tool = t, NoDirectory PROVE GInv'
<1>1. /\ line \in {"measure", "bytes"} /\ tool' = t
      /\ NextKernel(IF line = "measure" THEN "coalesce" ELSE "done")
      /\ UNCHANGED <<number, tree, stats, bytes>>
  BY DEF NoDirectory
<1>2. GapbsTypes /\ OneScript(t) /\ t # "none"
  BY DEF GInv, Tools
<1>3. /\ kernel' \in Kernels /\ line' \in Lines /\ kernel \in Nat
      /\ \/ kernel' = kernel + 1 /\ line' = line
         \/ line' = IF line = "measure" THEN "coalesce" ELSE "done"
  BY <1>1, <1>2, NextKernelIs DEF Lines
<1>4. GapbsTypes'
  BY <1>1, <1>2, <1>3 DEF GapbsTypes
<1>5. Made(t)'
  <2>1. Made(t)
    BY <1>2 DEF OneScript
  <2>2. ASSUME NEW rows \in {stats[t], bytes[t]}, NamesBelow(rows, kernel)
        PROVE  NamesBelow(rows, kernel + 1)
    <3>1. \A i \in DOMAIN rows : rows[i].name \in Nat
      BY <1>2, NamesAreNumbers
    <3> QED
      BY <3>1, <2>2, <1>3 DEF NamesBelow
  <2> QED
    BY <2>1, <2>2, <1>1, <1>3 DEF Made, Logged, Timed, Summed, NamesBelow
<1>6. OneScript(t)'
  BY <1>1, <1>2, <1>5 DEF OneScript, InOrder, Logged, Timed, Summed
<1> QED
  BY <1>1, <1>4, <1>6, OwnTool

LEMMA CoalesceKeepsScript == ASSUME GInv, NEW t \in Tools, tool = t, Coalesce PROVE GInv'
<1>1. /\ line = "coalesce" /\ line' = "bytes" /\ kernel' = 1 /\ tool' = t
      /\ bytes' = [bytes EXCEPT ![t] = IF t = "zray" THEN <<>> ELSE bytes[t]]
      /\ UNCHANGED <<number, tree, stats>>
  BY DEF Coalesce
<1>2. /\ GapbsTypes /\ OneScript(t) /\ number \in Nat /\ 1 \in Kernels
      /\ t = "zray" \/ t = "pin"
  BY NumKernelsAssumption DEF GInv, GapbsTypes, Kernels, Tools
<1>3. Logged(t, number) /\ Timed(t, number) /\ (t = "pin" => bytes[t] = <<>>)
  BY <1>1, <1>2 DEF OneScript, Made
<1>4. bytes'[t] = <<>> /\ \A u \in Tools \ {t} : bytes'[u] = bytes[u]
  BY <1>1, <1>2, <1>3 DEF GapbsTypes
<1>5. GapbsTypes'
  <2>1. bytes' \in [Tools -> Seq(ByteRows)]
    BY <1>1, <1>2, <1>4 DEF GapbsTypes
  <2> QED
    BY <2>1, <1>1, <1>2 DEF GapbsTypes, Lines
<1>6. OneScript(t)'
  <2>1. DOMAIN bytes'[t] = {}
    BY <1>4
  <2>2. Summed(t, number)' /\ NamesBelow(bytes[t], kernel)' /\ InOrder(bytes[t])'
    BY <2>1 DEF Summed, NamesBelow, InOrder
  <2>3. Logged(t, number)' /\ Timed(t, number)' /\ number' = number
    BY <1>1, <1>3 DEF Logged, Timed
  <2>4. Made(t)'
    BY <2>2, <2>3, <1>1 DEF Made
  <2>5. \E r \in Nat : Logged(t, r)' /\ Timed(t, r)'
    BY <2>3, <1>2 DEF Logged, Timed
  <2>6. \E r \in Nat : Summed(t, r)'
    BY <2>2, <2>3, <1>2 DEF Summed
  <2>7. InOrder(stats[t])'
    BY <1>1, <1>2 DEF OneScript, InOrder
  <2> QED
    BY <2>2, <2>4, <2>5, <2>6, <2>7, <1>1, <1>2 DEF OneScript
<1> QED
  BY <1>1, <1>4, <1>5, <1>6, OwnTool

LEMMA BytesKeepScript == ASSUME GInv, NEW t \in Tools, tool = t, AppendBytes PROVE GInv'
<1> DEFINE row == [name |-> kernel, sums |-> tree[t][kernel].log]
<1>1. /\ line = "bytes" /\ bytes' = [bytes EXCEPT ![t] = Append(bytes[t], row)] /\ tool' = t
      /\ UNCHANGED <<number, tree, stats>> /\ NextKernel("done")
  BY DEF AppendBytes
<1>2. /\ GapbsTypes /\ OneScript(t) /\ kernel \in Kernels /\ number \in Nat /\ t # "none"
      /\ bytes[t] \in Seq(ByteRows) /\ kernel \in Nat
  BY DEF GInv, Tools, GapbsTypes, Kernels
<1>3. row \in ByteRows
  <2>1. tree[t][kernel].log \in Nat
    BY <1>2 DEF GapbsTypes, Dirs
  <2> QED
    BY <2>1, <1>2 DEF ByteRows
<1>4. row.name = kernel /\ row.sums = tree[t][kernel].log
  OBVIOUS
<1> HIDE DEF row
<1>5. /\ kernel' \in Kernels /\ line' \in Lines
      /\ (kernel' = kernel + 1 /\ line' = line) \/ line' = "done"
  BY <1>1, <1>2, NextKernelIs DEF Lines
<1>6. bytes'[t] = Append(bytes[t], row) /\ \A u \in Tools \ {t} : bytes'[u] = bytes[u]
  BY <1>1, <1>2 DEF GapbsTypes
<1>7. /\ Logged(t, number) /\ Timed(t, number) /\ Summed(t, number)
      /\ NamesBelow(bytes[t], kernel) /\ InOrder(bytes[t])
  BY <1>1, <1>2 DEF OneScript, Made
<1>8. \A i \in DOMAIN bytes[t] : bytes[t][i].name \in Nat
  BY <1>2, NamesAreNumbers
<1>9. /\ bytes'[t] \in Seq(ByteRows) /\ InOrder(bytes'[t]) /\ NamesBelow(bytes'[t], kernel + 1)
      /\ \A i \in DOMAIN bytes'[t] :
           (i \in DOMAIN bytes[t] /\ bytes'[t][i] = bytes[t][i]) \/ bytes'[t][i] = row
  BY <1>2, <1>3, <1>4, <1>6, <1>7, <1>8, RowAdded
<1>10. GapbsTypes'
  <2>1. bytes' \in [Tools -> Seq(ByteRows)]
    BY <1>1, <1>2, <1>6, <1>9 DEF GapbsTypes
  <2> QED
    BY <2>1, <1>1, <1>2, <1>5 DEF GapbsTypes
<1>11. OneScript(t)'
  <2>1. Logged(t, number)' /\ Timed(t, number)'
    BY <1>1, <1>7 DEF Logged, Timed
  <2>2. Summed(t, number)'
    BY <1>1, <1>2, <1>4, <1>7, <1>9 DEF Summed, Logged
  <2>3. Made(t)'
    BY <2>1, <2>2, <1>1, <1>5, <1>9 DEF Made
  <2>4. \E r \in Nat : Logged(t, r)' /\ Timed(t, r)'
    BY <2>1, <1>1, <1>2 DEF Logged, Timed
  <2>5. \E r \in Nat : Summed(t, r)'
    BY <2>2, <1>1, <1>2 DEF Summed
  <2>6. InOrder(stats[t])' /\ InOrder(bytes[t])'
    BY <1>1, <1>2, <1>9 DEF OneScript, InOrder
  <2> QED
    BY <2>3, <2>4, <2>5, <2>6, <1>1, <1>2 DEF OneScript
<1> QED
  BY <1>1, <1>6, <1>10, <1>11, OwnTool

\* A script that ends, or is killed anywhere.
LEMMA EndKeepsScripts == ASSUME GInv, EndScript PROVE GInv'
<1>1. tool' = "none" /\ line' = "idle" /\ UNCHANGED <<number, tree, stats, bytes>>
  BY DEF EndScript
<1>2. GapbsTypes'
  BY <1>1 DEF GInv, GapbsTypes
<1>3. ASSUME NEW t \in Tools PROVE OneScript(t)'
  BY <1>1, OtherTool DEF GInv, Tools
<1> QED
  BY <1>2, <1>3 DEF GInv

LEMMA GapbsNextInv == GInv /\ [GapbsNext]_gapbsVars => GInv'
<1> SUFFICES ASSUME GInv, [GapbsNext]_gapbsVars PROVE GInv'
  OBVIOUS
<1>1. CASE Clean \/ Make \/ Measure \/ AppendStats \/ NoDirectory \/ Coalesce \/ AppendBytes
  <2>1. tool \in Tools
    BY <1>1 DEF GInv, GapbsTypes, Clean, Make, Measure, AppendStats, NoDirectory, Coalesce,
                AppendBytes
  <2>2. PICK t \in Tools : tool = t
    BY <2>1
  <2> QED
    BY SMTT(30), <1>1, <2>2, CleanKeepsScript, MakeKeepsScript, MeasureKeepsScript, AppendKeepsScript,
       NoDirectoryKeepsScript, CoalesceKeepsScript, BytesKeepScript
<1>2. CASE Done \/ Kill
  BY <1>2, EndKeepsScripts DEF Done, Kill
<1>3. CASE UNCHANGED gapbsVars
  BY <1>3 DEF gapbsVars, GInv, GapbsTypes, OneScript, InOrder, Logged, Timed, Summed, Made,
              NamesBelow
<1> QED
  BY <1>1, <1>2, <1>3, StartKeepsScript DEF GapbsNext

LEMMA AtMostOne ==
  ASSUME NEW r, NEW S, S \subseteq {r}
  PROVE  Cardinality(S) <= 1
<1>1. S = {} \/ S = {r}
  OBVIOUS
<1>2. Cardinality({}) = 0 /\ Cardinality({r}) = 1
  BY FS_EmptySet, FS_Singleton
<1> QED
  BY <1>1, <1>2

LEMMA InvSingleRun == GInv => SingleRun
<1> SUFFICES ASSUME GInv, NEW t \in Tools
             PROVE  /\ Cardinality(Sources(t)) <= 1
                    /\ Cardinality({bytes[t][i].sums : i \in DOMAIN bytes[t]} \ {0}) <= 1
                    /\ \A rows \in {stats[t], bytes[t]} :
                         \A i, j \in DOMAIN rows : rows[i].name = rows[j].name => i = j
                    /\ \A i \in DOMAIN stats[t] :
                         stats[t][i].sums = tree[t][stats[t][i].name].log
  BY DEF SingleRun
<1>1. GapbsTypes /\ OneScript(t)
  BY DEF GInv
<1>2. PICK r \in Nat : Logged(t, r) /\ Timed(t, r)
  BY <1>1 DEF OneScript
<1>3. PICK b \in Nat : Summed(t, b)
  BY <1>1 DEF OneScript
<1>4. Cardinality(Sources(t)) <= 1
  <2>1. /\ stats[t] \in Seq(StatRows) /\ DOMAIN stats[t] = 1 .. Len(stats[t])
        /\ Len(stats[t]) \in Nat
    BY <1>1 DEF GapbsTypes
  <2>2. ASSUME NEW k \in Kernels
        PROVE  gapbs_rows(k)[t].log \in {0, r} /\ gapbs_rows(k)[t].time \in {0, r}
    <3>1. ASSUME StatsFor(t, k) # {} PROVE stats[t][Max(StatsFor(t, k))].time = r
      <4>1. Max(StatsFor(t, k)) \in DOMAIN stats[t]
        BY <3>1, <2>1, MaxIn DEF StatsFor
      <4> QED
        BY <4>1, <1>2 DEF Timed
    <3>2. tree[t][k].log \in {0, r}
      BY <1>2 DEF Logged
    <3>3. /\ gapbs_rows(k)[t].log = tree[t][k].log
          /\ gapbs_rows(k)[t].time =
               IF StatsFor(t, k) = {} THEN 0 ELSE stats[t][Max(StatsFor(t, k))].time
      BY DEF gapbs_rows
    <3> QED
      BY <3>1, <3>2, <3>3
  <2>3. Sources(t) \subseteq {r}
    <3> DEFINE Shown == {{gapbs_rows(k)[t].log, gapbs_rows(k)[t].time} : k \in Kernels}
    <3>1. Sources(t) = (UNION Shown) \ {0}
      BY DEF Sources
    <3>2. \A figures \in Shown : figures \subseteq {0, r}
      BY <2>2
    <3> HIDE DEF Shown
    <3>3. ASSUME NEW x \in Sources(t) PROVE x = r
      <4>1. x # 0 /\ x \in UNION Shown
        BY <3>1
      <4>2. PICK figures \in Shown : x \in figures
        BY <4>1
      <4> QED
        BY <4>1, <4>2, <3>2
    <3> QED
      BY <3>3
  <2> QED
    BY <2>3, AtMostOne
<1>5. Cardinality({bytes[t][i].sums : i \in DOMAIN bytes[t]} \ {0}) <= 1
  <2>1. {bytes[t][i].sums : i \in DOMAIN bytes[t]} \ {0} \subseteq {b}
    BY <1>3 DEF Summed
  <2> QED
    BY <2>1, AtMostOne
<1>6. ASSUME NEW rows \in {stats[t], bytes[t]}, NEW i \in DOMAIN rows, NEW j \in DOMAIN rows,
             rows[i].name = rows[j].name
      PROVE  i = j
  <2>1. i \in Nat /\ j \in Nat /\ rows[i].name \in Nat
    <3>1. rows[i].name \in Nat
      BY <1>1, NamesAreNumbers
    <3>2. rows \in Seq(StatRows) \/ rows \in Seq(ByteRows)
      BY <1>1 DEF GapbsTypes
    <3>3. DOMAIN rows = 1 .. Len(rows) /\ Len(rows) \in Nat
      BY <3>2
    <3> QED
      BY <3>1, <3>3
  <2>2. ~(i < j) /\ ~(j < i)
    BY <2>1, <1>1, <1>6 DEF OneScript, InOrder
  <2> QED
    BY <2>1, <2>2
<1> QED
  BY <1>1, <1>4, <1>5, <1>6 DEF OneScript

-----------------------------------------------------------------------------
(***************************************************************************)
(* The scripts together: each suite's step leaves the other's files alone. *)
(***************************************************************************)
LEMMA EachSuite ==
  HarnessSpec => Init /\ [][Next]_vars /\ GapbsInit /\ [][GapbsNext]_gapbsVars
<1>1. HarnessInit => Init /\ GapbsInit
  BY DEF HarnessInit
<1>2. [HarnessNext]_harnessVars => [Next]_vars /\ [GapbsNext]_gapbsVars
  <2>1. Setup => Next /\ UNCHANGED gapbsVars
    BY DEF Setup, Next
  <2>2. Gapbs => GapbsNext /\ UNCHANGED vars
    BY DEF Gapbs
  <2>3. SpecCPU => Next /\ UNCHANGED gapbsVars
    BY DEF SpecCPU
  <2>4. UNCHANGED harnessVars => UNCHANGED vars /\ UNCHANGED gapbsVars
    BY DEF harnessVars
  <2> QED
    BY <2>1, <2>2, <2>3, <2>4 DEF HarnessNext
<1> QED
  BY <1>1, <1>2, PTL DEF HarnessSpec

\* The invariant of the builds: what the directories hold at any time, the files
\* that are cut short included.
THEOREM DirectoriesHold == HarnessSpec => [](IInv /\ CutInv)
<1>1. Init /\ [][Next]_vars => [](IInv /\ CutInv)
  BY InitInv, NextInv, CutInit, CutNext, PTL
<1> QED
  BY <1>1, EachSuite, PTL

\* Whatever was built, failed or killed before, with a cp or a kill that leaves a
\* file half written among it, and with any number of workloads, commands and jobs:
\* the skip test of build-spec.sh passes only what is of one build, with patched
\* sources.  A file that it passes may be cut short, but no more of them than steps
\* have failed and scripts have been killed.
THEOREM SkipIsSafe == HarnessSpec => []SkipMeansUsable
<1>1. IInv /\ CutInv => SkipMeansUsable
  <2> SUFFICES ASSUME IInv, CutInv, NEW w \in Workloads, Built(w)
               PROVE  /\ bd[w].patched
                      /\ \A f \in Needed : rd[w].files[f] = rd[w].cmds
                      /\ job[w] # "writing" => Cardinality(rd[w].cut) <= faults
    BY DEF SkipMeansUsable
  <2>1. Needed \subseteq Files
    BY DEF Needed
  <2>2. bd[w].marker /\ \A f \in Needed : rd[w].files[f] # 0
    BY DEF Built
  <2>3. bd[w].patched /\ \A f \in Needed : rd[w].files[f] = rd[w].cmds
    BY <2>1, <2>2 DEF IInv, Marked, OneBuild
  <2> QED
    BY <2>3 DEF CutInv, CopyOf
<1> QED
  BY <1>1, DirectoriesHold, PTL

\* The loop of run-spec.sh and of run-spec-pin.sh over a command list of any
\* length: without failures a row covers every command once, and a row of ZRay
\* covers none twice whatever fails.
THEOREM RowsAreComplete == HarnessSpec => []RowsComplete
<1>1. Init /\ [][Next]_vars => [](IInv /\ MInv)
  BY InitInv, NextInv, CutInit, CutNext, InitMeasured, NextMeasured, PTL
<1>2. MInv => RowsComplete
  BY DEF MInv
<1> QED
  BY <1>1, <1>2, EachSuite, PTL

\* A script that is given workloads leaves alone what compare-zray-pin.py shows of
\* the others, at every step of its build, of its measurements and when it is
\* killed.
THEOREM OthersAreKept == HarnessSpec => OthersKept
<1> DEFINE Kept == pc # "idle" /\ subset =>
                     \A w \in Workloads \ request : spec_rows(w)' = spec_rows(w)
<1>1. Init /\ [][Next]_vars => [](IInv /\ MInv)
  BY InitInv, NextInv, CutInit, CutNext, InitMeasured, NextMeasured, PTL
<1>2. IInv /\ MInv /\ [Next]_vars => [Kept]_vars
  BY StepKeepsOthers
<1>3. HarnessSpec => [][Kept]_vars
  BY <1>1, <1>2, EachSuite, PTL
<1> QED
  BY <1>3 DEF OthersKept

\* collect-gapbs.sh, coalesce-bytes.sh and the two run scripts, for any number of
\* kernels: what the report shows of a tool is of one of its scripts, whatever was
\* not built, failed or was killed.
THEOREM FiguresOfOneScript == HarnessSpec => []SingleRun
<1>1. GapbsInit /\ [][GapbsNext]_gapbsVars => []GInv
  BY GapbsInitInv, GapbsNextInv, PTL
<1> QED
  BY <1>1, InvSingleRun, EachSuite, PTL
-----------------------------------------------------------------------------
(***************************************************************************)
(* The Pin tool charges every access to the innermost open region, and the *)
(* report shows exactly the accesses made, for any number of threads,      *)
(* functions and events.                                                   *)
(*                                                                         *)
(* The tool has no stack.  The invariant finds the stack in the table: the *)
(* record of an open function points, in oldFuncID, to the record of the   *)
(* function that is open around it, all the way out.  Records of functions *)
(* that are not open may point anywhere; they are overwritten on entry.    *)
(***************************************************************************)
Stats == [Fields -> Nat]
Record == [name : Funcs, stats : Stats, oldFuncID : Int]

\* Id g of table d is the k-th open region of o, or -1 outside all of them.
Names(o, d, g, k) ==
  IF k = 0 THEN g = -1
  ELSE g \in 0 .. Len(d) - 1 /\ d[g + 1].name = o[k]

Distinct(o, d) ==
  /\ \A i, j \in 1 .. Len(d) : d[i].name = d[j].name => i = j
  /\ \A j, k \in 1 .. Len(o) : o[j] = o[k] => j = k

\* Following oldFuncID from g visits the open regions from the inside out.
Chained(o, d, g) ==
  /\ o \in Seq(Funcs) /\ d \in Seq(Record) /\ g \in Int
  /\ Distinct(o, d)
  /\ Names(o, d, g, Len(o))
  /\ \A k \in 1 .. Len(o) : \E i \in 1 .. Len(d) :
       d[i].name = o[k] /\ Names(o, d, d[i].oldFuncID, k - 1)

Tables ==
  /\ stage \in [Threads -> {"unborn", "running", "printing", "ended"}]
  /\ holder \in Threads \cup {"none"}
  /\ open \in [Threads -> Seq(Funcs)]
  /\ isROI \in [Threads -> Int]
  /\ globalFuncID \in [Threads -> Int]
  /\ functionData \in [Threads -> Seq(Record)]
  /\ totals \in [Threads -> Stats]

\* A thread that has not started has no region open: ThreadStart may set isROI to 0.
Depths ==
  \A t \in Threads : /\ isROI[t] = Len(open[t])
                     /\ stage[t] = "unborn" => open[t] = <<>>

PinInv == /\ Tables /\ Depths
        /\ \A t \in Threads : Chained(open[t], functionData[t], globalFuncID[t])

-----------------------------------------------------------------------------
LEMMA RecordAt ==
  ASSUME NEW d \in Seq(Record), NEW i \in 1 .. Len(d)
  PROVE  d[i] \in Record /\ d[i].oldFuncID \in Int
<1>1. d[i] \in Record
  OBVIOUS
<1> QED
  BY <1>1 DEF Record

\* The table with another oldFuncID in one record.
LEMMA PointBack ==
  ASSUME NEW d \in Seq(Record), NEW i \in 1 .. Len(d), NEW g \in Int
  PROVE  LET e == [d EXCEPT ![i].oldFuncID = g]
         IN  /\ e \in Seq(Record) /\ Len(e) = Len(d)
             /\ \A j \in 1 .. Len(d) : e[j].name = d[j].name /\ e[j].stats = d[j].stats
             /\ e[i].oldFuncID = g
             /\ \A j \in 1 .. Len(d) : j # i => e[j].oldFuncID = d[j].oldFuncID
<1> DEFINE r == [d[i] EXCEPT !.oldFuncID = g]
           e == [d EXCEPT ![i] = r]
<1>1. d[i] \in Record
  OBVIOUS
<1>2. r \in Record /\ r.name = d[i].name /\ r.stats = d[i].stats /\ r.oldFuncID = g
  BY <1>1 DEF Record
<1> HIDE DEF r
<1>3. /\ e \in Seq(Record) /\ Len(e) = Len(d)
      /\ \A j \in 1 .. Len(d) : e[j].name = d[j].name /\ e[j].stats = d[j].stats
      /\ e[i].oldFuncID = g
      /\ \A j \in 1 .. Len(d) : j # i => e[j].oldFuncID = d[j].oldFuncID
  BY <1>2
<1> QED
  BY <1>3 DEF r

\* What matters of a table is its names and its ids.
LEMMA SameNames ==
  ASSUME NEW o, NEW d, NEW e, NEW g, Chained(o, d, g),
         e \in Seq(Record), Len(e) = Len(d),
         \A i \in 1 .. Len(d) : e[i].name = d[i].name /\ e[i].oldFuncID = d[i].oldFuncID
  PROVE  Chained(o, e, g)
<1>1. Len(d) \in Nat /\ Len(o) \in Nat
  BY DEF Chained
<1>2. \A h \in Int, k \in 0 .. Len(o) : Names(o, d, h, k) => Names(o, e, h, k)
  BY <1>1 DEF Names
<1>3. \A i \in 1 .. Len(d) : d[i].oldFuncID \in Int
  BY RecordAt DEF Chained
<1>4. ASSUME NEW k \in 1 .. Len(o)
      PROVE  \E i \in 1 .. Len(e) : e[i].name = o[k] /\ Names(o, e, e[i].oldFuncID, k - 1)
  <2>1. PICK i \in 1 .. Len(d) : d[i].name = o[k] /\ Names(o, d, d[i].oldFuncID, k - 1)
    BY DEF Chained
  <2>2. Names(o, e, d[i].oldFuncID, k - 1)
    BY <1>1, <1>2, <1>3, <2>1
  <2> QED
    BY <2>1, <2>2
<1>5. Distinct(o, e)
  BY DEF Chained, Distinct
<1>6. Names(o, e, g, Len(o))
  BY <1>1, <1>2 DEF Chained
<1> QED
  BY <1>4, <1>5, <1>6 DEF Chained

\* Entering a function that has a record.
LEMMA EnterKnown ==
  ASSUME NEW o, NEW d, NEW g, Chained(o, d, g),
         NEW f \in Funcs, \A k \in 1 .. Len(o) : o[k] # f,
         NEW i \in 1 .. Len(d), d[i].name = f
  PROVE  Chained(Append(o, f), [d EXCEPT ![i].oldFuncID = g], i - 1)
<1> DEFINE p == Append(o, f)
           e == [d EXCEPT ![i].oldFuncID = g]
<1>1. /\ o \in Seq(Funcs) /\ d \in Seq(Record) /\ g \in Int
      /\ Len(d) \in Nat /\ Len(o) \in Nat
  BY DEF Chained
<1>2. /\ p \in Seq(Funcs) /\ Len(p) = Len(o) + 1 /\ p[Len(o) + 1] = f
      /\ \A k \in 1 .. Len(o) : p[k] = o[k]
  BY <1>1
<1>3. /\ e \in Seq(Record) /\ Len(e) = Len(d)
      /\ \A j \in 1 .. Len(d) : e[j].name = d[j].name
      /\ e[i].oldFuncID = g
      /\ \A j \in 1 .. Len(d) : j # i => e[j].oldFuncID = d[j].oldFuncID
  BY <1>1, PointBack
<1> HIDE DEF p, e
<1>4. \A h \in Int, k \in 0 .. Len(o) : Names(o, d, h, k) => Names(p, e, h, k)
  BY <1>1, <1>2, <1>3 DEF Names
<1>5. Distinct(p, e)
  <2> /\ \A j, k \in 1 .. Len(o) : o[j] = o[k] => j = k
      /\ \A j, k \in 1 .. Len(d) : d[j].name = d[k].name => j = k
    BY DEF Chained, Distinct
  <2>1. \A j, k \in 1 .. Len(p) : p[j] = p[k] => j = k
    BY SMTT(30), <1>1, <1>2
  <2>2. \A j, k \in 1 .. Len(e) : e[j].name = e[k].name => j = k
    BY <1>3
  <2> QED
    BY <2>1, <2>2 DEF Distinct
<1>6. Names(p, e, i - 1, Len(p))
  BY <1>1, <1>2, <1>3 DEF Names
<1>7. ASSUME NEW k \in 1 .. Len(p)
      PROVE  \E j \in 1 .. Len(e) : e[j].name = p[k] /\ Names(p, e, e[j].oldFuncID, k - 1)
  <2>1. CASE k = Len(o) + 1
    <3>1. Names(p, e, g, Len(o))
      <4>1. Names(o, d, g, Len(o))
        BY DEF Chained
      <4> QED
        BY <1>1, <1>4, <4>1
    <3> QED
      BY <1>1, <1>2, <1>3, <2>1, <3>1
  <2>2. CASE k \in 1 .. Len(o)
    <3>1. PICK j \in 1 .. Len(d) : d[j].name = o[k] /\ Names(o, d, d[j].oldFuncID, k - 1)
      BY <2>2 DEF Chained
    <3>2. j # i
      BY <2>2, <3>1
    <3>3. d[j].oldFuncID \in Int /\ k - 1 \in 0 .. Len(o)
      BY <1>1, <2>2, RecordAt
    <3>4. Names(p, e, d[j].oldFuncID, k - 1)
      BY <1>4, <3>1, <3>3
    <3> QED
      BY <1>2, <1>3, <2>2, <3>1, <3>2, <3>4
  <2> QED
    <3>1. k = Len(o) + 1 \/ k \in 1 .. Len(o)
      BY <1>1, <1>2
    <3> QED
      BY <2>1, <2>2, <3>1
<1>8. i - 1 \in Int
  BY <1>1
<1> QED
  BY <1>2, <1>3, <1>5, <1>6, <1>7, <1>8 DEF Chained, p, e

\* Entering a function for the first time.
LEMMA EnterNew ==
  ASSUME NEW o, NEW d, NEW g, Chained(o, d, g),
         NEW f \in Funcs, \A k \in 1 .. Len(o) : o[k] # f,
         \A i \in 1 .. Len(d) : d[i].name # f,
         NEW r \in Record, r.name = f, r.oldFuncID = g
  PROVE  Chained(Append(o, f), Append(d, r), Len(d))
<1> DEFINE p == Append(o, f)
           e == Append(d, r)
<1>1. /\ o \in Seq(Funcs) /\ d \in Seq(Record) /\ g \in Int
      /\ Len(d) \in Nat /\ Len(o) \in Nat
  BY DEF Chained
<1>2. /\ p \in Seq(Funcs) /\ Len(p) = Len(o) + 1 /\ p[Len(o) + 1] = f
      /\ \A k \in 1 .. Len(o) : p[k] = o[k]
  BY <1>1
<1>3. /\ e \in Seq(Record) /\ Len(e) = Len(d) + 1 /\ e[Len(d) + 1] = r
      /\ \A j \in 1 .. Len(d) : e[j] = d[j]
  BY <1>1
<1> HIDE DEF p, e
<1>4. \A h \in Int, k \in 0 .. Len(o) : Names(o, d, h, k) => Names(p, e, h, k)
  BY <1>1, <1>2, <1>3 DEF Names
<1>5. Distinct(p, e)
  <2> /\ \A j, k \in 1 .. Len(o) : o[j] = o[k] => j = k
      /\ \A j, k \in 1 .. Len(d) : d[j].name = d[k].name => j = k
    BY DEF Chained, Distinct
  <2>1. \A j, k \in 1 .. Len(p) : p[j] = p[k] => j = k
    BY SMTT(30), <1>1, <1>2
  <2>2. \A j, k \in 1 .. Len(e) : e[j].name = e[k].name => j = k
    BY SMTT(30), <1>1, <1>3
  <2> QED
    BY <2>1, <2>2 DEF Distinct
<1>6. Names(p, e, Len(d), Len(p))
  BY <1>1, <1>2, <1>3 DEF Names
<1>7. ASSUME NEW k \in 1 .. Len(p)
      PROVE  \E j \in 1 .. Len(e) : e[j].name = p[k] /\ Names(p, e, e[j].oldFuncID, k - 1)
  <2>1. CASE k = Len(o) + 1
    <3>1. Names(p, e, g, Len(o))
      <4>1. Names(o, d, g, Len(o))
        BY DEF Chained
      <4> QED
        BY <1>1, <1>4, <4>1
    <3> QED
      BY <1>1, <1>2, <1>3, <2>1, <3>1
  <2>2. CASE k \in 1 .. Len(o)
    <3>1. PICK j \in 1 .. Len(d) : d[j].name = o[k] /\ Names(o, d, d[j].oldFuncID, k - 1)
      BY <2>2 DEF Chained
    <3>2. d[j].oldFuncID \in Int /\ k - 1 \in 0 .. Len(o)
      BY <1>1, <2>2, RecordAt
    <3>3. Names(p, e, d[j].oldFuncID, k - 1)
      BY <1>4, <3>1, <3>2
    <3> QED
      BY <1>1, <1>2, <1>3, <2>2, <3>1, <3>3
  <2> QED
    <3>1. k = Len(o) + 1 \/ k \in 1 .. Len(o)
      BY <1>1, <1>2
    <3> QED
      BY <2>1, <2>2, <3>1
<1>8. Len(d) \in Int
  BY <1>1
<1>9. Chained(p, e, Len(d))
  BY <1>2, <1>3, <1>5, <1>6, <1>7, <1>8 DEF Chained
<1> QED
  BY <1>9 DEF p, e

\* Leaving the innermost region.
LEMMA Leave ==
  ASSUME NEW o, NEW d, NEW g, Chained(o, d, g), o # <<>>,
         NEW i \in 1 .. Len(d), d[i].name = o[Len(o)]
  PROVE  Chained(SubSeq(o, 1, Len(o) - 1), d, d[i].oldFuncID)
<1> DEFINE p == SubSeq(o, 1, Len(o) - 1)
<1>1. /\ o \in Seq(Funcs) /\ d \in Seq(Record)
      /\ Len(d) \in Nat /\ Len(o) \in Nat \ {0}
  BY DEF Chained
<1>2. /\ p \in Seq(Funcs) /\ Len(p) = Len(o) - 1
      /\ \A k \in 1 .. Len(o) - 1 : p[k] = o[k]
  <2> DEFINE n == Len(o) - 1
  <2>1. n \in Int /\ n >= 0 /\ \A k \in 1 .. n : o[k] \in Funcs
    BY <1>1
  <2> HIDE DEF n
  <2>2. /\ SubSeq(o, 1, n) \in Seq(Funcs)
        /\ Len(SubSeq(o, 1, n)) = IF 1 <= n THEN n - 1 + 1 ELSE 0
        /\ \A k \in 1 .. n - 1 + 1 : SubSeq(o, 1, n)[k] = o[1 + k - 1]
    BY <2>1, SubSeqProperties
  <2>3. /\ SubSeq(o, 1, n) \in Seq(Funcs) /\ Len(SubSeq(o, 1, n)) = n
        /\ \A k \in 1 .. n : SubSeq(o, 1, n)[k] = o[k]
    BY <2>1, <2>2
  <2> QED
    BY <2>3 DEF n
<1> HIDE DEF p
<1>3. \A h \in Int, k \in 0 .. Len(o) - 1 : Names(o, d, h, k) => Names(p, d, h, k)
  BY <1>1, <1>2 DEF Names
<1>4. Distinct(p, d)
  <2>1. \A j, k \in 1 .. Len(o) : o[j] = o[k] => j = k
    BY DEF Chained, Distinct
  <2>2. \A j, k \in 1 .. Len(p) : p[j] = p[k] => j = k
    BY <1>1, <1>2, <2>1
  <2> QED
    BY <2>2 DEF Chained, Distinct
<1>5. PICK j \in 1 .. Len(d) : d[j].name = o[Len(o)] /\ Names(o, d, d[j].oldFuncID, Len(o) - 1)
  BY SMTT(30), <1>1 DEF Chained
<1>6. i = j
  BY <1>5 DEF Chained, Distinct
<1>7. \A m \in 1 .. Len(d) : d[m].oldFuncID \in Int
  BY <1>1, RecordAt
<1>8. Names(p, d, d[i].oldFuncID, Len(p))
  BY <1>1, <1>2, <1>3, <1>5, <1>6, <1>7
<1>9. ASSUME NEW k \in 1 .. Len(p)
      PROVE  \E m \in 1 .. Len(d) : d[m].name = p[k] /\ Names(p, d, d[m].oldFuncID, k - 1)
  <2>1. k \in 1 .. Len(o) /\ k - 1 \in 0 .. Len(o) - 1 /\ p[k] = o[k]
    BY <1>1, <1>2
  <2>2. PICK m \in 1 .. Len(d) : d[m].name = o[k] /\ Names(o, d, d[m].oldFuncID, k - 1)
    BY <2>1 DEF Chained
  <2> QED
    BY <1>3, <1>7, <2>1, <2>2
<1> QED
  BY <1>1, <1>2, <1>4, <1>7, <1>8, <1>9 DEF Chained, p

\* What an access adds to the counters, whatever they were.
Added(rw, size) ==
  [n \in Fields |-> IF n = rw THEN 1 ELSE IF n = Field(rw) THEN size ELSE 0]

LEMMA FieldNames ==
  /\ \A k \in 1 .. 4 : FieldOrder[k] \in Fields
  /\ \A n \in Fields : \E k \in 1 .. 4 : n = FieldOrder[k]
  /\ \A j, k \in 1 .. 4 : FieldOrder[j] = FieldOrder[k] => j = k
  /\ \A rw \in AccessKinds : rw \in Fields /\ Field(rw) \in Fields /\ rw # Field(rw)
<1>1. /\ FieldOrder[1] = "Reads" /\ FieldOrder[2] = "Read Bytes"
      /\ FieldOrder[3] = "Writes" /\ FieldOrder[4] = "Write Bytes"
  BY DEF FieldOrder
<1>2. \A j, k \in 1 .. 4 : FieldOrder[j] = FieldOrder[k] => j = k
  <2>1. \A j \in 1 .. 4 : j = 1 \/ j = 2 \/ j = 3 \/ j = 4
    OBVIOUS
  <2> QED
    BY <1>1, <2>1
<1>3. \A rw \in AccessKinds : rw \in Fields /\ Field(rw) \in Fields /\ rw # Field(rw)
  <2>1. {"Reads", "Read Bytes", "Writes", "Write Bytes"} \subseteq Fields
    <3>1. 1 \in 1 .. 4 /\ 2 \in 1 .. 4 /\ 3 \in 1 .. 4 /\ 4 \in 1 .. 4
      OBVIOUS
    <3> QED
      BY <1>1, <3>1 DEF Fields
  <2> QED
    BY <2>1 DEF AccessKinds, Field
<1> QED
  BY <1>2, <1>3 DEF Fields

LEMMA CountedAdds ==
  ASSUME NEW rw \in AccessKinds, NEW size \in Nat
  PROVE  /\ Added(rw, size) \in Stats
         /\ \A s \in Stats : /\ Counted(s, rw, size) \in Stats
                             /\ \A n \in Fields :
                                  Counted(s, rw, size)[n] = s[n] + Added(rw, size)[n]
<1>1. rw \in Fields /\ Field(rw) \in Fields /\ rw # Field(rw)
  BY FieldNames
<1> DEFINE b == Field(rw)
<1> HIDE DEF b
<1>2. \A n \in Fields : Added(rw, size)[n] = IF n = rw THEN 1 ELSE IF n = b THEN size ELSE 0
  BY DEF Added, b
<1>3. Added(rw, size) \in Stats
  <2>1. \A n \in Fields : Added(rw, size)[n] \in Nat
    BY <1>2
  <2> QED
    BY <2>1 DEF Added, Stats
<1>4. ASSUME NEW s \in Stats
      PROVE  /\ Counted(s, rw, size) \in Stats
             /\ \A n \in Fields : Counted(s, rw, size)[n] = s[n] + Added(rw, size)[n]
  <2> DEFINE c == [s EXCEPT ![rw] = @ + 1, ![b] = @ + size]
  <2>1. Counted(s, rw, size) = c
    BY DEF Counted, b
  <2>2. s \in [Fields -> Nat]
    BY DEF Stats
  <2>3. /\ DOMAIN c = Fields /\ c = [n \in Fields |-> c[n]]
        /\ \A n \in Fields : c[n] = IF n = b THEN s[n] + size ELSE IF n = rw THEN s[n] + 1 ELSE s[n]
    BY <1>1, <2>2 DEF b
  <2> HIDE DEF c
  <2>4. \A n \in Fields : c[n] \in Nat /\ c[n] = s[n] + Added(rw, size)[n]
    BY <1>1, <1>2, <2>2, <2>3 DEF b
  <2> QED
    BY <2>1, <2>3, <2>4 DEF Stats
<1> QED
  BY <1>3, <1>4

\* An access changes the counts of one record only.
Charged(d, i, rw, size) == [d EXCEPT ![i].stats = Counted(@, rw, size)]

LEMMA Recorded ==
  ASSUME NEW d \in Seq(Record), NEW i \in 1 .. Len(d), NEW rw \in AccessKinds, NEW size \in Nat
  PROVE  LET e == Charged(d, i, rw, size)
         IN  /\ e \in Seq(Record) /\ Len(e) = Len(d)
             /\ \A j \in 1 .. Len(d) :
                  e[j].name = d[j].name /\ e[j].oldFuncID = d[j].oldFuncID
             /\ e[i].stats = Counted(d[i].stats, rw, size)
             /\ \A j \in 1 .. Len(d) : j # i => e[j].stats = d[j].stats
<1> DEFINE c == Counted(d[i].stats, rw, size)
           r == [d[i] EXCEPT !.stats = c]
           e == [d EXCEPT ![i] = r]
<1>1. d[i] \in Record
  OBVIOUS
<1>2. c \in Stats
  BY <1>1, CountedAdds DEF Record
<1> HIDE DEF c
<1>3. r \in Record /\ r.name = d[i].name /\ r.oldFuncID = d[i].oldFuncID /\ r.stats = c
  BY <1>1, <1>2 DEF Record
<1> HIDE DEF r
<1>4. /\ e \in Seq(Record) /\ Len(e) = Len(d)
      /\ \A j \in 1 .. Len(d) : e[j].name = d[j].name /\ e[j].oldFuncID = d[j].oldFuncID
      /\ e[i].stats = c
      /\ \A j \in 1 .. Len(d) : j # i => e[j].stats = d[j].stats
  BY <1>3
<1> QED
  BY <1>4 DEF c, r, Charged

-----------------------------------------------------------------------------
LEMMA PinInitInv == PinInit => PinInv
<1> SUFFICES ASSUME PinInit PROVE PinInv
  OBVIOUS
<1>1. Tables
  BY DEF PinInit, Tables, Empty, Stats
<1>2. Depths
  BY DEF PinInit, Depths
<1>3. ASSUME NEW t \in Threads PROVE Chained(open[t], functionData[t], globalFuncID[t])
  BY DEF PinInit, Chained, Distinct, Names
<1> QED
  BY <1>1, <1>2, <1>3 DEF PinInv

LEMMA StartKeeps ==
  ASSUME PinInv, NEW t \in Threads, NEW f \in Funcs, StartROI(t, f)
  PROVE  PinInv'
<1> USE DEF PinInv, Tables
<1> DEFINE o == open[t]
           d == functionData[t]
           g == globalFuncID[t]
           known == {i \in DOMAIN d : d[i].name = f}
<1>1. /\ o \in Seq(Funcs) /\ d \in Seq(Record) /\ g \in Int
      /\ Chained(o, d, g)
      /\ \A k \in 1 .. Len(o) : o[k] # f
      /\ isROI[t] = Len(o)
  BY DEF StartROI, Depths
<1>2. /\ open' = [open EXCEPT ![t] = Append(o, f)]
      /\ isROI' = [isROI EXCEPT ![t] = @ + 1]
      /\ UNCHANGED <<stage, holder, totals>>
      /\ stage[t] = "running"
  BY DEF StartROI, Event, output
<1>3. /\ globalFuncID'[t] \in Int /\ functionData'[t] \in Seq(Record)
      /\ globalFuncID' = [globalFuncID EXCEPT ![t] = globalFuncID'[t]]
      /\ functionData' = [functionData EXCEPT ![t] = functionData'[t]]
      /\ Chained(open'[t], functionData'[t], globalFuncID'[t])
  <2>1. CASE known # {}
    <3>1. PICK i \in known :
            /\ globalFuncID' = [globalFuncID EXCEPT ![t] = i - 1]
            /\ functionData' = [functionData EXCEPT ![t][i].oldFuncID =
                 IF isROI'[t] > 0 THEN g ELSE @]
      BY <2>1 DEF StartROI
    <3>2. isROI'[t] > 0
      BY <1>1, <1>2
    <3>3. i \in 1 .. Len(d) /\ d[i].name = f
      BY <1>1
    <3> DEFINE e == [d EXCEPT ![i].oldFuncID = g]
    <3>4. functionData' = [functionData EXCEPT ![t] = e]
      BY <3>1, <3>2
    <3>5. e \in Seq(Record)
      BY <1>1, <3>3, PointBack
    <3>6. Chained(Append(o, f), e, i - 1)
      BY <1>1, <3>3, EnterKnown
    <3>7. i - 1 \in Int
      BY <3>3
    <3> HIDE DEF e
    <3>8. /\ functionData'[t] = e /\ globalFuncID'[t] = i - 1
          /\ open'[t] = Append(o, f)
      BY <1>2, <3>1, <3>4
    <3> QED
      BY <3>1, <3>4, <3>5, <3>6, <3>7, <3>8
  <2>2. CASE known = {}
    <3> DEFINE r == [FuncStats(f) EXCEPT !.oldFuncID = g]
    <3>1. /\ globalFuncID' = [globalFuncID EXCEPT ![t] = Len(d)]
          /\ functionData' = [functionData EXCEPT ![t] = Append(d, r)]
      BY <2>2 DEF StartROI
    <3>2. r \in Record /\ r.name = f /\ r.oldFuncID = g
      BY <1>1 DEF FuncStats, Record, Empty, Stats
    <3>3. \A i \in 1 .. Len(d) : d[i].name # f
      BY <1>1, <2>2
    <3> HIDE DEF r
    <3>4. Chained(Append(o, f), Append(d, r), Len(d))
      BY <1>1, <3>2, <3>3, EnterNew
    <3>5. Append(d, r) \in Seq(Record) /\ Len(d) \in Int
      BY <1>1, <3>2
    <3> HIDE DEF o, d, g
    <3> QED
      BY <1>2, <3>1, <3>4, <3>5
  <2> QED
    BY <2>1, <2>2
<1>4. Append(o, f) \in Seq(Funcs) /\ Len(Append(o, f)) = Len(o) + 1
  BY <1>1
<1>5. Tables'
  <2>1. open' \in [Threads -> Seq(Funcs)] /\ isROI' \in [Threads -> Int]
    BY <1>1, <1>2, <1>4
  <2>2. globalFuncID' \in [Threads -> Int] /\ functionData' \in [Threads -> Seq(Record)]
    BY <1>3
  <2> QED
    BY <1>2, <2>1, <2>2
<1>6. Depths'
  BY <1>1, <1>2, <1>4 DEF Depths
<1>7. ASSUME NEW s \in Threads
      PROVE  Chained(open[s], functionData[s], globalFuncID[s])'
  <2>1. CASE s = t
    BY <1>3, <2>1
  <2>2. CASE s # t
    <3>1. /\ open'[s] = open[s] /\ functionData'[s] = functionData[s]
          /\ globalFuncID'[s] = globalFuncID[s]
      BY <1>2, <1>3, <2>2
    <3> QED
      BY <3>1
  <2> QED
    BY <2>1, <2>2
<1> QED
  BY <1>5, <1>6, <1>7

LEMMA StopKeeps ==
  ASSUME PinInv, NEW t \in Threads, StopROI(t)
  PROVE  PinInv'
<1> USE DEF PinInv, Tables
<1> DEFINE o == open[t]
           d == functionData[t]
           g == globalFuncID[t]
           p == SubSeq(o, 1, Len(o) - 1)
<1>1. /\ o \in Seq(Funcs) /\ d \in Seq(Record) /\ o # <<>>
      /\ Chained(o, d, g)
      /\ isROI[t] = Len(o)
  BY DEF StopROI, Depths
<1>2. /\ open' = [open EXCEPT ![t] = p]
      /\ isROI' = [isROI EXCEPT ![t] = @ - 1]
      /\ UNCHANGED <<stage, functionData, holder, totals>>
      /\ stage[t] = "running"
  BY DEF StopROI, output
<1>3. PICK i \in 1 .. Len(d) :
        /\ d[i].name = o[Len(o)]
        /\ globalFuncID' = [globalFuncID EXCEPT ![t] = d[i].oldFuncID]
  <2>1. DOMAIN d = 1 .. Len(d)
    BY <1>1
  <2> QED
    BY <2>1 DEF StopROI
<1>4. Chained(p, d, d[i].oldFuncID)
  BY <1>1, <1>3, Leave
<1>5. d[i].oldFuncID \in Int
  BY <1>1, RecordAt
<1>6. p \in Seq(Funcs) /\ Len(p) = Len(o) - 1
  <2>1. Len(o) \in Nat \ {0}
    BY <1>1
  <2> QED
    BY <1>1, <1>4, <2>1 DEF Chained
<1>7. Tables'
  BY SMTT(30), <1>2, <1>3, <1>5, <1>6
<1>8. Depths'
  BY <1>1, <1>2, <1>6 DEF Depths
<1>9. ASSUME NEW s \in Threads
      PROVE  Chained(open[s], functionData[s], globalFuncID[s])'
  <2>1. CASE s = t
    <3>1. /\ open'[s] = p /\ functionData'[s] = d
          /\ globalFuncID'[s] = d[i].oldFuncID
      BY <1>2, <1>3, <2>1
    <3> QED
      BY <1>4, <3>1
  <2>2. CASE s # t
    <3>1. /\ open'[s] = open[s] /\ functionData'[s] = functionData[s]
          /\ globalFuncID'[s] = globalFuncID[s]
      BY <1>2, <1>3, <2>2
    <3> QED
      BY <3>1
  <2> QED
    BY <2>1, <2>2
<1> QED
  BY <1>7, <1>8, <1>9

LEMMA RecordKeeps ==
  ASSUME PinInv, NEW t \in Threads, NEW rw \in AccessKinds, NEW size \in Sizes,
         RecordMem(t, rw, size)
  PROVE  PinInv'
<1> USE DEF PinInv, Tables
<1> DEFINE d == functionData[t]
           g == globalFuncID[t]
           e == Charged(d, g + 1, rw, size)
<1>1. size \in Nat
  BY SizesAssumption
<1>2. UNCHANGED <<stage, open, isROI, globalFuncID, holder>>
  BY DEF RecordMem, output
<1>3. d \in Seq(Record) /\ g \in Int /\ Chained(open[t], d, g)
  OBVIOUS
<1>4. totals' \in [Threads -> Stats]
  <2>1. totals[t] \in Stats
    OBVIOUS
  <2>2. Counted(totals[t], rw, size) \in Stats
    BY <1>1, <2>1, CountedAdds
  <2>3. totals' = totals \/ totals' = [totals EXCEPT ![t] = Counted(totals[t], rw, size)]
    BY DEF RecordMem
  <2> QED
    BY <2>2, <2>3
<1>5. \/ functionData' = functionData
      \/ g > -1 /\ functionData' = [functionData EXCEPT ![t] = e]
  BY DEF RecordMem, Charged
<1>6. /\ functionData' \in [Threads -> Seq(Record)]
      /\ \A s \in Threads : Chained(open[s], functionData'[s], globalFuncID[s])
  <2>1. CASE functionData' = functionData
    BY <2>1
  <2>2. CASE g > -1 /\ functionData' = [functionData EXCEPT ![t] = e]
    <3>1. g + 1 \in 1 .. Len(d)
      BY <1>3, <2>2 DEF Chained, Names
    <3>2. /\ e \in Seq(Record) /\ Len(e) = Len(d)
          /\ \A j \in 1 .. Len(d) : e[j].name = d[j].name /\ e[j].oldFuncID = d[j].oldFuncID
      BY <1>1, <1>3, <3>1, Recorded
    <3> HIDE DEF e
    <3>3. Chained(open[t], e, g)
      BY <1>3, <3>2, SameNames
    <3> QED
      BY <2>2, <3>2, <3>3
  <2> QED
    BY <1>5, <2>1, <2>2
<1>7. Depths'
  BY <1>2 DEF Depths
<1> QED
  BY <1>2, <1>4, <1>6, <1>7

LEMMA PinNextInv == PinInv /\ [PinNext]_pinVars => PinInv'
<1> SUFFICES ASSUME PinInv, [PinNext]_pinVars PROVE PinInv'
  OBVIOUS
<1>1. ASSUME NEW t \in Threads, ThreadStart(t) PROVE PinInv'
  <2>1. /\ isROI' = isROI
        /\ UNCHANGED <<open, globalFuncID, functionData, holder>>
    <3>1. isROI[t] = 0
      BY <1>1 DEF ThreadStart, PinInv, Depths
    <3> QED
      BY <1>1, <3>1 DEF ThreadStart, output, PinInv, Tables
  <2>2. Tables'
    BY <1>1, <2>1 DEF ThreadStart, PinInv, Tables, Empty, Stats
  <2>3. Depths'
    BY <1>1, <2>1 DEF ThreadStart, PinInv, Tables, Depths
  <2> QED
    BY <2>1, <2>2, <2>3 DEF PinInv
<1>2. ASSUME NEW t \in Threads, ThreadFini(t) \/ PrintLine(t) \/ ReleaseLock(t) PROVE PinInv'
  <2>1. UNCHANGED <<open, isROI, globalFuncID, functionData, totals>>
    BY <1>2 DEF ThreadFini, PrintLine, ReleaseLock, tables
  <2>2. /\ stage' \in [Threads -> {"unborn", "running", "printing", "ended"}]
        /\ holder' \in Threads \cup {"none"}
        /\ \A s \in Threads : stage'[s] = "unborn" => stage[s] = "unborn"
    BY <1>2 DEF ThreadFini, PrintLine, ReleaseLock, PinInv, Tables
  <2> QED
    BY <2>1, <2>2 DEF PinInv, Tables, Depths
<1>3. CASE UNCHANGED pinVars
  BY <1>3 DEF pinVars, PinInv, Tables, Depths
<1>4. CASE PinNext
  BY <1>1, <1>2, <1>4, StartKeeps, StopKeeps, RecordKeeps DEF PinNext
<1> QED
  BY <1>3, <1>4

LEMMA Always == PinSpec => []PinInv
BY PinInitInv, PinNextInv, PTL DEF PinSpec

\* The tables have their types and the depth counts the open regions, whatever the
\* number of threads and the order of their calls.
THEOREM TypesHold == PinSpec => []TypeOK
<1>1. ASSUME PinInv PROVE TypeOK
  <2>1. ASSUME NEW t \in Threads PROVE globalFuncID[t] \in -1 .. Len(functionData[t]) - 1
    <3>1. /\ functionData[t] \in Seq(Record) /\ open[t] \in Seq(Funcs)
          /\ Names(open[t], functionData[t], globalFuncID[t], Len(open[t]))
      BY <1>1 DEF PinInv, Tables, Chained
    <3>2. Len(functionData[t]) \in Nat
      BY <3>1
    <3> QED
      BY <3>1, <3>2 DEF Names
  <2> QED
    BY <1>1, <2>1 DEF PinInv, Tables, Depths, TypeOK, Stats
<1> QED
  BY <1>1, Always, PTL

\* StartROI and StopROI: the region that is charged is always the innermost open
\* one, for programs that do not enter an open region again.
THEOREM ChargesInnermost == PinSpec => []InnermostCharged
<1>1. ASSUME PinInv PROVE InnermostCharged
  <2> SUFFICES ASSUME NEW t \in Threads
               PROVE  IF open[t] = <<>> THEN globalFuncID[t] = -1
                      ELSE /\ globalFuncID[t] > -1
                           /\ functionData[t][globalFuncID[t] + 1].name = open[t][Len(open[t])]
    BY DEF InnermostCharged
  <2>1. /\ functionData[t] \in Seq(Record) /\ open[t] \in Seq(Funcs)
        /\ Names(open[t], functionData[t], globalFuncID[t], Len(open[t]))
    BY <1>1 DEF PinInv, Tables, Chained
  <2>2. open[t] = <<>> <=> Len(open[t]) = 0
    BY <2>1
  <2> QED
    BY <2>1, <2>2 DEF Names
<1> QED
  BY <1>1, Always, PTL

-----------------------------------------------------------------------------
\* Induction up to n, over a set instead of a predicate.
LEMMA Upwards ==
  ASSUME NEW n \in Nat, NEW T, 0 \in T, \A k \in 1 .. n : k - 1 \in T => k \in T
  PROVE  \A k \in 0 .. n : k \in T
<1> DEFINE C == (0 .. n) \ T
<1> SUFFICES ASSUME C # {} PROVE FALSE
  OBVIOUS
<1>0. C \subseteq Nat
  OBVIOUS
<1>1. PICK k \in C : \A m \in C : k <= m
  <2> HIDE DEF C
  <2> QED
    BY <1>0, LeastNat
<1>2. k # 0 /\ k - 1 \in 0 .. n
  BY <1>1
<1>3. k - 1 \in T
  BY <1>1, <1>2
<1> QED
  BY <1>1, <1>2, <1>3


-----------------------------------------------------------------------------
\* What parse_pin_log makes of the lines tr.
Parsed(tr) ==
  LET log[n \in 0 .. Len(tr)] == IF n = 0 THEN EmptyLog ELSE ParseLine(log[n - 1], tr[n])
  IN  log[Len(tr)]

\* h[n] is the log after n lines.
Follows(tr, n, h) == h = [m \in 0 .. n |-> IF m = 0 THEN EmptyLog ELSE ParseLine(h[m - 1], tr[m])]

LEMMA FollowsExists == ASSUME NEW tr, NEW n \in Nat PROVE \E h : Follows(tr, n, h)
<1> DEFINE T == {m \in 0 .. n : \E h : Follows(tr, m, h)}
<1>1. 0 \in T
  <2> DEFINE h == [m \in 0 .. 0 |-> EmptyLog]
  <2>1. Follows(tr, 0, h)
    BY DEF Follows
  <2> QED
    BY <2>1
<1>2. \A k \in 1 .. n : k - 1 \in T => k \in T
  <2> SUFFICES ASSUME NEW k \in 1 .. n, k - 1 \in T PROVE k \in T
    OBVIOUS
  <2>1. PICK h : Follows(tr, k - 1, h)
    OBVIOUS
  <2> DEFINE e == [m \in 0 .. k |-> IF m = k THEN ParseLine(h[k - 1], tr[k]) ELSE h[m]]
  <2>2. ASSUME NEW m \in 0 .. k
        PROVE  e[m] = IF m = 0 THEN EmptyLog ELSE ParseLine(e[m - 1], tr[m])
    <3>1. CASE m = k
      BY <3>1
    <3>2. CASE m # k
      <4>1. m \in 0 .. k - 1 /\ e[m] = h[m] /\ (m # 0 => e[m - 1] = h[m - 1])
        BY <3>2
      <4>2. h[m] = IF m = 0 THEN EmptyLog ELSE ParseLine(h[m - 1], tr[m])
        BY <2>1, <4>1 DEF Follows
      <4> QED
        BY <4>1, <4>2
    <3> QED
      BY <3>1, <3>2
  <2>3. e = [m \in 0 .. k |-> e[m]]
    OBVIOUS
  <2> HIDE DEF e
  <2>4. Follows(tr, k, e)
    BY <2>2, <2>3 DEF Follows
  <2> QED
    BY <2>4
<1> HIDE DEF T
<1>3. \A k \in 0 .. n : k \in T
  BY <1>1, <1>2, Upwards
<1>4. n \in T
  BY <1>3
<1> QED
  BY <1>4 DEF T

\* The log after n lines depends on these lines only.
LEMMA FollowsUnique ==
  ASSUME NEW tr, NEW us, NEW n \in Nat, NEW N \in Nat, NEW h, NEW g, n <= N,
         Follows(tr, n, h), Follows(us, N, g), \A m \in 1 .. n : tr[m] = us[m]
  PROVE  \A m \in 0 .. n : h[m] = g[m]
<1> DEFINE T == {m \in 0 .. n : h[m] = g[m]}
<1>1. \A m \in 0 .. n : /\ h[m] = IF m = 0 THEN EmptyLog ELSE ParseLine(h[m - 1], tr[m])
                        /\ g[m] = IF m = 0 THEN EmptyLog ELSE ParseLine(g[m - 1], us[m])
  BY DEF Follows
<1>2. 0 \in T
  BY <1>1
<1>3. \A k \in 1 .. n : k - 1 \in T => k \in T
  BY <1>1
<1> HIDE DEF T
<1>4. \A m \in 0 .. n : m \in T
  BY <1>2, <1>3, Upwards
<1> QED
  BY <1>4 DEF T

LEMMA ParsedIs ==
  ASSUME NEW tr, Len(tr) \in Nat
  PROVE  \E h : Follows(tr, Len(tr), h) /\ Parsed(tr) = h[Len(tr)]
<1> DEFINE h == CHOOSE h : Follows(tr, Len(tr), h)
<1>1. Follows(tr, Len(tr), h)
  BY FollowsExists
<1>2. Parsed(tr) = h[Len(tr)]
  BY DEF Parsed, Follows
<1> QED
  BY <1>1, <1>2

\* parse_pin_log takes the lines one after the other.
LEMMA ParsedAppend ==
  ASSUME NEW S, NEW tr \in Seq(S), NEW l \in S
  PROVE  /\ Parsed(<<>>) = EmptyLog
         /\ Parsed(Append(tr, l)) = ParseLine(Parsed(tr), l)
<1>1. Parsed(<<>>) = EmptyLog
  <2>1. PICK h : Follows(<<>>, 0, h) /\ Parsed(<<>>) = h[0]
    BY ParsedIs
  <2> QED
    BY <2>1 DEF Follows
<1> DEFINE us == Append(tr, l)
           n == Len(tr)
<1>2. /\ n \in Nat /\ Len(us) = n + 1 /\ us[n + 1] = l
      /\ \A m \in 1 .. n : tr[m] = us[m]
  OBVIOUS
<1> HIDE DEF us, n
<1>3. PICK h : Follows(tr, n, h) /\ Parsed(tr) = h[n]
  BY <1>2, ParsedIs DEF n
<1>4. PICK g : Follows(us, n + 1, g) /\ Parsed(us) = g[n + 1]
  BY <1>2, ParsedIs
<1>5. h[n] = g[n]
  <2>1. PICK N \in Nat : N = n + 1
    BY <1>2
  <2>2. n <= N /\ n \in 0 .. n
    BY <1>2, <2>1
  <2>3. Follows(us, N, g)
    BY <1>4, <2>1
  <2>4. \A m \in 0 .. n : h[m] = g[m]
    BY <1>2, <1>3, <2>2, <2>3, FollowsUnique
  <2> QED
    BY <2>2, <2>4
<1>6. g[n + 1] = ParseLine(g[n], us[n + 1])
  <2>1. n + 1 \in 0 .. n + 1 /\ n + 1 # 0 /\ (n + 1) - 1 = n
    BY <1>2
  <2> QED
    BY <1>4, <2>1 DEF Follows
<1>7. Parsed(us) = ParseLine(Parsed(tr), l)
  BY <1>2, <1>3, <1>4, <1>5, <1>6
<1> QED
  BY <1>1, <1>7 DEF us

-----------------------------------------------------------------------------
\* The sum of F, counted as a set of units.
Row(t, n) == {t} \X (1 .. n)
Units(F) == UNION {Row(t, F[t]) : t \in Threads}
Sum(F) == Cardinality(Units(F))

LEMMA RowIs ==
  ASSUME NEW t, NEW n \in Nat
  PROVE  IsFiniteSet(Row(t, n)) /\ Cardinality(Row(t, n)) = n
<1>1. IsFiniteSet({t}) /\ Cardinality({t}) = 1
  BY FS_Singleton
<1>2. IsFiniteSet(1 .. n) /\ Cardinality(1 .. n) = n
  <2>1. /\ IsFiniteSet(1 .. n)
        /\ Cardinality(1 .. n) = IF 1 > n THEN 0 ELSE n - 1 + 1
    BY FS_Interval
  <2> QED
    BY <2>1
<1> DEFINE A == {t}
           B == 1 .. n
<1> HIDE DEF A, B
<1>3. IsFiniteSet(A \X B) /\ Cardinality(A \X B) = Cardinality(A) * Cardinality(B)
  BY <1>1, <1>2, FS_Product DEF A, B
<1>4. 1 * n = n
  OBVIOUS
<1> QED
  BY <1>1, <1>2, <1>3, <1>4 DEF A, B, Row

LEMMA UnitsFinite ==
  ASSUME NEW F \in [Threads -> Nat]
  PROVE  IsFiniteSet(Units(F)) /\ Sum(F) \in Nat
<1> DEFINE R == {Row(t, F[t]) : t \in Threads}
           f == [t \in Threads |-> Row(t, F[t])]
<1>1. f \in Surjection(Threads, R)
  BY DEF Surjection
<1> HIDE DEF f
<1>2. IsFiniteSet(R)
  <2> HIDE DEF R
  <2> QED
    BY <1>1, FiniteAssumption, FS_Surjection
<1>3. \A r \in R : IsFiniteSet(r)
  BY RowIs
<1> HIDE DEF R
<1>4. IsFiniteSet(UNION R)
  BY <1>2, <1>3, FS_UNION
<1> QED
  BY <1>4, FS_CardinalityType DEF R, Units, Sum

\* Without the units of t.
LEMMA UnitsSplit ==
  ASSUME NEW F \in [Threads -> Nat], NEW t \in Threads
  PROVE  LET Rest == UNION {Row(s, F[s]) : s \in Threads \ {t}}
         IN  Cardinality(Rest) \in Nat /\ Sum(F) = Cardinality(Rest) + F[t]
<1> DEFINE Rest == UNION {Row(s, F[s]) : s \in Threads \ {t}}
           R == Row(t, F[t])
<1>1. Rest \subseteq Units(F) /\ Units(F) = Rest \cup R
  BY DEF Units
<1>2. Rest \cap R = {}
  BY DEF Row
<1> HIDE DEF Rest, R
<1>3. IsFiniteSet(Rest)
  BY <1>1, UnitsFinite, FS_Subset
<1>4. IsFiniteSet(R) /\ Cardinality(R) = F[t]
  BY RowIs DEF R
<1>5. /\ Cardinality(Rest \cup R) = Cardinality(Rest) + Cardinality(R) - Cardinality(Rest \cap R)
      /\ Cardinality(Rest) \in Nat /\ Cardinality(Rest \cap R) = 0
  BY <1>2, <1>3, <1>4, FS_Union, FS_CardinalityType, FS_EmptySet
<1>6. Sum(F) = Cardinality(Rest) + F[t]
  BY <1>1, <1>4, <1>5 DEF Sum
<1> QED
  BY <1>5, <1>6 DEF Rest

\* A sum changes with one of its terms.
LEMMA SumStep ==
  ASSUME NEW F \in [Threads -> Nat], NEW G \in [Threads -> Nat], NEW t \in Threads,
         \A s \in Threads \ {t} : G[s] = F[s]
  PROVE  Sum(F) \in Nat /\ Sum(G) \in Nat /\ Sum(G) + F[t] = Sum(F) + G[t]
<1> DEFINE Rest(H) == UNION {Row(s, H[s]) : s \in Threads \ {t}}
<1>1. Rest(F) = Rest(G)
  OBVIOUS
<1>2. /\ Cardinality(Rest(F)) \in Nat
      /\ Sum(F) = Cardinality(Rest(F)) + F[t] /\ Sum(G) = Cardinality(Rest(G)) + G[t]
  BY UnitsSplit
<1>3. F[t] \in Nat /\ G[t] \in Nat
  OBVIOUS
<1> HIDE DEF Rest
<1> QED
  BY <1>1, <1>2, <1>3, UnitsFinite

LEMMA SumZero ==
  ASSUME NEW F \in [Threads -> Nat], \A t \in Threads : F[t] = 0
  PROVE  Sum(F) = 0
<1>1. Units(F) = {}
  BY DEF Units, Row
<1> QED
  BY <1>1, FS_EmptySet DEF Sum

-----------------------------------------------------------------------------
\* Field k of record i has been printed by a thread that is at line ln of record it.
Shown(it, ln, i, k) == i < it \/ (i = it /\ k + 2 < ln)

\* What the thread has still to print of function f and of its totals, in field k.
FuncLeft(d, it, ln, f, k) ==
  LET rest == {i \in 1 .. Len(d) : d[i].name = f /\ ~Shown(it, ln, i, k)}
  IN  IF rest = {} THEN 0 ELSE d[CHOOSE i \in rest : TRUE].stats[FieldOrder[k]]
TotalLeft(d, it, ln, s, k) == IF it = Len(d) + 1 /\ k < ln THEN 0 ELSE s[FieldOrder[k]]

FL(t, f, k) == FuncLeft(functionData[t], item[t], lineno[t], f, k)
TL(t, k) == TotalLeft(functionData[t], item[t], lineno[t], totals[t], k)

Line == [type : {"Thread"}, value : Threads] \cup [type : {"Function"}, func : Funcs]
        \cup [type : {"Total"}, field : Fields, value : Nat]
        \cup [type : {"Data"}, func : Funcs, field : Fields, value : Nat]
Log == [threads : Int, func : Funcs \cup {NoFunc}, totals : Stats, funcs : [Funcs -> Stats]]

TraceTypes == /\ trace_file \in Seq(Line) /\ Parsed(trace_file) \in Log
              /\ made \in [totals : Stats, funcs : [Funcs -> Stats]]
              /\ item \in [Threads -> Int] /\ lineno \in [Threads -> Int]

\* Where a thread is in its block of lines; only the holder of the lock is inside.
Place(t) ==
  /\ stage[t] \in {"unborn", "running"} => item[t] = 1 /\ lineno[t] = 1
  /\ stage[t] = "unborn" => totals[t] = Empty
  /\ stage[t] = "printing" => holder = t
  /\ stage[t] = "ended" => Printed(t)
  /\ item[t] \in 1 .. Len(functionData[t]) + 1
  /\ lineno[t] \in 1 .. 6 /\ (AtTotals(t) => lineno[t] \in 1 .. 5)
  /\ stage[t] = "printing" /\ ~AtTotals(t) /\ lineno[t] >= 3
       => Parsed(trace_file).func = functionData[t][item[t]].name

\* What is in the trace and what is still to be printed is what was accessed.
Balance ==
  \A k \in 1 .. 4 :
    /\ Parsed(trace_file).totals[FieldOrder[k]] + Sum([t \in Threads |-> TL(t, k)])
         = made.totals[FieldOrder[k]]
    /\ \A f \in Funcs :
         Parsed(trace_file).funcs[f][FieldOrder[k]] + Sum([t \in Threads |-> FL(t, f, k)])
           = made.funcs[f][FieldOrder[k]]

LInv == TraceTypes /\ (\A t \in Threads : Place(t)) /\ Balance

-----------------------------------------------------------------------------
LEMMA FuncLeftIs ==
  ASSUME NEW d \in Seq(Record), NEW it \in Int, NEW ln \in Int, NEW f, NEW k,
         \A i, j \in 1 .. Len(d) : d[i].name = d[j].name => i = j
  PROVE  /\ \A i \in 1 .. Len(d) : d[i].name = f =>
              FuncLeft(d, it, ln, f, k) = IF Shown(it, ln, i, k) THEN 0 ELSE d[i].stats[FieldOrder[k]]
         /\ (\A i \in 1 .. Len(d) : d[i].name # f) => FuncLeft(d, it, ln, f, k) = 0
<1> DEFINE rest == {i \in 1 .. Len(d) : d[i].name = f /\ ~Shown(it, ln, i, k)}
<1>0. FuncLeft(d, it, ln, f, k) =
        IF rest = {} THEN 0 ELSE d[CHOOSE i \in rest : TRUE].stats[FieldOrder[k]]
  BY DEF FuncLeft
<1>1. ASSUME NEW i \in 1 .. Len(d), d[i].name = f
      PROVE  FuncLeft(d, it, ln, f, k) = IF Shown(it, ln, i, k) THEN 0 ELSE d[i].stats[FieldOrder[k]]
  <2>1. CASE Shown(it, ln, i, k)
    <3>1. rest = {}
      BY <1>1, <2>1
    <3> QED
      BY <1>0, <2>1, <3>1
  <2>2. CASE ~Shown(it, ln, i, k)
    <3>1. i \in rest /\ \A j \in rest : j = i
      BY <1>1, <2>2
    <3> HIDE DEF rest
    <3>2. rest # {} /\ (CHOOSE j \in rest : TRUE) = i
      BY <3>1
    <3> QED
      BY <1>0, <2>2, <3>2
  <2> QED
    BY <2>1, <2>2
<1>2. ASSUME \A i \in 1 .. Len(d) : d[i].name # f PROVE FuncLeft(d, it, ln, f, k) = 0
  <2>1. rest = {}
    BY <1>2
  <2> QED
    BY <1>0, <2>1
<1> QED
  BY <1>1, <1>2

LEMMA LeftNat ==
  ASSUME NEW d \in Seq(Record), NEW it \in Int, NEW ln \in Int, NEW f, NEW s \in Stats,
         NEW k \in 1 .. 4,
         \A i, j \in 1 .. Len(d) : d[i].name = d[j].name => i = j
  PROVE  FuncLeft(d, it, ln, f, k) \in Nat /\ TotalLeft(d, it, ln, s, k) \in Nat
<1>1. FieldOrder[k] \in Fields
  BY FieldNames
<1>2. \A r \in Stats : r[FieldOrder[k]] \in Nat
  BY <1>1 DEF Stats
<1>3. \A i \in 1 .. Len(d) : d[i].stats \in Stats
  <2>1. \A i \in 1 .. Len(d) : d[i] \in Record
    OBVIOUS
  <2> QED
    BY <2>1 DEF Record
<1>4. CASE \E i \in 1 .. Len(d) : d[i].name = f
  <2>1. PICK i \in 1 .. Len(d) : d[i].name = f
    BY <1>4
  <2>2. FuncLeft(d, it, ln, f, k) = IF Shown(it, ln, i, k) THEN 0 ELSE d[i].stats[FieldOrder[k]]
    BY <2>1, FuncLeftIs
  <2> QED
    BY <1>2, <1>3, <2>2 DEF TotalLeft
<1>5. CASE \A i \in 1 .. Len(d) : d[i].name # f
  BY <1>2, <1>5, FuncLeftIs DEF TotalLeft
<1> QED
  BY <1>4, <1>5

\* Two tables with the same names, and the same left of the record of f.
LEMMA FuncLeftSame ==
  ASSUME NEW d \in Seq(Record), NEW e \in Seq(Record), Len(e) = Len(d),
         NEW it \in Int, NEW ln \in Int, NEW it2 \in Int, NEW ln2 \in Int, NEW f, NEW k,
         \A i, j \in 1 .. Len(d) : d[i].name = d[j].name => i = j,
         \A i \in 1 .. Len(d) : e[i].name = d[i].name,
         \A i \in 1 .. Len(d) : d[i].name = f => /\ e[i].stats = d[i].stats
                                                /\ Shown(it2, ln2, i, k) = Shown(it, ln, i, k)
  PROVE  FuncLeft(e, it2, ln2, f, k) = FuncLeft(d, it, ln, f, k)
<1>1. \A i, j \in 1 .. Len(e) : e[i].name = e[j].name => i = j
  OBVIOUS
<1>2. CASE \E i \in 1 .. Len(d) : d[i].name = f
  <2>1. PICK i \in 1 .. Len(d) : d[i].name = f
    BY <1>2
  <2>2. FuncLeft(d, it, ln, f, k) = IF Shown(it, ln, i, k) THEN 0 ELSE d[i].stats[FieldOrder[k]]
    BY <2>1, FuncLeftIs
  <2>3. FuncLeft(e, it2, ln2, f, k) = IF Shown(it2, ln2, i, k) THEN 0 ELSE e[i].stats[FieldOrder[k]]
    BY <1>1, <2>1, FuncLeftIs
  <2> QED
    BY <2>1, <2>2, <2>3
<1>3. CASE \A i \in 1 .. Len(d) : d[i].name # f
  <2>1. FuncLeft(d, it, ln, f, k) = 0
    BY <1>3, FuncLeftIs
  <2>2. FuncLeft(e, it2, ln2, f, k) = 0
    BY <1>1, <1>3, FuncLeftIs
  <2> QED
    BY <2>1, <2>2
<1> QED
  BY <1>2, <1>3

\* A new record with nothing in it.
LEMMA FuncLeftNew ==
  ASSUME NEW d \in Seq(Record), NEW r \in Record, r.stats = Empty,
         \A i, j \in 1 .. Len(d) : d[i].name = d[j].name => i = j,
         \A i \in 1 .. Len(d) : d[i].name # r.name,
         NEW it \in Int, NEW ln \in Int, NEW f, NEW k \in 1 .. 4
  PROVE  FuncLeft(Append(d, r), it, ln, f, k) = FuncLeft(d, it, ln, f, k)
<1> DEFINE e == Append(d, r)
<1>1. /\ e \in Seq(Record) /\ Len(d) \in Nat /\ Len(e) = Len(d) + 1 /\ e[Len(d) + 1] = r
      /\ \A j \in 1 .. Len(d) : e[j] = d[j]
  OBVIOUS
<1> HIDE DEF e
<1>2. \A i, j \in 1 .. Len(e) : e[i].name = e[j].name => i = j
  BY <1>1
<1>3. CASE \E i \in 1 .. Len(d) : d[i].name = f
  <2>1. PICK i \in 1 .. Len(d) : d[i].name = f
    BY <1>3
  <2>2. FuncLeft(d, it, ln, f, k) = IF Shown(it, ln, i, k) THEN 0 ELSE d[i].stats[FieldOrder[k]]
    BY <2>1, FuncLeftIs
  <2>3. i \in 1 .. Len(e) /\ e[i] = d[i] /\ e[i].name = f
    BY <1>1, <2>1
  <2>4. FuncLeft(e, it, ln, f, k) = IF Shown(it, ln, i, k) THEN 0 ELSE e[i].stats[FieldOrder[k]]
    <3>1. e \in Seq(Record)
      BY <1>1
    <3> QED
      BY ONLY <1>2, <2>3, <3>1, it \in Int, ln \in Int, FuncLeftIs
  <2> QED
    BY <2>2, <2>3, <2>4 DEF e
<1>4. CASE \A i \in 1 .. Len(d) : d[i].name # f
  <2>1. FuncLeft(d, it, ln, f, k) = 0
    BY <1>4, FuncLeftIs
  <2>2. FuncLeft(e, it, ln, f, k) = 0
    <3>1. CASE r.name = f
      <4>1. Len(d) + 1 \in 1 .. Len(e) /\ e[Len(d) + 1].name = f
        BY <1>1, <3>1
      <4>2. FuncLeft(e, it, ln, f, k) =
              IF Shown(it, ln, Len(d) + 1, k) THEN 0 ELSE e[Len(d) + 1].stats[FieldOrder[k]]
        BY SMTT(30), <1>1, <1>2, <4>1, FuncLeftIs
      <4>3. e[Len(d) + 1].stats[FieldOrder[k]] = 0
        BY <1>1, FieldNames DEF Empty
      <4> QED
        BY <4>2, <4>3
    <3>2. CASE r.name # f
      <4>1. \A i \in 1 .. Len(e) : e[i].name # f
        BY <1>1, <1>4, <3>2
      <4> QED
        BY <1>1, <1>2, <4>1, FuncLeftIs
    <3> QED
      BY <3>1, <3>2
  <2> QED
    BY <2>1, <2>2 DEF e
<1> QED
  BY <1>3, <1>4

\* An access is still to be printed, of the function it is charged to.
LEMMA FuncLeftCharged ==
  ASSUME NEW d \in Seq(Record), NEW i \in 1 .. Len(d), NEW rw \in AccessKinds, NEW size \in Nat,
         \A m, j \in 1 .. Len(d) : d[m].name = d[j].name => m = j,
         NEW f, NEW k \in 1 .. 4
  PROVE  FuncLeft(Charged(d, i, rw, size), 1, 1, f, k) =
           FuncLeft(d, 1, 1, f, k)
             + (IF f = d[i].name THEN Added(rw, size)[FieldOrder[k]] ELSE 0)
<1> DEFINE e == Charged(d, i, rw, size)
<1>1. /\ e \in Seq(Record) /\ Len(e) = Len(d)
      /\ \A j \in 1 .. Len(d) : e[j].name = d[j].name
      /\ e[i].stats = Counted(d[i].stats, rw, size)
      /\ \A j \in 1 .. Len(d) : j # i => e[j].stats = d[j].stats
  BY Recorded
<1> HIDE DEF e
<1>2. \A m, j \in 1 .. Len(e) : e[m].name = e[j].name => m = j
  BY <1>1
<1>3. \A j \in 1 .. Len(d) : ~Shown(1, 1, j, k)
  BY DEF Shown
<1>4. CASE f = d[i].name
  <2>a. 1 \in Int /\ d[i].name = f /\ i \in 1 .. Len(e) /\ e[i].name = f
    BY <1>1, <1>4
  <2>b. FuncLeft(d, 1, 1, f, k) = IF Shown(1, 1, i, k) THEN 0 ELSE d[i].stats[FieldOrder[k]]
    BY <2>a, FuncLeftIs
  <2>c. FuncLeft(e, 1, 1, f, k) = IF Shown(1, 1, i, k) THEN 0 ELSE e[i].stats[FieldOrder[k]]
    BY <1>1, <1>2, <2>a, FuncLeftIs
  <2>1. FuncLeft(d, 1, 1, f, k) = d[i].stats[FieldOrder[k]]
    BY <1>3, <2>b
  <2>2. FuncLeft(e, 1, 1, f, k) = e[i].stats[FieldOrder[k]]
    BY <1>3, <2>c
  <2>3. d[i].stats \in Stats
    <3>1. d[i] \in Record
      OBVIOUS
    <3> QED
      BY <3>1 DEF Record
  <2>4. Counted(d[i].stats, rw, size)[FieldOrder[k]]
          = d[i].stats[FieldOrder[k]] + Added(rw, size)[FieldOrder[k]]
    BY <2>3, CountedAdds, FieldNames
  <2> QED
    BY <1>1, <1>4, <2>1, <2>2, <2>4 DEF e
<1>5. CASE f # d[i].name
  <2>1. \A j \in 1 .. Len(d) : d[j].name = f => e[j].stats = d[j].stats
    BY <1>1, <1>5
  <2>2. 1 \in Int
    OBVIOUS
  <2>3. FuncLeft(e, 1, 1, f, k) = FuncLeft(d, 1, 1, f, k)
    BY <1>1, <2>1, <2>2, FuncLeftSame
  <2>4. FuncLeft(d, 1, 1, f, k) \in Nat
    BY <2>2, LeftNat, CountedAdds
  <2> QED
    BY <1>5, <2>3, <2>4 DEF e
<1> QED
  BY <1>4, <1>5

\* Printing one line of record it.
LEMMA FuncLeftPrinted ==
  ASSUME NEW d \in Seq(Record), NEW it \in 1 .. Len(d), NEW ln \in 1 .. 6,
         \A i, j \in 1 .. Len(d) : d[i].name = d[j].name => i = j,
         NEW f, NEW k \in 1 .. 4,
         NEW it2 \in Int, NEW ln2 \in Int,
         it2 = IF ln = 6 THEN it + 1 ELSE it, ln2 = IF ln = 6 THEN 1 ELSE ln + 1
  PROVE  FuncLeft(d, it, ln, f, k) =
           FuncLeft(d, it2, ln2, f, k)
             + (IF f = d[it].name /\ k = ln - 2 THEN d[it].stats[FieldOrder[k]] ELSE 0)
<1>0. it \in Int /\ ln \in Int
  OBVIOUS
<1>1. CASE f # d[it].name
  <2>1. \A i \in 1 .. Len(d) : d[i].name = f => Shown(it2, ln2, i, k) = Shown(it, ln, i, k)
    <3> SUFFICES ASSUME NEW i \in 1 .. Len(d), d[i].name = f
                 PROVE  Shown(it2, ln2, i, k) = Shown(it, ln, i, k)
      OBVIOUS
    <3>1. i # it
      BY <1>1
    <3> QED
      BY <3>1 DEF Shown
  <2>2. FuncLeft(d, it2, ln2, f, k) = FuncLeft(d, it, ln, f, k)
    BY <1>0, <2>1, FuncLeftSame
  <2>3. \A s \in Stats : FuncLeft(d, it, ln, f, k) \in Nat
    BY <1>0, LeftNat
  <2>4. Empty \in Stats
    BY DEF Empty, Stats
  <2> QED
    BY <1>1, <2>2, <2>3, <2>4
<1>2. CASE f = d[it].name
  <2>1. d[it].name = f
    BY <1>2
  <2>2. FuncLeft(d, it, ln, f, k) = IF Shown(it, ln, it, k) THEN 0 ELSE d[it].stats[FieldOrder[k]]
    BY <1>0, <2>1, FuncLeftIs
  <2>3. FuncLeft(d, it2, ln2, f, k) = IF Shown(it2, ln2, it, k) THEN 0 ELSE d[it].stats[FieldOrder[k]]
    BY <1>0, <2>1, FuncLeftIs
  <2>4. d[it].stats[FieldOrder[k]] \in Nat
    <3>1. d[it] \in Record /\ FieldOrder[k] \in Fields
      BY FieldNames
    <3> QED
      BY <3>1 DEF Record, Stats
  <2>5. Shown(it, ln, it, k) <=> k + 2 < ln
    BY DEF Shown
  <2>6. Shown(it2, ln2, it, k) <=> k + 2 < ln + 1
    BY DEF Shown
  <2>7. Shown(it, ln, it, k) <=> Shown(it2, ln2, it, k) /\ k # ln - 2
    BY <2>5, <2>6
  <2>8. k = ln - 2 => Shown(it2, ln2, it, k)
    BY <2>6
  <2> QED
    BY <1>2, <2>2, <2>3, <2>4, <2>7, <2>8
<1> QED
  BY <1>1, <1>2

LEMMA LogAt ==
  ASSUME NEW log \in Log, NEW k \in 1 .. 4
  PROVE  /\ log.totals[FieldOrder[k]] \in Nat
         /\ \A f \in Funcs : log.funcs[f][FieldOrder[k]] \in Nat
BY FieldNames DEF Log, Stats

\* The four kinds of line.
LEMMA ParseBlock ==
  ASSUME NEW log \in Log, NEW t, NEW f \in Funcs
  PROVE  LET a == ParseLine(log, [type |-> "Thread", value |-> t])
             b == ParseLine(log, [type |-> "Function", func |-> f])
         IN  /\ a \in Log /\ a.totals = log.totals /\ a.funcs = log.funcs
             /\ b \in Log /\ b.totals = log.totals /\ b.funcs = log.funcs /\ b.func = f
<1> DEFINE a == ParseLine(log, [type |-> "Thread", value |-> t])
           b == ParseLine(log, [type |-> "Function", func |-> f])
<1>1. a = [log EXCEPT !.threads = @ + 1, !.func = NoFunc]
  BY DEF ParseLine
<1>2. b = [log EXCEPT !.func = f]
  BY DEF ParseLine
<1> HIDE DEF a, b
<1>3. a \in Log /\ a.totals = log.totals /\ a.funcs = log.funcs
  <2> DEFINE c == [log EXCEPT !.threads = @ + 1]
  <2>1. log.threads + 1 \in Int
    BY DEF Log
  <2>2. c \in Log /\ c.totals = log.totals /\ c.funcs = log.funcs
    BY <2>1 DEF Log
  <2>3. a = [c EXCEPT !.func = NoFunc]
    BY <1>1 DEF Log
  <2> HIDE DEF c
  <2> QED
    BY <2>2, <2>3 DEF Log
<1>4. b \in Log /\ b.totals = log.totals /\ b.funcs = log.funcs /\ b.func = f
  BY <1>2 DEF Log
<1> QED
  BY <1>3, <1>4 DEF a, b

LEMMA ParseTotal ==
  ASSUME NEW log \in Log, NEW n \in Fields, NEW v \in Nat
  PROVE  LET a == ParseLine(log, [type |-> "Total", field |-> n, value |-> v])
         IN  /\ a \in Log /\ a.func = log.func /\ a.funcs = log.funcs
             /\ \A m \in Fields : a.totals[m] = log.totals[m] + (IF m = n THEN v ELSE 0)
<1> DEFINE a == ParseLine(log, [type |-> "Total", field |-> n, value |-> v])
           c == [log.totals EXCEPT ![n] = @ + v]
<1>1. a = [log EXCEPT !.totals = c]
  BY DEF ParseLine
<1>2. log.totals \in [Fields -> Nat]
  BY DEF Log, Stats
<1>3. c \in Stats /\ \A m \in Fields : c[m] = log.totals[m] + (IF m = n THEN v ELSE 0)
  BY <1>2 DEF Stats
<1> HIDE DEF c
<1> QED
  BY <1>1, <1>3 DEF Log

LEMMA ParseData ==
  ASSUME NEW log \in Log, NEW f \in Funcs, log.func = f, NEW n \in Fields, NEW v \in Nat
  PROVE  LET a == ParseLine(log, [type |-> "Data", func |-> f, field |-> n, value |-> v])
         IN  /\ a \in Log /\ a.func = log.func /\ a.totals = log.totals
             /\ \A g \in Funcs, m \in Fields :
                  a.funcs[g][m] = log.funcs[g][m] + (IF g = f /\ m = n THEN v ELSE 0)
<1> DEFINE a == ParseLine(log, [type |-> "Data", func |-> f, field |-> n, value |-> v])
           c == [log.funcs[f] EXCEPT ![n] = @ + v]
           fs == [log.funcs EXCEPT ![f] = c]
<1>1. a = [log EXCEPT !.funcs = fs]
  BY DEF ParseLine
<1>2. log.funcs \in [Funcs -> Stats] /\ log.funcs[f] \in [Fields -> Nat]
  BY DEF Log, Stats
<1>3. c \in Stats /\ \A m \in Fields : c[m] = log.funcs[f][m] + (IF m = n THEN v ELSE 0)
  BY <1>2 DEF Stats
<1> HIDE DEF c
<1>4. fs \in [Funcs -> Stats] /\ \A g \in Funcs : fs[g] = IF g = f THEN c ELSE log.funcs[g]
  BY <1>2, <1>3
<1> HIDE DEF fs
<1>5. \A g \in Funcs, m \in Fields : log.funcs[g][m] \in Nat
  BY <1>2 DEF Stats
<1>6. \A g \in Funcs, m \in Fields : fs[g][m] = log.funcs[g][m] + (IF g = f /\ m = n THEN v ELSE 0)
  BY <1>3, <1>4, <1>5
<1> QED
  BY <1>1, <1>4, <1>6 DEF Log

-----------------------------------------------------------------------------
LEMMA TableAt ==
  ASSUME PinInv, NEW t \in Threads
  PROVE  /\ functionData[t] \in Seq(Record) /\ totals[t] \in Stats
         /\ \A i, j \in 1 .. Len(functionData[t]) :
              functionData[t][i].name = functionData[t][j].name => i = j
BY DEF PinInv, Tables, Chained, Distinct

LeftTyped == \A t \in Threads, k \in 1 .. 4 : TL(t, k) \in Nat /\ \A f : FL(t, f, k) \in Nat

LEMMA LeftType == PinInv /\ TraceTypes => LeftTyped
<1> USE DEF LeftTyped
<1> SUFFICES ASSUME PinInv, TraceTypes, NEW t \in Threads, NEW k \in 1 .. 4
             PROVE  TL(t, k) \in Nat /\ \A f : FL(t, f, k) \in Nat
  OBVIOUS
<1>1. item[t] \in Int /\ lineno[t] \in Int
  BY DEF TraceTypes
<1>2. \A f : /\ FuncLeft(functionData[t], item[t], lineno[t], f, k) \in Nat
             /\ TotalLeft(functionData[t], item[t], lineno[t], totals[t], k) \in Nat
  BY <1>1, TableAt, LeftNat
<1> QED
  BY <1>2 DEF TL, FL

LEMMA BalanceOf ==
  ASSUME NEW p \in Int, NEW q \in Int, NEW m \in Int, NEW n \in Int,
         NEW a \in Int, NEW b \in Int, NEW x \in Int, NEW y \in Int,
         q + b + m = p + a + n, p + x = m, y + a = x + b
  PROVE  q + y = n
OBVIOUS

\* A step of t keeps the balance when what it adds to the log and to what is left
\* for t to print is what was accessed in it.
LEMMA BalanceStep ==
  ASSUME PinInv, TraceTypes, Balance, PinInv', TraceTypes', NEW t \in Threads,
         \A s \in Threads \ {t} : /\ functionData'[s] = functionData[s] /\ totals'[s] = totals[s]
                                  /\ item'[s] = item[s] /\ lineno'[s] = lineno[s],
         \A k \in 1 .. 4 :
           /\ Parsed(trace_file').totals[FieldOrder[k]] + TL(t, k)' + made.totals[FieldOrder[k]]
                = Parsed(trace_file).totals[FieldOrder[k]] + TL(t, k) + made'.totals[FieldOrder[k]]
           /\ \A f \in Funcs :
                Parsed(trace_file').funcs[f][FieldOrder[k]] + FL(t, f, k)' + made.funcs[f][FieldOrder[k]]
                  = Parsed(trace_file).funcs[f][FieldOrder[k]] + FL(t, f, k) + made'.funcs[f][FieldOrder[k]]
  PROVE  Balance'
<1>1. /\ \A s \in Threads, k \in 1 .. 4 : TL(s, k) \in Nat /\ \A f : FL(s, f, k) \in Nat
      /\ \A s \in Threads, k \in 1 .. 4 : TL(s, k)' \in Nat /\ \A f : FL(s, f, k)' \in Nat
  <2>1. LeftTyped
    BY LeftType
  <2>2. LeftTyped'
    BY LeftType, PTL
  <2> QED
    BY <2>1, <2>2 DEF LeftTyped
<1>2. \A s \in Threads \ {t} : \A k : TL(s, k)' = TL(s, k) /\ \A f : FL(s, f, k)' = FL(s, f, k)
  BY DEF TL, FL
<1>3. /\ Parsed(trace_file) \in Log /\ Parsed(trace_file') \in Log
      /\ made \in [totals : Stats, funcs : [Funcs -> Stats]]
      /\ made' \in [totals : Stats, funcs : [Funcs -> Stats]]
  BY SMTT(30) DEF TraceTypes
<1> SUFFICES ASSUME NEW k \in 1 .. 4
             PROVE  /\ Parsed(trace_file').totals[FieldOrder[k]] + Sum([s \in Threads |-> TL(s, k)'])
                         = made'.totals[FieldOrder[k]]
                    /\ \A f \in Funcs :
                         Parsed(trace_file').funcs[f][FieldOrder[k]] + Sum([s \in Threads |-> FL(s, f, k)'])
                           = made'.funcs[f][FieldOrder[k]]
  BY DEF Balance
<1> DEFINE n == FieldOrder[k]
<1>4. /\ made.totals[n] \in Nat /\ made'.totals[n] \in Nat
      /\ \A f \in Funcs : made.funcs[f][n] \in Nat /\ made'.funcs[f][n] \in Nat
  BY <1>3, FieldNames DEF Stats
<1>5. /\ Parsed(trace_file).totals[n] \in Nat /\ Parsed(trace_file').totals[n] \in Nat
      /\ \A f \in Funcs : Parsed(trace_file).funcs[f][n] \in Nat /\ Parsed(trace_file').funcs[f][n] \in Nat
  BY <1>3, LogAt
<1>6. Parsed(trace_file').totals[n] + Sum([s \in Threads |-> TL(s, k)']) = made'.totals[n]
  <2> DEFINE F == [s \in Threads |-> TL(s, k)]
             G == [s \in Threads |-> TL(s, k)']
  <2>1. F \in [Threads -> Nat] /\ G \in [Threads -> Nat]
    BY <1>1
  <2>2. \A s \in Threads \ {t} : G[s] = F[s]
    BY <1>2
  <2>3. F[t] = TL(t, k) /\ G[t] = TL(t, k)'
    BY SMTT(30)
  <2>4. Parsed(trace_file).totals[n] + Sum(F) = made.totals[n]
    BY DEF Balance
  <2> HIDE DEF F, G
  <2>5. Sum(F) \in Nat /\ Sum(G) \in Nat /\ Sum(G) + F[t] = Sum(F) + G[t]
    BY <2>1, <2>2, SumStep
  <2>6. Parsed(trace_file').totals[n] + G[t] + made.totals[n] = Parsed(trace_file).totals[n] + F[t] + made'.totals[n]
    BY <2>3
  <2>7. Parsed(trace_file').totals[n] + Sum(G) = made'.totals[n]
    <3>1. F[t] \in Int /\ G[t] \in Int
      BY <2>1
    <3> QED
      BY <1>4, <1>5, <2>4, <2>5, <2>6, <3>1, BalanceOf
  <2> QED
    BY <2>7 DEF G
<1>7. ASSUME NEW f \in Funcs
      PROVE  Parsed(trace_file').funcs[f][n] + Sum([s \in Threads |-> FL(s, f, k)']) = made'.funcs[f][n]
  <2> DEFINE F == [s \in Threads |-> FL(s, f, k)]
             G == [s \in Threads |-> FL(s, f, k)']
  <2>1. F \in [Threads -> Nat] /\ G \in [Threads -> Nat]
    BY <1>1
  <2>2. \A s \in Threads \ {t} : G[s] = F[s]
    BY ZenonT(60), <1>2
  <2>3. F[t] = FL(t, f, k) /\ G[t] = FL(t, f, k)'
    OBVIOUS
  <2>4. Parsed(trace_file).funcs[f][n] + Sum(F) = made.funcs[f][n]
    BY DEF Balance
  <2> HIDE DEF F, G
  <2>5. Sum(F) \in Nat /\ Sum(G) \in Nat /\ Sum(G) + F[t] = Sum(F) + G[t]
    BY <2>1, <2>2, SumStep
  <2>6. Parsed(trace_file').funcs[f][n] + G[t] + made.funcs[f][n]
          = Parsed(trace_file).funcs[f][n] + F[t] + made'.funcs[f][n]
    BY SMTT(30), <2>3
  <2>7. Parsed(trace_file').funcs[f][n] + Sum(G) = made'.funcs[f][n]
    <3>1. F[t] \in Int /\ G[t] \in Int
      BY <2>1
    <3> QED
      BY <1>4, <1>5, <2>4, <2>5, <2>6, <3>1, BalanceOf
  <2> QED
    BY <2>7 DEF G
<1> QED
  BY <1>6, <1>7

LEMMA Quiet ==
  ASSUME LInv, UNCHANGED <<functionData, totals, item, lineno, trace_file, made>>
  PROVE  TraceTypes' /\ Balance'
BY DEF LInv, TraceTypes, Balance, TL, FL

\* Steps that neither count nor print.
LEMMA QuietLedger ==
  ASSUME PinInv, LInv, NEW t \in Threads,
         ThreadStart(t) \/ StopROI(t) \/ ThreadFini(t) \/ ReleaseLock(t)
  PROVE  LInv'
<1> USE DEF PinInv, Tables
<1>0. Place(t) /\ \A s \in Threads : Place(s)
  BY DEF LInv
<1>1. UNCHANGED <<functionData, totals, item, lineno, trace_file, made>>
  <2>1. CASE ThreadStart(t)
    <3>1. totals[t] = Empty
      BY <1>0, <2>1 DEF ThreadStart, Place
    <3> QED
      BY <2>1, <3>1 DEF ThreadStart, output
  <2>2. CASE StopROI(t) \/ ThreadFini(t) \/ ReleaseLock(t)
    BY <2>2 DEF StopROI, ThreadFini, ReleaseLock, output, tables
  <2> QED
    BY <2>1, <2>2
<1>2. \A s \in Threads : (AtTotals(s)' <=> AtTotals(s)) /\ (Printed(s)' <=> Printed(s))
  BY <1>1 DEF AtTotals, Printed
<1>3. ASSUME NEW s \in Threads PROVE Place(s)'
  <2>1. CASE ThreadStart(t) \/ StopROI(t)
    <3>1. \/ stage'[s] = stage[s] /\ holder' = holder
          \/ s = t /\ stage[s] = "unborn" /\ stage'[s] = "running"
      BY <2>1 DEF ThreadStart, StopROI, output
    <3> QED
      BY <1>0, <1>1, <1>2, <3>1 DEF Place
  <2>2. CASE ThreadFini(t)
    <3>1. stage[s] # "printing"
      BY <1>0, <2>2, NamesAssumption DEF ThreadFini, Place
    <3>2. \/ s = t /\ stage[s] = "running" /\ stage'[s] = "printing" /\ holder' = t
          \/ s # t /\ stage'[s] = stage[s]
      BY <2>2 DEF ThreadFini
    <3> QED
      BY <1>0, <1>1, <1>2, <3>1, <3>2 DEF Place
  <2>3. CASE ReleaseLock(t)
    <3>1. stage[s] = "printing" => s = t
      BY <1>0, <2>3 DEF ReleaseLock, Place
    <3>2. \/ s = t /\ stage'[s] = "ended" /\ Printed(s)
          \/ s # t /\ stage'[s] = stage[s]
      BY <2>3 DEF ReleaseLock
    <3>3. stage'[s] # "printing"
      BY <3>1, <3>2
    <3> QED
      BY <1>0, <1>1, <1>2, <3>2, <3>3 DEF Place
  <2> QED
    BY <2>1, <2>2, <2>3
<1> QED
  BY <1>1, <1>3, Quiet DEF LInv

LEMMA StartLedger ==
  ASSUME PinInv, PinInv', LInv, NEW t \in Threads, NEW f \in Funcs, StartROI(t, f)
  PROVE  LInv'
<1> DEFINE d == functionData[t]
           e == functionData'[t]
<1>0. TraceTypes /\ Balance /\ Place(t) /\ \A s \in Threads : Place(s)
  BY DEF LInv
<1>1. UNCHANGED <<stage, totals, made, holder, trace_file, item, lineno>> /\ stage[t] = "running"
  BY DEF StartROI, Event, output
<1>2. item[t] = 1 /\ lineno[t] = 1
  BY <1>0, <1>1 DEF Place
<1>3. /\ d \in Seq(Record) /\ Len(d) \in Nat
      /\ \A i, j \in 1 .. Len(d) : d[i].name = d[j].name => i = j
  BY TableAt
<1>4. /\ \A s \in Threads \ {t} : functionData'[s] = functionData[s]
      /\ Len(e) \in Nat
      /\ \A h \in Funcs, k \in 1 .. 4 : FuncLeft(e, 1, 1, h, k) = FuncLeft(d, 1, 1, h, k)
  <2> DEFINE known == {i \in DOMAIN d : d[i].name = f}
             g == globalFuncID[t]
  <2>0. g \in Int /\ functionData \in [Threads -> Seq(Record)]
    BY DEF PinInv, Tables
  <2>1. CASE known # {}
    <3>1. PICK i \in known : functionData' = [functionData EXCEPT ![t][i].oldFuncID =
                                                IF isROI'[t] > 0 THEN g ELSE @]
      BY <2>1 DEF StartROI
    <3>2. i \in 1 .. Len(d)
      BY <1>3
    <3> DEFINE q == IF isROI'[t] > 0 THEN g ELSE d[i].oldFuncID
    <3>3. q \in Int
      BY <1>3, <2>0, <3>2, RecordAt
    <3> HIDE DEF q
    <3> DEFINE c == [d EXCEPT ![i].oldFuncID = q]
    <3>4. functionData' = [functionData EXCEPT ![t] = c]
      BY <3>1 DEF q
    <3>5. /\ c \in Seq(Record) /\ Len(c) = Len(d)
          /\ \A j \in 1 .. Len(d) : c[j].name = d[j].name /\ c[j].stats = d[j].stats
      BY <1>3, <3>2, <3>3, PointBack
    <3> HIDE DEF c, d
    <3>6. \A h \in Funcs, k \in 1 .. 4 : FuncLeft(c, 1, 1, h, k) = FuncLeft(d, 1, 1, h, k)
      <4>1. 1 \in Int
        OBVIOUS
      <4> QED
        BY <1>3, <3>5, <4>1, FuncLeftSame
    <3> QED
      BY <1>3, <2>0, <3>4, <3>5, <3>6
  <2>2. CASE known = {}
    <3> DEFINE r == [FuncStats(f) EXCEPT !.oldFuncID = g]
    <3>1. functionData' = [functionData EXCEPT ![t] = Append(d, r)]
      BY <2>2 DEF StartROI
    <3>2. r \in Record /\ r.name = f /\ r.stats = Empty
      BY <2>0 DEF FuncStats, Record, Empty, Stats
    <3>3. \A i \in 1 .. Len(d) : d[i].name # f
      BY <1>3, <2>2
    <3> HIDE DEF r, d
    <3>4. \A h \in Funcs, k \in 1 .. 4 : FuncLeft(Append(d, r), 1, 1, h, k) = FuncLeft(d, 1, 1, h, k)
      <4>1. 1 \in Int
        OBVIOUS
      <4>2. \A i \in 1 .. Len(d) : d[i].name # r.name
        BY <3>2, <3>3
      <4> QED
        BY <1>3, <3>2, <4>1, <4>2, FuncLeftNew
    <3> QED
      BY <1>3, <2>0, <3>1, <3>2, <3>4
  <2> QED
    BY <2>1, <2>2
<1> HIDE DEF d, e
<1>5. TraceTypes'
  BY <1>0, <1>1 DEF TraceTypes
<1>6. ASSUME NEW k \in 1 .. 4, NEW h \in Funcs
      PROVE  TL(t, k)' = TL(t, k) /\ FL(t, h, k)' = FL(t, h, k)
  <2>1. FL(t, h, k)' = FL(t, h, k)
    BY <1>1, <1>2, <1>4 DEF FL, d, e
  <2>2. TL(t, k)' = TL(t, k)
    BY <1>1, <1>2 DEF TL, TotalLeft
  <2> QED
    BY <2>1, <2>2
<1>7. Balance'
  <2>1. \A s \in Threads \ {t} : functionData'[s] = functionData[s]
    BY <1>4
  <2> QED
    BY <1>0, <1>1, <1>5, <1>6, <2>1, BalanceStep
<1>8. ASSUME NEW s \in Threads PROVE Place(s)'
  <2>1. CASE s = t
    BY <1>1, <1>2, <1>4, <2>1 DEF Place, AtTotals, e
  <2>2. CASE s # t
    <3>1. functionData'[s] = functionData[s] /\ Place(s)
      BY <1>0, <1>4, <2>2
    <3>2. (AtTotals(s)' <=> AtTotals(s)) /\ (Printed(s)' <=> Printed(s))
      BY <1>1, <3>1 DEF AtTotals, Printed
    <3> QED
      BY <1>1, <3>1, <3>2 DEF Place
  <2> QED
    BY <2>1, <2>2
<1> QED
  BY <1>5, <1>7, <1>8 DEF LInv

LEMMA RecordLedger ==
  ASSUME PinInv, PinInv', LInv, NEW t \in Threads, NEW rw \in AccessKinds, NEW size \in Sizes,
         RecordMem(t, rw, size)
  PROVE  LInv'
<1> DEFINE d == functionData[t]
           g == globalFuncID[t]
           o == open[t]
           inner == o[Len(o)]
           add == Added(rw, size)
<1>0. /\ TraceTypes /\ Balance /\ Place(t) /\ \A s \in Threads : Place(s)
      /\ size \in Nat
  BY SizesAssumption DEF LInv
<1>1. UNCHANGED <<stage, holder, trace_file, item, lineno>> /\ stage[t] = "running"
  BY DEF RecordMem, Event, output
<1>2. item[t] = 1 /\ lineno[t] = 1
  BY <1>0, <1>1 DEF Place
<1>3. /\ d \in Seq(Record) /\ Len(d) \in Nat /\ totals[t] \in Stats
      /\ \A i, j \in 1 .. Len(d) : d[i].name = d[j].name => i = j
  BY TableAt
<1>4. o \in Seq(Funcs) /\ Len(o) \in Nat /\ isROI[t] = Len(o) /\ Names(o, d, g, Len(o)) /\ g \in Int
  BY DEF PinInv, Tables, Depths, Chained
<1>5. Len(o) > 0 /\ o # <<>>
  BY <1>4 DEF RecordMem
<1>6. /\ inner \in Funcs /\ g \in 0 .. Len(d) - 1 /\ g + 1 \in 1 .. Len(d) /\ d[g + 1].name = inner
  BY <1>3, <1>4, <1>5 DEF Names
<1> DEFINE e == Charged(d, g + 1, rw, size)
<1>7. /\ totals' = [totals EXCEPT ![t] = Counted(@, rw, size)]
      /\ functionData' = [functionData EXCEPT ![t] = e]
      /\ made' = [made EXCEPT !.totals = Counted(@, rw, size),
                              !.funcs[inner] = Counted(@, rw, size)]
  <2>1. isROI[t] \in Int /\ isROI[t] > 0 /\ g \in Int /\ g > -1
    BY <1>4, <1>5, <1>6
  <2> QED
    <3>1. totals' = [totals EXCEPT ![t] = Counted(@, rw, size)]
      BY <2>1 DEF RecordMem
    <3>2. functionData' = [functionData EXCEPT ![t] = e]
      BY <2>1 DEF RecordMem, Charged
    <3>3. made' = [made EXCEPT !.totals = Counted(@, rw, size),
                               !.funcs[inner] = Counted(@, rw, size)]
      BY <1>5 DEF RecordMem
    <3> QED
      BY <3>1, <3>2, <3>3
<1>8. /\ e \in Seq(Record) /\ Len(e) = Len(d)
      /\ \A h, k : k \in 1 .. 4 =>
           FuncLeft(e, 1, 1, h, k) = FuncLeft(d, 1, 1, h, k) + (IF h = inner THEN add[FieldOrder[k]] ELSE 0)
  <2>1. e \in Seq(Record) /\ Len(e) = Len(d)
    BY <1>0, <1>3, <1>6, Recorded
  <2> DEFINE i == g + 1
  <2>2. i \in 1 .. Len(d) /\ d[i].name = inner
    BY <1>6
  <2> HIDE DEF i, d, inner
  <2>3. \A h, k : k \in 1 .. 4 =>
          FuncLeft(Charged(d, i, rw, size), 1, 1, h, k) =
            FuncLeft(d, 1, 1, h, k) + (IF h = d[i].name THEN Added(rw, size)[FieldOrder[k]] ELSE 0)
    BY <1>0, <1>3, <2>2, FuncLeftCharged
  <2> QED
    BY <2>1, <2>2, <2>3 DEF i
<1> HIDE DEF e, d, inner, g, o
<1>9. /\ add \in Stats /\ Counted(totals[t], rw, size) \in Stats
      /\ \A s \in Stats : Counted(s, rw, size) \in Stats
      /\ \A s \in Stats, n \in Fields : Counted(s, rw, size)[n] = s[n] + add[n]
  BY <1>0, <1>3, CountedAdds
<1> HIDE DEF add
<1>10. /\ functionData'[t] = e /\ totals'[t] = Counted(totals[t], rw, size)
       /\ \A s \in Threads \ {t} : functionData'[s] = functionData[s] /\ totals'[s] = totals[s]
  BY <1>7 DEF PinInv, Tables
<1>11. /\ made' \in [totals : Stats, funcs : [Funcs -> Stats]]
       /\ made'.totals = Counted(made.totals, rw, size)
       /\ \A h \in Funcs : made'.funcs[h] =
            IF h = inner THEN Counted(made.funcs[h], rw, size) ELSE made.funcs[h]
  <2>1. made \in [totals : Stats, funcs : [Funcs -> Stats]]
    BY <1>0 DEF TraceTypes
  <2> DEFINE c == Counted(made.totals, rw, size)
             fs == [made.funcs EXCEPT ![inner] = Counted(@, rw, size)]
  <2>2. c \in Stats
    BY <1>9, <2>1
  <2>3. fs \in [Funcs -> Stats] /\ \A h \in Funcs : fs[h] =
          IF h = inner THEN Counted(made.funcs[h], rw, size) ELSE made.funcs[h]
    BY <1>6, <1>9, <2>1
  <2>4. made' = [made EXCEPT !.totals = c, !.funcs = fs]
    BY <1>7, <2>1
  <2> HIDE DEF c, fs
  <2>5. made' = [totals |-> c, funcs |-> fs]
    BY <2>1, <2>4
  <2> QED
    BY <2>2, <2>3, <2>5 DEF c
<1>12. TraceTypes'
  BY <1>0, <1>1, <1>11 DEF TraceTypes
<1>13. Balance'
  <2>1. ASSUME NEW k \in 1 .. 4
        PROVE  /\ Parsed(trace_file').totals[FieldOrder[k]] + TL(t, k)' + made.totals[FieldOrder[k]]
                    = Parsed(trace_file).totals[FieldOrder[k]] + TL(t, k) + made'.totals[FieldOrder[k]]
               /\ \A f \in Funcs :
                    Parsed(trace_file').funcs[f][FieldOrder[k]] + FL(t, f, k)' + made.funcs[f][FieldOrder[k]]
                      = Parsed(trace_file).funcs[f][FieldOrder[k]] + FL(t, f, k) + made'.funcs[f][FieldOrder[k]]
    <3> DEFINE n == FieldOrder[k]
    <3>1. n \in Fields
      BY FieldNames
    <3>2. /\ made.totals \in Stats /\ \A f \in Funcs : made.funcs[f] \in Stats
          /\ Parsed(trace_file') = Parsed(trace_file) /\ Parsed(trace_file) \in Log
      BY <1>0, <1>1 DEF TraceTypes
    <3>3. /\ Parsed(trace_file).totals[n] \in Nat /\ \A f \in Funcs : Parsed(trace_file).funcs[f][n] \in Nat
      BY <3>2, LogAt
    <3>4. /\ TL(t, k) = totals[t][n] /\ TL(t, k)' = totals[t][n] + add[n]
      <4>1. TL(t, k) = totals[t][n] /\ TL(t, k)' = totals'[t][n]
        BY <1>1, <1>2 DEF TL, TotalLeft
      <4> QED
        BY <1>3, <1>9, <1>10, <3>1, <4>1
    <3>5. \A f : FL(t, f, k)' = FL(t, f, k) + (IF f = inner THEN add[n] ELSE 0)
      BY <1>1, <1>2, <1>8, <1>10 DEF FL, d
    <3>6. /\ add[n] \in Nat /\ totals[t][n] \in Nat /\ made.totals[n] \in Nat
          /\ \A f \in Funcs : made.funcs[f][n] \in Nat
      BY <1>3, <1>9, <3>1, <3>2 DEF Stats
    <3>7. /\ made'.totals[n] = made.totals[n] + add[n]
          /\ \A f \in Funcs : made'.funcs[f][n] = made.funcs[f][n] + (IF f = inner THEN add[n] ELSE 0)
      BY <1>9, <1>11, <3>1, <3>2, <3>6
    <3>8. \A f : FL(t, f, k) \in Nat
      BY <1>0, LeftType DEF LeftTyped
    <3> HIDE DEF n
    <3>9. Parsed(trace_file').totals[n] + TL(t, k)' + made.totals[n]
            = Parsed(trace_file).totals[n] + TL(t, k) + made'.totals[n]
      BY <3>2, <3>3, <3>4, <3>6, <3>7
    <3>10. ASSUME NEW f \in Funcs
           PROVE  Parsed(trace_file').funcs[f][n] + FL(t, f, k)' + made.funcs[f][n]
                    = Parsed(trace_file).funcs[f][n] + FL(t, f, k) + made'.funcs[f][n]
      BY <3>2, <3>3, <3>5, <3>6, <3>7, <3>8
    <3> QED
      BY <3>9, <3>10 DEF n
  <2> QED
    BY <1>0, <1>1, <1>10, <1>12, <2>1, BalanceStep
<1>14. ASSUME NEW s \in Threads PROVE Place(s)'
  <2>1. Len(functionData'[s]) = Len(functionData[s])
    BY <1>8, <1>10 DEF d
  <2>2. (AtTotals(s)' <=> AtTotals(s)) /\ (Printed(s)' <=> Printed(s))
    BY <1>1, <2>1 DEF AtTotals, Printed
  <2>3. Place(s)
    BY <1>0
  <2>4. CASE s = t
    BY <1>1, <1>2, <2>1, <2>2, <2>3, <2>4 DEF Place
  <2>5. CASE s # t
    BY <1>1, <1>10, <2>2, <2>3, <2>5 DEF Place
  <2> QED
    BY <2>4, <2>5
<1> QED
  BY <1>12, <1>13, <1>14 DEF LInv

LEMMA PrintLedger ==
  ASSUME PinInv, PinInv', LInv, NEW t \in Threads, PrintLine(t)
  PROVE  LInv'
<1> DEFINE d == functionData[t]
           it == item[t]
           ln == lineno[t]
           log == Parsed(trace_file)
<1>0. /\ TraceTypes /\ Balance /\ Place(t) /\ \A s \in Threads : Place(s)
  BY DEF LInv
<1>1. /\ UNCHANGED <<stage, holder, made, functionData, totals>>
      /\ stage[t] = "printing" /\ ~Printed(t) /\ holder = t
  BY <1>0 DEF PrintLine, tables, Place
<1>2. /\ d \in Seq(Record) /\ Len(d) \in Nat /\ totals[t] \in Stats
      /\ \A i, j \in 1 .. Len(d) : d[i].name = d[j].name => i = j
  BY TableAt
<1>3. /\ trace_file \in Seq(Line) /\ log \in Log /\ it \in 1 .. Len(d) + 1 /\ ln \in 1 .. 6
      /\ item \in [Threads -> Int] /\ lineno \in [Threads -> Int]
  BY <1>0 DEF TraceTypes, Place
<1>4. trace_file' = Append(trace_file, LineAt(t))
  BY DEF PrintLine
<1>5. /\ \A s \in Threads \ {t} : item'[s] = item[s] /\ lineno'[s] = lineno[s]
      /\ item' \in [Threads -> Int] /\ lineno' \in [Threads -> Int]
      /\ item'[t] = IF ~AtTotals(t) /\ ln = 6 THEN it + 1 ELSE it
      /\ lineno'[t] = IF ~AtTotals(t) /\ ln = 6 THEN 1 ELSE ln + 1
  <2>1. CASE ~AtTotals(t) /\ ln = 6
    <3>1. item' = [item EXCEPT ![t] = @ + 1] /\ lineno' = [lineno EXCEPT ![t] = 1]
      BY <2>1 DEF PrintLine
    <3> QED
      BY <1>3, <2>1, <3>1
  <2>2. CASE ~(~AtTotals(t) /\ ln = 6)
    <3>1. item' = item /\ lineno' = [lineno EXCEPT ![t] = @ + 1]
      BY <2>2 DEF PrintLine
    <3> QED
      BY <1>3, <2>2, <3>1
  <2> QED
    BY <2>1, <2>2
<1>6. LineAt(t) \in Line => trace_file' \in Seq(Line) /\ Parsed(trace_file') = ParseLine(log, LineAt(t))
  BY <1>3, <1>4, ParsedAppend
<1>7. ASSUME NEW s \in Threads, s # t PROVE Place(s)'
  <2>1. stage[s] # "printing"
    BY <1>0, <1>1, <1>7 DEF Place
  <2>2. (AtTotals(s)' <=> AtTotals(s)) /\ (Printed(s)' <=> Printed(s))
    BY <1>1, <1>5, <1>7 DEF AtTotals, Printed
  <2>3. item'[s] = item[s] /\ lineno'[s] = lineno[s] /\ Place(s)
    BY <1>0, <1>5, <1>7
  <2> QED
    BY <1>1, <2>1, <2>2, <2>3 DEF Place
<1>8. ASSUME LineAt(t) \in Line, Parsed(trace_file') \in Log, Place(t)',
             \A k \in 1 .. 4 :
               /\ Parsed(trace_file').totals[FieldOrder[k]] + TL(t, k)' = log.totals[FieldOrder[k]] + TL(t, k)
               /\ \A f \in Funcs : Parsed(trace_file').funcs[f][FieldOrder[k]] + FL(t, f, k)'
                                     = log.funcs[f][FieldOrder[k]] + FL(t, f, k)
      PROVE  LInv'
  <2>1. TraceTypes'
    BY SMTT(30), <1>0, <1>1, <1>5, <1>6, <1>8 DEF TraceTypes
  <2>2. Balance'
    <3>1. \A k \in 1 .. 4 :
           /\ Parsed(trace_file').totals[FieldOrder[k]] + TL(t, k)' + made.totals[FieldOrder[k]]
                = Parsed(trace_file).totals[FieldOrder[k]] + TL(t, k) + made'.totals[FieldOrder[k]]
           /\ \A f \in Funcs :
                Parsed(trace_file').funcs[f][FieldOrder[k]] + FL(t, f, k)' + made.funcs[f][FieldOrder[k]]
                  = Parsed(trace_file).funcs[f][FieldOrder[k]] + FL(t, f, k) + made'.funcs[f][FieldOrder[k]]
      BY <1>1, <1>8
    <3> QED
      BY <1>0, <1>1, <1>5, <2>1, <3>1, BalanceStep
  <2> QED
    BY <1>7, <1>8, <2>1, <2>2 DEF LInv
<1>9. CASE AtTotals(t)
  <2>1. it = Len(d) + 1 /\ ln \in 1 .. 4 /\ item'[t] = it /\ lineno'[t] = ln + 1
    <3>1. ln \in 1 .. 5 /\ ln # 5
      BY <1>0, <1>1, <1>9 DEF Place, Printed
    <3> QED
      BY <1>3, <1>5, <1>9, <3>1 DEF AtTotals
  <2> DEFINE n == FieldOrder[ln]
             v == totals[t][n]
  <2>2. LineAt(t) = [type |-> "Total", field |-> n, value |-> v]
    BY <1>9 DEF LineAt
  <2>3. n \in Fields /\ v \in Nat /\ \A k \in 1 .. 4 : FieldOrder[k] = n <=> k = ln
    BY <1>2, <2>1, FieldNames DEF Stats
  <2>4. LineAt(t) \in Line
    BY <2>2, <2>3 DEF Line
  <2>5. /\ Parsed(trace_file') \in Log /\ Parsed(trace_file').funcs = log.funcs
        /\ \A m \in Fields : Parsed(trace_file').totals[m] = log.totals[m] + (IF m = n THEN v ELSE 0)
    <3> HIDE DEF n, v, log
    <3> QED
      BY <1>3, <1>6, <2>2, <2>3, <2>4, ParseTotal
  <2>6. Place(t)'
    <3>1. AtTotals(t)'
      BY <1>1, <2>1 DEF AtTotals
    <3> QED
      BY <1>1, <2>1, <3>1 DEF Place
  <2>7. ASSUME NEW k \in 1 .. 4
        PROVE  /\ Parsed(trace_file').totals[FieldOrder[k]] + TL(t, k)' = log.totals[FieldOrder[k]] + TL(t, k)
               /\ \A f \in Funcs : Parsed(trace_file').funcs[f][FieldOrder[k]] + FL(t, f, k)'
                                     = log.funcs[f][FieldOrder[k]] + FL(t, f, k)
    <3>1. /\ TL(t, k) = IF k < ln THEN 0 ELSE totals[t][FieldOrder[k]]
          /\ TL(t, k)' = IF k < ln + 1 THEN 0 ELSE totals[t][FieldOrder[k]]
      BY <1>1, <2>1 DEF TL, TotalLeft
    <3>2. totals[t][FieldOrder[k]] \in Nat /\ log.totals[FieldOrder[k]] \in Nat /\ FieldOrder[k] \in Fields
      BY <1>2, <1>3, LogAt, FieldNames DEF Stats
    <3>3. Parsed(trace_file').totals[FieldOrder[k]] = log.totals[FieldOrder[k]] + (IF k = ln THEN v ELSE 0)
      BY <2>3, <2>5, <3>2
    <3>4. Parsed(trace_file').totals[FieldOrder[k]] + TL(t, k)' = log.totals[FieldOrder[k]] + TL(t, k)
      <4>1. CASE k = ln
        BY <2>1, <3>1, <3>2, <3>3, <4>1
      <4>2. CASE k # ln
        <5>1. k < ln + 1 <=> k < ln
          BY <2>1, <4>2
        <5> QED
          BY <3>1, <3>2, <3>3, <4>2, <5>1
      <4> QED
        BY <4>1, <4>2
    <3>5. ASSUME NEW f \in Funcs PROVE FL(t, f, k)' = FL(t, f, k)
      <4>1. it \in Int /\ ln \in Int /\ ln + 1 \in Int
        BY <1>3
      <4>2. \A i \in 1 .. Len(d) : Shown(it, ln + 1, i, k) = Shown(it, ln, i, k)
        BY <1>2, <2>1 DEF Shown
      <4>3. FuncLeft(d, it, ln + 1, f, k) = FuncLeft(d, it, ln, f, k)
        <5> HIDE DEF d, it, ln
        <5> QED
          BY <1>2, <4>1, <4>2, FuncLeftSame
      <4> QED
        BY <1>1, <2>1, <4>3 DEF FL
    <3> QED
      BY <2>5, <3>4, <3>5
  <2> QED
    BY <1>8, <2>4, <2>5, <2>6, <2>7
<1>10. CASE ~AtTotals(t)
  <2> DEFINE name == d[it].name
             it2 == item'[t]
             ln2 == lineno'[t]
             Val(k) == d[it].stats[FieldOrder[k]]
  <2>1. /\ it \in 1 .. Len(d) /\ it2 \in Int /\ ln2 \in Int /\ ln \in 1 .. 6
        /\ it2 = IF ln = 6 THEN it + 1 ELSE it
        /\ ln2 = IF ln = 6 THEN 1 ELSE ln + 1
    BY <1>2, <1>3, <1>5, <1>10 DEF AtTotals
  <2>2. d[it] \in Record /\ name \in Funcs /\ \A k \in 1 .. 4 : Val(k) \in Nat
    <3>1. d[it] \in Record
      BY <1>2, <2>1
    <3> QED
      BY <3>1, FieldNames DEF Record, Stats
  <2>3. \A k \in 1 .. 4 : TL(t, k)' = TL(t, k)
    <3>1. it # Len(d) + 1 /\ (it2 = Len(d) + 1 => ln2 = 1)
      BY <1>2, <2>1
    <3>2. \A k \in 1 .. 4 : /\ TotalLeft(d, it, ln, totals[t], k) = totals[t][FieldOrder[k]]
                            /\ TotalLeft(d, it2, ln2, totals[t], k) = totals[t][FieldOrder[k]]
      BY <3>1 DEF TotalLeft
    <3> QED
      BY <1>1, <3>2 DEF TL
  <2>4. \A k \in 1 .. 4, f \in Funcs :
          FL(t, f, k) = FL(t, f, k)' + (IF f = name /\ k = ln - 2 THEN Val(k) ELSE 0)
    <3>1. \A k \in 1 .. 4, f \in Funcs :
            FuncLeft(d, it, ln, f, k) =
              FuncLeft(d, it2, ln2, f, k) + (IF f = name /\ k = ln - 2 THEN Val(k) ELSE 0)
      <4> HIDE DEF d, it, ln, it2, ln2
      <4> QED
        BY <1>2, <2>1, FuncLeftPrinted
    <3> QED
      BY <1>1, <3>1 DEF FL
  <2>5. \A k \in 1 .. 4 : TL(t, k) \in Nat /\ \A f : FL(t, f, k) \in Nat /\ FL(t, f, k)' \in Nat
    <3>1. \A k \in 1 .. 4 : TL(t, k) \in Nat /\ \A f : FL(t, f, k) \in Nat
      BY <1>0, LeftType DEF LeftTyped
    <3>2. \A k \in 1 .. 4 : \A f : FuncLeft(d, it2, ln2, f, k) \in Nat
      <4> HIDE DEF d, it2, ln2
      <4> QED
        BY <1>2, <2>1, LeftNat
    <3> QED
      BY <1>1, <3>1, <3>2 DEF FL
  <2>6. /\ \A k \in 1 .. 4 : log.totals[FieldOrder[k]] \in Nat
        /\ \A k \in 1 .. 4, f \in Funcs : log.funcs[f][FieldOrder[k]] \in Nat
    BY <1>3, LogAt
  <2>7. it2 \in 1 .. Len(d) + 1 /\ ln2 \in 1 .. 6 /\ (it2 = Len(d) + 1 => ln2 = 1)
    BY <1>2, <2>1
  <2>8. ASSUME ln2 >= 3 => Parsed(trace_file').func = name PROVE Place(t)'
    <3>1. AtTotals(t)' <=> it2 = Len(d) + 1
      BY <1>1 DEF AtTotals
    <3>2. ln2 >= 3 => it2 = it
      BY <2>1
    <3> QED
      BY <1>1, <2>7, <2>8, <3>1, <3>2 DEF Place
  <2>9. CASE ln \in 1 .. 2
    <3>1. /\ LineAt(t) \in Line /\ Parsed(trace_file') \in Log
          /\ Parsed(trace_file').totals = log.totals /\ Parsed(trace_file').funcs = log.funcs
          /\ ln = 2 => Parsed(trace_file').func = name
      <4>1. CASE ln = 1
        <5>1. LineAt(t) = [type |-> "Thread", value |-> t]
          BY <1>10, <4>1 DEF LineAt
        <5>2. LineAt(t) \in Line
          BY <5>1 DEF Line
        <5> HIDE DEF log, ln, name
        <5>3. LET a == ParseLine(log, [type |-> "Thread", value |-> t])
              IN  a \in Log /\ a.totals = log.totals /\ a.funcs = log.funcs
          BY <1>3, <2>2, ParseBlock
        <5>4. Parsed(trace_file') = ParseLine(log, [type |-> "Thread", value |-> t])
          BY <1>6, <5>1, <5>2
        <5> QED
          BY <4>1, <5>2, <5>3, <5>4
      <4>2. CASE ln = 2
        <5>1. LineAt(t) = [type |-> "Function", func |-> name]
          BY <1>10, <4>2 DEF LineAt
        <5>2. LineAt(t) \in Line
          BY <2>2, <5>1 DEF Line
        <5> HIDE DEF log, ln, name
        <5>3. LET a == ParseLine(log, [type |-> "Function", func |-> name])
              IN  a \in Log /\ a.totals = log.totals /\ a.funcs = log.funcs /\ a.func = name
          BY <1>3, <2>2, ParseBlock
        <5>4. Parsed(trace_file') = ParseLine(log, [type |-> "Function", func |-> name])
          BY <1>6, <5>1, <5>2
        <5> QED
          BY <4>2, <5>2, <5>3, <5>4
      <4> QED
        BY <2>9, <4>1, <4>2
    <3>2. ln2 >= 3 => Parsed(trace_file').func = name
      BY <2>1, <2>9, <3>1
    <3>3. \A k \in 1 .. 4, f \in Funcs : FL(t, f, k)' = FL(t, f, k)
      <4>1. \A k \in 1 .. 4 : k # ln - 2
        BY <2>9
      <4> QED
        BY <2>4, <2>5, <4>1
    <3> HIDE DEF d, it, ln, log, name, it2, ln2
    <3> QED
      BY <1>8, <2>3, <2>8, <3>1, <3>2, <3>3
  <2>10. CASE ln \in 3 .. 6
    <3> DEFINE m == ln - 2
               n == FieldOrder[m]
               v == Val(m)
    <3>1. log.func = name
      BY <1>0, <1>1, <1>10, <2>10 DEF Place
    <3>2. LineAt(t) = [type |-> "Data", func |-> name, field |-> n, value |-> v]
      BY <1>10, <2>10 DEF LineAt
    <3>3. m \in 1 .. 4 /\ n \in Fields /\ v \in Nat /\ \A k \in 1 .. 4 : FieldOrder[k] = n <=> k = m
      <4>1. m \in 1 .. 4
        BY SMTT(30), <2>10
      <4> HIDE DEF m
      <4> QED
        BY <2>2, <4>1, FieldNames
    <3>4. LineAt(t) \in Line
      BY <2>2, <3>2, <3>3 DEF Line
    <3> HIDE DEF Val, n, v, d, it, ln, log, name, it2, ln2
    <3>5. /\ Parsed(trace_file') \in Log /\ Parsed(trace_file').func = name /\ Parsed(trace_file').totals = log.totals
          /\ \A g \in Funcs, j \in Fields :
               Parsed(trace_file').funcs[g][j] = log.funcs[g][j] + (IF g = name /\ j = n THEN v ELSE 0)
      <4>1. Parsed(trace_file') = ParseLine(log, [type |-> "Data", func |-> name, field |-> n, value |-> v])
        BY <1>6, <3>2, <3>4
      <4>2. LET a == ParseLine(log, [type |-> "Data", func |-> name, field |-> n, value |-> v])
            IN  /\ a \in Log /\ a.func = log.func /\ a.totals = log.totals
                /\ \A g \in Funcs, j \in Fields :
                     a.funcs[g][j] = log.funcs[g][j] + (IF g = name /\ j = n THEN v ELSE 0)
        <5>1. log \in Log /\ name \in Funcs /\ n \in Fields /\ v \in Nat
          BY <1>3, <2>2, <3>3
        <5> QED
          BY ONLY <3>1, <5>1, ParseData
      <4> QED
        BY <3>1, <4>1, <4>2
    <3>6. ASSUME NEW k \in 1 .. 4, NEW f \in Funcs
          PROVE  Parsed(trace_file').funcs[f][FieldOrder[k]] + FL(t, f, k)'
                   = log.funcs[f][FieldOrder[k]] + FL(t, f, k)
      <4>1. FieldOrder[k] \in Fields
        BY FieldNames
      <4>2. Parsed(trace_file').funcs[f][FieldOrder[k]]
              = log.funcs[f][FieldOrder[k]] + (IF f = name /\ k = m THEN v ELSE 0)
        BY <3>3, <3>5, <4>1
      <4>3. FL(t, f, k) = FL(t, f, k)' + (IF f = name /\ k = m THEN v ELSE 0)
        BY <2>4 DEF v
      <4>4. log.funcs[f][FieldOrder[k]] \in Nat /\ FL(t, f, k)' \in Nat
        BY <2>5, <2>6
      <4> QED
        BY <3>3, <4>2, <4>3, <4>4
    <3> QED
      BY <1>8, <2>3, <2>8, <3>4, <3>5, <3>6
  <2> QED
    <3>1. ln \in 1 .. 2 \/ ln \in 3 .. 6
      BY <2>1
    <3> QED
      BY <2>9, <2>10, <3>1
<1> QED
  BY <1>9, <1>10

LEMMA InitLedger == PinInit => LInv
<1> SUFFICES ASSUME PinInit PROVE LInv
  OBVIOUS
<1>1. Empty \in Stats /\ Parsed(<<>>) = EmptyLog
  <2>1. <<>> \in Seq({1}) /\ 1 \in {1}
    OBVIOUS
  <2>2. Parsed(<<>>) = EmptyLog
    BY <2>1, ParsedAppend
  <2> QED
    BY <2>2 DEF Empty, Stats
<1>2. trace_file = <<>> /\ Parsed(trace_file) = EmptyLog /\ made = NothingMade
  BY <1>1 DEF PinInit
<1>3. EmptyLog \in Log /\ NothingMade \in [totals : Stats, funcs : [Funcs -> Stats]]
  BY <1>1 DEF EmptyLog, NothingMade, Log
<1>4. TraceTypes
  BY <1>2, <1>3 DEF TraceTypes, PinInit
<1>5. ASSUME NEW t \in Threads PROVE Place(t)
  BY DEF PinInit, Place, AtTotals
<1>6. \A t \in Threads, k \in 1 .. 4 : TL(t, k) = 0 /\ \A f : FL(t, f, k) = 0
  <2>1. \A t \in Threads : functionData[t] = <<>> /\ item[t] = 1 /\ lineno[t] = 1 /\ totals[t] = Empty
    BY DEF PinInit
  <2>2. \A k \in 1 .. 4 : Empty[FieldOrder[k]] = 0
    BY FieldNames DEF Empty
  <2>3. \A f : \A k : FuncLeft(<<>>, 1, 1, f, k) = 0
    BY DEF FuncLeft
  <2>4. \A k \in 1 .. 4 : TotalLeft(<<>>, 1, 1, Empty, k) = 0
    BY <2>2 DEF TotalLeft
  <2> QED
    BY <2>1, <2>3, <2>4 DEF TL, FL
<1>7. Balance
  <2> SUFFICES ASSUME NEW k \in 1 .. 4
               PROVE  /\ EmptyLog.totals[FieldOrder[k]] + Sum([t \in Threads |-> TL(t, k)])
                           = NothingMade.totals[FieldOrder[k]]
                      /\ \A f \in Funcs :
                           EmptyLog.funcs[f][FieldOrder[k]] + Sum([t \in Threads |-> FL(t, f, k)])
                             = NothingMade.funcs[f][FieldOrder[k]]
    BY <1>2 DEF Balance
  <2>1. Sum([t \in Threads |-> TL(t, k)]) = 0 /\ \A f : Sum([t \in Threads |-> FL(t, f, k)]) = 0
    <3>1. ASSUME NEW F \in [Threads -> Nat], \A t \in Threads : F[t] = 0 PROVE Sum(F) = 0
      BY <3>1, SumZero
    <3>2. /\ [t \in Threads |-> TL(t, k)] \in [Threads -> Nat]
         /\ \A f : [t \in Threads |-> FL(t, f, k)] \in [Threads -> Nat]
      BY <1>6
    <3> QED
      BY <1>6, <3>1, <3>2
  <2>2. Empty[FieldOrder[k]] = 0
    BY FieldNames DEF Empty
  <2> QED
    BY <2>1, <2>2 DEF EmptyLog, NothingMade
<1> QED
  BY <1>4, <1>5, <1>7 DEF LInv

LEMMA NextLedger == PinInv /\ PinInv' /\ LInv /\ [PinNext]_pinVars => LInv'
<1> SUFFICES ASSUME PinInv, PinInv', LInv, [PinNext]_pinVars PROVE LInv'
  OBVIOUS
<1>1. CASE UNCHANGED pinVars
  BY <1>1, Quiet DEF pinVars, LInv, Place, AtTotals, Printed
<1>2. CASE PinNext
  BY <1>2, QuietLedger, StartLedger, RecordLedger, PrintLedger DEF PinNext
<1> QED
  BY <1>1, <1>2

\* ThreadFini and parse_pin_log: the report shows exactly what was accessed in each
\* function and in total, for any number of threads whose blocks follow each other
\* in any order.
THEOREM LogIsExact == PinSpec => []LogExact
<1>1. ASSUME PinInv, LInv, \A t \in Threads : stage[t] = "ended"
      PROVE  parse_pin_log.totals = made.totals /\ parse_pin_log.funcs = made.funcs
  <2>0. TraceTypes /\ Balance /\ \A t \in Threads : Place(t)
    BY <1>1 DEF LInv
  <2>1. ASSUME NEW t \in Threads, NEW k \in 1 .. 4
        PROVE  TL(t, k) = 0 /\ \A f : FL(t, f, k) = 0
    <3>1. item[t] = Len(functionData[t]) + 1 /\ lineno[t] = 5 /\ functionData[t] \in Seq(Record)
      BY <1>1, <2>0, TableAt DEF Place, Printed, AtTotals
    <3>2. TL(t, k) = 0
      BY <3>1 DEF TL, TotalLeft
    <3>3. \A i \in 1 .. Len(functionData[t]) : Shown(item[t], lineno[t], i, k)
      BY <3>1 DEF Shown
    <3>4. \A f : FL(t, f, k) = 0
      BY <3>3 DEF FL, FuncLeft
    <3> QED
      BY <3>2, <3>4
  <2>2. ASSUME NEW k \in 1 .. 4
        PROVE  Sum([t \in Threads |-> TL(t, k)]) = 0 /\ \A f : Sum([t \in Threads |-> FL(t, f, k)]) = 0
    <3>1. ASSUME NEW F \in [Threads -> Nat], \A t \in Threads : F[t] = 0 PROVE Sum(F) = 0
      BY <3>1, SumZero
    <3>2. /\ [t \in Threads |-> TL(t, k)] \in [Threads -> Nat]
         /\ \A f : [t \in Threads |-> FL(t, f, k)] \in [Threads -> Nat]
      BY <2>1
    <3> QED
      BY <2>1, <3>1, <3>2
  <2> DEFINE log == Parsed(trace_file)
  <2>3. log \in Log /\ made \in [totals : Stats, funcs : [Funcs -> Stats]]
    BY <2>0 DEF TraceTypes
  <2>4. \A k \in 1 .. 4 : /\ log.totals[FieldOrder[k]] + 0 = made.totals[FieldOrder[k]]
                          /\ \A f \in Funcs : log.funcs[f][FieldOrder[k]] + 0 = made.funcs[f][FieldOrder[k]]
    BY <2>0, <2>2 DEF Balance
  <2> HIDE DEF log
  <2>5. \A n \in Fields : log.totals[n] = made.totals[n] /\ \A f \in Funcs : log.funcs[f][n] = made.funcs[f][n]
    <3> SUFFICES ASSUME NEW n \in Fields
                 PROVE  log.totals[n] = made.totals[n] /\ \A f \in Funcs : log.funcs[f][n] = made.funcs[f][n]
      OBVIOUS
    <3>1. PICK k \in 1 .. 4 : n = FieldOrder[k]
      BY FieldNames
    <3>2. log.totals[n] \in Nat /\ \A f \in Funcs : log.funcs[f][n] \in Nat
      BY <2>3, <3>1, LogAt
    <3> QED
      BY <2>4, <3>1, <3>2
  <2>6. log.totals = made.totals
    BY <2>3, <2>5 DEF Log, Stats
  <2>7. log.funcs = made.funcs
    <3>1. \A f \in Funcs : log.funcs[f] = made.funcs[f]
      BY <2>3, <2>5 DEF Log, Stats
    <3> QED
      BY <2>3, <3>1 DEF Log
  <2>8. parse_pin_log = Parsed(trace_file)
    BY DEF parse_pin_log, Parsed
  <2> QED
    BY <2>6, <2>7, <2>8 DEF log
<1>2. PinInv /\ LInv => LogExact
  BY <1>1 DEF LogExact
<1> QED
  BY <1>2, PinInitInv, PinNextInv, InitLedger, NextLedger, PTL DEF PinSpec
=============================================================================
