------------------------------ MODULE SpecRun ------------------------------
(***************************************************************************)
(* Measuring the SPEC workloads (run-spec.sh, run-spec-pin.sh and the list *)
(* of commands from spec/spec-cmds.sh) and what the report then shows      *)
(* (last_rows and spec_rows of compare-zray-pin.py).                       *)
(*                                                                         *)
(* A measurement is a function that says how often each command of the     *)
(* workload went into it.  The tools append to the log of the run          *)
(* directory; when all commands are through, a row with its sums goes to   *)
(* the CSV file of the script.  The report prefers the log to the row.     *)
(*                                                                         *)
(* Abort is a kill of the script and all it has started, and also every    *)
(* step that fails under set -e.  The generated command script does not    *)
(* set it: a command that fails is passed over, and the status is that of  *)
(* its last line.                                                          *)
(***************************************************************************)
EXTENDS SpecBuild, SequencesExt

CONSTANT MaxRuns  \* bound: how often a script is started

VARIABLES
  runs,           \* scripts started so far
  kind, subset,   \* the script that runs, and whether it was given workloads
  left, current,  \* the workloads still to measure, and the one being measured
  cmd,            \* the next command of its list
  trace,          \* roitrace-mt.csv: the command it is of, 0 if there is none
  csv             \* per script: its rows, oldest first

position == <<kind, subset, left, current, cmd, trace>>
vars == <<buildVars, runs, position, csv>>

None == "none"

Nowhere == /\ kind' = None /\ subset' = FALSE /\ left' = {}
           /\ current' = None /\ cmd' = 0 /\ trace' = 0

Init == /\ BuildInit
        /\ runs = 0
        /\ kind = None /\ subset = FALSE /\ left = {}
        /\ current = None /\ cmd = 0 /\ trace = 0
        /\ csv = [k \in Kinds |-> <<>>]

\* Between scripts, setup.sh --with-pin may add the Pintool.
InstallPin == /\ pc = "idle" /\ ~pin
              /\ pin' = TRUE
              /\ UNCHANGED <<builds, bd, rd, pc, request, force, todo, job, copied, faults, runs, position, csv>>

Start(k, ws, s, f) ==
  /\ pc = "idle" /\ runs < MaxRuns
  /\ k = "pin" => pin
  /\ s \/ ws = Workloads
  /\ pc' = "check" /\ request' = ws /\ force' = f
  /\ kind' = k /\ subset' = s
  /\ runs' = runs + 1
  /\ UNCHANGED <<pin, builds, bd, rd, todo, job, copied, faults, left, current, cmd, trace, csv>>

\* Mutant of Header: the summary is begun anew whatever was asked for.
HeaderResets ==
  /\ pc = "header"
  /\ csv' = [csv EXCEPT ![kind] = <<>>]
  /\ left' = request
  /\ pc' = "loop"
  /\ UNCHANGED <<pin, builds, bd, rd, request, force, todo, job, copied, faults, runs, kind, subset, current,
                 cmd, trace>>

Header ==
  /\ pc = "header"
  /\ csv' = [csv EXCEPT ![kind] = IF subset THEN @ ELSE <<>>]
  /\ left' = request
  /\ pc' = "loop"
  /\ UNCHANGED <<pin, builds, bd, rd, request, force, todo, job, copied, faults, runs, kind, subset, current,
                 cmd, trace>>

\* Mutant of Begin: the old log is not removed, and the tool appends to it.
BeginKeepsLog(w) ==
  /\ pc = "loop" /\ w \in left
  /\ bd[w].marker /\ rd[w].cmds # 0
  /\ rd[w].files[IF kind = "zray" THEN "baseline" ELSE "pin"] # 0
  /\ current' = w /\ cmd' = 1 /\ trace' = 0
  /\ pc' = "commands"
  /\ UNCHANGED <<pin, builds, bd, rd, request, force, todo, job, copied, faults, runs, kind, subset, left, csv>>

\* The warm-up and control runs, and the removal of the old log.  The list of
\* commands comes from the run directory; without a binary all of them fail, and
\* with the last the script (Abort).  One that is cut short may run or fail.
Begin(w) ==
  /\ pc = "loop" /\ w \in left
  /\ bd[w].marker /\ rd[w].cmds # 0
  /\ rd[w].files[IF kind = "zray" THEN "baseline" ELSE "pin"] # 0
  /\ rd' = [rd EXCEPT ![w].log[kind] = NoLog]
  /\ current' = w /\ cmd' = 1 /\ trace' = 0
  /\ pc' = "commands"
  /\ UNCHANGED <<pin, builds, bd, request, force, todo, job, copied, faults, runs, kind, subset, left, csv>>

\* A command runs to its end.  Pin opens its trace anew, and the trace is added to
\* the log in the line after the command.
Command ==
  /\ pc = "commands" /\ cmd \in Commands
  /\ rd[current].files[kind] # 0
  /\ rd' = [rd EXCEPT ![current].log[kind][cmd] = @ + 1]
  /\ trace' = IF kind = "pin" THEN cmd ELSE 0
  /\ cmd' = cmd + 1
  /\ UNCHANGED <<pin, builds, bd, pc, request, force, todo, job, copied, faults, runs, kind, subset, left,
                 current, csv>>

\* A command fails before its tool opens a file.  The line after it adds whatever
\* trace is there, and makes the status 0; without it, a failure of the last
\* command is the status of the script (Abort).
CommandFails ==
  /\ pc = "commands" /\ cmd \in Commands
  /\ Fault
  /\ kind = "zray" => cmd < NumCommands
  /\ rd' = IF trace = 0 THEN rd ELSE [rd EXCEPT ![current].log[kind][trace] = @ + 1]
  /\ cmd' = cmd + 1
  /\ UNCHANGED <<pin, builds, bd, pc, request, force, todo, job, copied, runs, kind, subset, left,
                 current, trace, csv>>

\* No row for an empty log.
AppendRow ==
  /\ pc = "commands" /\ cmd > NumCommands
  /\ csv' = IF rd[current].log[kind] = NoLog THEN csv
            ELSE [csv EXCEPT ![kind] = Append(@, [name |-> current, sums |-> rd[current].log[kind]])]
  /\ left' = left \ {current}
  /\ current' = None /\ cmd' = 0 /\ trace' = 0
  /\ pc' = "loop"
  /\ UNCHANGED <<pin, builds, bd, rd, request, force, todo, job, copied, faults, runs, kind, subset>>

Finish ==
  /\ pc = "loop" /\ left = {}
  /\ Idle /\ Nowhere
  /\ UNCHANGED <<pin, builds, bd, rd, faults, runs, csv>>

Abort ==
  /\ pc # "idle"
  /\ Fault
  /\ Idle /\ Nowhere
  /\ UNCHANGED <<pin, builds, bd, rd, runs, csv>>

Build == BuildNext /\ IF pc' = "idle" THEN Nowhere /\ UNCHANGED <<runs, csv>>
                                      ELSE UNCHANGED <<runs, position, csv>>

Next == \/ InstallPin
        \/ \E k \in Kinds, ws \in (SUBSET Workloads) \ {{}}, s, f \in BOOLEAN : Start(k, ws, s, f)
        \/ Build
        \/ Header
        \/ \E w \in Workloads : Begin(w)
        \/ Command \/ CommandFails
        \/ AppendRow \/ Finish \/ Abort

Spec == Init /\ [][Next]_vars

-----------------------------------------------------------------------------
(* The report.                                                             *)

\* The rows of a workload, by their positions.
RowsFor(k, w) == {i \in DOMAIN csv[k] : csv[k][i].name = w}

\* last_rows: a later row supersedes an earlier one.
last_row(k, w) == IF RowsFor(k, w) = {} THEN NoLog ELSE csv[k][Max(RowsFor(k, w))].sums

\* A log that is missing, or that holds nothing, falls back to the row.
Figures(k, w) ==
  IF rd[w].log[k] # NoLog THEN rd[w].log[k] ELSE last_row(k, w)

\* A workload without a row of run-spec.sh is not shown.
spec_rows(w) == IF RowsFor("zray", w) = {} THEN [k \in Kinds |-> NoLog]
                ELSE [k \in Kinds |-> Figures(k, w)]

-----------------------------------------------------------------------------
(* Properties.                                                             *)

\* README.md, "Re-running experiments": a script that is given workloads changes
\* nothing of what the report shows for the others, whether it rebuilds, fails or
\* is killed.
OthersKept ==
  [][pc # "idle" /\ subset =>
       \A w \in Workloads \ request : spec_rows(w)' = spec_rows(w)]_vars

(***************************************************************************)
(* What the comment in run-spec-pin.sh says of the accumulated trace: the  *)
(* total of a row covers every command of the workload, each of them once. *)
(* It holds as long as nothing fails, whatever other scripts left in the   *)
(* directory; and a log of ZRay never has a command twice.                 *)
(***************************************************************************)
RowsComplete ==
  \A k \in Kinds : \A i \in DOMAIN csv[k], c \in Commands :
    LET times == csv[k][i].sums[c]
    IN  (faults = 0 => times = 1) /\ (k = "zray" => times <= 1)
=============================================================================
