------------------------------ MODULE PinTool ------------------------------
(***************************************************************************)
(* The Pin tool that counts a program's memory accesses in its regions of  *)
(* interest (pintool/roitrace-mt.cpp), and what the report reads from its  *)
(* trace (parse_pin_log in compare-zray-pin.py).                           *)
(*                                                                         *)
(* The program calls custom_roi_begin(f) and custom_roi_end(f) around a    *)
(* region, and regions may be nested; the tool gets a callback for either, *)
(* for each access, and for the start and the end of a thread.  The tables *)
(* are per thread; only the trace file is shared, under pinLock.           *)
(*                                                                         *)
(* The tool keeps no stack: a function's record remembers in oldFuncID     *)
(* which function was charged before it.  A function that is entered again *)
(* while it is open overwrites that ("recursive calls and nested ROIs may  *)
(* be a problem"), so that the programs here do not recurse.               *)
(***************************************************************************)
EXTENDS Integers, Sequences, FiniteSets

CONSTANTS
  Threads,   \* the program's threads
  Funcs,     \* the functions marked as regions
  Sizes,     \* sizes of accesses in bytes
  MaxEvents  \* bound: accesses and regions entered by one thread

ASSUME SizesAssumption == Sizes \subseteq Nat
ASSUME FiniteAssumption == IsFiniteSet(Threads)
ASSUME NamesAssumption == "none" \notin Threads

AccessKinds == {"Reads", "Writes"}
Field(kind) == IF kind = "Reads" THEN "Read Bytes" ELSE "Write Bytes"

\* The counters of a thread and of a function, in the order they are printed.
FieldOrder == <<"Reads", "Read Bytes", "Writes", "Write Bytes">>
Fields == {FieldOrder[k] : k \in 1 .. 4}
Empty == [n \in Fields |-> 0]
NothingMade == [totals |-> Empty, funcs |-> [f \in Funcs |-> Empty]]

VARIABLES
  stage,         \* per thread: "unborn", "running", "printing", "ended"
  open,          \* the regions the program has open, innermost last
  isROI, globalFuncID, functionData,  \* the tool's tables, per thread
  totals,        \* the tool's counters, per thread
  made,          \* what the program's accesses in regions amount to
  events,        \* how many accesses and regions so far, per thread
  holder,        \* who holds pinLock, or "none"
  trace_file,         \* the trace file
  item, lineno     \* the record and the line of it each thread prints next

tables == <<isROI, globalFuncID, functionData, totals>>
output == <<holder, trace_file, item, lineno>>
pinVars == <<stage, open, isROI, globalFuncID, functionData, totals, made, events,
          holder, trace_file, item, lineno>>

PinInit ==
  /\ stage = [t \in Threads |-> "unborn"]
  /\ open = [t \in Threads |-> <<>>]
  /\ isROI = [t \in Threads |-> 0]
  /\ globalFuncID = [t \in Threads |-> -1]
  /\ functionData = [t \in Threads |-> <<>>]
  /\ totals = [t \in Threads |-> Empty]
  /\ made = NothingMade
  /\ events = [t \in Threads |-> 0]
  /\ holder = "none"
  /\ trace_file = <<>>
  /\ item = [t \in Threads |-> 1]
  /\ lineno = [t \in Threads |-> 1]

-----------------------------------------------------------------------------
\* The lock is held for nothing but this.
ThreadStart(t) ==
  /\ stage[t] = "unborn" /\ holder = "none"
  /\ stage' = [stage EXCEPT ![t] = "running"]
  /\ isROI' = [isROI EXCEPT ![t] = 0]
  /\ totals' = [totals EXCEPT ![t] = Empty]
  /\ UNCHANGED <<open, globalFuncID, functionData, made, events, output>>

Event(t) == /\ stage[t] = "running"
            /\ events[t] < MaxEvents
            /\ events' = [events EXCEPT ![t] = @ + 1]

FuncStats(f) == [name |-> f, stats |-> Empty, oldFuncID |-> -1]

\* Positions in functionData start at 0 in the code: id i is element i + 1.
StartROI(t, f) ==
  LET known == {i \in DOMAIN functionData[t] : functionData[t][i].name = f}
  IN  /\ Event(t)
      /\ \A k \in DOMAIN open[t] : open[t][k] # f
      /\ open' = [open EXCEPT ![t] = Append(@, f)]
      /\ isROI' = [isROI EXCEPT ![t] = @ + 1]
      /\ IF known # {}
         THEN \E i \in known :
                /\ globalFuncID' = [globalFuncID EXCEPT ![t] = i - 1]
                /\ functionData' = [functionData EXCEPT ![t][i].oldFuncID =
                     IF isROI'[t] > 0 THEN globalFuncID[t] ELSE @]
         ELSE /\ globalFuncID' = [globalFuncID EXCEPT ![t] = Len(functionData[t])]
              /\ functionData' = [functionData EXCEPT ![t] =
                   Append(@, [FuncStats(f) EXCEPT !.oldFuncID = globalFuncID[t]])]
      /\ UNCHANGED <<stage, totals, made, output>>

\* Mutant of StopROI: the end of a region always ends the charging.
StopROIClears(t) ==
  /\ stage[t] = "running" /\ open[t] # <<>>
  /\ open' = [open EXCEPT ![t] = SubSeq(@, 1, Len(@) - 1)]
  /\ isROI' = [isROI EXCEPT ![t] = @ - 1]
  /\ globalFuncID' = [globalFuncID EXCEPT ![t] = -1]
  /\ UNCHANGED <<stage, functionData, totals, made, events, output>>

\* The program closes the innermost region it has open.
StopROI(t) ==
  /\ stage[t] = "running" /\ open[t] # <<>>
  /\ open' = [open EXCEPT ![t] = SubSeq(@, 1, Len(@) - 1)]
  /\ isROI' = [isROI EXCEPT ![t] = @ - 1]
  /\ \E i \in DOMAIN functionData[t] :
       /\ functionData[t][i].name = open[t][Len(open[t])]
       /\ globalFuncID' = [globalFuncID EXCEPT ![t] = functionData[t][i].oldFuncID]
  /\ UNCHANGED <<stage, functionData, totals, made, events, output>>

Counted(stats, kind, size) == [stats EXCEPT ![kind] = @ + 1, ![Field(kind)] = @ + size]

\* An access outside every region is not recorded and bounds nothing.
RecordMem(t, kind, size) ==
  /\ Event(t)
  /\ open[t] # <<>> \/ isROI[t] > 0
  /\ made' = IF open[t] = <<>> THEN made
             ELSE [made EXCEPT !.totals = Counted(@, kind, size),
                               !.funcs[open[t][Len(open[t])]] = Counted(@, kind, size)]
  /\ IF isROI[t] <= 0
     THEN UNCHANGED <<totals, functionData>>
     ELSE /\ totals' = [totals EXCEPT ![t] = Counted(@, kind, size)]
          /\ IF globalFuncID[t] > -1
             THEN functionData' = [functionData EXCEPT
                    ![t][globalFuncID[t] + 1].stats = Counted(@, kind, size)]
             ELSE UNCHANGED functionData
  /\ UNCHANGED <<stage, open, isROI, globalFuncID, output>>

\* A thread may end inside a region.
ThreadFini(t) ==
  /\ stage[t] = "running" /\ holder = "none"
  /\ stage' = [stage EXCEPT ![t] = "printing"]
  /\ holder' = t
  /\ UNCHANGED <<open, tables, made, events, trace_file, item, lineno>>

\* Six lines for each function, then four of totals.
AtTotals(t) == item[t] = Len(functionData[t]) + 1

LineAt(t) ==
  LET it == functionData[t][item[t]]
  IN  CASE AtTotals(t) ->
             [type |-> "Total", field |-> FieldOrder[lineno[t]],
              value |-> totals[t][FieldOrder[lineno[t]]]]
        [] ~AtTotals(t) /\ lineno[t] = 1 -> [type |-> "Thread", value |-> t]
        [] ~AtTotals(t) /\ lineno[t] = 2 -> [type |-> "Function", func |-> it.name]
        [] OTHER -> [type |-> "Data", func |-> it.name, field |-> FieldOrder[lineno[t] - 2],
                     value |-> it.stats[FieldOrder[lineno[t] - 2]]]

Printed(t) == AtTotals(t) /\ lineno[t] = 5

\* One fprintf is one step: only the lock keeps a thread's lines together.
PrintLine(t) ==
  /\ stage[t] = "printing" /\ ~Printed(t)
  /\ trace_file' = Append(trace_file, LineAt(t))
  /\ IF ~AtTotals(t) /\ lineno[t] = 6
     THEN item' = [item EXCEPT ![t] = @ + 1] /\ lineno' = [lineno EXCEPT ![t] = 1]
     ELSE item' = item /\ lineno' = [lineno EXCEPT ![t] = @ + 1]
  /\ UNCHANGED <<stage, open, tables, made, events, holder>>

ReleaseLock(t) ==
  /\ stage[t] = "printing" /\ Printed(t)
  /\ stage' = [stage EXCEPT ![t] = "ended"]
  /\ holder' = "none"
  /\ UNCHANGED <<open, tables, made, events, trace_file, item, lineno>>

PinNext == \E t \in Threads :
          \/ ThreadStart(t)
          \/ \E f \in Funcs : StartROI(t, f)
          \/ StopROI(t)
          \/ \E kind \in AccessKinds, size \in Sizes : RecordMem(t, kind, size)
          \/ ThreadFini(t)
          \/ PrintLine(t)
          \/ ReleaseLock(t)

PinSpec == PinInit /\ [][PinNext]_pinVars

-----------------------------------------------------------------------------
(* What the report makes of the trace.                                     *)
NoFunc == "no function"

\* Mutant of ParseLine: the block of a later thread replaces an earlier one's.
ParseLineReplaces(log, l) ==
  CASE l.type = "Thread" -> [log EXCEPT !.threads = @ + 1, !.func = NoFunc]
    [] l.type = "Function" -> [log EXCEPT !.func = l.func]
    [] l.type = "Total" -> [log EXCEPT !.totals[l.field] = @ + l.value]
    [] OTHER -> IF l.func = log.func
                THEN [log EXCEPT !.funcs[l.func][l.field] = l.value]
                ELSE log

\* A data line counts only if it carries the name of the function that the last
\* line "Function:" gave; a line "Thread" ends that function's block.
ParseLine(log, l) ==
  CASE l.type = "Thread" -> [log EXCEPT !.threads = @ + 1, !.func = NoFunc]
    [] l.type = "Function" -> [log EXCEPT !.func = l.func]
    [] l.type = "Total" -> [log EXCEPT !.totals[l.field] = @ + l.value]
    [] OTHER -> IF l.func = log.func
                THEN [log EXCEPT !.funcs[l.func][l.field] = @ + l.value]
                ELSE log

EmptyLog == [threads |-> 0, func |-> NoFunc, totals |-> Empty,
             funcs |-> [f \in Funcs |-> Empty]]

parse_pin_log ==
  LET log[n \in 0 .. Len(trace_file)] ==
        IF n = 0 THEN EmptyLog ELSE ParseLine(log[n - 1], trace_file[n])
  IN  log[Len(trace_file)]

-----------------------------------------------------------------------------
(* Properties.                                                             *)

\* The tables have their types, and the nesting depth the tool keeps is the number
\* of regions that are open.
TypeOK ==
  /\ stage \in [Threads -> {"unborn", "running", "printing", "ended"}]
  /\ holder \in Threads \cup {"none"}
  /\ \A t \in Threads :
       /\ isROI[t] = Len(open[t])
       /\ globalFuncID[t] \in -1 .. Len(functionData[t]) - 1
       /\ totals[t] \in [Fields -> Nat]

\* StartROI and StopROI: inside regions, accesses are charged to the innermost
\* one, whatever was opened and closed before; outside, to none.
InnermostCharged ==
  \A t \in Threads :
    IF open[t] = <<>> THEN globalFuncID[t] = -1
    ELSE /\ globalFuncID[t] > -1
         /\ functionData[t][globalFuncID[t] + 1].name = open[t][Len(open[t])]

\* ThreadFini and parse_pin_log: when every thread has ended, the report shows
\* for each function, and in total, exactly the accesses made in it.
LogExact ==
  (\A t \in Threads : stage[t] = "ended") =>
    /\ parse_pin_log.totals = made.totals
    /\ parse_pin_log.funcs = made.funcs
=============================================================================
