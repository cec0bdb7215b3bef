---------------------------- MODULE CommandLine ----------------------------
(***************************************************************************)
(* The options of the programs (command_line.h).  An option is a record    *)
(* [opt], [opt, file] or [opt, n].  The file name is not empty at first:   *)
(* it is that of the graph DefaultFile.                                    *)
(***************************************************************************)
EXTENDS Integers, Sequences
LOCAL INSTANCE SequencesExt

DefaultFile == <<"../benchmark/graphs/twitterU", ".sg">>

CLBase ==
  [scale |-> -1, degree |-> 16, filename |-> DefaultFile, symmetrize |-> FALSE,
   uniform |-> FALSE, in_place |-> FALSE, help |-> FALSE,
   out_filename |-> <<"", "">>, out_weighted |-> FALSE, out_sg |-> FALSE]

\* -h prints the usage and exits with 0 when it is met; what follows it does not matter.
HandleArg(cli, arg) ==
  CASE arg.opt = "f" -> [cli EXCEPT !.filename = arg.file]
    [] arg.opt = "g" -> [cli EXCEPT !.scale = arg.n]
    [] arg.opt = "h" -> [cli EXCEPT !.help = TRUE]
    [] arg.opt = "k" -> [cli EXCEPT !.degree = arg.n]
    [] arg.opt = "s" -> [cli EXCEPT !.symmetrize = TRUE]
    [] arg.opt = "u" -> [cli EXCEPT !.uniform = TRUE, !.scale = arg.n]
    [] arg.opt = "m" -> [cli EXCEPT !.in_place = TRUE]
    [] OTHER -> cli  \* options of one kernel that change nothing here

\* CLConvert: -b wins over -e, whichever came last gives the file name.
HandleConvertArg(cli, arg) ==
  CASE arg.opt = "b" -> [cli EXCEPT !.out_sg = TRUE, !.out_filename = arg.file]
    [] arg.opt = "e" -> [cli EXCEPT !.out_filename = arg.file]
    [] arg.opt = "w" -> [cli EXCEPT !.out_weighted = TRUE]
    [] OTHER -> HandleArg(cli, arg)

HasInput(cli) == cli.filename # <<"", "">> \/ cli.scale # -1

\* The options, once all were handled; a generated graph is always symmetrized.
ParseArgs(program, args) ==
  LET handle(cli0, arg) == IF program = "converter" THEN HandleConvertArg(cli0, arg)
                           ELSE HandleArg(cli0, arg)
      cli == FoldLeft(handle, CLBase, args)
  IN  IF cli.scale # -1 THEN [cli EXCEPT !.symmetrize = TRUE] ELSE cli

=============================================================================
