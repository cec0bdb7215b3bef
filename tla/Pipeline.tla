------------------------------ MODULE Pipeline ------------------------------
(***************************************************************************)
(* Programs run one after the other on files, as bench.mk runs them: the   *)
(* converter, which builds a graph and writes it, and kernels, which build *)
(* or read one and use it.  A program parses its options, gets a graph     *)
(* (MakeGraph in builder.h) and does its work; the next one is started if  *)
(* it exits with 0.                                                        *)
(*                                                                         *)
(* Of the kernels, tc works on graphs without weights and refuses directed *)
(* ones; sssp, a module of its own, stands for a program with weights.     *)
(***************************************************************************)
EXTENDS TriangleCount, GraphFiles, Generator, CommandLine

CONSTANTS Jobs  \* records [edges, both, weighted, usable, files, runs]

(***************************************************************************)
(* What the file the first program reads means: its edges, whether each    *)
(* goes both ways, whether it has weights, and whether the program can use *)
(* it at all.  Then the files there are, and the programs to be run with   *)
(* their options; each reads what the one before it wrote.                 *)
(***************************************************************************)
ASSUME JobsAssumption ==
  \A j \in Jobs : /\ {j.both, j.weighted, j.usable} \subseteq BOOLEAN
                  /\ \A k \in DOMAIN j.runs : j.runs[k].program \in {"converter", "tc", "sssp"}

VARIABLES
  job,     \* what is run
  step,    \* the number of the program that runs
  stage,   \* of that program
  cli,     \* its options
  code,    \* what it exited with
  fs,      \* the files
  before   \* the graph the program before this one had, and whether with weights

pipeline_vars == <<job, step, stage, cli, code, fs, before>>
all_vars == <<vars, pipeline_vars>>

program == job.runs[step].program
WithWeights(options) == program = "sssp" \/ (program = "converter" /\ options.out_weighted)
weighted == WithWeights(cli)

PipelineInit ==
  /\ job \in Jobs /\ fs = job.files
  /\ step = 1 /\ stage = "launch" /\ code = 0
  /\ cli = CLBase /\ before = [graph |-> NoGraph, weighted |-> FALSE]
  /\ phase = "none" /\ el = <<>> /\ symmetrize = FALSE /\ in_place = FALSE
  /\ Fresh /\ total = -1

Exit(c) == stage' = "exited" /\ code' = c

-----------------------------------------------------------------------------
(* main up to MakeGraph: options, and the constructor of the builder.       *)

\* tc and sssp end if there is no input, the converter does not look.
Launch ==
  /\ stage = "launch"
  /\ cli' = ParseArgs(program, job.runs[step].args)
  /\ IF cli'.help THEN Exit(0)
     ELSE IF program # "converter" /\ ~HasInput(cli') THEN Exit(-1)
     ELSE IF cli'.in_place /\ WithWeights(cli') THEN Exit(-30)
     ELSE stage' = "make" /\ UNCHANGED code
  /\ UNCHANGED <<vars, job, step, fs, before>>

IsSerialized == GetSuffix(cli.filename) \in {".sg", ".wsg"}

MakeGraphSerialized ==
  /\ stage = "make" /\ cli.filename # NoName /\ IsSerialized
  /\ LET r == ReadSerializedGraph(fs, cli.filename, weighted)
     IN  IF r.code # 0 THEN Exit(r.code) /\ UNCHANGED vars
         ELSE /\ graph' = r.graph /\ phase' = "read"
              /\ stage' = "run"
              /\ UNCHANGED <<el, symmetrize, in_place, offsets, csr, todo, locals,
                             in_place_vars, total, code>>
  /\ UNCHANGED <<job, step, cli, fs, before>>

\* MakeGraphFromEL begins: weights are drawn if the list came without.
BeginBuild(list, needs_weights) ==
  /\ el' = IF weighted /\ needs_weights THEN InsertWeights(list) ELSE list
  /\ symmetrize' = cli.symmetrize /\ in_place' = cli.in_place
  /\ phase' = "start"
  /\ stage' = "run"
  /\ UNCHANGED <<offsets, csr, todo, locals, in_place_vars, graph, total, code>>

MakeGraphFromFile ==
  /\ stage = "make" /\ cli.filename # NoName /\ ~IsSerialized
  /\ LET r == ReadFile(fs, cli.filename, weighted)
     IN  IF r.code # 0 THEN Exit(r.code) /\ UNCHANGED vars
         ELSE BeginBuild(r.el, r.needs_weights)
  /\ UNCHANGED <<job, step, cli, fs, before>>

\* With neither a file nor a scale (the converter only) the list would be empty.
MakeGraphGenerated ==
  /\ stage = "make" /\ cli.filename = NoName /\ cli.scale # -1
  /\ BeginBuild(GenerateEL(cli.scale, cli.degree, cli.uniform), weighted)
  /\ UNCHANGED <<job, step, cli, fs, before>>

Building == stage = "run" /\ MakeGraphFromEL /\ UNCHANGED <<total, pipeline_vars>>

BuildFails ==
  /\ stage = "run" /\ phase = "failed" /\ Exit(-33)
  /\ UNCHANGED <<vars, job, step, cli, fs, before>>

Ready == stage = "run" /\ phase \in {"built", "read"}

-----------------------------------------------------------------------------
(* The programs, given the graph.                                           *)

Count == Ready /\ program = "tc" /\ Hybrid /\ UNCHANGED pipeline_vars

FinishKernel ==
  /\ Ready /\ program # "converter"
  /\ IF program = "tc" THEN \/ graph.directed /\ Exit(-2)
                            \/ total # -1 /\ Exit(0)
     ELSE Exit(0)
  /\ UNCHANGED <<vars, job, step, cli, fs, before>>

Convert ==
  /\ Ready /\ program = "converter"
  /\ IF cli.out_filename = NoName THEN Exit(-8) /\ UNCHANGED fs
     ELSE /\ LET content == IF cli.out_sg THEN WriteSerializedGraph(graph, weighted)
                            ELSE WriteEL(graph, weighted)
             IN  fs' = [name \in DOMAIN fs \cup {cli.out_filename} |->
                          IF name = cli.out_filename THEN content ELSE fs[name]]
          /\ Exit(0)
  /\ UNCHANGED <<vars, job, step, cli, before>>

\* The next program starts with nothing but the files.
NextProgram ==
  /\ stage = "exited" /\ code = 0 /\ step < Len(job.runs)
  /\ step' = step + 1 /\ stage' = "launch" /\ cli' = CLBase
  /\ before' = [graph |-> graph, weighted |-> weighted]
  /\ Restart /\ total' = -1
  /\ UNCHANGED <<job, code, fs>>

PipelineNext ==
  \/ Launch
  \/ MakeGraphSerialized
  \/ MakeGraphFromFile
  \/ MakeGraphGenerated
  \/ Building
  \/ BuildFails
  \/ Count
  \/ FinishKernel
  \/ Convert
  \/ NextProgram

PipelineSpec == PipelineInit /\ [][PipelineNext]_all_vars

-----------------------------------------------------------------------------
\* The weights of the edges from x to y in an edge list, perhaps taken both ways.
WeightsGiven(edges, both, x, y) ==
  {edges[k].w : k \in {j \in DOMAIN edges :
                         \/ edges[j].u = x /\ edges[j].v = y
                         \/ both /\ edges[j].u = y /\ edges[j].v = x}}

WeightsIn(g, both, x, y) ==
  {g.weight[x][k] : k \in {j \in DOMAIN g.out[x] : g.out[x][j] = y}}
    \cup IF both THEN {g.weight[y][k] : k \in {j \in DOMAIN g.out[y] : g.out[y][j] = x}} ELSE {}

(***************************************************************************)
(* The graph has an edge from x to y just if there is a weight for one;    *)
(* its weight is the least, if the program uses weights and there were     *)
(* any, and otherwise 1 or one that was drawn.                             *)
(***************************************************************************)
MadeFrom(Given(_, _), given_weights) ==
  \A x, y \in Nodes : x # y =>
    LET W == WeightsIn(graph, FALSE, x, y)
    IN  IF Given(x, y) = {} THEN W = {}
        ELSE /\ Cardinality(W) = 1
             /\ W \subseteq IF ~weighted THEN {1}
                            ELSE IF given_weights THEN {Min(Given(x, y))}
                            ELSE 1 .. 255

(***************************************************************************)
(* Whatever the format of the input file, the first program works on the   *)
(* edges and the weights its author wrote down: symmetric matrices go both *)
(* ways, weights are only drawn if the file has none.  A file that cannot  *)
(* be used is refused.                                                     *)
(***************************************************************************)
InputHonoured ==
  Ready /\ step = 1 /\ cli.filename # NoName =>
    /\ job.usable
    /\ MadeFrom(LAMBDA x, y : WeightsGiven(job.edges, job.both \/ cli.symmetrize, x, y),
                job.weighted)

(***************************************************************************)
(* A graph that was written and is read back is the same graph: a          *)
(* serialized one in every part, and one written as text in its edges and  *)
(* weights, again symmetrized or not.  A graph generated once more, with   *)
(* weights, has the same edges.                                            *)
(***************************************************************************)
RoundTrip ==
  Ready /\ step > 1 =>
    /\ phase = "read" => graph = before.graph
    /\ MadeFrom(LAMBDA x, y : WeightsIn(before.graph, cli.symmetrize, x, y), before.weighted)
=============================================================================
