# A verification project for ZRay-IISWC26-artifact

TLA+ models of the programs in this repository, checked by TLC on small instances,
and theorems about them, checked by TLAPS for every value of the constants.

The repository compares two ways of measuring the memory traffic of marked *regions
of interest*: ZRay, a compiler pass, and a Pin tool. What it holds itself is

* the programs that are measured: the GAP benchmark kernels, C++ with OpenMP
  (`gapbs/`, and `gapbs-pin/` with the regions marked in another way);
* the Pin tool (`pintool/`);
* the scripts that build and measure the SPEC workloads (`spec/`, `run-spec.sh`,
  `run-spec-pin.sh`) and the kernels, and the report (`compare-zray-pin.py`).

ZRay is a submodule whose directory is empty at this commit.

## 1. Inventory

| component | state | operations | interacts with |
|---|---|---|---|
| `graph.h` | CSR arrays of a graph and its inverse, never changed by a kernel | degrees, `out_neigh(u, offset)` with a clamped offset; move, assign, destroy | read by all kernels |
| `pvector.h` | one block of memory, a size and a capacity | construct, move, `push_back`, `resize`, `fill`, `leak`, `swap` | all arrays of the kernels and of the builder |
| `benchmark.h` | trials, two source pickers | `BenchmarkKernel`, `SourcePicker`, `TopK` | calls a kernel, its analysis and its verifier |
| `cc.cc` (Afforest) | `comp`, a forest of labels shared by all threads | `Link` (CAS), `Compress`, `SampleFrequentElement` | threads race on `comp` |
| `cc_sv.cc` (Shiloach-Vishkin) | `comp`, `change` | hook loop, compress loop | threads race on both, without atomics |
| `sliding_queue.h` | one array, a cursor and a window; a buffer per thread | `push_back`, `slide_window`, `reset`, `flush` | used by `bfs.cc`, `bc.cc` |
| `bitmap.h` | words of 64 bits | `set_bit`, `set_bit_atomic`, `reset`, `swap` | `bfs.cc`, `bc.cc` |
| `bfs.cc` | `parent`, queue, two bitmaps, three counters of its heuristics | `TDStep`, `BUStep`, `QueueToBitmap`, `BitmapToQueue` | queue, bitmaps |
| `sssp.cc` | `dist`, local bins, the shared frontier, two pairs of shared indexes | `RelaxEdges`, fusion, vote, copy | one parallel region with barriers |
| `bc.cc` | `depths`, `path_counts`, successor bits, `scores` | `PBFS`, back-propagation | queue, bitmap |
| `tc.cc` | none that is shared | `OrderedCount`, `RelabelByDegree`, `WorthRelabelling` | builder |
| `pr.cc`, `pr_spmv.cc` | scores and contributions in floating point, an error | pull loop until the error is small | threads race on the contributions in `pr.cc` |
| `builder.h` | edge list, offsets, neighbours, the graph | `CountDegrees`, `ParallelPrefixSum`, `MakeCSR`, `MakeCSRInPlace`, `SquishGraph`, `RelabelByDegree` | makes what all kernels read |
| `reader.h`, `writer.h` | files | `ReadFile` for five text formats, `ReadSerializedGraph`, `WriteGraph` | builder, converter |
| `generator.h` | an engine per thread, seeded anew for each block | `GenerateEL`, `InsertWeights` | builder |
| `command_line.h` | options and their defaults | `ParseArgs`, `HandleArg` | all programs |
| `converter.cc`, `benchmark/bench.mk` | graph files | build a graph, write it for other programs | builder, writer |
| `roitrace-mt.cpp` | a table, a region depth and totals per thread; the trace file and `pinLock` | `StartROI`, `StopROI`, `RecordMemRead/Write`, `ThreadStart`, `ThreadFini` | callbacks from Pin; the trace is read by the report |
| `build-spec.sh` and the scripts it calls | build and run directories of each workload | skip, remove, set up, patch, compile, copy | called by both run scripts |
| `run-spec.sh`, `run-spec-pin.sh` | logs, the Pin trace, CSV files | start, header, a workload's commands, row | build, tools, report |
| `compare-zray-pin.py` | none | `parse_pin_log`, `last_rows`, `spec_rows` | reads logs and CSV files |
| `run-gapbs*.sh`, `collect-gapbs.sh`, `coalesce-bytes.sh` | a directory and a log per kernel, CSV files | clean, make, measure, collect | kernels, tools, report |
| `run-ae.sh`, `setup.sh`, ... | installed tools, notes of times | straight-line steps | start the scripts above |

What is hard, and what makes each part correct:

* **The kernels race on purpose.** Afforest synchronises by one CAS, and
  Shiloach-Vishkin by nothing; `comp` is read while others rewrite it. Correct means:
  labels are equal exactly for connected vertices, under every interleaving, and the
  kernel ends. Both may never separate what belongs together, and must notice every
  hook that was lost. PageRank (`pr.cc`) adds up contributions that others replace;
  correct means that the error it stops by says something about the scores.
* **Nobody checks a bound.** `push_back` and `flush` write wherever the cursor is, and
  `sssp.cc` copies bins into a frontier of fixed size. Correct means: the users never
  append more than fits, counted over all threads and buffers.
* **Order is kept by barriers alone.** BFS, delta-stepping and PBFS go level by level
  or bin by bin; one thread resets what others vote into, bitmaps change roles, path
  counts are read without a lock because a level is over. Correct means: the result
  is that of the sequential algorithm, no improvement is lost, and levels and bins
  come in order.
* **Memory is handed around.** A graph may own one pair of blocks or two, an edge list
  may become a list of neighbours, `realloc` may move what pointers are made into later.
  Correct means: each block has one owner, is freed once, and objects do not share.
* **The verifier repeats the random choices.** Its source picker has an engine of its
  own with the same seed. Correct means: in every trial it looks at what the kernel did.
* **The builder works in its own memory.** Slots are reserved first and filled later;
  with `-m` lists are written over the edges they are read from, then spread out, then
  searched while they are extended. Correct means: the graph is what the list says.
* **A graph goes through files.** It is written in one form, read in another, and
  weights may come from the file or be drawn. Correct means: a program works on the
  edges and weights that the author of the first file wrote down, whatever the format
  and however many converters lie between.
* **The Pin tool keeps a stack without a stack**, and the threads write one file.
  Correct means: each access is charged to the innermost open region of its thread,
  and the report shows what was accessed.
* **Scripts fail and are killed.** What they leave is found by the next one, which
  looks only at which files exist. Correct means: what is skipped is of one build, with
  patched sources, and nothing in it is cut short that no failure cut; measuring some workloads leaves the report on the others alone; what the report
  shows of the kernels is from one run.

`PROJECT.json` lists the components with their status and, under `hazards`, each of
these difficulties at its line with the properties that cover it.

## 2. The modules

    CSRGraph ── CompForest ──┬── Afforest              (cc.cc)
       │                     └── ShiloachVishkin       (cc_sv.cc)
       ├── Bitmap ── BFS                               (bitmap.h, bfs.cc)
       ├── DeltaStep                                   (sssp.cc)
       ├── Brandes ── Benchmark                        (bc.cc, benchmark.h)
       ├── PageRank                                    (pr.cc, pr_spmv.cc)
       ├── Verifiers     the checkers of all kernels, used by these kernels and by tc
       ├── EdgeList ──┬── Builder ── TriangleCount ─┬─ Pipeline  (builder.h, tc.cc,
       │              ├── GraphFiles ───────────────┤             converter.cc)
       │              └── Generator ────────────────┤  (reader.h, writer.h, generator.h)
       │                  CommandLine ──────────────┘  (command_line.h)
       └── GraphShapes      graphs for TLC
    AppendWindow <·· SlidingQueue                      (sliding_queue.h)
    Values <·· Memory                                  (pvector.h, graph.h, builder.h)
    PinTool                             (roitrace-mt.cpp, parse_pin_log)
    SpecBuild ── SpecRun ─┬─ Harness    (build-spec.sh, run-spec*.sh, last_rows, spec_rows)
                 GapbsRun ┘             (run-gapbs*.sh and what they call, gapbs_rows)

Lines are EXTENDS; `<··` is a refinement: SlidingQueue, with its buffers and its
reservations, implements AppendWindow, which says what a user of the queue sees. BFS
has the variables of AppendWindow for its queue; Brandes, which also needs the order
between levels, has the array and the window. Memory, with blocks and pointers,
implements Values, in which every array and every graph has a value of its own. Modules whose name begins with MC give a
module its graphs, inputs and symmetries; modules that end in `_proofs` hold theorems, those
of SlidingQueue and Memory in Structures_proofs, those of PinTool and Harness in
Measuring_proofs, those of Builder and Benchmark in Counting_proofs.

`gapbs/` and `gapbs-pin/` have the same kernels; they differ in how a region is marked
and in `command_line.h`. One module stands for both copies.

**Threads and loops.** Memory is sequentially consistent, and each load, store or
atomic operation on a shared variable is one step, so that every interleaving is there
(the head of each module says what is merged, and why: reads of what only the same
thread writes, loops without anything shared). `pc[t]` says which access
thread `t` does next. A `#pragma omp parallel for` is a set `todo` of iterations nobody
has taken; an idle thread takes any of them, in any order, so that all schedules are
covered, and the loop ends (the implicit barrier) when `todo` is empty and all threads
are idle. BUStep, whose correctness depends on its `schedule(dynamic, 1024)`, hands out
chunks. Sums of a `reduction` are added when they are earned. Locals are reset when
they go out of scope, which only keeps the state space small.

**Afforest.** `phase` and `round` say which loop runs; `Link` is ReadP1, ReadP2,
ReadHigh, CAS, Hop1 to Hop3 after the loads and the CAS of `cc.cc:47-59`, `Compress` is
Test, Load, Store. The sampled component `c` is any label that occurs (the sample is
random).

**ShiloachVishkin.** ReadCompU, ReadCompV, TestRoot, SetChange and Hook are the accesses
of the first loop, Test, Load and Store those of the second.

**SlidingQueue.** `mode` is "serial" or "parallel". A flush is a reservation
(`fetch_and_add`) and then one step per element copied. `fresh` holds what may still be
appended before the next reset: users append a vertex at most once. `PBFS` keeps its
buffers over regions, which is the same because they are empty after a flush.

**BFS.** TDStep, BUStep and the two conversions with the direction heuristics; `alpha`
and `beta` come from small sets around the thresholds. `set_bit` is a load and a store
of a word, `set_bit_atomic` a load and a CAS that retries.

**DeltaStep.** One parallel region: relax the shared frontier, empty one's own bin while
it is small, vote, barrier, copy, barrier; one thread resets the old index and tail while
others copy. A copy is one step, since nobody reads the frontier before the barrier, and
so is a vote (`omp critical`).

**Brandes.** Any two sources, one after the other, on the same data. Dependencies are
whole multiples of `1/Unit` where the code has floats. `part`, `pending` and `at` are
what `phase`, `todo` and `pc` are elsewhere. Graphs are as SquishGraph leaves them,
without loops or duplicates (`IsSimple`).

**Benchmark.** `BenchmarkKernel` around Brandes, as the `main` of `bc.cc` calls it:
trials, the analysis after the last one, a verification after each. `coming` holds the
numbers one of the two engines has drawn and the other has yet to draw: with one seed,
both draw the same sequence. Parallel steps are those of Brandes.

**PageRank.** Both kernels in one module, told apart by `scheme`. In `pr.cc` a load of a
contribution and the store of a new one are steps of their own. Scores are whole numbers
of 1/`One`; each quotient is rounded down, and the properties grant one unit for each.
Graphs are simple here, too.

**Memory, Values.** One action per member function of `pvector` and `CSRGraph` that
touches a pointer, and one for each function of the builder or reader that makes, squishes
or relabels a graph, with `leak` and `realloc` inside. `heap` says of each block whether
it is free, an array or an index; freeing a free block gives "corrupt". Objects are
created and destroyed in any order C++ allows (an array that was leaked is assigned to or
destroyed only). In Values a move takes the value away and nothing else changes.

**EdgeList, Builder, TriangleCount.** The sequential pieces are operators; the edge loop
of MakeCSR is interleaved; MakeCSRInPlace is step by step where it reads what it
overwrites. `Beyond` is what the word behind `invs_needed` may hold (see section 3).
TriangleCount counts on the graph the builder made, relabelled or not; the walk that
tests no end (`tc.cc:64`) goes one past the list if nothing stops it, which the property
would see.

**Verifiers.** The checkers of `-v` as operators: a serial search or computation, level
by level, compared with the kernel's result. The properties of the kernels' runs compare
them with their definitions: a verifier accepts the result, and refuses altered ones
(`VerifierExact` of Afforest, and parts of `TreeCorrect`, `Correct`, `ScoresPrinted`,
`TrianglesCounted` and `StopsSettled`).

**GraphFiles, Generator, CommandLine.** What readers and writers do to a sequence of
lines, each a tag and numbers, with the code a reader exits with; the generator's lists,
with the engine as an operator of block and place; the options as a fold over the
arguments, from the defaults of the code.

**Pipeline.** A job is a file and a sequence of programs, each started if the one
before it exited with 0. Launch, the three MakeGraph actions, Building (the actions of
Builder), Count, Convert, FinishKernel, NextProgram. `before` remembers the graph of the
program before; `job.edges` is what the author of the first file meant. Both are there
for the properties only. The number of vertices is one more than the largest in a list,
and the same in all programs of a job: in the instances the last vertex has an edge.

**PinTool.** Threads enter and leave regions, access memory and end at any moment. `open`
is the program's stack of regions, which the tool does not have. The trace is a sequence
of lines; `fprintf` is one step, between which other threads may act if the lock lets
them. `parse_pin_log` reads the trace line by line; the log it makes is compared with
`made`, a history of the accesses that no action reads. Programs do not enter an open function
again: the code excludes recursion in a comment (line 42), and no marked kernel does it.

**SpecBuild, SpecRun.** A file is stamped with the stock build it is of, so that one
can say that two files belong together. Each step of a script is an action; `Abort` is a
kill or a failing step under `set -e`. Where `set -e` has no effect (`build_one` under
`||`, the generated command script) failures are actions that go on. A `cp` of
`build_one` is two steps: `CopyOpens` makes the file, `CopyEnds` completes it; a failure
in the second, or a kill between them, leaves it in `cut`, the files that are cut short.
`Built`, the skip test, does not see `cut`, as the code does not. A measurement is
a function that says how often each command went into it.

**GapbsRun, Harness.** The scripts for the kernels, from `rm -f` of the summaries over
`make clean`, `make`, the runs and their rows to the summary of bytes; nothing there uses
`set -e`, so that a kernel that is not built or fails is passed over. A figure is the
number of the script it comes from. Harness puts both suites of scripts together, with
`setup.sh` installing Pin between them; a session is about one suite, because they share
nothing else.

## 3. The runs

| run | instance | shows |
|---|---|---|
| sliding_queue | 2 threads, buffers of 2, 4 items, room for 4 | every slot private and in bounds, each item queued once; implements AppendWindow |
| afforest | 3 threads, 4 vertices, 6 graphs | labels are the components, and CCVerifier accepts just these; trees never split; ends |
| shiloach_vishkin | 2 threads, 4 vertices, 6 graphs | the same without atomics; a round without change had nothing to do |
| bfs | 2 threads, 6 vertices, 6 graphs, words and chunks of 2 | a breadth-first tree, level by level, each vertex claimed once; the verifier accepts it and nothing altered; ends |
| delta_step | 3 threads, 5 vertices, 3 weighted graphs, delta 1, 2, 5 | shortest distances, nothing lost, bins in order; ends |
| brandes | 3 threads, 5 vertices, 3 graphs, 2 trials of 2 sources | counts complete when read, successor bits exact, exact scores; altered ones are refused; the verifier has the kernel's sources and accepts; the biggest scores are printed |
| pagerank | 2 threads, 4 vertices, 3 graphs, 3 iterations, 3 tolerances | a kernel that stops by its error passes the verifier, and a spoilt score does not; without the race the result is that of a serial loop |
| memory | 2 arrays, 2 graphs, lengths to 2 | each block one owner, none leaked; implements Values |
| builder | 2 threads, 4 vertices, lists of 3 to 6 edges, five text formats and serialized graphs, up to 4 programs | the graph is what the list says, lists stay sorted while searched, triangles counted once, by walks that stay inside their lists; the list is what the file says; what is written is read back |
| pin_tool | 2 threads, 2 functions, 3 events per thread | accesses charged to the innermost region; the report is exact |
| scripts | 2 kernels or 2 workloads of 2 commands, 3 scripts, 2 failures or kills | what is skipped is of one build, with no more files cut short than steps failed; rows count each command once if nothing fails; partial runs keep the rest of the report; what is shown of the kernels is of one run |
| frontier_size | 1 thread, 7 vertices, 8 edges | a violation: the finding below |

**Why the bounds are enough to see the interesting cases.** The graphs contain the
shapes the races need: a vertex of highest label with several neighbours, so that
threads hook one root under different labels; directed graphs where an edge is stored at
one end; several shortest paths to a vertex; a vertex improved twice from two bins; a
graph on which BFS enters the bottom-up phase a second time with stale bits. Words of
two bits put two vertices into a word. A queue of four slots with buffers of two is
filled exactly, in one window or several, with a push that must flush first. Blocks of
three degrees put a second, shorter block into the prefix sum. One list in every
format, with comments, headers and weights where the format has them, and one file for
most of the codes readers exit with; converters with `-s`, `-m`, `-w`, to text and to
both serialized forms, and a chain of four programs. Blocks of three edges put the
fourth generated edge, and its weight, into a second block. Two regions and three
events nest a region in another and return from it, between accesses. Three scripts with
two faults give a failed build, a failed or killed repair, and a run that skips or
rebuilds. Two arrays and two graphs can be moved and swapped in both directions, with a
third object made while little memory is held (`MCRoom`); eight blocks are never used
up, and the allocator reuses the first free one, so that what was freed comes back at
once under another owner. Three iterations of PageRank with three tolerances stop early,
late and by `-i`; two trials of two sources make the pickers of kernel and verifier
alternate, with a vertex they must pass over, and a trial without verification leaves the
verifier's picker alone. `MaxEvents`, `MaxRuns`, `MaxFaults`,
`MaxScripts`, `MaxMishaps` and `MaxDraws` bound counters and nothing else. `kDistInf`
and `kMaxBin` are above every distance and bin of the instances: overflow of distances is
not modelled. Every property of the passing runs fails for at least one plausible bug in the
code, listed in `PROJECT.json` as its mutant and written next to what it changes.

**Fairness.** Liveness is checked for afforest, shiloach_vishkin, bfs and delta_step.
BFS and DeltaStep assume weak fairness of the next-state relation: if the team can take a
step, it takes one, and no thread is favoured. Afforest and ShiloachVishkin assume weak
fairness of each thread, and of the steps the team takes together at a barrier: a thread
that can go on is not stopped for ever, which is what OpenMP's threads get from the
operating system, and a barrier opens when all have arrived. No CAS needs to succeed for
that: one fails only because another thread's succeeded. Nothing is assumed of scripts.

The type invariants of Afforest, ShiloachVishkin, SlidingQueue, BFS and PinTool, and the
invariants of DeltaStep, PageRank, Builder, Memory and SpecRun that contain the types, are
proved (section 4) and not checked by a run as well.

**Deadlock** is checked in sliding_queue. Kernels end, threads end, programs end, and scripts are
started a bounded number of times, so that the other runs may stop; for the kernels with
a Termination property, stopping early would violate it.

### Findings

`frontier_size`: `sssp.cc:93` gives the shared frontier room for as many entries as
the graph has edges, but a vertex enters a bin each time its distance falls, and
lines 138-142 copy whole bins. A graph of eight edges fills nine entries.

Noticed while modelling, and not the subject of a run:

* The skip test of `build-spec.sh` (lines 49-58) looks whether the files are there (`-f`,
  `-x`), not whether they are whole, although the comment in line 44 says that what it
  skips is already built. `cp` writes under the final name (lines 156 and 162). If the
  script is killed during the last `cp`, that of ZRay's metadata, the next one skips the
  workload; a `cp` that fails part way leaves the same, since `build_one` runs under
  `||`. Without the metadata every counter reads zero, silently (lines 159-161); what the
  runtime makes of half of it is not in this repository. The model reaches this state:
  with one workload and one kill, `Built(w) => rd[w].cut = {}` fails when the second
  script is at its skip test. SkipMeansUsable therefore does not say that what is skipped
  is whole: it says that the files are of one build and patched, and that each one cut
  short has cost a failure or a kill.
* The loop of `builder.h:252` runs to `num_nodes_` inclusive and reads one element past
  `invs_needed`. The run `builder` assumes a 0 there (`Beyond = {0}`); with any other
  word all lists are moved from the wrong place and GraphCorrect fails.
* The command script made by `run-spec-pin.sh` goes on after a failed command and adds
  the trace again (line 76): the row misses one command and may count another twice,
  while the comment in line 71 says that the total covers every invocation.
  RowsComplete therefore speaks of scripts without failures; ZRay's rows (one log that
  only grows) never count a command twice.
* The status of `run-gapbs.sh` is that of its last command, so that kernels which fail
  or are not built do not make `run-ae.sh` record the step as FAILED (its lines 14-17).
  A failing kernel still gets a row with its time; the row of a kernel without a
  directory is written one directory above, where nobody reads it; the report shows 0
  bytes, not a missing figure, for a ZRay log that is there and empty.
* With `-m` a block from `new[]` goes to `realloc` and then to `delete[]`. With `-s -m`, an
  empty list makes `realloc(p, 0)` free the block; the null pointer it returns is
  taken as a failure and the program exits with -33. `SquishGraph` with `invert` false
  would leave `in_index` uninitialised; the code never asks for it.
* `PickNext` (`benchmark.h:57`) never returns on a graph without edges, and `bc.cc`,
  `bfs.cc` and `sssp.cc` call it unless a start vertex is given.
* `setup.sh` skips the installation of SPEC when its directory exists, also one that an
  interrupted installation left.
* The default file name in `command_line.h:38` is not empty and `MakeGraph` prefers a
  file, so that `-g` and `-u`, alone, never generate a graph: `test.mk` (`-g10`) and the
  rules for kron.sg and urand.sg in `bench.mk` get the default file or exit with -6. In
  the model, generated graphs are asked for with an empty file name, and a job with `-g`
  alone ends with -6. For the same reason "No graph input specified" is not reached
  without `-f ""`; the converter ignores it then, and builds a graph of one vertex.
* `ReadInMetis` loses the last neighbour of each line that does not end in a blank
  (`reader.h:127` and `133`) when it is built with the std::ws that libstdc++ has had
  since GCC 11; it is modelled so, and the files of the run end their lines in a blank
  as `test/graphs/*.graph` do.
* Text has no number of vertices: vertices without edges after the last with one are
  lost when a graph goes through `.el`. A skew-symmetric matrix is taken as general.
  Nothing checks that `-w` and the suffix of the file written agree.

Also: the "skip
(not built)" of `run-spec.sh:93-95` is not reached, because a workload that fails to
build ends the script first; a source without out-edges makes `bc.cc` divide 0 by 0;
`parse_pin_log` counts the blocks of functions as threads, which is the same for one
region per thread.

## 4. The proofs

| module | theorems | for every |
|---|---|---|
| Afforest_proofs | TypeCorrect, LabelsAreComponents, CompressFlattens, TreesNeverSplit, VerifierIsExact | graph, team, number of rounds |
| ShiloachVishkin_proofs | TypeCorrect, LabelsAreComponents, QuietRoundIsLast, RootsFall | graph, team |
| BFS_proofs | TypeCorrect, OneParent, QueueLargeEnough, WholeLevels, TreeIsBreadthFirst | graph, source, team, thresholds, size of words and chunks |
| DeltaStep_proofs | TypeCorrect, ImprovementsKept, OrderKept, BelowIsFinal, DistancesShortest, VerifierIsExact | weighted graph, team, delta, number of bins |
| PageRank_proofs | Typing, Reproducibility, Settling | simple graph, team, tolerance, number of iterations |
| Counting_proofs | PrefixSums, RowsPrivacy | edge list, job, team, size of blocks |
| | CountsInTime, VerifierAgrees | simple graph, team, number of sources, trials, options, `Unit` |
| Structures_proofs | TypeCorrect, StaysInBounds, FlushesArePrivate, QueuedOnce, Implements | team, vertices, array and buffer size |
| | Implied, HeapInOrder, OwnersAreUnique, NothingLeaks, ArraysAreWhole, MemoryIsInvisible | arrays, graphs, heap, allocator, lengths |
| Measuring_proofs | TypesHold, ChargesInnermost, LogIsExact | threads, functions, sizes, number of events |
| | DirectoriesHold, SkipIsSafe, RowsAreComplete, OthersAreKept, FiguresOfOneScript | workloads, commands, kernels, jobs, scripts, faults |

The assumptions are those the modules declare about their constants (graphs are
well-formed, those of PageRank and Brandes without loops and duplicates as SquishGraph
leaves them, an edge list is a sequence of edges between vertices, a team has a thread, a buffer at least
one place and the queue room for every vertex, sizes are numbers, threads are finitely many, there is a kernel, chunks are
whole words, an allocator returns free blocks, the names for "no array", "leaked array"
and "no thread" are no arrays and no thread); TLC evaluates them in each run.

**The components kernels.** Nothing is said with paths. A *union of trees* is a set S of
vertices with `x \in S <=> comp[x] \in S`; two vertices are linked if no such set
separates them, and connected if no set closed under the edges of the graph does. The
invariant says, in layers: where threads are and that parents point down (`Shape`); that
sets closed under edges stay unions of trees, with every label a thread holds on the
right side of them (`Safe`), so that no tree leaves its component; and, for Afforest,
that an edge whose labels a Link still holds will be inside one tree once these labels
are (`Complete`), so that edges already processed are linked. The edges of a skipped
vertex are linked from their other end, or lie in the skipped tree. For a compress
loop, which moves parents while others climb through them, it is enough that what is
about to be stored is in the same tree. Shiloach-Vishkin has, instead of `Complete`,
`Quiet`: while `change` is false nothing has been hooked, `comp` is as flat as the last
round left it, and the edges passed have equal labels. The verifier's search visits a
vertex in each round or visits no more; so after `NumNodes` rounds the vertices visited
are closed under edges and are the component of the first (`SearchFindsComponent`), and
the verifier decides `LabelsComponents` of any labels (`VerifierDecides`).

**The sliding queue.** That the cursor stays inside the array cannot be seen from the
cursor. The invariant says of each vertex where it is - in a written slot, at a live place
of one buffer, or waiting for one thread - and that it is there only (`OnePlace`), and
that reserved ranges are disjoint (`Shape`). Every slot below the cursor then stands for
a vertex of its own, and a pigeonhole argument bounds the cursor. For the refinement,
the window is what is written between the cursors, and incoming is what is above it,
in slots, buffers and hands; a flush changes neither.

**The breadth-first search.** That the queue is large enough cannot be seen from the
counter of what was appended. The invariant (`Queued`) says that there is a set Q of as
many vertices, all visited; a compare-and-swap adds one that was not visited, and the
bits and loaded words of a bottom-up step stay outside Q, so that what BitmapToQueue
appends is new. Bits that set_bit might lose to other threads would only make fewer, so
this part needs nothing about chunks and words. Parents stay because every store follows
a test for a negative number that nobody else can have overtaken (CAS), or that only the
thread of the chunk may change (Scan reads and stores in one step, as only the owner of u
writes parent[u] then).

The levels do need them. `SearchInv` says there is a depth d such that the search works
on level d (`Level`): what is visited lies between what is within d edges and its
neighbours, every parent is one level closer (`Tree`), and there is no stale bit of a
vertex farther than d. In a top-down step every edge out of the window has a visited
end, or an iteration nobody has taken, or a thread that has not passed it (`Followed`); a
thread whose CAS fails leaves a visited vertex, because what it read can only have
changed by a claim. In a bottom-up step every vertex next to the frontier is visited, or
in a chunk nobody has taken, or still ahead of the thread that has it (`Looked`), and
what is found has its bit or a thread about to store it (`Recorded`). That store loses
no bit, since the threads inside a step are in different chunks (`Owned`) and vertices of
one word are in one chunk (`ChunksApart`, where Chunk % BitsPerWord = 0 is used). At the
barrier only "visited" is left of each, so that the level is whole. Stale bits do no
harm: the neighbours of earlier levels are all visited (`NextEdges`). The levels
themselves are finite induction: there are no more than vertices (`LastLevel`), and after
an empty one no vertex is found (`EmptyLevel`), so the end of the loop is the end of the
search. The same induction shows what the verifier's serial search computes
(`SerialSearchCorrect`), whence it accepts exactly the breadth-first trees.

**Memory.** The invariant sorts the pointers (`Shape`): an array's is null or names a
block of elements; a graph has none, or an index over its neighbours for each direction,
two pairs or one pair twice as `directed_` says. No two objects share a block (`Apart`),
a block in use is somebody's, and objects that do not exist have none (`Owned`). Every
operation is one of a few changes - a block made, freed, replaced, or all pointers of an
object handed to another - and one lemma for each shows that the invariant stays.

Values are pointers followed, so a value can only change if a block on its way does. Two
lemmas (`SameValue`, `SameLists`) say that an object whose pointers and blocks are what
another's were has the other's value; with the invariant every step leaves all but one
or two objects so, because the blocks it writes are free or held by those
(`ArrayStepsSpareGraphs`, `GraphStepsSpareArrays`, `OtherGraphsStay`). What remains is
the value of the object the step is about. For arrays that needs `Whole`: the block has
as many elements as the capacity says, or there is none. For MakeCSRInPlace one lemma
(`InPlaceIs`) has the outcomes of realloc: shrunk where it is, moved, or, of an empty
list, freed.

**The Pin tool.** The invariant finds the program's stack in the tool's table: from
`globalFuncID`, the links `oldFuncID` visit the records of the open functions from the
inside out. Records of functions that are not open may point anywhere, because they are
overwritten on entry. An open function is in the table once; that programs do not
recurse is what makes the overwriting harmless.

The report is exact by an account (`Balance`): for each function and field, what
`parse_pin_log` makes of the trace so far, and what each thread has still to print, add
up to what was accessed; the same for the totals. An access adds to both sides, and a
line moves a number from a thread to the log. It arrives there because the thread holds
the lock from its line "Function:" on (`Place`), so that the parser is still at that
function. `Sum` is the number of elements of a set, one for each unit of each thread
(`SumStep`); that the parser takes one line after the other is `ParsedAppend`.

**Delta-stepping.** The invariant has the phases of the team's loop (`Phases`): while
one thread relaxes no other copies a bin, and the shared indexes change only when every
thread waits. `NothingLost` is inductive once it is known which entries of the frontier
are claimed by whom; the step that matters is the compare-and-swap, which makes edges of
the lowered vertex relaxable at the same moment as its thread takes it to a bin. An
entry dropped by `Filter` because its distance is below the current bin is dropped
rightly, and that is `Settled`: an edge that could still shorten a distance starts at or
above the current bin. `Settled` rests in turn on `NothingLost` when the team moves to
the next bin, which is the least with an entry, and on weights that are not negative
when a distance falls: the new one is no less than the bin, so no new improvement
starts below it. When all bins are empty nothing waits, so that no edge is relaxable;
together with `Reached` (every finite distance is at least that of some edge into the
vertex) this is ShortestDistances. For the verifier, Dijkstra's invariant (`Dijkstra` in
the proofs): vertices already expanded are no further away than any entry of the queue,
so that each is expanded once, and the entries popped and waiting are no more than the
edges out of them, and one. So the queue is empty when the oracle's sequence ends, its
result is shortest too (`OracleShortest`), and weights being positive there is but one
array of shortest distances (`ShortestIsUnique`).

**Sums.** Builder, Brandes and PageRank add up numbers over vertices, with recursive functions or
with the folds of the community modules. The proofs take such a sum for the size of a
set that has f[k] units for each k (`Units`): sums of disjoint sets, of fewer or smaller
numbers, or over one more vertex are then facts about finite sets, and a function that
satisfies the recursion of the fold counts these units (`SumsAreUnits`).

**PageRank.** For `pr_spmv.cc`, `After[k]` is what k iterations of the serial loop make of
the first scores. The invariant says that in an iteration the contributions are those of
`After[iter]`, that a vertex nobody holds or may still take has its score of
`After[iter + 1]`, and that what a thread has added up is the sum over the entries it has
passed (`Partial`); it is Reproducible at the barrier. In `pr.cc` a thread reads contributions of this
iteration and of the one before in an order the schedule decides. `Mixed` only says that
there are scores r the iteration began with, that every contribution read is one of r or
one of now, and that the error is the sum of all changes since r. That is enough to settle: a
score is off by what the contributions into it changed after they were read; added up
over all vertices and exchanged (`TotalExchange`), a vertex x counts once for each of its
out-edges, which is its own change again, up to what division by its degree rounds off.
So the total error of the result is at most 17/20 of the change of the last iteration,
plus the rounding (`Settled`). A kernel that stops by its tolerance therefore passes the
verifier's check. That a spoilt score does not pass it needs that no vertex is its own neighbour, so that
the spoilt vertex is off by all of it.

**The builder.** PrefixSums says what blocks of degrees are summed to, for every size of
a block, also when the last is shorter or there is none. RowsPrivate rests on an account
(`Account`): what is free in the list of a vertex is what is still owed to it, by the
edges nobody has taken and by the threads that have taken one and not yet reserved a
slot for this end of it. When MakeCSR begins, this is CountDegrees counting the ends and
PrefixSums laying the lists next to each other. A reservation moves the cursor and pays
a debt; a slot between the cursor and the end is empty, one that is reserved is empty
until its thread stores there (`Reserved`), so that no store overwrites another and
none is behind the end of its list.

**Betweenness.** `Distance` and `PathCount` are defined by walks, counted over the
entries of in-lists; `WaysAre` makes of that a sum over the vertices with an edge to y,
which is where IsSimple is used. The invariant (`Search`) says that the queue holds the visited
vertices, once each and level by level (`Queued`); that the level being expanded and those
above have the counts of the walks of their length, and that to the count of a vertex of
the level being built have been added those of exactly the vertices in `Counted`: the
successor bit is set and no thread is between setting it and adding (`Counts`). A thread
that adds reads a count nobody changes any more. Every bit belongs to an edge from one
level to the next (`Bits`), and every edge dealt with leads to a visited vertex and has
its bit if that is one level deeper (`Edges`): a thread whose compare-and-swap
fails finds the vertex visited in this level (Retest) or in an earlier one. So at the
barrier the count is a sum over all neighbours one level up (`LevelWhole`); all
others with an edge to the vertex have no walk of that length, because a walk of length l
leads to depth l at most (`Reached`). As each level has a vertex there are fewer levels than
vertices (`FewLevels`), and depths are within what `Distance` looks at.
With an empty queue `Bits` and `Edges` say that the bits are those of the edges on shortest
paths. BeginSource empties all of it, whatever source and trial came before.

**The verifier of betweenness.** Parallel kernel and serial verifier agree in each of
three parts, none of which compares the order they do things in.

* *The search.* `IsSearch` says of depths and counts that every edge of a visited vertex
  leads one level deeper at most, and that a count is the number of walks of the length
  of the depth. There is one such pair of arrays only (`SearchUnique`): a vertex with a
  walk has one of an edge fewer to a neighbour. The serial search makes it
  (`SerialIsSearch`), and by the invariant above so does the parallel one when its queue
  is empty.
* *The dependencies.* `AreShared` says that a dependency is the sum of shares of those of
  the successors, one level down, which fixes them level by level from the deepest
  (`DependenciesAre`). The kernel's invariant `AInv` has a part for each phase of it:
  the positions noted in `depth_index` are where levels begin (`Indexed`, and when the
  search is complete `Searched`); a vertex that is `Settled`, because it is in a level
  that is done or already taken, has the verifier's dependency and its score of this
  source, and every other still that of the sources before (`Accumulated`); the number all
  scores are divided by is the greatest of them (`Greatest`). Both sides round a division
  off alike, so that none needs to be exact.
* *The sources.* `coming["vsp"]` holds the draws the verifier has yet to make. Together with the
  sources it has picked in this trial they are the draws that led the kernel to its own
  (`Follows`), draws of vertices without neighbours included: `PInv` keeps that over the
  kernel's picks, the verifier's, and the end of a trial. Without `-v` nobody draws them.

So the two have the same sources and scores in every trial, and BCVerifier accepts
(`BCAccepts`).

**The scripts.** The files of a run directory are of the build its command list is
of (`OneBuild`), and a marked build directory is patched (`Marked`). Both are kept
because both trees are gone before SPEC sets up (`Progress`): what `build_one` copies is
of the build that made the directory. A second invariant counts (`CutInv`): a job copies
one file at a time, only that one may be short at no cost, and so there are never more
files cut short than `faults`; it needs IInv for the types, and IInv needs it to know that
the next file to copy is one of `Staged`. A script works on what it was asked for, and the
log being written has the commands before `cmd`, once each unless something failed
(`Measured`); so a row is complete when it is appended, and logs and rows of other
workloads stay. For the kernels, `OneScript` says for each tool that there is one script
all its logs and rows are of, and `Made` what the running one has done at its line: rows
are emptied before logs are removed, and none is written before all logs that are left
are its own. No bound on faults or scripts is used.

**Model-checked only.** All liveness (out of reach of the prover). Of the invariants:

* ScoresPrinted: scores are exact if every division is, which depends on `Unit` and the
  graph; there is no theorem for all constants, only for instances chosen for it. (That
  kernel and verifier agree, whatever is rounded off, is VerifierAgrees.)
  What is printed was sorted again for each vertex: SortSeq of the library chooses a
  permutation, and that there is one that sorts is an induction over lists.
* GraphCorrect and Searchable of Builder are true with `Beyond = {0}` only (section 3), and
  with TrianglesCounted, InputHonoured and RoundTrip compare whole graphs or files with
  folds over their lines.

The finding is a counterexample of TLC. The induction theorems of the library cannot be
instantiated, but induction is not out of reach: `LeastNat` gets it from a well-founded
order on finite sets, `Recursion` the sequence a recursive function is.

## 5. Not modelled

* Floating point: scores of PageRank and dependencies of Brandes are whole multiples of
  a small unit, rounded down; order of addition and NaN are not there.
* Characters: files are lines of numbers. The limit `generator.h:43` puts on the scale;
  options that matter to one kernel only.
* Which instructions Pin instruments; `all-routine-mt.cpp`, which no script runs.
* ZRay itself and the format of its log; statistics and layout of the report.
* The installation in `setup.sh` but for the Pintool, `coalesce-bandwidth.sh` and
  `combine-multirun-bandwidths.py` (text edited with vim, and geometric means), and the
  times that `run-ae.sh` notes: straight-line calls of programs and formatting.
* Objects that are copied: pvector and CSRGraph are only moved. Exceptions of `new`.
* Weak memory: the kernels are compiled for x86 and their racing accesses are aligned
  words; a compiler that keeps `comp[n]` in a register is not modelled.
* Files are cut short by `cp` only: compilers, patches and CSV rows make a whole file or
  line, or none. An `rm -rf` of one tree is one step: a kill in the middle of the first
  can leave the marker in a part of `build/`, but then `run/` is still whole, and it is
  all that is measured.
* Jobs that outlive their script. A kill ends everything a script has started. In bash
  without job control the background jobs of `build_one` ignore the interrupt of Ctrl-C and
  go on compiling and copying beside the next script, which is not modelled.

## 6. Plan

Done: all kernels with their verifiers, the driver, the queue and memory with their
abstract specifications, the builder with triangle counting, the way from files and
options to the graph and back, the Pin tool, all scripts that measure; proofs for eleven
components.

What could come next: *larger instances* where time allows: a third thread in BFS, a third trial.
