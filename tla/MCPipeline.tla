----------------------------- MODULE MCPipeline -----------------------------
(***************************************************************************)
(* Every edge list below as a file for one kernel; one list in every       *)
(* format, and files that cannot be used; graphs converted once or twice,  *)
(* serialized or as text, before a kernel reads them; generated graphs.    *)
(*                                                                         *)
(* The edge lists are over four vertices.  Those to be built in parallel   *)
(* have three edges, two of them between the same vertices, in one order   *)
(* (any thread takes any edge), with weights that make the two differ, and *)
(* there are two lists with triangles.  Those to be built in place are not *)
(* weighted, and have three to six edges.                                  *)
(***************************************************************************)
EXTENDS Pipeline, TLC

ThreadSymmetry == Permutations(Threads)

Pairs == Nodes \X Nodes

Weights == {<<2, 1, 2>>}

Rank(p) == NumNodes * p[1] + p[2]

EdgesOf(ps, ws) == [k \in DOMAIN ps |-> [u |-> ps[k][1], v |-> ps[k][2], w |-> ws[k]]]

ToLast(ps) == \E k \in DOMAIN ps : NumNodes - 1 \in {ps[k][1], ps[k][2]}

Triples == {ps \in Pairs \X Pairs \X Pairs :
              Rank(ps[1]) <= Rank(ps[2]) /\ Rank(ps[2]) <= Rank(ps[3]) /\ ToLast(ps)}

Ends(p) == {p[1], p[2]}

Parallel ==
  {[edges |-> EdgesOf(ps, ws), symmetrize |-> s, in_place |-> FALSE] :
     ps \in {qs \in Triples : Cardinality({Ends(qs[1]), Ends(qs[2]), Ends(qs[3])}) < 3}, ws \in Weights, s \in BOOLEAN}

\* Two triangles that share an edge; a triangle with a duplicate and a loop.
Diamond == <<<<0, 1>>, <<2, 0>>, <<1, 2>>, <<3, 1>>, <<2, 3>>>>
Tailed  == <<<<0, 1>>, <<1, 0>>, <<1, 2>>, <<0, 2>>, <<3, 3>>>>

Ones == [k \in 1 .. 6 |-> 1]

InPlaceLists ==
  {ps \in Pairs \X Pairs \X Pairs \X Pairs :
     /\ \A k \in 1 .. 3 : Rank(ps[k]) < Rank(ps[k+1])
     /\ \A k \in 1 .. 4 : ps[k][1] # ps[k][2]
     /\ ToLast(ps)}

Complete == <<<<0, 1>>, <<0, 2>>, <<0, 3>>, <<1, 2>>, <<1, 3>>, <<2, 3>>>>

MCInputs ==
  Parallel
    \cup {[edges |-> EdgesOf(ps, Ones), symmetrize |-> TRUE, in_place |-> FALSE] :
            ps \in {Diamond, Tailed}}
    \cup {[edges |-> EdgesOf(ps, Ones), symmetrize |-> s, in_place |-> TRUE] :
            ps \in Triples \cup {Diamond, Tailed, Complete} \cup InPlaceLists, s \in BOOLEAN}

-----------------------------------------------------------------------------
Line(tag, nums) == [tag |-> tag, words |-> <<>>, nums |-> nums, blank |-> TRUE]
Lines(tag, es, Nums(_)) == [k \in DOMAIN es |-> Line(tag, Nums(es[k]))]

\* What an author writes for the edges es.
AsEL(es)  == Lines("", es, LAMBDA d : <<d.u, d.v>>)
AsWEL(es) == Lines("", es, LAMBDA d : <<d.u, d.v, d.w>>)
AsGR(es)  == <<Line("p", <<NumNodes, Len(es)>>)>>
               \o Lines("a", es, LAMBDA d : <<d.u + 1, d.v + 1, d.w>>)
AsMTX(es, field, symmetry, columns) ==
  <<[tag |-> "%", words |-> <<"%%MatrixMarket", "matrix", "coordinate", field, symmetry>>,
     nums |-> <<>>, blank |-> TRUE],
    Line("%", <<>>), Line("", <<NumNodes, columns, Len(es)>>)>>
    \o Lines("", es, LAMBDA d : IF field = "pattern" THEN <<d.u + 1, d.v + 1>>
                                ELSE <<d.u + 1, d.v + 1, d.w>>)
\* The edges of one vertex stand in one line; es is in the order of the sources.
AsMetis(es, fmt) ==
  LET of(n) == SelectSeq(es, LAMBDA d : d.u = n)
      line(ds) == IF fmt = 1
                   THEN [k \in 1 .. (2 * Len(ds)) |->
                           IF k % 2 = 1 THEN ds[(k + 1) \div 2].v + 1 ELSE ds[k \div 2].w]
                   ELSE [k \in DOMAIN ds |-> ds[k].v + 1]
  IN  <<Line("%", <<>>), Line("", IF fmt = 0 THEN <<NumNodes, Len(es)>>
                                  ELSE <<NumNodes, Len(es), fmt>>)>>
        \o [p \in 1 .. NumNodes |-> Line("", line(of(p - 1)))]

F(name) == [opt |-> "f", file |-> name]
B(name) == [opt |-> "b", file |-> name]
E(name) == [opt |-> "e", file |-> name]
S == [opt |-> "s"]
M == [opt |-> "m"]
W == [opt |-> "w"]
G(scale) == [opt |-> "g", n |-> scale]
U(scale) == [opt |-> "u", n |-> scale]
K(degree) == [opt |-> "k", n |-> degree]

Run(kernel, args) == [program |-> kernel, args |-> args]

Job(es, hasWeights, name, content, runs) ==
  [edges |-> es, both |-> FALSE, weighted |-> hasWeights, usable |-> TRUE,
   files |-> [f \in {name} |-> content], runs |-> runs]

List  == <<"list", ".el">>
WList == <<"list", ".wel">>

\* The inputs of the builder: those with weights for sssp, the others for tc.
OneKernel ==
  {LET options == (IF i.symmetrize THEN <<S>> ELSE <<>>) \o (IF i.in_place THEN <<M>> ELSE <<>>)
   IN  IF \E k \in DOMAIN i.edges : i.edges[k].w # 1
       THEN Job(i.edges, TRUE, WList, AsWEL(i.edges), <<Run("sssp", <<F(WList)>> \o options)>>)
       ELSE Job(i.edges, FALSE, List, AsEL(i.edges), <<Run("tc", <<F(List)>> \o options)>>) :
     i \in Inputs}

Sample == EdgesOf(<<<<0, 1>>, <<1, 2>>, <<3, 1>>>>, <<5, 2, 7>>)

File(suffix) == <<"sample", suffix>>

\* The sample as the input of one program, with weights and without.
InFormat(suffix, content, hasWeights, both, usable) ==
  {[Job(Sample, hasWeights, File(suffix), content, <<Run(kernel, <<F(File(suffix))>>)>>)
      EXCEPT !.both = both, !.usable = usable] : kernel \in {"tc", "sssp"}}

Formats ==
  UNION {InFormat(".el", AsEL(Sample), FALSE, FALSE, TRUE),
         InFormat(".wel", AsWEL(Sample), TRUE, FALSE, TRUE),
         InFormat(".gr", AsGR(Sample), TRUE, FALSE, TRUE),
         InFormat(".graph", AsMetis(Sample, 0), FALSE, FALSE, TRUE),
         InFormat(".graph", AsMetis(Sample, 1), TRUE, FALSE, TRUE),
         InFormat(".graph", AsMetis(Sample, 11), TRUE, FALSE, FALSE),
         InFormat(".mtx", AsMTX(Sample, "pattern", "general", NumNodes), FALSE, FALSE, TRUE),
         InFormat(".mtx", AsMTX(Sample, "integer", "symmetric", NumNodes), TRUE, TRUE, TRUE),
         InFormat(".mtx", AsMTX(Sample, "complex", "general", NumNodes), TRUE, FALSE, FALSE),
         InFormat(".mtx", AsMTX(Sample, "real", "hermitian", NumNodes), TRUE, FALSE, FALSE),
         InFormat(".mtx", AsMTX(Sample, "real", "general", NumNodes + 1), TRUE, FALSE, FALSE),
         InFormat(".txt", AsEL(Sample), FALSE, FALSE, FALSE),
         InFormat("", AsEL(Sample), FALSE, FALSE, FALSE)}

Single(runs, usable) ==
  [Job(Sample, TRUE, WList, AsWEL(Sample), runs) EXCEPT !.usable = usable]

\* Programs that do not get as far as a graph, or not with this file.
Refused ==
  {Single(<<Run("tc", <<F(<<"absent", ".el">>)>>)>>, FALSE),
   Single(<<Run("tc", <<F(<<"absent", ".sg">>)>>)>>, FALSE),
   Single(<<Run("sssp", <<F(<<"absent", ".sg">>)>>)>>, FALSE),
   Single(<<Run("sssp", <<F(WList), M>>)>>, FALSE),
   Single(<<Run("tc", <<F(NoName)>>)>>, FALSE),
   Single(<<Run("tc", <<G(2)>>)>>, FALSE),
   Single(<<Run("tc", <<[opt |-> "h"], F(WList)>>)>>, FALSE),
   Single(<<Run("converter", <<F(WList)>>)>>, TRUE)}

Sg  == <<"graph", ".sg">>
Wsg == <<"graph", ".wsg">>
El  == <<"graph", ".el">>
Wel == <<"graph", ".wel">>

Options == {<<>>, <<S>>}

Converted ==
  {Single(<<Run("converter", <<F(WList), B(Sg)>> \o o), Run("tc", <<F(Sg)>>)>>, TRUE) : o \in Options}
  \cup {Single(<<Run("converter", <<F(WList), W, B(Wsg)>> \o o), Run("sssp", <<F(Wsg)>>)>>, TRUE) : o \in Options}
  \cup {Single(<<Run("converter", <<F(WList), E(El)>> \o o), Run("tc", <<F(El), S>>)>>, TRUE) : o \in Options}
  \cup {Single(<<Run("converter", <<F(WList), W, E(Wel)>>), Run("sssp", <<F(Wel)>> \o o)>>, TRUE) : o \in Options}
  \cup {Job(EdgesOf(Diamond, Ones), FALSE, List, AsEL(EdgesOf(Diamond, Ones)),
             <<Run("converter", <<F(List), S, M, B(Sg)>>), Run("tc", <<F(Sg)>>)>>)}
  \cup {Single(<<Run("converter", <<F(WList), M, B(Sg)>>), Run("converter", <<F(Sg), E(El)>>),
                 Run("converter", <<F(El), W, B(Wsg)>>), Run("sssp", <<F(Wsg)>>)>>, TRUE)}

\* As in bench.mk, except that no file name has to be given there.
Generated ==
  {Single(<<Run("converter", <<F(NoName), g, K(1), B(Sg)>>),
            Run("converter", <<F(NoName), g, K(1), W, B(Wsg)>>),
            Run("sssp", <<F(Wsg)>>)>>, TRUE) : g \in {G(2), U(2)}}

MCJobs == OneKernel \cup Formats \cup Refused \cup Converted \cup Generated

MCEngine(b, k) == (11 * b + 7 * k + 3 * k * k) % 16
MCPermutation == [n \in Nodes |-> (n + 1) % NumNodes]
=============================================================================
