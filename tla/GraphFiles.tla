----------------------------- MODULE GraphFiles -----------------------------
(***************************************************************************)
(* The files a graph is read from and written to (reader.h, writer.h).  A  *)
(* text file is a sequence of lines, and a line a record [tag, words,      *)
(* nums, blank]: the character that marks a comment or an arc, the words   *)
(* of a header, its numbers, and whether blanks follow them.  A file name  *)
(* is a pair of a stem and a suffix.                                       *)
(*                                                                         *)
(* A reader gives the code the program exits with (0: it goes on), the     *)
(* edges, and needs_weights: whether a weighted program has to make up     *)
(* weights.  In a program without weights every edge has weight 1, as has  *)
(* a neighbour that is read without one.                                   *)
(***************************************************************************)
EXTENDS EdgeList
LOCAL INSTANCE SequencesExt

NoName == <<"", "">>
GetSuffix(name) == name[2]

Fail(c) == [code |-> c, el |-> <<>>, needs_weights |-> FALSE]
Edges(list, needs) == [code |-> 0, el |-> list, needs_weights |-> needs]

EdgeOf(weighted, x, y, w) == [u |-> x, v |-> y, w |-> IF weighted THEN w ELSE 1]

Numbers(file) == FlattenSeq([k \in DOMAIN file |-> file[k].nums])

ReadInEL(file) ==
  LET n == Numbers(file)
  IN  [k \in 1 .. (Len(n) \div 2) |-> EdgeOf(FALSE, n[2 * k - 1], n[2 * k], 1)]

ReadInWEL(file, weighted) ==
  LET n == Numbers(file)
  IN  [k \in 1 .. (Len(n) \div 3) |->
         EdgeOf(weighted, n[3 * k - 2], n[3 * k - 1], n[3 * k])]

\* Vertices are numbered from 1 in the formats that follow.
ReadInGR(file, weighted) ==
  LET arcs == SelectSeq(file, LAMBDA l : l.tag = "a")
  IN  [k \in DOMAIN arcs |-> EdgeOf(weighted, arcs[k].nums[1] - 1, arcs[k].nums[2] - 1,
                                    arcs[k].nums[3])]

NotComment(file) == SelectSeq(file, LAMBDA l : l.tag # "%")

(***************************************************************************)
(* METIS: a header with the number of vertices and perhaps a format, and a *)
(* line of neighbours for each vertex.  The loop over a line ends when     *)
(* "in >> v >> std::ws" fails, and with the std::ws of libstdc++ since GCC *)
(* 11 it fails for the last number if nothing follows it: that neighbour   *)
(* is not added.  Files whose lines end with a blank are read in full.     *)
(***************************************************************************)
ReadInMetis(file, weighted) ==
  LET lines  == NotComment(file)
      header == lines[1].nums
      fmt    == IF Len(header) > 2 THEN header[3] ELSE 0
      width  == IF fmt = 1 THEN 2 ELSE 1
      lineOf(x) == IF x + 2 <= Len(lines) THEN lines[x + 2] ELSE [nums |-> <<>>, blank |-> TRUE]
      added(l) == Len(l.nums) \div width - (IF l.blank THEN 0 ELSE 1)
      edges(x) == [k \in 1 .. added(lineOf(x)) |->
                     EdgeOf(weighted /\ fmt = 1, x, lineOf(x).nums[width * (k - 1) + 1] - 1,
                            lineOf(x).nums[width * k])]
  IN  IF fmt \notin {0, 1, 100} THEN Fail(-20)
      ELSE Edges(FlattenSeq([p \in 1 .. header[1] |-> edges(p - 1)]), fmt # 1)

\* An entry of a symmetric matrix is an edge in both directions.
MTXEdges(entries, read_weights, undirected, weighted) ==
  LET edge(l, p, q) == EdgeOf(weighted /\ read_weights, l.nums[p] - 1, l.nums[q] - 1,
                              l.nums[Len(l.nums)])
  IN  FlattenSeq([k \in DOMAIN entries |->
        IF undirected THEN <<edge(entries[k], 1, 2), edge(entries[k], 2, 1)>>
        ELSE <<edge(entries[k], 1, 2)>>])

(***************************************************************************)
(* Matrix Market: banner, comments, size, one entry per line.  A skew-     *)
(* symmetric matrix is taken as it stands, like a general one.             *)
(***************************************************************************)
ReadInMTX(file, weighted) ==
  LET banner  == file[1].words  \* start, object, format, field, symmetry
      body    == NotComment(Tail(file))
      size    == Head(body).nums
      entries == SelectSeq(Tail(body), LAMBDA l : l.nums # <<>>)
      read_weights == banner[4] \in {"real", "double", "integer"}
  IN  IF banner[1] # "%%MatrixMarket" THEN Fail(-21)
      ELSE IF <<banner[2], banner[3]>> # <<"matrix", "coordinate">> THEN Fail(-22)
      ELSE IF banner[4] = "complex" THEN Fail(-23)
      ELSE IF banner[4] # "pattern" /\ ~read_weights THEN Fail(-24)
      ELSE IF banner[5] \notin {"symmetric", "general", "skew-symmetric"} THEN Fail(-25)
      ELSE IF size[1] # size[2] THEN Fail(-26)
      ELSE Edges(MTXEdges(entries, read_weights, banner[5] = "symmetric", weighted),
                 ~read_weights)

\* Mutant of ReadFile: needs_weights stays as the builder has set it.
ReadFileKeepsFlag(fs, name, weighted) ==
  IF GetSuffix(name) = "" THEN Fail(-1)
  ELSE IF name \notin DOMAIN fs THEN Fail(-2)
  ELSE CASE GetSuffix(name) = ".el"    -> Edges(ReadInEL(fs[name]), weighted)
         [] GetSuffix(name) = ".wel"   -> Edges(ReadInWEL(fs[name], weighted), weighted)
         [] GetSuffix(name) = ".gr"    -> Edges(ReadInGR(fs[name], weighted), weighted)
         [] GetSuffix(name) = ".graph" -> ReadInMetis(fs[name], weighted)
         [] GetSuffix(name) = ".mtx"   -> ReadInMTX(fs[name], weighted)
         [] OTHER -> Fail(-3)

\* fs maps the names of the files there are to what is in them.
ReadFile(fs, name, weighted) ==
  IF GetSuffix(name) = "" THEN Fail(-1)
  ELSE IF name \notin DOMAIN fs THEN Fail(-2)
  ELSE CASE GetSuffix(name) = ".el"    -> Edges(ReadInEL(fs[name]), weighted)
         [] GetSuffix(name) = ".wel"   -> Edges(ReadInWEL(fs[name], weighted), FALSE)
         [] GetSuffix(name) = ".gr"    -> Edges(ReadInGR(fs[name], weighted), FALSE)
         [] GetSuffix(name) = ".graph" -> ReadInMetis(fs[name], weighted)
         [] GetSuffix(name) = ".mtx"   -> ReadInMTX(fs[name], weighted)
         [] OTHER -> Fail(-3)

-----------------------------------------------------------------------------
(***************************************************************************)
(* Serialized graphs: a header, and for each direction the offsets and the *)
(* neighbours, an entry of which is one word, or two in a weighted         *)
(* program.  Nothing in the file says which.                               *)
(***************************************************************************)
Words(lists, weights, weighted) ==
  FlattenSeq([p \in 1 .. NumNodes |->
    FlattenSeq([k \in DOMAIN lists[p - 1] |->
      IF weighted THEN <<lists[p - 1][k], weights[p - 1][k]>> ELSE <<lists[p - 1][k]>>])])

VertexOffsets(lists) ==
  [n \in 0 .. NumNodes |-> SumFrom([x \in Nodes |-> Len(lists[x])], 0, n)]

\* Mutant of WriteSerializedGraph: the offsets of the out-lists for both.
WriteSerializedGraphOutOffsets(g, weighted) ==
  LET first(words) == SubSeq(words, 1, (IF weighted THEN 2 ELSE 1) * num_edges_directed(g))
  IN  [directed |-> g.directed, num_edges |-> num_edges_directed(g), num_nodes |-> NumNodes,
       offsets     |-> VertexOffsets(g.out),
       neighs      |-> first(Words(g.out, g.weight, weighted)),
       inv_offsets |-> VertexOffsets(g.out),
       inv_neighs  |-> first(Words(g.inv, g.inv_weight, weighted))]

WriteSerializedGraph(g, weighted) ==
  LET first(words) == SubSeq(words, 1, (IF weighted THEN 2 ELSE 1) * num_edges_directed(g))
      inverse == g.directed
  IN  [directed |-> g.directed, num_edges |-> num_edges_directed(g), num_nodes |-> NumNodes,
       offsets     |-> VertexOffsets(g.out),
       neighs      |-> first(Words(g.out, g.weight, weighted)),
       inv_offsets |-> IF inverse THEN VertexOffsets(g.inv) ELSE <<>>,
       inv_neighs  |-> IF inverse THEN first(Words(g.inv, g.inv_weight, weighted)) ELSE <<>>]

\* The CSR that GenIndex makes of the offsets and the words read.
ReadCSR(index, words, num_edges, weighted) ==
  [index  |-> index,
   neighs |-> [k \in 0 .. (num_edges - 1) |->
                 IF weighted THEN [v |-> words[2 * k + 1], w |-> words[2 * k + 2]]
                 ELSE [v |-> words[k + 1], w |-> 1]]]

ReadSerializedGraph(fs, name, weighted) ==
  LET file == fs[name]
      out  == ReadCSR(file.offsets, file.neighs, file.num_edges, weighted)
      inv  == IF file.directed
              THEN ReadCSR(file.inv_offsets, file.inv_neighs, file.num_edges, weighted)
              ELSE out
  IN  IF weighted # (GetSuffix(name) = ".wsg") THEN [code |-> -5]
      ELSE IF name \notin DOMAIN fs THEN [code |-> -6]
      ELSE [code |-> 0, graph |-> ToGraph(file.directed, out, inv)]

WriteEL(g, weighted) ==
  LET line(x, k) == [tag |-> "", words |-> <<>>, blank |-> FALSE,
                     nums |-> IF weighted THEN <<x, g.out[x][k], g.weight[x][k]>>
                              ELSE <<x, g.out[x][k]>>]
  IN  FlattenSeq([p \in 1 .. NumNodes |-> [k \in DOMAIN g.out[p - 1] |-> line(p - 1, k)]])
=============================================================================
