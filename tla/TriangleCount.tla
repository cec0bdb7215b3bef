--------------------------- MODULE TriangleCount ---------------------------
(***************************************************************************)
(* Triangle counting (tc.cc) on the graph the builder made: OrderedCount,  *)
(* on the graph itself or on the one RelabelByDegree makes of it.  The     *)
(* counting loop shares nothing but the reduction of total, so that the    *)
(* count is one step.  WorthRelabelling samples degrees: either answer is  *)
(* possible here.                                                          *)
(***************************************************************************)
EXTENDS Builder, Verifiers

VARIABLE total  \* the number of triangles, -1 before it is known

vars == <<builder_vars, total>>

TCInit == Init /\ total = -1

(***************************************************************************)
(* The vertices by falling degree, those of one degree by falling number:  *)
(* new_ids[n] is the place of n.  The list of n moves there, its entries   *)
(* are renamed and sorted again.                                           *)
(***************************************************************************)
new_ids(g) ==
  [n \in Nodes |-> Cardinality({m \in Nodes :
                     \/ out_degree(g, m) > out_degree(g, n)
                     \/ out_degree(g, m) = out_degree(g, n) /\ m > n})]

RelabelByDegree(g) ==
  LET ids == new_ids(g)
      old(x) == CHOOSE n \in Nodes : ids[n] = x
      adj == [x \in Nodes |->
                SortBy([k \in DOMAIN g.out[old(x)] |-> ids[g.out[old(x)][k]]], <)]
  IN  [g EXCEPT !.out = adj, !.inv = adj]

\* Where it stops; past the end if nothing stops it.
FirstNotBelow(list, start, w) ==
  Min({k \in start .. Len(list) : list[k] >= w} \cup {Len(list) + 1})

\* The position of it after each entry w of inner.
Walk(outer, inner) ==
  LET it[j \in 0 .. Len(inner)] ==
        IF j = 0 THEN 1 ELSE FirstNotBelow(outer, it[j-1], inner[j])
  IN  it

\* How many positions there are before the loop over list breaks.
UpTo(list, x) == Cardinality({k \in DOMAIN list : \A j \in 1 .. k : list[j] <= x})

\* Mutant of CommonBelow: the loop over w does not stop at v.
CommonUnordered(outer, inner, v) ==
  LET it == Walk(outer, inner)
  IN  Cardinality({j \in 1 .. Len(inner) : it[j] <= Len(outer) /\ outer[it[j]] = inner[j]})

\* The loop over w: both lists are walked once, while w is not above v.
CommonBelow(outer, inner, v) ==
  LET it == Walk(outer, inner)
  IN  Cardinality({j \in 1 .. UpTo(inner, v) : it[j] <= Len(outer) /\ outer[it[j]] = inner[j]})

OrderedCount(g) ==
  SumFrom([u \in Nodes |->
             SumFrom([k \in DOMAIN g.out[u] |->
                        CommonBelow(g.out[u], g.out[g.out[u][k]], g.out[u][k])],
                     1, UpTo(g.out[u], u) + 1)],
          0, NumNodes)

\* main refuses a directed graph.
Hybrid ==
  /\ phase \in {"built", "read"} /\ ~graph.directed /\ total = -1
  /\ \E worth \in BOOLEAN :
       total' = OrderedCount(IF worth THEN RelabelByDegree(graph) ELSE graph)
  /\ UNCHANGED builder_vars

Next == \/ MakeGraphFromEL /\ UNCHANGED total
        \/ Hybrid

TCSpec == TCInit /\ [][Next]_vars

-----------------------------------------------------------------------------
(***************************************************************************)
(* The walk of OrderedCount (tc.cc:64) tests no end: on the graph it was   *)
(* given, and on the relabelled one, it is v that stops it, which is in    *)
(* the list of u and not below any w.                                      *)
(***************************************************************************)
WalksInside(g) ==
  \A u \in Nodes : \A k \in 1 .. UpTo(g.out[u], u) :
    LET v == g.out[u][k]
    IN  \A j \in 1 .. UpTo(g.out[v], v) : Walk(g.out[u], g.out[v])[j] <= Len(g.out[u])

(***************************************************************************)
(* The count, relabelled or not, is the number of sets of three vertices   *)
(* that have an edge between any two: each triangle once, whatever loops   *)
(* and duplicates the edge list had; TCVerifier comes to the same number,  *)
(* and no walk leaves its list.                                            *)
(***************************************************************************)
TrianglesCounted ==
  total # -1 =>
    /\ total = Cardinality({S \in SUBSET Nodes :
                 /\ Cardinality(S) = 3
                 /\ \A x, y \in S : x # y => HasOutEdge(graph, x, y)})
    /\ TCVerifier(graph, total)
    /\ WalksInside(graph) /\ WalksInside(RelabelByDegree(graph))
=============================================================================
