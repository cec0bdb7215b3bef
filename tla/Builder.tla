------------------------------ MODULE Builder ------------------------------
(***************************************************************************)
(* From an edge list to the graph the kernels run on (BuilderBase in       *)
(* builder.h).                                                             *)
(*                                                                         *)
(* MakeCSR places the edges in a parallel loop: a thread reserves a slot   *)
(* of a list by fetch_and_add on its offset and stores the neighbour there *)
(* later.  SquishGraph then sorts every list and drops loops and           *)
(* duplicates.  With -m, MakeCSRInPlace, which is sequential, builds the   *)
(* lists over the memory of the edge list itself, and then finds and adds  *)
(* the missing inverse edges within those lists.                           *)
(*                                                                         *)
(* While the room for the inverse edges is made, the code reads one        *)
(* element beyond the array invs_needed (line 252 with n = num_nodes_):    *)
(* Beyond is what that memory may hold.                                    *)
(***************************************************************************)
EXTENDS EdgeList

CONSTANTS
  Threads,  \* the OpenMP team
  Inputs,   \* records [edges, symmetrize, in_place]: edge lists and options
  Beyond    \* values the memory beyond an array may hold

\* The vertices are those up to the largest in the list; -m excludes weights.
ASSUME InputsAssumption ==
  \A input \in Inputs :
    /\ input.symmetrize \in BOOLEAN /\ input.in_place \in BOOLEAN
    /\ input.edges \in Seq([u : Nodes, v : Nodes, w : Nat])
    /\ FindMaxNodeID(input.edges) + 1 = NumNodes
    /\ input.in_place => \A k \in DOMAIN input.edges : input.edges[k].w = 1

VARIABLES
  el, symmetrize, in_place,
  phase,          \* what the builder is doing
  offsets,        \* of the CSR being built
  csr,            \* the two CSRs: out and in
  todo,           \* positions of el no thread has taken yet
  pc, e, side, slot,  \* per thread: next step, edge, end of the edge, slot
  neighs,         \* -m: the memory of the edge list, then of the lists
  pos,            \* -m: the next edge, or the next slot to look at
  row,            \* -m: the vertex whose list is looked at
  indegrees, invs_needed,
  graph           \* the result

locals == <<pc, e, side, slot>>
in_place_vars == <<neighs, pos, row, indegrees, invs_needed>>
builder_vars == <<el, symmetrize, in_place, phase, offsets, csr, todo, locals, in_place_vars, graph>>

Unset == [v |-> -1, w |-> 0]
NoEdge == [u |-> 0, v |-> 0, w |-> 0]
Empty == [n \in Nodes |-> <<>>]
NoGraph == [directed |-> FALSE, out |-> Empty, inv |-> Empty, weight |-> Empty, inv_weight |-> Empty]
NoCSR == [index |-> [n \in 0 .. NumNodes |-> 0], neighs |-> <<>>]

\* The builder's variables as the constructor, and the process's memory, leave them.
Fresh ==
  /\ offsets = [n \in 0 .. NumNodes |-> 0]
  /\ csr = [out |-> NoCSR, in |-> NoCSR]
  /\ todo = {}
  /\ pc = [t \in Threads |-> "idle"]
  /\ e = [t \in Threads |-> NoEdge]
  /\ side = [t \in Threads |-> "u"]
  /\ slot = [t \in Threads |-> 0]
  /\ neighs = <<>>
  /\ pos = 0 /\ row = 0
  /\ indegrees = [n \in Nodes |-> 0]
  /\ invs_needed = [n \in Nodes |-> 0]
  /\ graph = NoGraph

Init ==
  /\ \E input \in Inputs : /\ el = input.edges
                           /\ symmetrize = input.symmetrize
                           /\ in_place = input.in_place
  /\ phase = "start"
  /\ Fresh

\* Another program starts, with a builder of its own.
Restart ==
  /\ phase' = "none" /\ el' = <<>> /\ symmetrize' = FALSE /\ in_place' = FALSE
  /\ offsets' = [n \in 0 .. NumNodes |-> 0]
  /\ csr' = [out |-> NoCSR, in |-> NoCSR]
  /\ neighs' = <<>>
  /\ pos' = 0 /\ row' = 0
  /\ indegrees' = [n \in Nodes |-> 0]
  /\ invs_needed' = [n \in Nodes |-> 0]
  /\ graph' = NoGraph
  /\ UNCHANGED <<todo, locals>>

-----------------------------------------------------------------------------
\* MakeCSR up to its parallel loop, for the lists of outgoing or incoming edges.
MakeCSR(dir) ==
  LET degrees == CountDegrees(el, symmetrize, in_place, dir = "in")
      sums    == ParallelPrefixSum(degrees)
  IN  /\ offsets' = sums
      /\ csr' = [csr EXCEPT ![dir] = [index  |-> sums,
                                      neighs |-> [k \in 0 .. (sums[NumNodes] - 1) |-> Unset]]]
      /\ todo' = DOMAIN el
      /\ phase' = dir

Start ==
  /\ phase = "start" /\ ~in_place
  /\ MakeCSR("out")
  /\ UNCHANGED <<el, symmetrize, in_place, locals, in_place_vars, graph>>

Claim(t) ==
  /\ phase \in {"out", "in"} /\ pc[t] = "idle"
  /\ \E k \in todo : /\ todo' = todo \ {k}
                     /\ e' = [e EXCEPT ![t] = el[k]]
  /\ side' = [side EXCEPT ![t] = IF symmetrize \/ phase = "out" THEN "u" ELSE "v"]
  /\ pc' = [pc EXCEPT ![t] = "reserve"]
  /\ UNCHANGED <<el, symmetrize, in_place, phase, offsets, csr, slot, in_place_vars, graph>>

\* fetch_and_add(offsets[..], 1)
Reserve(t) ==
  /\ pc[t] = "reserve"
  /\ LET x == e[t][side[t]]
     IN  /\ slot' = [slot EXCEPT ![t] = offsets[x]]
         /\ offsets' = [offsets EXCEPT ![x] = @ + 1]
  /\ pc' = [pc EXCEPT ![t] = "store"]
  /\ UNCHANGED <<el, symmetrize, in_place, phase, csr, todo, e, side, in_place_vars, graph>>

OtherEnd(t) == [v |-> e[t][IF side[t] = "u" THEN "v" ELSE "u"], w |-> e[t].w]

EndIteration(t) ==
  /\ pc' = [pc EXCEPT ![t] = "idle"]
  /\ e' = [e EXCEPT ![t] = NoEdge]
  /\ side' = [side EXCEPT ![t] = "u"]

\* The store into the slot; a symmetrized edge has its other end still to place.
Store(t) ==
  /\ pc[t] = "store"
  /\ csr' = [csr EXCEPT ![phase].neighs[slot[t]] = OtherEnd(t)]
  /\ slot' = [slot EXCEPT ![t] = 0]
  /\ IF symmetrize /\ side[t] = "u"
     THEN /\ pc' = [pc EXCEPT ![t] = "reserve"]
          /\ side' = [side EXCEPT ![t] = "v"]
          /\ UNCHANGED e
     ELSE EndIteration(t)
  /\ UNCHANGED <<el, symmetrize, in_place, phase, offsets, todo, in_place_vars, graph>>

LoopDone == todo = {} /\ \A t \in Threads : pc[t] = "idle"

\* MakeGraphFromEL: the incoming lists are made after the outgoing ones.
Invert ==
  /\ phase = "out" /\ ~symmetrize /\ LoopDone
  /\ MakeCSR("in")
  /\ UNCHANGED <<el, symmetrize, in_place, locals, in_place_vars, graph>>

SquishGraph ==
  /\ LoopDone /\ phase = (IF symmetrize THEN "out" ELSE "in")
  /\ LET out == SquishCSR(csr.out)
         inv == IF symmetrize THEN out ELSE SquishCSR(csr.in)
     IN  /\ csr' = [out |-> out, in |-> inv]
         /\ graph' = ToGraph(~symmetrize, out, inv)
  /\ phase' = "built"
  /\ UNCHANGED <<el, symmetrize, in_place, offsets, todo, locals, in_place_vars>>

-----------------------------------------------------------------------------
\* MakeCSRInPlace: the list is sorted and squished, its memory taken over.
Preprocess ==
  /\ phase = "start" /\ in_place
  /\ el' = SquishEdges(el)
  /\ offsets' = ParallelPrefixSum(CountDegrees(el', symmetrize, in_place, FALSE))
  /\ indegrees' = CountDegrees(el', symmetrize, in_place, TRUE)
  /\ neighs' = [k \in 0 .. (2 * Len(el') - 1) |->
                  IF k % 2 = 0 THEN el'[(k \div 2) + 1].u ELSE el'[(k \div 2) + 1].v]
  /\ phase' = "overwrite"
  /\ UNCHANGED <<symmetrize, in_place, csr, todo, locals, pos, row, invs_needed, graph>>

\* Edge number pos is read from the memory its neighbours are written to.
Overwrite ==
  /\ phase = "overwrite" /\ pos < Len(el)
  /\ LET x == neighs[2 * pos]
         y == neighs[2 * pos + 1]
     IN  /\ neighs' = [neighs EXCEPT ![offsets[x]] = y]
         /\ offsets' = [offsets EXCEPT ![x] = @ + 1]
  /\ pos' = pos + 1
  /\ UNCHANGED <<el, symmetrize, in_place, phase, csr, todo, locals, row, indegrees,
                 invs_needed, graph>>

\* "revert offsets by shifting them down"
Shifted == [n \in 0 .. NumNodes |-> IF n # 0 THEN offsets[n - 1] ELSE 0]

EntriesOf(index, words) ==
  [index |-> index, neighs |-> [k \in 0 .. (index[NumNodes] - 1) |-> [v |-> words[k], w |-> 1]]]

\* Lines 222-234: u runs up, so a list of sources comes out sorted.
InverseOf(out) ==
  LET inoffsets == ParallelPrefixSum(indegrees)
      sources(x) == {n \in Nodes : \E k \in DOMAIN Row(out, n) : Row(out, n)[k].v = x}
      owner(k) == CHOOSE x \in Nodes : inoffsets[x] <= k /\ k < inoffsets[x+1]
      nth(S, p) == CHOOSE n \in S : Cardinality({m \in S : m <= n}) = p
  IN  EntriesOf(inoffsets,
                [k \in 0 .. (inoffsets[NumNodes] - 1) |->
                   nth(sources(owner(k)), k - inoffsets[owner(k)] + 1)])

FinishDirected ==
  /\ phase = "overwrite" /\ pos = Len(el) /\ ~symmetrize
  /\ offsets' = Shifted
  /\ LET out == EntriesOf(Shifted, neighs)
         inv == InverseOf(out)
     IN  /\ csr' = [out |-> out, in |-> inv]
         /\ graph' = ToGraph(TRUE, out, inv)
  /\ phase' = "built"
  /\ UNCHANGED <<el, symmetrize, in_place, todo, locals, in_place_vars>>

-----------------------------------------------------------------------------
\* std::binary_search for x in words[first .. last-1], which may not be sorted.
binary_search(words, first, last, x) ==
  LET lower_bound[lo \in Nat, len \in Nat] ==
        IF len = 0 THEN lo
        ELSE LET half == len \div 2
             IN  IF words[lo + half] < x
                 THEN lower_bound[lo + half + 1, len - half - 1]
                 ELSE lower_bound[lo, half]
      found == lower_bound[first, last - first]
  IN  found < last /\ words[found] = x

\* Step 1: how many edges into v have no inverse, given the lists at start.
InversesNeeded(start) ==
  [v \in Nodes |->
     Cardinality({u \in Nodes :
       /\ \E k \in start[u] .. (start[u+1] - 1) : neighs[k] = v
       /\ ~binary_search(neighs, start[v], start[v+1], u)})]

(***************************************************************************)
(* Step 2 spreads the lists, from the last backwards, to their new places: *)
(* slot k of n is filled from k - missing[n], where missing[n] is what is  *)
(* left of total_missing_inv.  No slot is read after it was written, as    *)
(* reads are never above the write.  The free slots at the start of each   *)
(* list keep whatever they held.                                           *)
(***************************************************************************)
Spread(start, needed, total_missing_inv, junk) ==
  LET missing(n) == total_missing_inv - SumFrom(needed, n + 1, NumNodes)
      owner(k)   == CHOOSE n \in Nodes : start[n] <= k /\ k < start[n+1]
      word(k)    == IF k \in DOMAIN neighs THEN neighs[k] ELSE junk
  IN  [k \in 0 .. (start[NumNodes] - 1) |->
         IF k >= start[owner(k)] + needed[owner(k)]
         THEN word(k - missing(owner(k)))
         ELSE word(k)]

\* Nothing is left of the list: realloc to size 0 gives no pointer, and the program exits.
ReallocFails ==
  /\ phase = "overwrite" /\ symmetrize /\ el = <<>>
  /\ phase' = "failed"
  /\ UNCHANGED <<el, symmetrize, in_place, offsets, csr, todo, locals, in_place_vars, graph>>

\* The shift of the offsets, Step 1, the sums of line 250 and Step 2.
MakeRoom ==
  /\ phase = "overwrite" /\ pos = Len(el) /\ symmetrize /\ el # <<>>
  /\ LET needed == InversesNeeded(Shifted)
         start  == [n \in 0 .. NumNodes |-> Shifted[n] + SumFrom(needed, 0, n)]
     IN  \E b \in Beyond :
           /\ invs_needed' = needed
           /\ offsets' = start
           /\ neighs' = Spread(start, needed, SumFrom(needed, 0, NumNodes) + b, b)
           /\ row' = 0
           /\ pos' = start[0] + needed[0]
  /\ phase' = "inverses"
  /\ UNCHANGED <<el, symmetrize, in_place, csr, todo, locals, indegrees, graph>>

\* Mutant of SearchFirst: the free slots are searched, too.
SearchFromStart(v) == offsets[v]

\* Where Step 3 begins to search the list of v: above its free slots.
SearchFirst(v) == offsets[v] + invs_needed[v]

\* Step 3, for slot pos in the list of row: its inverse goes below the others.
AddInverse ==
  /\ phase = "inverses" /\ row < NumNodes /\ pos < offsets[row + 1]
  /\ LET v == neighs[pos]
     IN  IF binary_search(neighs, SearchFirst(v), offsets[v+1], row)
         THEN UNCHANGED <<neighs, invs_needed>>
         ELSE /\ neighs' = [neighs EXCEPT ![offsets[v] + invs_needed[v] - 1] = row]
              /\ invs_needed' = [invs_needed EXCEPT ![v] = @ - 1]
  /\ pos' = pos + 1
  /\ UNCHANGED <<el, symmetrize, in_place, phase, offsets, csr, todo, locals, row,
                 indegrees, graph>>

NextRow ==
  /\ phase = "inverses" /\ row < NumNodes /\ pos >= offsets[row + 1]
  /\ row' = row + 1
  /\ pos' = IF row' < NumNodes THEN offsets[row'] + invs_needed[row'] ELSE 0
  /\ UNCHANGED <<el, symmetrize, in_place, phase, offsets, csr, todo, locals, neighs,
                 indegrees, invs_needed, graph>>

\* The lists are sorted and the graph is finished.
FinishSymmetrized ==
  /\ phase = "inverses" /\ row = NumNodes
  /\ LET filled == EntriesOf(offsets, neighs)
         owner(k) == CHOOSE n \in Nodes : offsets[n] <= k /\ k < offsets[n+1]
         out == [filled EXCEPT !.neighs =
                   [k \in DOMAIN @ |-> SortBy(Row(filled, owner(k)), NeighLess)
                                         [k - offsets[owner(k)] + 1]]]
     IN  /\ csr' = [out |-> out, in |-> out]
         /\ graph' = ToGraph(FALSE, out, out)
  /\ phase' = "built"
  /\ UNCHANGED <<el, symmetrize, in_place, offsets, todo, locals, in_place_vars>>

MakeCSRInPlace ==
  \/ Preprocess
  \/ Overwrite
  \/ FinishDirected
  \/ ReallocFails
  \/ MakeRoom
  \/ AddInverse
  \/ NextRow
  \/ FinishSymmetrized

MakeGraphFromEL ==
  \/ Start
  \/ \E t \in Threads : Claim(t) \/ Reserve(t) \/ Store(t)
  \/ Invert
  \/ SquishGraph
  \/ MakeCSRInPlace
Spec == Init /\ [][MakeGraphFromEL]_builder_vars

-----------------------------------------------------------------------------
(* Properties.                                                             *)

(***************************************************************************)
(* While MakeCSR places edges, a reserved slot lies in the list of the     *)
(* vertex it was reserved for, is still empty, and is reserved by nobody   *)
(* else: the counts of CountDegrees are exactly what the threads reserve.  *)
(***************************************************************************)
RowsPrivate ==
  \A t \in Threads : pc[t] = "store" =>
    LET x == e[t][side[t]]
    IN  /\ slot[t] \in csr[phase].index[x] .. (csr[phase].index[x+1] - 1)
        /\ csr[phase].neighs[slot[t]] = Unset
        /\ \A s \in Threads \ {t} : pc[s] = "store" => slot[s] # slot[t]

(***************************************************************************)
(* Step 3 searches lists that are being added to and are not sorted, which *)
(* std::binary_search does not need as long as what is below the searched  *)
(* vertex comes first and what is above it last: additions must all be     *)
(* below the vertex whose list is looked at.  What is read is inside, and  *)
(* has not been overwritten: a neighbour, or while edges are replaced by   *)
(* neighbours, an edge with a place for it.                                *)
(***************************************************************************)
Searchable ==
  /\ phase = "overwrite" /\ pos < Len(el) => offsets[neighs[2 * pos]] \in DOMAIN neighs
  /\ phase = "inverses" /\ row < NumNodes /\ pos < offsets[row + 1] =>
    LET v == neighs[pos]
    IN  v \in Nodes /\ \A j, k \in SearchFirst(v) .. (offsets[v+1] - 1) : j < k =>
          /\ neighs[k] < row => neighs[j] < row
          /\ neighs[j] > row => neighs[k] > row

\* The edges of the input between x and another vertex y, as the options say.
EdgesBetween(x, y) ==
  {k \in DOMAIN el : \/ el[k].u = x /\ el[k].v = y
                     \/ symmetrize /\ el[k].v = x /\ el[k].u = y}

LightestOf(K) == Min({el[k].w : k \in K})

\* A list holds each vertex with Between(y) # {} once, in order, at the lightest weight.
ListsExactly(list, weights, Between(_)) ==
  /\ \A k \in 1 .. (Len(list) - 1) : list[k] < list[k+1]
  /\ {list[k] : k \in DOMAIN list} = {y \in Nodes : Between(y) # {}}
  /\ \A k \in DOMAIN list : weights[k] = LightestOf(Between(list[k]))

(***************************************************************************)
(* Whatever the order of the edges, the threads' schedule and the way it   *)
(* is built, the graph has exactly the edges of the list (both ways when   *)
(* symmetrized), without loops, each once and with the lightest weight it  *)
(* came with, in sorted lists, and its inverse lists say the same.         *)
(***************************************************************************)
GraphCorrect ==
  phase = "built" =>
    /\ IsWGraph(graph)
    /\ graph.directed = ~symmetrize
    /\ \A x \in Nodes :
         /\ ListsExactly(graph.out[x], graph.weight[x],
                         LAMBDA y : IF x = y THEN {} ELSE EdgesBetween(x, y))
         /\ ListsExactly(graph.inv[x], graph.inv_weight[x],
                         LAMBDA y : IF x = y THEN {} ELSE EdgesBetween(y, x))
=============================================================================
