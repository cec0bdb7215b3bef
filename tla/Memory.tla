------------------------------- MODULE Memory -------------------------------
(***************************************************************************)
(* Where arrays and graphs live (pvector.h, graph.h, builder.h).           *)
(*                                                                         *)
(* A pvector owns one block of memory.  A CSRGraph owns a block of         *)
(* neighbours and a block of pointers into it for each direction; an       *)
(* undirected graph has one pair for both.  Objects are moved, never       *)
(* copied, a graph may be built over the memory of the edge list, and      *)
(* realloc may move a block before pointers into it are made.  Nothing but *)
(* null pointers and the flag directed_ says who has to free a block.      *)
(*                                                                         *)
(* Objects are created, used and destroyed in any order the language       *)
(* allows; an array that was leaked is only assigned to or destroyed.      *)
(***************************************************************************)
EXTENDS Integers, Sequences, FiniteSets

CONSTANTS
  Vectors, Graphs, Items, Junk, Absent, Gone, MaxLen,  \* as in Values
  Addr,       \* the blocks the allocator has: a bound
  Null,
  Fresh(_),   \* what the allocator may return, of the blocks that are free
  Room(_, _)  \* a bound: whether beside n objects that hold b blocks there may be another

ASSUME ObjectsAssumption == Vectors \cap Graphs = {} /\ MaxLen \in Nat
ASSUME AllocatorAssumption == Null \notin Addr /\ \A S \in SUBSET Addr : Fresh(S) \subseteq S

VARIABLES
  heap,   \* the blocks
  alive,  \* the objects whose lifetime has begun
  vec,    \* start_, and end_size_ and end_capacity_ as distances from it
  graph   \* directed_ and the four pointers

vars == <<heap, alive, vec, graph>>

Objects == Vectors \cup Graphs

Free == [kind |-> "free", items |-> <<>>, to |-> Null]
Corrupt == [kind |-> "corrupt", items |-> <<>>, to |-> Null]
Array(items) == [kind |-> "array", items |-> items, to |-> Null]
Index(to) == [kind |-> "index", items |-> <<>>, to |-> to]

FreeAddrs == {a \in Addr : heap[a].kind = "free"}

NoVector == [start |-> Null, size |-> 0, capacity |-> 0]
NoGraph == [directed |-> FALSE, out_index |-> Null, out_neighbors |-> Null,
            in_index |-> Null, in_neighbors |-> Null]

Init ==
  /\ heap = [a \in Addr |-> Free]
  /\ alive = {}
  /\ vec = [v \in Vectors |-> NoVector]
  /\ graph = [g \in Graphs |-> NoGraph]

\* What a pointer chain reads: the size of an array, or the lists behind an index.
Elements(v) == IF vec[v].start = Null THEN <<>>
               ELSE SubSeq(heap[vec[v].start].items, 1, vec[v].size)
ListsAt(index) == IF index = Null \/ heap[index].to = Null THEN <<>>
                  ELSE heap[heap[index].to].items

VectorValue(v) ==
  IF v \notin alive THEN Absent ELSE IF vec[v].size < 0 THEN Gone ELSE Elements(v)
ListsValue(g) ==
  [state    |-> IF g \notin alive THEN "absent"
                ELSE IF graph[g].out_index = Null THEN "empty" ELSE "made",
   directed |-> graph[g].out_index # Null /\ graph[g].directed,
   out      |-> ListsAt(graph[g].out_index),
   in       |-> ListsAt(graph[g].in_index)]

V == INSTANCE Values WITH
       vector <- [v \in Vectors |-> VectorValue(v)],
       lists  <- [g \in Graphs |-> ListsValue(g)]

ASSUME NamesAssumption ==
  Absent # Gone /\ {Absent, Gone} \cap V!Sequences(Items \cup {Junk}) = {}

-----------------------------------------------------------------------------
\* delete[] and free(); for a null pointer they do nothing.
Delete(h, a) == IF a = Null THEN h
                ELSE [h EXCEPT ![a] = IF @.kind = "free" THEN Corrupt ELSE Free]

\* The lifetime of o begins or ends.
Begin(o) ==
  /\ o \notin alive /\ Room(Cardinality(alive), Cardinality(Addr \ FreeAddrs))
  /\ alive' = alive \cup {o}
End(o) == o \in alive /\ alive' = alive \ {o}

\* An array with a meaning: it was not leaked.
Usable(v) == v \in alive /\ vec[v].size >= 0

DefaultVector(v) == Begin(v) /\ UNCHANGED <<heap, vec, graph>>

\* With a length, a length and a value, or another array's elements.
ConstructVector(v, items) ==
  /\ Begin(v)
  /\ \E a \in Fresh(FreeAddrs) :
       /\ heap' = [heap EXCEPT ![a] = Array(items)]
       /\ vec' = [vec EXCEPT ![v] = [start |-> a, size |-> Len(items), capacity |-> Len(items)]]
  /\ UNCHANGED graph

(***************************************************************************)
(* reserve(n), after which the first elements are items: if there is no    *)
(* room, they move to a new block.                                         *)
(***************************************************************************)
Store(v, n, items) ==
  /\ Usable(v)
  /\ IF n > vec[v].capacity
     THEN \E a \in Fresh(FreeAddrs) :
            /\ heap' = Delete([heap EXCEPT ![a] =
                                Array([k \in 1 .. n |-> IF k <= Len(items) THEN items[k] ELSE Junk])],
                              vec[v].start)
            /\ vec' = [vec EXCEPT ![v] = [start |-> a, size |-> Len(items), capacity |-> n]]
     ELSE /\ heap' = IF vec[v].start = Null THEN heap
                     ELSE [heap EXCEPT ![vec[v].start].items =
                             items \o SubSeq(@, Len(items) + 1, Len(@))]
          /\ vec' = [vec EXCEPT ![v].size = Len(items)]
  /\ UNCHANGED <<alive, graph>>

reserve(v, n) == Store(v, n, Elements(v))

\* Elements beyond the size are what the block holds there.
resize(v, n) ==
  Store(v, n, [k \in 1 .. n |-> IF k <= vec[v].size \/ n <= vec[v].capacity
                                THEN heap[vec[v].start].items[k] ELSE Junk])

push_back(v, x) ==
  /\ vec[v].size < MaxLen
  /\ Store(v, IF vec[v].size < vec[v].capacity THEN 0
              ELSE IF vec[v].capacity = 0 THEN 1 ELSE 2 * vec[v].capacity,
           Append(Elements(v), x))

clear(v) == Store(v, 0, <<>>)

fill(v, x) == Store(v, 0, [k \in 1 .. vec[v].size |-> x])

write(v, k, x) == k <= vec[v].size /\ Store(v, 0, [Elements(v) EXCEPT ![k] = x])

\* An array that was leaked is never moved from.
MoveConstructVector(v, w) ==
  /\ Begin(v) /\ Usable(w)
  /\ vec' = [vec EXCEPT ![v] = vec[w], ![w] = NoVector]
  /\ UNCHANGED <<heap, graph>>

MoveAssignVector(v, w) ==
  /\ v \in alive /\ Usable(w)
  /\ IF v = w THEN UNCHANGED <<heap, vec>>
     ELSE /\ heap' = Delete(heap, vec[v].start)
          /\ vec' = [vec EXCEPT ![v] = vec[w], ![w] = NoVector]
  /\ UNCHANGED <<alive, graph>>

swap(v, w) ==
  /\ Usable(v) /\ Usable(w)
  /\ vec' = [vec EXCEPT ![v] = vec[w], ![w] = vec[v]]
  /\ UNCHANGED <<heap, alive, graph>>

DestroyVector(v) ==
  /\ End(v)
  /\ heap' = Delete(heap, vec[v].start)
  /\ vec' = [vec EXCEPT ![v] = NoVector]
  /\ UNCHANGED graph

-----------------------------------------------------------------------------
\* An index of pointers into the block n, and both of them.
WithCSR(h, n, x, items) == [h EXCEPT ![n] = Array(items), ![x] = Index(n)]

\* A new graph beside the blocks of h; an undirected one has the lists out only.
NewGraph(g, h, directed, out, in) ==
  \E n \in Fresh(FreeAddrs) : \E x \in Fresh(FreeAddrs \ {n}) :
    IF directed
    THEN \E m \in Fresh(FreeAddrs \ {n, x}) : \E y \in Fresh(FreeAddrs \ {n, x, m}) :
           /\ heap' = WithCSR(WithCSR(h, n, x, out), m, y, in)
           /\ graph' = [graph EXCEPT ![g] =
                [directed |-> TRUE, out_index |-> x, out_neighbors |-> n,
                 in_index |-> y, in_neighbors |-> m]]
    ELSE /\ heap' = WithCSR(h, n, x, out)
         /\ graph' = [graph EXCEPT ![g] =
              [directed |-> FALSE, out_index |-> x, out_neighbors |-> n,
               in_index |-> x, in_neighbors |-> n]]

ConstructGraph(g) == Begin(g) /\ UNCHANGED <<heap, vec, graph>>

\* MakeCSR, once for each direction; the list is complete.
MakeGraphFromEL(g, el, directed) ==
  /\ Begin(g) /\ Usable(el)
  /\ \A k \in DOMAIN Elements(el) : Elements(el)[k] # Junk
  /\ NewGraph(g, heap, directed, Elements(el), Elements(el))
  /\ UNCHANGED vec

\* Mutant of Reallocated: the pointers are those from before the block moved.
ReallocatedLate(h, old, new, x) ==
  [a \in Addr |-> IF a = x THEN Index(old)
                  ELSE IF a = new THEN h[old] ELSE IF a = old THEN Free ELSE h[a]]

\* The block old moved to new, if that is another, and the index x was made.
Reallocated(h, old, new, x) ==
  [a \in Addr |-> IF a = x THEN Index(new)
                  ELSE IF a = new THEN h[old] ELSE IF a = old THEN Free ELSE h[a]]

(***************************************************************************)
(* MakeCSRInPlace: the list is squished, and its block becomes that of the *)
(* neighbours, which realloc shrinks, enlarges or moves.  With size 0 it   *)
(* frees the block; a program that symmetrizes exits then.  The in-lists   *)
(* get blocks of their own.  The list is leaked: its start_ is null, and   *)
(* its size is a distance from there.                                      *)
(***************************************************************************)
MakeCSRInPlace(g, el, directed) ==
  /\ Begin(g) /\ Usable(el) /\ vec[el].start # Null
  /\ \A k \in DOMAIN Elements(el) : Elements(el)[k] # Junk
  /\ LET old == vec[el].start
         items == V!Squished(Elements(el))
         h == [heap EXCEPT ![old] = Array(items)]
     IN  \E new \in IF items = <<>> THEN {Null} ELSE {old} \cup Fresh(FreeAddrs) :
           LET free == (FreeAddrs \cup {old}) \ {new}
           IN  \E x \in Fresh(free) :
                 IF directed
                 THEN \E m \in Fresh(free \ {x}) : \E y \in Fresh(free \ {x, m}) :
                        /\ heap' = WithCSR(Reallocated(h, old, new, x), m, y, items)
                        /\ graph' = [graph EXCEPT ![g] =
                             [directed |-> TRUE, out_index |-> x, out_neighbors |-> new,
                              in_index |-> y, in_neighbors |-> m]]
                 ELSE /\ new # Null
                      /\ heap' = Reallocated(h, old, new, x)
                      /\ graph' = [graph EXCEPT ![g] =
                           [directed |-> FALSE, out_index |-> x, out_neighbors |-> new,
                            in_index |-> x, in_neighbors |-> new]]
  /\ vec' = [vec EXCEPT ![el] = [start |-> Null, size |-> -1, capacity |-> -1]]

\* Each direction is read from the file.
ReadSerializedGraph(g, directed) ==
  /\ Begin(g)
  /\ \E items \in V!Sequences(Items) : NewGraph(g, heap, directed, items, items)
  /\ UNCHANGED vec

\* SquishCSR sorts the lists of g where they are before it copies them.
SquishGraph(g, h) ==
  /\ Begin(h) /\ g \in alive /\ graph[g].out_index # Null
  /\ LET own == {graph[g].out_neighbors, graph[g].in_neighbors}
         squished == [a \in Addr |-> IF a \in own THEN Array(V!SquishedOver(heap[a].items))
                                     ELSE heap[a]]
     IN  NewGraph(h, squished, graph[g].directed,
                  V!Squished(ListsAt(graph[g].out_index)), V!Squished(ListsAt(graph[g].in_index)))
  /\ UNCHANGED vec

RelabelByDegree(g, h) ==
  /\ Begin(h) /\ g \in alive /\ graph[g].out_index # Null /\ ~graph[g].directed
  /\ LET out == ListsAt(graph[g].out_index) IN NewGraph(h, heap, FALSE, out, out)
  /\ UNCHANGED vec

\* Mutant of ReleaseResources: the arrays for both directions are always freed.
ReleaseBoth(h, r) ==
  Delete(Delete(Delete(Delete(h, r.out_index), r.out_neighbors), r.in_index), r.in_neighbors)

ReleaseResources(h, r) ==
  LET out == Delete(Delete(h, r.out_index), r.out_neighbors)
  IN  IF r.directed THEN Delete(Delete(out, r.in_index), r.in_neighbors) ELSE out

\* directed_ is left as it is.
MovedFrom(r) == [NoGraph EXCEPT !.directed = r.directed]

MoveConstructGraph(g, h) ==
  /\ Begin(g) /\ h \in alive
  /\ graph' = [graph EXCEPT ![g] = graph[h], ![h] = MovedFrom(graph[h])]
  /\ UNCHANGED <<heap, vec>>

\* Mutant of MoveAssignGraph: what the graph had is not freed.
MoveAssignGraphLeaks(g, h) ==
  /\ g \in alive /\ h \in alive /\ g # h
  /\ graph' = [graph EXCEPT ![g] = graph[h], ![h] = MovedFrom(graph[h])]
  /\ UNCHANGED <<heap, alive, vec>>

MoveAssignGraph(g, h) ==
  /\ g \in alive /\ h \in alive
  /\ IF g = h THEN UNCHANGED <<heap, graph>>
     ELSE /\ heap' = ReleaseResources(heap, graph[g])
          /\ graph' = [graph EXCEPT ![g] = graph[h], ![h] = MovedFrom(graph[h])]
  /\ UNCHANGED <<alive, vec>>

DestroyGraph(g) ==
  /\ End(g)
  /\ heap' = ReleaseResources(heap, graph[g])
  /\ graph' = [graph EXCEPT ![g] = NoGraph]
  /\ UNCHANGED vec

Next ==
  \/ \E v \in Vectors :
       \/ DefaultVector(v) \/ DestroyVector(v) \/ clear(v)
       \/ \E n \in 0 .. MaxLen :
            \/ \E x \in Items \cup {Junk} : ConstructVector(v, [k \in 1 .. n |-> x])
            \/ reserve(v, n) \/ resize(v, n)
       \/ \E x \in Items : push_back(v, x) \/ fill(v, x) \/ \E k \in 1 .. MaxLen : write(v, k, x)
       \/ \E w \in Vectors : Usable(w) /\ ConstructVector(v, Elements(w))
       \/ \E w \in Vectors : MoveConstructVector(v, w) \/ MoveAssignVector(v, w) \/ swap(v, w)
  \/ \E g \in Graphs :
       \/ ConstructGraph(g) \/ DestroyGraph(g)
       \/ \E directed \in BOOLEAN :
            \/ ReadSerializedGraph(g, directed)
            \/ \E el \in Vectors : MakeGraphFromEL(g, el, directed) \/ MakeCSRInPlace(g, el, directed)
       \/ \E h \in Graphs :
            \/ SquishGraph(g, h) \/ RelabelByDegree(g, h)
            \/ MoveConstructGraph(g, h) \/ MoveAssignGraph(g, h)

Spec == Init /\ [][Next]_vars

-----------------------------------------------------------------------------
\* The blocks an object has to free.
HeldByVector(v) == {vec[v].start} \ {Null}
HeldByGraph(g) ==
  LET r == graph[g]
      out == {r.out_index, r.out_neighbors}
  IN  (IF r.directed THEN out \cup {r.in_index, r.in_neighbors} ELSE out) \ {Null}

Held(o) == IF o \in Vectors THEN HeldByVector(o) ELSE HeldByGraph(o)

\* The pointers in an index point into the neighbours of its graph.
AtHome(index, neighbors) ==
  /\ heap[index] = Index(neighbors)
  /\ neighbors # Null => heap[neighbors].kind = "array"

WholeGraph(r) ==
  r.out_index # Null =>
    /\ AtHome(r.out_index, r.out_neighbors) /\ AtHome(r.in_index, r.in_neighbors)
    /\ IF r.directed THEN {r.out_index, r.out_neighbors} \cap {r.in_index, r.in_neighbors} = {}
       ELSE r.in_index = r.out_index /\ r.in_neighbors = r.out_neighbors

(***************************************************************************)
(* Whatever was moved, leaked, reallocated and destroyed, no block is to   *)
(* be freed by two objects or twice by one, none was freed before its      *)
(* owner is destroyed, and a graph's pointers point into its own blocks.   *)
(***************************************************************************)
OneOwner ==
  /\ \A o, p \in Objects : o # p => Held(o) \cap Held(p) = {}
  /\ \A a \in Addr : heap[a].kind # "corrupt"
  /\ \A v \in Vectors : vec[v].start # Null => heap[vec[v].start].kind = "array"
  /\ \A g \in Graphs : WholeGraph(graph[g])

(***************************************************************************)
(* Every block that was not freed belongs to an object, so that destroying *)
(* all objects leaves no memory behind.                                    *)
(***************************************************************************)
NoLeak == \A a \in Addr : heap[a].kind # "free" => \E o \in alive : a \in Held(o)

(***************************************************************************)
(* Objects that share one heap behave as values of their own: moves,       *)
(* reallocation and building in place change what was asked for, and       *)
(* nothing else.                                                           *)
(***************************************************************************)
ImplementsValues == V!Spec
=============================================================================
