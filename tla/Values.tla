------------------------------- MODULE Values -------------------------------
(***************************************************************************)
(* What the growable arrays and graphs of gapbs promise: each object has a *)
(* value of its own.  An operation on one changes no other, and to move    *)
(* from an object takes its value away.                                    *)
(*                                                                         *)
(* The value of an array (pvector) is the sequence of its elements, that   *)
(* of a graph its out-lists and its in-lists.  An entry of a list is named *)
(* by the edge it comes from: the lists are one sequence of edges, the     *)
(* same for both directions, and both ends of an edge of an undirected     *)
(* graph count as one entry.                                               *)
(***************************************************************************)
EXTENDS Integers, Sequences, FiniteSets

CONSTANTS
  Vectors, Graphs,  \* the names of objects
  Items,            \* elements of arrays: edges, as numbers
  Junk,             \* what nobody has written yet
  Absent, Gone,     \* no array, and one that was built over
  MaxLen            \* bound on the length of an array

VARIABLES vector, lists

Lengths == 0 .. MaxLen
Sequences(S) == UNION {[1 .. n -> S] : n \in Lengths}
Nothing(state) == [state |-> state, directed |-> FALSE, out |-> <<>>, in |-> <<>>]
NoGraph == Nothing("absent")
NoLists == Nothing("empty")
Lists(directed, out, in) == [state |-> "made", directed |-> directed, out |-> out, in |-> in]

Count(s, Test(_)) == Cardinality({k \in DOMAIN s : Test(s[k])})

\* s sorted, and s sorted without duplicates.
Sorted(s) ==
  [k \in DOMAIN s |-> CHOOSE x \in {s[j] : j \in DOMAIN s} :
     Count(s, LAMBDA y : y < x) < k /\ k <= Count(s, LAMBDA y : y <= x)]
Squished(s) ==
  LET S == {s[k] : k \in DOMAIN s}
  IN  [k \in 1 .. Cardinality(S) |-> CHOOSE x \in S : Cardinality({y \in S : y <= x}) = k]

\* What std::sort and std::unique make of s: behind the new end the old elements stay.
SquishedOver(s) ==
  [k \in DOMAIN s |-> IF k <= Len(Squished(s)) THEN Squished(s)[k] ELSE Sorted(s)[k]]

Init == /\ vector = [v \in Vectors |-> Absent]
        /\ lists = [g \in Graphs |-> NoGraph]

Exists(value) == value \notin {Absent, Gone}

\* Of several objects only those in S change.
OnlyIn(S, old, new) == \A o \in (DOMAIN old) \ S : new[o] = old[o]

-----------------------------------------------------------------------------
\* From nothing, or keeping as many elements as there is room for: push_back, clear, resize.
Resized(old, new) ==
  /\ old # Gone /\ new \in Sequences(Items \cup {Junk})
  /\ old # Absent => \A k \in DOMAIN new \cap DOMAIN old : new[k] = old[k]

Filled(old, new) == \E x \in Items : new = [k \in DOMAIN old |-> x]

Written(old, new) == \E k \in DOMAIN old, x \in Items : new = [old EXCEPT ![k] = x]

UseVector(v) ==
  /\ OnlyIn({v}, vector, vector')
  /\ \/ vector[v] # Absent /\ vector'[v] = Absent
     \/ Resized(vector[v], vector'[v])
     \/ Exists(vector[v]) /\ (Filled(vector[v], vector'[v]) \/ Written(vector[v], vector'[v]))

\* A move leaves the source empty; a swap leaves it what the target had.
MoveVector(v, w) ==
  /\ v # w /\ Exists(vector[w]) /\ vector'[v] = vector[w]
  /\ vector'[w] \in {<<>>, vector[v]} /\ Exists(vector'[w])
  /\ OnlyIn({v, w}, vector, vector')

Known(g) == lists[g].state # "absent"

NewGraph(g, l) == ~Known(g) /\ lists'[g] = l

\* Default constructed, built or read, a relabelled copy, destroyed.
UseGraph(g) ==
  /\ OnlyIn({g}, lists, lists')
  /\ \/ NewGraph(g, NoLists)
     \/ \E directed \in BOOLEAN, s \in Sequences(Items) : NewGraph(g, Lists(directed, s, s))
     \/ \E h \in Graphs \ {g} : Known(h) /\ NewGraph(g, lists[h])
     \/ Known(g) /\ lists'[g] = NoGraph

\* The memory of the list becomes that of the graph.
BuildOver(g, v) ==
  /\ Exists(vector[v]) /\ \A k \in DOMAIN vector[v] : vector[v][k] # Junk
  /\ OnlyIn({g}, lists, lists') /\ OnlyIn({v}, vector, vector')
  /\ LET s == Squished(vector[v])
     IN  \E directed \in BOOLEAN : NewGraph(g, Lists(directed, s, s))
  /\ vector'[v] = Gone

\* The graph that is squished is used up: its lists are squished where they are.
Squish(g, h) ==
  /\ lists[g].state = "made"
  /\ OnlyIn({g, h}, lists, lists')
  /\ LET l == lists[g]
     IN  /\ NewGraph(h, Lists(l.directed, Squished(l.out), Squished(l.in)))
         /\ lists'[g] = Lists(l.directed, SquishedOver(l.out), SquishedOver(l.in))

MoveGraph(g, h) ==
  /\ g # h /\ Known(h)
  /\ lists'[g] = lists[h] /\ lists'[h] = NoLists
  /\ OnlyIn({g, h}, lists, lists')

Next ==
  \/ /\ UNCHANGED lists
     /\ \E v \in Vectors : UseVector(v) \/ \E w \in Vectors : MoveVector(v, w)
  \/ /\ UNCHANGED vector
     /\ \E g \in Graphs :
          \/ UseGraph(g)
          \/ \E h \in Graphs : Squish(g, h) \/ MoveGraph(g, h)
  \/ \E g \in Graphs, v \in Vectors : BuildOver(g, v)

Spec == Init /\ [][Next]_<<vector, lists>>
=============================================================================
