------------------------------ MODULE MCMemory ------------------------------
(***************************************************************************)
(* Two arrays and two graphs.  Any two may exist at a time, and a third    *)
(* may be created while they hold at most two blocks.  The allocator       *)
(* returns the first block that is free, so that a block is used again as  *)
(* soon as it can be.                                                      *)
(***************************************************************************)
EXTENDS Memory, TLC

Symmetry == Permutations(Vectors) \cup Permutations(Graphs)

MCAddr == 1 .. 8
MCRoom(n, b) == n < 2 \/ (n = 2 /\ b <= 2)
MCFresh(S) == IF S = {} THEN {} ELSE {CHOOSE a \in S : \A b \in S : a <= b}
=============================================================================
