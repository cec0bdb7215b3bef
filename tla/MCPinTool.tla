----------------------------- MODULE MCPinTool -----------------------------
(***************************************************************************)
(* Two threads and two functions whose regions nest in either order.       *)
(***************************************************************************)
EXTENDS PinTool, TLC

Symmetry == Permutations(Threads) \cup Permutations(Funcs)
=============================================================================
