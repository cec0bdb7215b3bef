--------------------------- MODULE MCSlidingQueue ---------------------------
(***************************************************************************)
(* Two threads with buffers of two items, and four items: a thread can     *)
(* fill its buffer and be made to flush by a third push, and the queue can *)
(* be filled to its capacity, in one window or in several.  Threads and    *)
(* items are interchangeable, and every property is a safety property.     *)
(***************************************************************************)
EXTENDS SlidingQueue, TLC

Symmetry == Permutations(Threads) \cup Permutations(Vertices)
=============================================================================
