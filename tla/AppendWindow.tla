---------------------------- MODULE AppendWindow ----------------------------
(***************************************************************************)
(* What a SlidingQueue promises its users (the comment at the head of      *)
(* sliding_queue.h): appends are not seen until slide_window() is called,  *)
(* and then all of them are, and only they.                                *)
(***************************************************************************)
CONSTANT Items

VARIABLES
  window,    \* the items an iteration over the queue sees
  incoming   \* the items appended since the window was last moved

vars == <<window, incoming>>

Init == window = {} /\ incoming = {}

Append(x) == incoming' = incoming \cup {x} /\ window' = window

Slide == window' = incoming /\ incoming' = {}

Reset == window' = {} /\ incoming' = {}

Next == (\E x \in Items : Append(x)) \/ Slide \/ Reset

Spec == Init /\ [][Next]_vars
=============================================================================
