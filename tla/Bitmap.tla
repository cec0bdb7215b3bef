------------------------------- MODULE Bitmap -------------------------------
(***************************************************************************)
(* The Bitmap of gapbs/src/bitmap.h: one bit per vertex, packed in words.  *)
(* A bitmap maps each word to the vertices whose bit is set in it.  The    *)
(* machine reads and writes whole words, so a thread that sets a bit       *)
(* rewrites its neighbours' bits too; the two ways of doing it are the     *)
(* users' steps, made of these operators:                                  *)
(*   set_bit         load old == bm[WordOf(x)]; store WithBit(old, x)      *)
(*   set_bit_atomic  the same, the store a compare-and-swap against old,   *)
(*                   retried until it succeeds                             *)
(***************************************************************************)
EXTENDS CSRGraph

CONSTANT BitsPerWord

ASSUME BitsPerWordAssumption == BitsPerWord \in Nat \ {0}

WordOf(x) == x \div BitsPerWord

Words == {WordOf(x) : x \in Nodes}

Bitmaps == [Words -> SUBSET Nodes]

ResetBitmap == [w \in Words |-> {}]

get_bit(bm, x) == x \in bm[WordOf(x)]

WithBit(word, x) == word \cup {x}

BitsOf(bm) == {x \in Nodes : get_bit(bm, x)}
=============================================================================
