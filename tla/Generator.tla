----------------------------- MODULE Generator -----------------------------
(***************************************************************************)
(* Synthetic edge lists and weights (generator.h).  Every thread seeds its *)
(* engine anew for each block of edges, with the number of the block, so   *)
(* that what an edge becomes depends on its place only: Engine(b, k) is    *)
(* the number k that comes after seeding for block b.                      *)
(***************************************************************************)
EXTENDS EdgeList

CONSTANTS
  gen_block_size,  \* edges in a block, 2^18 in the code
  Engine(_, _),
  permutation      \* what std::shuffle makes of the vertices, from a fixed seed

ASSUME GenBlockAssumption == gen_block_size \in Nat \ {0}

Block(p) == p \div gen_block_size
Within(p) == p % gen_block_size

\* A number of first .. last from the engine.
udist(first, last, x) == first + (x % (last - first + 1))

\* Edge number p takes two numbers.
MakeUniformEL(num_nodes, num_edges) ==
  LET draw(p, k) == udist(0, num_nodes - 1, Engine(Block(p), 2 * Within(p) + k))
  IN  [q \in 1 .. num_edges |-> [u |-> draw(q - 1, 0), v |-> draw(q - 1, 1), w |-> 1]]

\* The vertices of a list are renamed by a random permutation.
PermuteIDs(el) ==
  [q \in DOMAIN el |-> [el[q] EXCEPT !.u = permutation[@], !.v = permutation[@]]]

(***************************************************************************)
(* A vertex of a Kronecker graph is chosen bit by bit: each number picks a *)
(* quadrant of the adjacency matrix, and with it a bit of the source and   *)
(* one of the destination.                                                 *)
(***************************************************************************)
MakeRMatEL(scale, num_edges) ==
  LET quadrant(p, depth) == udist(0, 3, Engine(Block(p), scale * Within(p) + depth))
      bits(p, bit(_)) ==
        SumFrom([d \in 0 .. (scale - 1) |-> bit(quadrant(p, d)) * 2^(scale - 1 - d)], 0, scale)
  IN  PermuteIDs([q \in 1 .. num_edges |->
                    [u |-> bits(q - 1, LAMBDA x : x \div 2),
                     v |-> bits(q - 1, LAMBDA x : x % 2), w |-> 1]])

\* Both make 2^scale vertices and degree times as many edges.
GenerateEL(scale, degree, uniform) ==
  IF uniform THEN MakeUniformEL(2^scale, 2^scale * degree)
  ELSE MakeRMatEL(scale, 2^scale * degree)

InsertWeights(el) ==
  [q \in DOMAIN el |-> [el[q] EXCEPT !.w = udist(1, 255, Engine(Block(q - 1), Within(q - 1)))]]
=============================================================================
