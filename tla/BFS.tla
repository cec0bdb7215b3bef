-------------------------------- MODULE BFS --------------------------------
(***************************************************************************)
(* Direction-optimizing breadth-first search (gapbs/src/bfs.cc).           *)
(*                                                                         *)
(* A top-down step walks the queue's window and claims unvisited           *)
(* neighbours with compare-and-swap on parent; a bottom-up step lets every *)
(* unvisited vertex look for a parent in the frontier, kept as a bitmap.   *)
(* A bottom-up step writes parent[u] and the bit of u without atomics: it  *)
(* is safe only because a thread takes chunks of vertices that cover whole *)
(* words of the bitmap.  Two heuristics choose the direction.              *)
(*                                                                         *)
(* The queue is AppendWindow, which SlidingQueue implements; shared_in     *)
(* counts what was appended since the queue was built and never reset, the *)
(* position the last flush has reached or will reach.                      *)
(***************************************************************************)
EXTENDS Bitmap, Verifiers

CONSTANTS
  Threads,         \* the OpenMP team
  Graphs,          \* the graphs the kernel may be given
  Alphas, Betas,   \* the values its two parameters may have
  Chunk            \* vertices per chunk of BUStep's dynamic schedule

ASSUME GraphsAssumption == \A gr \in Graphs : IsGraph(gr)
ASSUME HeuristicsAssumption == Alphas \subseteq Nat \ {0} /\ Betas \subseteq Nat \ {0}

\* schedule(dynamic, 1024) and words of 64 bits.
ASSUME ChunkAssumption == Chunk \in Nat \ {0} /\ Chunk % BitsPerWord = 0

VARIABLES
  g, source, alpha, beta,   \* the arguments
  parent,                   \* a parent, or minus the degree of an unvisited vertex
  window, incoming,         \* the queue
  shared_in,                \* how much has been appended to it
  front, curr,              \* the bitmaps; curr is the next of BUStep
  edges_to_check, scout_count, awake_count, old_awake_count,
  phase,   \* "loop" between steps, "TD", "QueueToBitmap" or "BU" inside, "done"
  todo,    \* iterations (in BU: chunks) no thread has taken yet
  pc,      \* per thread: "idle", or what it does next
  u, i,    \* per thread: vertex, and position in its adjacency list
  curr_val, old_val    \* per thread: the parent and the word it loaded

args == <<g, source, alpha, beta>>
queue == <<window, incoming, shared_in>>
counts == <<edges_to_check, scout_count, awake_count, old_awake_count>>
locals == <<pc, u, i, curr_val, old_val>>
vars == <<g, source, alpha, beta, parent, window, incoming, shared_in, front, curr,
          edges_to_check, scout_count, awake_count, old_awake_count,
          phase, todo, pc, u, i, curr_val, old_val>>

InitParent(gr) ==
  [n \in Nodes |-> IF out_degree(gr, n) # 0 THEN -out_degree(gr, n) ELSE -1]

\* Mutant of ChunkOf: chunks that begin inside a word.
ChunkOfOffset(n) == (n + 1) \div Chunk

\* Chunk k of the dynamic schedule holds the vertices from k * Chunk on.
ChunkOf(n) == n \div Chunk

Chunks == {ChunkOf(n) : n \in Nodes}

Init ==
  /\ g \in Graphs /\ source \in Nodes /\ alpha \in Alphas /\ beta \in Betas
  /\ parent = [InitParent(g) EXCEPT ![source] = source]
  /\ window = {source}
  /\ incoming = {}
  /\ shared_in = 1
  /\ front = ResetBitmap
  /\ curr = ResetBitmap
  /\ edges_to_check = num_edges_directed(g)
  /\ scout_count = out_degree(g, source)
  /\ awake_count = 0
  /\ old_awake_count = 0
  /\ phase = "loop"
  /\ todo = {}
  /\ pc = [t \in Threads |-> "idle"]
  /\ u = [t \in Threads |-> 0]
  /\ i = [t \in Threads |-> 0]
  /\ curr_val = [t \in Threads |-> 0]
  /\ old_val = [t \in Threads |-> {}]

-----------------------------------------------------------------------------
Goto(t, where) == pc' = [pc EXCEPT ![t] = where]

Forget(t) ==
  /\ Goto(t, "idle")
  /\ u' = [u EXCEPT ![t] = 0]
  /\ i' = [i EXCEPT ![t] = 0]
  /\ curr_val' = [curr_val EXCEPT ![t] = 0]
  /\ old_val' = [old_val EXCEPT ![t] = {}]

\* The implicit barrier at the end of a parallel loop.
Barrier == todo = {} /\ \A t \in Threads : pc[t] = "idle"

-----------------------------------------------------------------------------
(***************************************************************************)
(* TDStep.  The private scout_counts of the reduction are summed here as   *)
(* they are earned.                                                        *)
(***************************************************************************)
\* A top-down step is taken only if scout_count <= edges_to_check / alpha, so
\* edges_to_check does not become negative and the division is the one of Nat.
BottomUp == scout_count > edges_to_check \div alpha

StartTD ==
  /\ phase = "loop" /\ window # {} /\ ~BottomUp
  /\ edges_to_check' = edges_to_check - scout_count
  /\ scout_count' = 0
  /\ phase' = "TD"
  /\ todo' = window
  /\ UNCHANGED <<args, parent, queue, front, curr, awake_count, old_awake_count, locals>>

\* Thread t moves to edge j of vertex x, or ends the iteration after the last.
EdgeOrEnd(t, x, j) ==
  IF j <= out_degree(g, x)
  THEN /\ Goto(t, "read")
       /\ u' = [u EXCEPT ![t] = x]
       /\ i' = [i EXCEPT ![t] = j]
       /\ curr_val' = [curr_val EXCEPT ![t] = 0]
       /\ UNCHANGED old_val
  ELSE Forget(t)

NextEdge(t) == EdgeOrEnd(t, u[t], i[t] + 1)

v(t) == g.out[u[t]][i[t]]

ClaimTD(t) ==
  /\ phase = "TD" /\ pc[t] = "idle"
  /\ \E x \in todo : todo' = todo \ {x} /\ EdgeOrEnd(t, x, 1)
  /\ UNCHANGED <<args, parent, queue, front, curr, counts, phase>>

\* curr_val = parent[v]
Read(t) ==
  /\ pc[t] = "read"
  /\ IF parent[v(t)] < 0
     THEN /\ curr_val' = [curr_val EXCEPT ![t] = parent[v(t)]]
          /\ Goto(t, "cas")
          /\ UNCHANGED <<u, i, old_val>>
     ELSE NextEdge(t)
  /\ UNCHANGED <<args, parent, queue, front, curr, counts, phase, todo>>

\* Mutant of CAS: a plain store.
CASUnchecked(t) ==
  /\ pc[t] = "cas"
  /\ parent' = [parent EXCEPT ![v(t)] = u[t]]
  /\ incoming' = incoming \cup {v(t)}
  /\ shared_in' = shared_in + 1
  /\ scout_count' = scout_count - curr_val[t]
  /\ NextEdge(t)
  /\ UNCHANGED <<args, window, front, curr, edges_to_check, awake_count, old_awake_count,
                 phase, todo>>

\* compare_and_swap(parent[v], curr_val, u), and what its success allows.
CAS(t) ==
  /\ pc[t] = "cas"
  /\ IF parent[v(t)] = curr_val[t]
     THEN /\ parent' = [parent EXCEPT ![v(t)] = u[t]]
          /\ incoming' = incoming \cup {v(t)}
          /\ shared_in' = shared_in + 1
          /\ scout_count' = scout_count - curr_val[t]
     ELSE UNCHANGED <<parent, incoming, shared_in, scout_count>>
  /\ NextEdge(t)
  /\ UNCHANGED <<args, window, front, curr, edges_to_check, awake_count, old_awake_count,
                 phase, todo>>

\* The region ends, the window slides.
EndTD ==
  /\ phase = "TD" /\ Barrier
  /\ window' = incoming
  /\ incoming' = {}
  /\ phase' = "loop"
  /\ UNCHANGED <<args, parent, shared_in, front, curr, counts, todo, locals>>

TDStep == StartTD \/ (\E t \in Threads : ClaimTD(t) \/ Read(t) \/ CAS(t)) \/ EndTD

-----------------------------------------------------------------------------
(***************************************************************************)
(* QueueToBitmap: set_bit_atomic for every vertex of the window.  The      *)
(* bitmap front is not reset: it still holds the last frontier of an       *)
(* earlier bottom-up phase.                                                *)
(***************************************************************************)
StartQueueToBitmap ==
  /\ phase = "loop" /\ window # {} /\ BottomUp
  /\ phase' = "QueueToBitmap"
  /\ todo' = window
  /\ UNCHANGED <<args, parent, queue, front, curr, counts, locals>>

ClaimQueue(t) ==
  /\ phase = "QueueToBitmap" /\ pc[t] = "idle"
  /\ \E x \in todo : todo' = todo \ {x} /\ u' = [u EXCEPT ![t] = x]
  /\ Goto(t, "load")
  /\ UNCHANGED <<args, parent, queue, front, curr, counts, phase, i, curr_val, old_val>>

Load(t) ==
  /\ pc[t] = "load"
  /\ old_val' = [old_val EXCEPT ![t] = front[WordOf(u[t])]]
  /\ Goto(t, "swap")
  /\ UNCHANGED <<args, parent, queue, front, curr, counts, phase, todo, u, i, curr_val>>

Swap(t) ==
  /\ pc[t] = "swap"
  /\ IF front[WordOf(u[t])] = old_val[t]
     THEN /\ front' = [front EXCEPT ![WordOf(u[t])] = WithBit(old_val[t], u[t])]
          /\ Forget(t)
     ELSE /\ Goto(t, "load")
          /\ old_val' = [old_val EXCEPT ![t] = {}]
          /\ UNCHANGED <<front, u, i, curr_val>>
  /\ UNCHANGED <<args, parent, queue, curr, counts, phase, todo>>

-----------------------------------------------------------------------------
(***************************************************************************)
(* BUStep.  next.reset(), then a dynamic loop over chunks of vertices.     *)
(***************************************************************************)
\* Mutant of BeginBUStep: no next.reset().
BeginBUStepKeeps ==
  /\ UNCHANGED curr
  /\ awake_count' = 0
  /\ phase' = "BU"
  /\ todo' = Chunks

BeginBUStep ==
  /\ curr' = ResetBitmap
  /\ awake_count' = 0
  /\ phase' = "BU"
  /\ todo' = Chunks

\* awake_count = queue.size(); slide_window() leaves an empty window.
EndQueueToBitmap ==
  /\ phase = "QueueToBitmap" /\ Barrier
  /\ old_awake_count' = Cardinality(window)
  /\ window' = incoming
  /\ incoming' = {}
  /\ BeginBUStep
  /\ UNCHANGED <<args, parent, shared_in, front, edges_to_check, scout_count, locals>>

\* Thread t goes on with vertex x of its chunk, if there is one.
ScanOrEnd(t, x) ==
  IF x \in Nodes /\ ChunkOf(x) = ChunkOf(u[t])
  THEN /\ Goto(t, "scan")
       /\ u' = [u EXCEPT ![t] = x]
       /\ old_val' = [old_val EXCEPT ![t] = {}]
       /\ UNCHANGED <<i, curr_val>>
  ELSE Forget(t)

ClaimChunk(t) ==
  /\ phase = "BU" /\ pc[t] = "idle"
  /\ \E k \in todo :
       /\ todo' = todo \ {k}
       /\ \E x \in Nodes :
            /\ ChunkOf(x) = k /\ \A y \in Nodes : ChunkOf(y) = k => x <= y
            /\ u' = [u EXCEPT ![t] = x]
  /\ Goto(t, "scan")
  /\ UNCHANGED <<args, parent, queue, front, curr, counts, phase, i, curr_val, old_val>>

\* Positions of the in-list of x that hold a vertex of the frontier.
Hits(x) == {j \in 1 .. in_degree(g, x) : get_bit(front, g.inv[x][j])}

(***************************************************************************)
(* front does not change during the step and parent[u] is t's own, so the  *)
(* scan of one vertex is one step; it ends at the first hit with the load  *)
(* of the word of next that set_bit(u) rewrites.                           *)
(***************************************************************************)
Scan(t) ==
  /\ pc[t] = "scan"
  /\ IF parent[u[t]] < 0 /\ Hits(u[t]) # {}
     THEN /\ \E j \in Hits(u[t]) :
               /\ \A k \in Hits(u[t]) : j <= k
               /\ parent' = [parent EXCEPT ![u[t]] = g.inv[u[t]][j]]
          /\ awake_count' = awake_count + 1
          /\ old_val' = [old_val EXCEPT ![t] = curr[WordOf(u[t])]]
          /\ Goto(t, "store")
          /\ UNCHANGED <<u, i, curr_val>>
     ELSE /\ ScanOrEnd(t, u[t] + 1)
          /\ UNCHANGED <<parent, awake_count>>
  /\ UNCHANGED <<args, queue, front, curr, edges_to_check, scout_count, old_awake_count,
                 phase, todo>>

Store(t) ==
  /\ pc[t] = "store"
  /\ curr' = [curr EXCEPT ![WordOf(u[t])] = WithBit(old_val[t], u[t])]
  /\ ScanOrEnd(t, u[t] + 1)
  /\ UNCHANGED <<args, parent, queue, front, counts, phase, todo>>

\* Mutant of StayBottomUp: not strictly more than the threshold.
StayBottomUpAtThreshold ==
  \/ awake_count >= old_awake_count
  \/ awake_count >= NumNodes \div beta

\* The condition of the do-while.
StayBottomUp ==
  \/ awake_count >= old_awake_count
  \/ awake_count > NumNodes \div beta

\* front.swap(curr), and another bottom-up step.
NextBUStep ==
  /\ phase = "BU" /\ Barrier /\ StayBottomUp
  /\ front' = curr
  /\ old_awake_count' = awake_count
  /\ BeginBUStep
  /\ UNCHANGED <<args, parent, queue, edges_to_check, scout_count, locals>>

(***************************************************************************)
(* front.swap(curr), and back to the queue.  BitmapToQueue only reads the  *)
(* bitmap and appends every vertex of it once, so it is one step.          *)
(***************************************************************************)
BitmapToQueue ==
  /\ phase = "BU" /\ Barrier /\ ~StayBottomUp
  /\ front' = curr
  /\ curr' = front
  /\ window' = incoming \cup BitsOf(curr)
  /\ incoming' = {}
  /\ shared_in' = shared_in + Cardinality(BitsOf(curr))
  /\ scout_count' = 1
  /\ phase' = "loop"
  /\ UNCHANGED <<args, parent, edges_to_check, awake_count, old_awake_count, todo, locals>>

BUStep ==
  \/ EndQueueToBitmap \/ NextBUStep \/ BitmapToQueue
  \/ \E t \in Threads : ClaimChunk(t) \/ Scan(t) \/ Store(t)

QueueToBitmap == StartQueueToBitmap \/ \E t \in Threads : ClaimQueue(t) \/ Load(t) \/ Swap(t)

\* The queue is empty: unvisited vertices get the parent -1.
Finish ==
  /\ phase = "loop" /\ window = {}
  /\ parent' = [n \in Nodes |-> IF parent[n] < -1 THEN -1 ELSE parent[n]]
  /\ phase' = "done"
  /\ UNCHANGED <<args, queue, front, curr, counts, todo, locals>>

Next == TDStep \/ QueueToBitmap \/ BUStep \/ Finish

Spec == Init /\ [][Next]_vars

\* As long as the kernel can take a step, some thread of the team takes one.
Fairness == WF_vars(Next)

FairSpec == Spec /\ Fairness

-----------------------------------------------------------------------------
\* The counts of the heuristics choose a direction and nothing else.
TypeOK ==
  /\ g \in Graphs /\ source \in Nodes /\ alpha \in Alphas /\ beta \in Betas
  /\ parent \in [Nodes -> Int]
  /\ \A n \in Nodes : parent[n] < NumNodes
  /\ window \subseteq Nodes /\ incoming \subseteq Nodes
  /\ shared_in \in Nat
  /\ front \in Bitmaps /\ curr \in Bitmaps
  /\ phase \in {"loop", "TD", "QueueToBitmap", "BU", "done"}
  /\ todo \subseteq IF phase = "BU" THEN Chunks ELSE Nodes
  /\ pc \in [Threads -> {"idle", "read", "cas", "load", "swap", "scan", "store"}]
  /\ u \in [Threads -> Nodes]
  /\ i \in [Threads -> Nat]
  /\ curr_val \in [Threads -> Int]
  /\ old_val \in [Threads -> SUBSET Nodes]

(***************************************************************************)
(* Within[d] is the set of vertices at most d edges away from the source.  *)
(***************************************************************************)
Near(gr, S) == S \cup {y \in Nodes : \E x \in S : HasOutEdge(gr, x, y)}

WithinFrom(gr, s) ==
  LET w[d \in 0 .. NumNodes] == IF d = 0 THEN {s} ELSE Near(gr, w[d - 1])
  IN  [d \in 0 .. NumNodes |-> w[d]]

WithinOf == [gr \in Graphs |-> [s \in Nodes |-> WithinFrom(gr, s)]]

Within == WithinOf[g][source]

AtDepth(d) == IF d = 0 THEN {source} ELSE LET w == Within IN w[d] \ w[d - 1]

IsBFSTree(tree) ==
  /\ tree[source] = source
  /\ \A d \in 1 .. NumNodes : \A y \in AtDepth(d) :
       \E x \in AtDepth(d - 1) : tree[y] = x /\ HasOutEdge(g, x, y)
  /\ \A y \in Nodes \ Within[NumNodes] : tree[y] = -1

(***************************************************************************)
(* What BFSVerifier asserts (bfs.cc:192-196): the source is its own        *)
(* parent; a parent is a predecessor one level closer to the source; all   *)
(* vertices reachable from the source have a parent, and no others do.     *)
(* The verifier itself accepts the result, and of the arrays that differ   *)
(* from it in one parent exactly those that are another such tree.         *)
(***************************************************************************)
TreeCorrect ==
  phase = "done" =>
    /\ IsBFSTree(parent)
    /\ \A n \in Nodes, x \in Nodes \cup {-1} :
         LET other == [parent EXCEPT ![n] = x]
         IN  BFSVerifier(g, source, other) <=> IsBFSTree(other)

Visited == {n \in Nodes : parent[n] >= 0}

(***************************************************************************)
(* The queue was built for num_nodes items, and is never reset: through    *)
(* both directions, no run appends more.                                   *)
(***************************************************************************)
QueueFits == shared_in <= NumNodes

(***************************************************************************)
(* Between two steps the frontier is one whole level of the search and the *)
(* visited vertices are that level and the ones before it.  In the bottom- *)
(* up phase front may also hold vertices of earlier levels (stale bits),   *)
(* never a vertex that has not been visited.                               *)
(***************************************************************************)
LevelSynchronous ==
  /\ QueueFits
  /\ phase = "loop" =>
       \E d \in 0 .. NumNodes : window = AtDepth(d) /\ Visited = Within[d]
  /\ phase = "BU" /\ todo = Chunks /\ (\A t \in Threads : pc[t] = "idle") =>
       \E d \in 0 .. NumNodes :
         /\ Visited = Within[d]
         /\ AtDepth(d) \subseteq BitsOf(front) /\ BitsOf(front) \subseteq Within[d]

(***************************************************************************)
(* A vertex is claimed by one parent: no thread overwrites the choice of   *)
(* another.                                                                *)
(***************************************************************************)
ClaimedOnce == [][\A n \in Nodes : parent[n] >= 0 => parent'[n] = parent[n]]_vars

(***************************************************************************)
(* The search ends: neither heuristic keeps it going on an empty frontier. *)
(***************************************************************************)
Termination == <>(phase = "done")
=============================================================================
