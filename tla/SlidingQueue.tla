---------------------------- MODULE SlidingQueue ----------------------------
(***************************************************************************)
(* SlidingQueue and QueueBuffer (gapbs/src/sliding_queue.h).               *)
(*                                                                         *)
(* One array holds the window that is being read and, above it, what has   *)
(* been appended for the next one.  Between parallel regions the master    *)
(* appends, slides and resets; inside a region each thread appends through *)
(* a buffer of its own, whose flush reserves a range of the array with     *)
(* fetch_and_add and then copies into it element by element while other    *)
(* threads reserve and copy theirs.  The class checks no bound and offers  *)
(* no lock: the users' barriers are what makes it correct.                 *)
(*                                                                         *)
(* A thread constructs its buffer when a region begins, or once for all    *)
(* (PBFS); in is 0 after the last flush, so the two do not differ.         *)
(*                                                                         *)
(* The users (DOBFS, BitmapToQueue, PBFS) append a vertex at most once     *)
(* between two resets; fresh holds the items that may still be appended.   *)
(***************************************************************************)
EXTENDS Integers, Sequences, FiniteSets

CONSTANTS
  Threads,     \* the OpenMP team
  Vertices,    \* what is queued: vertices
  NoItem,      \* not an item: no push is waiting, or a slot never written
  SharedSize,  \* capacity of the shared array, num_nodes in every use
  LocalSize    \* capacity of a thread's buffer, 16384 in every use

ASSUME LocalSizeAssumption == LocalSize \in Nat \ {0}
ASSUME NoItemAssumption == NoItem \notin Vertices

\* The users' promise: room for every item that may be appended between resets.
ASSUME CapacityAssumption ==
  SharedSize \in Nat /\ IsFiniteSet(Vertices) /\ Cardinality(Vertices) <= SharedSize

VARIABLES
  shared,            \* the array; its content is arbitrary until written
  shared_in,         \* where the next append or reservation goes
  shared_out_start, shared_out_end,   \* the window
  mode,              \* "serial" or "parallel"
  pc,                \* per thread: "run", "reserve", "copy", "joined"
  local_queue,       \* per thread: its buffer, of length in
  waiting,           \* per thread: the item whose push_back has to flush first
  copy_start, copied,   \* per thread: the range reserved, elements copied so far
  fresh              \* items not appended since the last reset

queue == <<shared, shared_in, shared_out_start, shared_out_end>>
buffers == <<pc, local_queue, waiting, copy_start, copied>>
queueVars == <<shared, shared_in, shared_out_start, shared_out_end, mode, pc, local_queue,
          waiting, copy_start, copied, fresh>>

Slots == 0 .. (SharedSize - 1)

QueueInit ==
  /\ shared = [k \in Slots |-> NoItem]
  /\ shared_in = 0
  /\ shared_out_start = 0
  /\ shared_out_end = 0
  /\ mode = "serial"
  /\ pc = [t \in Threads |-> "joined"]
  /\ local_queue = [t \in Threads |-> <<>>]
  /\ waiting = [t \in Threads |-> NoItem]
  /\ copy_start = [t \in Threads |-> 0]
  /\ copied = [t \in Threads |-> 0]
  /\ fresh = Vertices

-----------------------------------------------------------------------------
(***************************************************************************)
(* The master, between parallel regions.                                   *)
(***************************************************************************)
PushBack(x) ==
  /\ mode = "serial"
  /\ x \in fresh
  /\ shared' = [shared EXCEPT ![shared_in] = x]
  /\ shared_in' = shared_in + 1
  /\ fresh' = fresh \ {x}
  /\ UNCHANGED <<shared_out_start, shared_out_end, mode, buffers>>

\* Mutant of slide_window: the window is left to begin where it began.
slide_window_keeps_start ==
  /\ mode = "serial"
  /\ shared_out_end' = shared_in
  /\ UNCHANGED <<shared, shared_in, shared_out_start, mode, buffers, fresh>>

slide_window ==
  /\ mode = "serial"
  /\ shared_out_start' = shared_out_end
  /\ shared_out_end' = shared_in
  /\ UNCHANGED <<shared, shared_in, mode, buffers, fresh>>

\* The array keeps its old content: what is left in it must not be seen again.
reset ==
  /\ mode = "serial"
  /\ shared_out_start' = 0
  /\ shared_out_end' = 0
  /\ shared_in' = 0
  /\ fresh' = Vertices
  /\ UNCHANGED <<shared, mode, buffers>>

\* A parallel region begins: each thread constructs its QueueBuffer, in = 0.
Fork ==
  /\ mode = "serial"
  /\ mode' = "parallel"
  /\ pc' = [t \in Threads |-> "run"]
  /\ UNCHANGED <<queue, local_queue, waiting, copy_start, copied, fresh>>

\* The barrier after the flush of every thread.
Join ==
  /\ mode = "parallel"
  /\ \A t \in Threads : pc[t] = "joined"
  /\ mode' = "serial"
  /\ UNCHANGED <<queue, buffers, fresh>>

-----------------------------------------------------------------------------
(***************************************************************************)
(* QueueBuffer, thread t.  push_back flushes first when the buffer is full *)
(* and stores its item afterwards.                                         *)
(***************************************************************************)
BufferPush(t, x) ==
  /\ pc[t] = "run"
  /\ x \in fresh
  /\ fresh' = fresh \ {x}
  /\ \/ /\ Len(local_queue[t]) # LocalSize
        /\ local_queue' = [local_queue EXCEPT ![t] = Append(@, x)]
        /\ UNCHANGED <<pc, waiting>>
     \/ /\ Len(local_queue[t]) = LocalSize
        /\ waiting' = [waiting EXCEPT ![t] = x]
        /\ pc' = [pc EXCEPT ![t] = "reserve"]
        /\ UNCHANGED local_queue
  /\ UNCHANGED <<queue, mode, copy_start, copied>>

\* The explicit flush at the end of the loop.
BufferFlush(t) ==
  /\ pc[t] = "run"
  /\ pc' = [pc EXCEPT ![t] = "reserve"]
  /\ UNCHANGED <<queue, mode, local_queue, waiting, copy_start, copied, fresh>>

\* Mutant of Reserve: the cursor advances by one, as in push_back.
ReserveOne(t) ==
  /\ pc[t] = "reserve"
  /\ copy_start' = [copy_start EXCEPT ![t] = shared_in]
  /\ copied' = [copied EXCEPT ![t] = 0]
  /\ shared_in' = shared_in + 1
  /\ pc' = [pc EXCEPT ![t] = "copy"]
  /\ UNCHANGED <<shared, shared_out_start, shared_out_end, mode, local_queue, waiting, fresh>>

\* copy_start = fetch_and_add(sq.shared_in, in)
Reserve(t) ==
  /\ pc[t] = "reserve"
  /\ copy_start' = [copy_start EXCEPT ![t] = shared_in]
  /\ copied' = [copied EXCEPT ![t] = 0]
  /\ shared_in' = shared_in + Len(local_queue[t])
  /\ pc' = [pc EXCEPT ![t] = "copy"]
  /\ UNCHANGED <<shared, shared_out_start, shared_out_end, mode, local_queue, waiting, fresh>>

\* std::copy, one element at a time.
Copy(t) ==
  /\ pc[t] = "copy"
  /\ copied[t] < Len(local_queue[t])
  /\ shared' = [shared EXCEPT ![copy_start[t] + copied[t]] = local_queue[t][copied[t] + 1]]
  /\ copied' = [copied EXCEPT ![t] = @ + 1]
  /\ UNCHANGED <<shared_in, shared_out_start, shared_out_end, mode, pc, local_queue,
                 waiting, copy_start, fresh>>

\* Mutant of EndFlush: in is not reset.
EndFlushKeeps(t) ==
  /\ pc[t] = "copy"
  /\ copied[t] = Len(local_queue[t])
  /\ copied' = [copied EXCEPT ![t] = 0]
  /\ copy_start' = [copy_start EXCEPT ![t] = 0]
  /\ pc' = [pc EXCEPT ![t] = IF waiting[t] = NoItem THEN "joined" ELSE "run"]
  /\ local_queue' = [local_queue EXCEPT ![t] =
       IF waiting[t] = NoItem THEN @ ELSE Append(@, waiting[t])]
  /\ waiting' = [waiting EXCEPT ![t] = NoItem]
  /\ UNCHANGED <<queue, mode, fresh>>

\* in = 0; the push_back that had to wait goes on, the last flush ends.
EndFlush(t) ==
  /\ pc[t] = "copy"
  /\ copied[t] = Len(local_queue[t])
  /\ copied' = [copied EXCEPT ![t] = 0]
  /\ copy_start' = [copy_start EXCEPT ![t] = 0]
  /\ IF waiting[t] = NoItem
     THEN /\ local_queue' = [local_queue EXCEPT ![t] = <<>>]
          /\ pc' = [pc EXCEPT ![t] = "joined"]
     ELSE /\ local_queue' = [local_queue EXCEPT ![t] = <<waiting[t]>>]
          /\ pc' = [pc EXCEPT ![t] = "run"]
  /\ waiting' = [waiting EXCEPT ![t] = NoItem]
  /\ UNCHANGED <<queue, mode, fresh>>

flush(t) == Reserve(t) \/ Copy(t) \/ EndFlush(t)

QueueNext ==
  \/ \E x \in Vertices : PushBack(x)
  \/ slide_window \/ reset \/ Fork \/ Join
  \/ \E t \in Threads : (\E x \in Vertices : BufferPush(t, x)) \/ BufferFlush(t) \/ flush(t)

QueueSpec == QueueInit /\ [][QueueNext]_queueVars

-----------------------------------------------------------------------------
TypeOK ==
  /\ shared \in [Slots -> Vertices \cup {NoItem}]
  /\ shared_in \in Nat /\ shared_out_start \in Nat /\ shared_out_end \in Nat
  /\ shared_out_start <= shared_out_end /\ shared_out_end <= shared_in
  /\ mode \in {"serial", "parallel"}
  /\ pc \in [Threads -> {"run", "reserve", "copy", "joined"}]
  /\ local_queue \in [Threads -> Seq(Vertices)]
  /\ \A t \in Threads : Len(local_queue[t]) <= LocalSize
  /\ waiting \in [Threads -> Vertices \cup {NoItem}]
  /\ copy_start \in [Threads -> Nat]
  /\ copied \in [Threads -> Nat]
  /\ fresh \subseteq Vertices

(***************************************************************************)
(* With a capacity of one slot per item, no append or flush writes past    *)
(* the array, whatever is still in the buffers of the other threads.       *)
(***************************************************************************)
InBounds == shared_in <= SharedSize

\* The slots thread t has reserved and not yet written.
Unwritten(t) ==
  IF pc[t] = "copy"
  THEN (copy_start[t] + copied[t]) .. (copy_start[t] + Len(local_queue[t]) - 1)
  ELSE {}

(***************************************************************************)
(* Concurrent flushes write to ranges of their own, above the window that  *)
(* is being iterated over and inside the array.                            *)
(***************************************************************************)
PrivateRanges ==
  /\ InBounds
  /\ \A s, t \in Threads : s # t => Unwritten(s) \cap Unwritten(t) = {}
  /\ \A t \in Threads : Unwritten(t) \subseteq shared_out_end .. (shared_in - 1)

\* Slots whose content counts: appended since the last reset, and written.
Written == (0 .. (shared_in - 1)) \ UNION {Unwritten(t) : t \in Threads}

(***************************************************************************)
(* No item is queued twice: what one flush copies is never copied by       *)
(* another, and what a reset left in the array is not seen again.          *)
(***************************************************************************)
NoDuplicates ==
  \A k, l \in Written : k # l => shared[k] # shared[l]

ToSet(s) == {s[k] : k \in 1 .. Len(s)}

(***************************************************************************)
(* The queue implements AppendWindow: what an iteration sees is the        *)
(* window; what was appended since is in written slots above it, in a      *)
(* buffer, or waiting for a buffer to be flushed.                          *)
(***************************************************************************)
Window == {shared[k] : k \in shared_out_start .. (shared_out_end - 1)}

Incoming ==
  {shared[k] : k \in {l \in Written : l >= shared_out_end}}
    \cup (UNION {ToSet(local_queue[t]) : t \in Threads})
    \cup {waiting[t] : t \in {s \in Threads : waiting[s] # NoItem}}

Queue == INSTANCE AppendWindow WITH Items <- Vertices, window <- Window, incoming <- Incoming

ImplementsAppendWindow == Queue!Spec
=============================================================================
