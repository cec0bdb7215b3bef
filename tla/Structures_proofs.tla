------------------------- MODULE Structures_proofs -------------------------
(***************************************************************************)
(* The two structures everything else is built from: the queue that the    *)
(* threads share (SlidingQueue), and the arrays and graphs on the heap     *)
(* (Memory).                                                               *)
(*                                                                         *)
(* The sliding queue implements AppendWindow, and never writes past its    *)
(* array, for every team of threads and every size of the buffers, if the  *)
(* array has room for every item that may be appended between two resets.  *)
(*                                                                         *)
(* The class checks no bound: that the cursor stays in the array follows   *)
(* from a pigeonhole argument.  Every slot below the cursor stands for an  *)
(* item of its own, the one written there or the one that the thread which *)
(* reserved the slot still has to copy, so the invariant has to say where  *)
(* each item appended so far is, and that it is there only.                *)
(***************************************************************************)
EXTENDS SlidingQueue, Memory, SequenceTheorems, FiniteSetTheorems, TLAPS

\* Positions of t's buffer that hold an item not yet in the array.
Live(t) == (copied[t] + 1) .. Len(local_queue[t])

Control ==
  /\ mode = "serial" => \A t \in Threads : pc[t] = "joined"
  /\ \A t \in Threads :
       /\ pc[t] # "copy" => copied[t] = 0
       /\ pc[t] = "joined" => local_queue[t] = <<>>
       /\ copied[t] <= Len(local_queue[t])
       /\ waiting[t] # NoItem => pc[t] \in {"reserve", "copy"}

\* Whole reserved ranges, the part already written included, are disjoint.
Ranges ==
  /\ \A t \in Threads : pc[t] = "copy" =>
       /\ shared_out_end <= copy_start[t]
       /\ copy_start[t] + Len(local_queue[t]) <= shared_in
  /\ \A s, t \in Threads : s # t /\ pc[s] = "copy" /\ pc[t] = "copy" =>
       \/ copy_start[s] + Len(local_queue[s]) <= copy_start[t]
       \/ copy_start[t] + Len(local_queue[t]) <= copy_start[s]

\* What has been copied is in the array.
Buffered ==
  \A t \in Threads : pc[t] = "copy" =>
    \A j \in 1 .. copied[t] : shared[copy_start[t] + j - 1] = local_queue[t][j]

QueueShape == TypeOK /\ Control /\ Ranges /\ Buffered

(***************************************************************************)
(* An item is in one written slot, at one live position of one buffer, or  *)
(* waiting for one thread, and then it is not fresh.                       *)
(***************************************************************************)
DistinctLive ==
  \A s, t \in Threads : \A j \in Live(s), k \in Live(t) :
    local_queue[s][j] = local_queue[t][k] => s = t /\ j = k

DistinctWaiting ==
  \A s, t \in Threads : s # t /\ waiting[s] # NoItem => waiting[s] # waiting[t]

SlotsApart ==
  \A k \in Written : \A t \in Threads :
    /\ shared[k] # waiting[t]
    /\ \A j \in Live(t) : shared[k] # local_queue[t][j]

WaitingApart ==
  \A s, t \in Threads : \A j \in Live(s) : local_queue[s][j] # waiting[t]

Spent ==
  /\ \A k \in Written : shared[k] \in Vertices \ fresh
  /\ \A t \in Threads : waiting[t] \notin fresh
  /\ \A t \in Threads : \A j \in Live(t) : local_queue[t][j] \notin fresh

OnePlace ==
  NoDuplicates /\ DistinctLive /\ DistinctWaiting /\ SlotsApart /\ WaitingApart /\ Spent

QueueInv == QueueShape /\ OnePlace

-----------------------------------------------------------------------------
\* A slot of the rest of one range (from c on) is in no range apart from it.
LEMMA RangesApart ==
  ASSUME NEW a \in Nat, NEW c \in Nat, NEW n \in Nat, NEW b \in Nat, NEW m \in Nat,
         a + n <= b \/ b + m <= a,
         NEW k \in Int, b <= k, k < b + m
  PROVE  ~(a + c <= k /\ k < a + n)
OBVIOUS

LEMMA SplitInterval ==
  ASSUME NEW a \in Int, NEW b \in Int, a <= b
  PROVE  a \in a .. b /\ (a + 1) .. b = (a .. b) \ {a}
OBVIOUS

\* A slot is written when it lies below the cursor and no range awaits it.
LEMMA WrittenIff ==
  ASSUME NEW k
  PROVE  k \in Written <=>
           k \in 0 .. (shared_in - 1) /\ \A t \in Threads : k \notin Unwritten(t)
BY DEF Written

LEMMA UnwrittenIff ==
  ASSUME TypeOK, NEW t \in Threads, NEW k \in Int
  PROVE  k \in Unwritten(t) <=>
           /\ pc[t] = "copy"
           /\ copy_start[t] + copied[t] <= k
           /\ k < copy_start[t] + Len(local_queue[t])
BY DEF Unwritten, TypeOK

\* The slots in the window are written.
LEMMA WindowWritten ==
  ASSUME QueueShape, NEW k \in shared_out_start .. (shared_out_end - 1)
  PROVE  k \in Written
<1>1. k \in 0 .. (shared_in - 1)
  BY DEF QueueShape, TypeOK
<1>2. \A t \in Threads : k \notin Unwritten(t)
  BY UnwrittenIff DEF QueueShape, TypeOK, Ranges
<1> QED
  BY <1>1, <1>2, WrittenIff

(***************************************************************************)
(* The cursor counts distinct items: the slots below it, each standing for *)
(* the item written or to be written there, are no more than the items     *)
(* already appended.                                                       *)
(***************************************************************************)
LEMMA Pigeonhole ==
  ASSUME QueueInv
  PROVE  /\ IsFiniteSet(Vertices \ fresh)
         /\ shared_in <= Cardinality(Vertices \ fresh)
<1> USE DEF QueueInv, QueueShape
<1> DEFINE Taken == {k \in 0 .. (shared_in - 1) : \E t \in Threads : k \in Unwritten(t)}
           Owner(k) == CHOOSE t \in Threads : k \in Unwritten(t)
           Position(k) == k - copy_start[Owner(k)] + 1
           Item(k) == IF k \in Taken THEN local_queue[Owner(k)][Position(k)] ELSE shared[k]
           f == [k \in 0 .. (shared_in - 1) |-> Item(k)]
<1>0. shared_in \in Nat
  BY DEF TypeOK
<1>1. IsFiniteSet(Vertices \ fresh) /\ Cardinality(Vertices \ fresh) \in Nat
  BY CapacityAssumption, FS_Subset, FS_CardinalityType
<1>2. ASSUME NEW k \in Taken
      PROVE  /\ Owner(k) \in Threads
             /\ k \in Unwritten(Owner(k))
             /\ Position(k) \in Live(Owner(k))
             /\ k = copy_start[Owner(k)] + Position(k) - 1
  <2>1. \E t \in Threads : k \in Unwritten(t)
    OBVIOUS
  <2>2. Owner(k) \in Threads /\ k \in Unwritten(Owner(k))
    BY <2>1
  <2> DEFINE o == Owner(k)
  <2> HIDE DEF o
  <2>3. k \in Int /\ copy_start[o] \in Nat /\ copied[o] \in Nat /\ Len(local_queue[o]) \in Nat
    BY <1>0, <2>2 DEF TypeOK, o
  <2>4. copy_start[o] + copied[o] <= k /\ k < copy_start[o] + Len(local_queue[o])
    BY <2>2, <2>3, UnwrittenIff DEF o
  <2> QED
    BY <2>2, <2>3, <2>4 DEF Live, o
<1>3. \A k \in (0 .. (shared_in - 1)) \ Taken : k \in Written
  BY WrittenIff
<1>4. ASSUME NEW k \in 0 .. (shared_in - 1)
      PROVE  Item(k) \in Vertices \ fresh
  <2>1. CASE k \in Taken
    <3> DEFINE o == Owner(k)  p == Position(k)
    <3>1. o \in Threads /\ p \in Live(o) /\ Item(k) = local_queue[o][p]
      BY <1>2, <2>1
    <3> HIDE DEF o, p, Item
    <3>2. local_queue[o] \in Seq(Vertices) /\ copied[o] \in Nat
      BY <3>1 DEF TypeOK
    <3>3. p \in 1 .. Len(local_queue[o])
      BY <3>1, <3>2 DEF Live
    <3> QED
      BY <3>1, <3>2, <3>3 DEF OnePlace, Spent
  <2>2. CASE k \notin Taken
    BY <1>3, <2>2 DEF OnePlace, Spent
  <2> QED
    BY <2>1, <2>2
<1>5. ASSUME NEW k \in 0 .. (shared_in - 1), NEW l \in 0 .. (shared_in - 1), Item(k) = Item(l)
      PROVE  k = l
  <2>1. CASE k \in Taken /\ l \in Taken
    <3> DEFINE o == Owner(k)  p == Position(k)  o2 == Owner(l)  p2 == Position(l)
    <3>1. /\ o \in Threads /\ p \in Live(o) /\ Item(k) = local_queue[o][p]
          /\ k = copy_start[o] + p - 1
      BY <1>2, <2>1
    <3>2. /\ o2 \in Threads /\ p2 \in Live(o2) /\ Item(l) = local_queue[o2][p2]
          /\ l = copy_start[o2] + p2 - 1
      BY <1>2, <2>1
    <3> HIDE DEF o, p, o2, p2, Item
    <3> QED
      BY <3>1, <3>2, <1>5 DEF OnePlace, DistinctLive
  <2>2. CASE k \notin Taken /\ l \notin Taken
    BY <1>3, <1>5, <2>2 DEF OnePlace, NoDuplicates
  <2>3. ASSUME NEW a \in Taken, NEW b \in (0 .. (shared_in - 1)) \ Taken
        PROVE  Item(a) # Item(b)
    <3> DEFINE o == Owner(a)  p == Position(a)
    <3>1. o \in Threads /\ p \in Live(o) /\ Item(a) = local_queue[o][p]
      BY <1>2
    <3>2. Item(b) = shared[b] /\ b \in Written
      BY <1>3
    <3> HIDE DEF o, p, Item
    <3> QED
      BY <3>1, <3>2 DEF OnePlace, SlotsApart
  <2> HIDE DEF Item, Taken
  <2> QED
    BY <2>1, <2>2, <2>3, <1>5
<1>6. Cardinality(0 .. (shared_in - 1)) = shared_in /\ IsFiniteSet(0 .. (shared_in - 1))
  BY <1>0, FS_Interval
<1>7. f \in [0 .. (shared_in - 1) -> Vertices \ fresh]
  BY <1>4
<1> HIDE DEF f
<1>8. ASSUME Cardinality(Vertices \ fresh) < shared_in PROVE FALSE
  <2>1. PICK k \in 0 .. (shared_in - 1), l \in 0 .. (shared_in - 1) : k # l /\ f[k] = f[l]
    BY <1>1, <1>6, <1>7, <1>8, FS_PigeonHole
  <2>2. Item(k) = Item(l)
    BY <2>1 DEF f
  <2> QED
    BY <1>5, <2>1, <2>2
<1> QED
  BY <1>0, <1>1, <1>8

\* There is a slot for everything appended, and one more while an item is fresh.
LEMMA RoomFor ==
  ASSUME QueueInv
  PROVE  /\ shared_in <= SharedSize
         /\ fresh # {} => shared_in < SharedSize
<1>1. /\ IsFiniteSet(Vertices \ fresh) /\ shared_in <= Cardinality(Vertices \ fresh)
      /\ shared_in \in Nat
  BY Pigeonhole DEF QueueInv, QueueShape, TypeOK
<1>2. /\ Cardinality(Vertices \ fresh) \in Nat /\ Cardinality(Vertices) \in Nat
      /\ Cardinality(Vertices \ fresh) <= Cardinality(Vertices)
  BY CapacityAssumption, FS_Subset, FS_CardinalityType
<1>3. ASSUME fresh # {} PROVE Cardinality(Vertices \ fresh) < Cardinality(Vertices)
  <2>1. Vertices \ fresh # Vertices
    BY <1>3 DEF QueueInv, QueueShape, TypeOK
  <2> QED
    BY <1>2, <2>1, CapacityAssumption, FS_Subset
<1> QED
  BY <1>1, <1>2, <1>3, CapacityAssumption

-----------------------------------------------------------------------------
LEMMA ShapeInit == QueueInit => QueueShape
<1> SUFFICES ASSUME QueueInit PROVE QueueShape
  OBVIOUS
<1>1. TypeOK
  BY CapacityAssumption, LocalSizeAssumption DEF QueueInit, TypeOK, Slots
<1> QED
  BY <1>1 DEF QueueInit, QueueShape, Control, Ranges, Buffered

LEMMA QueueInitInv == QueueInit => QueueInv
<1> SUFFICES ASSUME QueueInit PROVE QueueInv
  OBVIOUS
<1>1. Written = {} /\ \A t \in Threads : Live(t) = {}
  BY DEF QueueInit, Written, Live
<1> QED
  BY <1>1, ShapeInit, NoItemAssumption
     DEF QueueInit, QueueInv, OnePlace, NoDuplicates, DistinctLive, DistinctWaiting, SlotsApart,
         WaitingApart, Spent

(***************************************************************************)
(* The shape survives every step.                                          *)
(***************************************************************************)
LEMMA ShapePushBack ==
  ASSUME QueueInv, NEW x \in Vertices, PushBack(x)
  PROVE  QueueShape'
<1>1. shared_in \in Slots
  <2>1. shared_in < SharedSize /\ shared_in \in Nat
    BY RoomFor DEF PushBack, QueueInv, QueueShape, TypeOK
  <2> QED
    BY <2>1, CapacityAssumption DEF Slots
<1> USE DEF PushBack, buffers, QueueInv, QueueShape
<1>2. TypeOK'
  BY <1>1 DEF TypeOK
<1> QED
  BY <1>1, <1>2 DEF TypeOK, Control, Ranges, Buffered

LEMMA ShapeMaster ==
  ASSUME QueueInv, slide_window \/ reset \/ Fork \/ Join
  PROVE  QueueShape'
<1> USE DEF buffers, queue, QueueInv, QueueShape
<1>1. CASE slide_window
  BY <1>1 DEF slide_window, TypeOK, Control, Ranges, Buffered
<1>2. CASE reset
  BY <1>2 DEF reset, TypeOK, Control, Ranges, Buffered
<1>3. CASE Fork
  BY <1>3 DEF Fork, TypeOK, Control, Ranges, Buffered
<1>4. CASE Join
  BY <1>4 DEF Join, TypeOK, Control, Ranges, Buffered
<1> QED
  BY <1>1, <1>2, <1>3, <1>4

LEMMA ShapeBuffer ==
  ASSUME QueueInv, NEW t \in Threads, BufferFlush(t) \/ \E x \in Vertices : BufferPush(t, x)
  PROVE  QueueShape'
<1> USE DEF queue, QueueInv, QueueShape
<1>1. CASE BufferFlush(t)
  BY <1>1 DEF BufferFlush, TypeOK, Control, Ranges, Buffered
<1>2. ASSUME NEW x \in Vertices, BufferPush(t, x), Len(local_queue[t]) # LocalSize,
             local_queue' = [local_queue EXCEPT ![t] = Append(@, x)],
             UNCHANGED <<pc, waiting>>
      PROVE  QueueShape'
  <2>1. local_queue[t] \in Seq(Vertices) /\ Len(local_queue[t]) <= LocalSize
    BY DEF TypeOK
  <2>2. /\ Append(local_queue[t], x) \in Seq(Vertices)
        /\ Len(Append(local_queue[t], x)) = Len(local_queue[t]) + 1
    BY <2>1
  <2>3. TypeOK'
    BY <1>2, <2>1, <2>2, LocalSizeAssumption DEF TypeOK, BufferPush
  <2> QED
    BY <1>2, <2>1, <2>2, <2>3 DEF BufferPush, TypeOK, Control, Ranges, Buffered
<1>3. ASSUME NEW x \in Vertices, BufferPush(t, x), Len(local_queue[t]) = LocalSize,
             waiting' = [waiting EXCEPT ![t] = x],
             pc' = [pc EXCEPT ![t] = "reserve"],
             UNCHANGED local_queue
      PROVE  QueueShape'
  BY <1>3 DEF BufferPush, TypeOK, Control, Ranges, Buffered
<1> QED
  BY <1>1, <1>2, <1>3 DEF BufferPush

LEMMA ShapeReserve ==
  ASSUME QueueInv, NEW t \in Threads, Reserve(t)
  PROVE  QueueShape'
<1> USE DEF Reserve, QueueInv, QueueShape
<1>1. TypeOK'
  BY DEF TypeOK
<1> QED
  BY SMTT(30), <1>1 DEF TypeOK, Control, Ranges, Buffered

\* The slot a Copy writes.
LEMMA CopySlot ==
  ASSUME QueueInv, NEW t \in Threads, Copy(t)
  PROVE  /\ copy_start[t] + copied[t] \in Slots
         /\ copy_start[t] + copied[t] \in shared_out_end .. (shared_in - 1)
         /\ copied[t] + 1 \in 1 .. Len(local_queue[t])
         /\ local_queue[t] \in Seq(Vertices)
<1>1. /\ copy_start[t] \in Nat /\ copied[t] \in Nat /\ shared_in \in Nat
      /\ shared_out_end \in Nat /\ local_queue[t] \in Seq(Vertices)
  BY DEF QueueInv, QueueShape, TypeOK
<1>2. pc[t] = "copy" /\ copied[t] < Len(local_queue[t])
  BY DEF Copy
<1>3. shared_out_end <= copy_start[t] /\ copy_start[t] + Len(local_queue[t]) <= shared_in
  BY <1>2 DEF QueueInv, QueueShape, Ranges
<1>4. shared_in <= SharedSize /\ SharedSize \in Nat
  BY RoomFor, CapacityAssumption
<1> QED
  BY SMTT(30), <1>1, <1>2, <1>3, <1>4 DEF Slots

LEMMA ShapeCopy ==
  ASSUME QueueInv, NEW t \in Threads, Copy(t)
  PROVE  QueueShape'
<1> USE DEF Copy, QueueInv, QueueShape
<1>0. /\ copy_start[t] + copied[t] \in Slots
      /\ copied[t] + 1 \in 1 .. Len(local_queue[t])
      /\ local_queue[t] \in Seq(Vertices)
  BY CopySlot
<1>1. TypeOK'
  <2>1. local_queue[t][copied[t] + 1] \in Vertices
    BY <1>0
  <2>2. shared' \in [Slots -> Vertices \cup {NoItem}]
    BY <2>1 DEF TypeOK
  <2>3. copied' \in [Threads -> Nat]
    BY DEF TypeOK
  <2> HIDE DEF Copy
  <2>4. UNCHANGED <<shared_in, shared_out_start, shared_out_end, mode, pc, local_queue,
                    waiting, copy_start, fresh>>
    BY DEF Copy
  <2> QED
    BY <2>2, <2>3, <2>4 DEF TypeOK
<1>2. Control' /\ Ranges'
  BY CopySlot DEF TypeOK, Control, Ranges
<1>3. Buffered'
  <2> SUFFICES ASSUME NEW s \in Threads, pc[s] = "copy", NEW j \in 1 .. copied'[s]
               PROVE  shared'[copy_start[s] + j - 1] = local_queue[s][j]
    BY DEF Buffered
  <2>1. CASE s = t /\ j = copied[t] + 1
    <3>1. copy_start[s] + j - 1 = copy_start[t] + copied[t]
      BY <2>1 DEF TypeOK
    <3> QED
      BY <1>0, <2>1, <3>1 DEF TypeOK
  <2>2. CASE s = t /\ j # copied[t] + 1
    <3>1. j \in 1 .. copied[t] /\ copy_start[s] + j - 1 # copy_start[t] + copied[t]
      BY <2>2 DEF TypeOK
    <3>2. shared[copy_start[s] + j - 1] = local_queue[s][j]
      BY <2>2, <3>1 DEF Buffered
    <3> QED
      BY <3>1, <3>2 DEF TypeOK
  <2>3. CASE s # t
    <3>1. j \in 1 .. copied[s]
      BY <2>3 DEF TypeOK
    <3>2. /\ copy_start[s] \in Nat /\ copied[s] \in Nat /\ Len(local_queue[s]) \in Nat
          /\ copy_start[t] \in Nat /\ copied[t] \in Nat /\ Len(local_queue[t]) \in Nat
          /\ copied[s] <= Len(local_queue[s])
      BY DEF TypeOK, Control
    <3>3. \/ copy_start[s] + Len(local_queue[s]) <= copy_start[t]
          \/ copy_start[t] + Len(local_queue[t]) <= copy_start[s]
      BY <2>3 DEF Ranges
    <3>4. j <= copied[s] /\ j >= 1 /\ copied[t] + 1 <= Len(local_queue[t])
      BY <1>0, <3>1
    <3>5. copy_start[s] + j - 1 # copy_start[t] + copied[t]
      <4>1. CASE copy_start[s] + Len(local_queue[s]) <= copy_start[t]
        BY SMTT(30), <3>1, <3>2, <3>4, <4>1
      <4>2. CASE copy_start[t] + Len(local_queue[t]) <= copy_start[s]
        BY <3>1, <3>2, <3>4, <4>2
      <4> QED
        BY <3>3, <4>1, <4>2
    <3> QED
      BY <3>1, <3>5 DEF TypeOK, Buffered
  <2> QED
    BY <2>1, <2>2, <2>3
<1> QED
  BY <1>1, <1>2, <1>3

LEMMA ShapeEndFlush ==
  ASSUME QueueInv, NEW t \in Threads, EndFlush(t)
  PROVE  QueueShape'
<1> USE DEF EndFlush, queue, QueueInv, QueueShape
<1>1. TypeOK'
  <2> DEFINE q == IF waiting[t] = NoItem THEN <<>> ELSE <<waiting[t]>>
  <2>1. q \in Seq(Vertices) /\ Len(q) <= LocalSize
    BY LocalSizeAssumption DEF TypeOK
  <2>2. local_queue' = [local_queue EXCEPT ![t] = q]
    OBVIOUS
  <2> HIDE DEF q
  <2>3. local_queue' \in [Threads -> Seq(Vertices)]
    BY <2>1, <2>2 DEF TypeOK
  <2>4. \A s \in Threads : Len(local_queue'[s]) <= LocalSize
    BY <2>1, <2>2 DEF TypeOK
  <2> QED
    BY <2>3, <2>4 DEF TypeOK
<1>2. /\ pc'[t] # "copy"
      /\ \A s \in Threads : s # t => /\ pc'[s] = pc[s] /\ local_queue'[s] = local_queue[s]
                                     /\ copied'[s] = copied[s] /\ copy_start'[s] = copy_start[s]
                                     /\ waiting'[s] = waiting[s]
  BY DEF TypeOK
<1>3. Control'
  BY <1>1, <1>2 DEF TypeOK, Control
<1>4. Ranges' /\ Buffered'
  BY <1>2 DEF Ranges, Buffered
<1> QED
  BY <1>1, <1>3, <1>4

-----------------------------------------------------------------------------
(***************************************************************************)
(* Every item stays in one place.  First, what each step makes of the      *)
(* written slots and of the live positions of the buffers.                 *)
(***************************************************************************)
LEMMA SerialIsEmpty ==
  ASSUME QueueShape, mode = "serial"
  PROVE  /\ Written = 0 .. (shared_in - 1)
         /\ \A t \in Threads : /\ Live(t) = {} /\ waiting[t] = NoItem
                              /\ pc[t] = "joined" /\ local_queue[t] = <<>> /\ copied[t] = 0
<1>1. \A t \in Threads : pc[t] = "joined" /\ local_queue[t] = <<>> /\ copied[t] = 0
  BY DEF QueueShape, Control
<1>2. \A t \in Threads : Unwritten(t) = {} /\ waiting[t] = NoItem
  BY <1>1 DEF QueueShape, Control, Unwritten
<1>3. \A t \in Threads : Live(t) = {}
  BY <1>1 DEF Live
<1> QED
  BY <1>1, <1>2, <1>3 DEF Written

LEMMA SamePlaces ==
  ASSUME QueueInv,
         Written' = Written, shared' = shared, fresh' = fresh,
         waiting' = waiting, local_queue' = local_queue,
         \A t \in Threads : Live(t)' = Live(t)
  PROVE  OnePlace'
BY DEF QueueInv, OnePlace, NoDuplicates, DistinctLive, DistinctWaiting, SlotsApart, WaitingApart,
       Spent

LEMMA PlacesPushBack ==
  ASSUME QueueInv, NEW x \in Vertices, PushBack(x)
  PROVE  /\ Written' = Written \cup {shared_in}
         /\ \A k \in Written : shared'[k] = shared[k]
         /\ shared'[shared_in] = x
         /\ shared_in \notin Written
<1>1. shared_in < SharedSize /\ shared_in \in Nat /\ mode = "serial"
  BY RoomFor DEF PushBack, QueueInv, QueueShape, TypeOK
<1>2. shared_in \in Slots
  BY <1>1, CapacityAssumption DEF Slots
<1>3. Written = 0 .. (shared_in - 1)
  BY <1>1, SerialIsEmpty DEF QueueInv
<1>4. \A t \in Threads : Unwritten(t)' = {}
  BY <1>1, SerialIsEmpty DEF PushBack, buffers, Unwritten, QueueInv
<1>5. Written' = 0 .. shared_in
  BY <1>1, <1>4 DEF Written, PushBack
<1> QED
  BY <1>1, <1>2, <1>3, <1>5 DEF PushBack, QueueInv, QueueShape, TypeOK

LEMMA OnePlacePushBack ==
  ASSUME QueueInv, NEW x \in Vertices, PushBack(x)
  PROVE  OnePlace'
<1>1. /\ Written' = Written \cup {shared_in}
      /\ \A k \in Written : shared'[k] = shared[k]
      /\ shared'[shared_in] = x
      /\ shared_in \notin Written
  BY PlacesPushBack
<1>2. \A t \in Threads : Live(t) = {} /\ waiting[t] = NoItem
  BY SerialIsEmpty DEF PushBack, QueueInv
<1>3. /\ \A t \in Threads : Live(t)' = {} /\ waiting'[t] = NoItem
      /\ fresh' = fresh \ {x} /\ x \in fresh
  BY <1>2 DEF PushBack, buffers, Live
<1>4. \A k \in Written' : shared'[k] \in Vertices \ fresh'
  BY <1>1, <1>3 DEF QueueInv, OnePlace, Spent
<1>5. NoDuplicates'
  BY <1>1, <1>3 DEF QueueInv, OnePlace, NoDuplicates, Spent
<1>6. fresh \subseteq Vertices
  BY DEF QueueInv, QueueShape, TypeOK
<1> QED
  BY <1>3, <1>4, <1>5, <1>6, NoItemAssumption
     DEF OnePlace, DistinctLive, DistinctWaiting, SlotsApart, WaitingApart, Spent

LEMMA OnePlaceMaster ==
  ASSUME QueueInv, slide_window \/ reset \/ Fork \/ Join
  PROVE  OnePlace'
<1>1. CASE slide_window \/ Join
  <2>1. UNCHANGED <<shared, shared_in, buffers, fresh>>
    BY <1>1 DEF slide_window, Join, queue
  <2>2. Written' = Written /\ \A t \in Threads : Live(t)' = Live(t)
    BY <2>1 DEF Written, Unwritten, Live, buffers
  <2> QED
    BY <2>1, <2>2, SamePlaces DEF buffers
<1>2. CASE reset
  <2>1. \A t \in Threads : Live(t) = {} /\ waiting[t] = NoItem
    BY <1>2, SerialIsEmpty DEF reset, QueueInv
  <2>2. \A t \in Threads : Live(t)' = {} /\ waiting'[t] = NoItem
    BY <1>2, <2>1 DEF reset, buffers, Live
  <2>3. Written' = {}
    BY <1>2 DEF reset, Written
  <2>4. fresh' = Vertices
    BY <1>2 DEF reset
  <2> QED
    BY <2>2, <2>3, <2>4, NoItemAssumption
       DEF OnePlace, NoDuplicates, DistinctLive, DistinctWaiting, SlotsApart, WaitingApart, Spent
<1>3. CASE Fork
  <2>1. \A t \in Threads : pc[t] = "joined" /\ pc'[t] = "run"
    BY <1>3, SerialIsEmpty DEF Fork, QueueInv
  <2>2. \A t \in Threads : Unwritten(t) = {} /\ Unwritten(t)' = {}
    BY <2>1 DEF Unwritten
  <2>3. Written' = Written /\ \A t \in Threads : Live(t)' = Live(t)
    BY <1>3, <2>2 DEF Fork, queue, Written, Live
  <2> QED
    BY <1>3, <2>3, SamePlaces DEF Fork, queue
<1> QED
  BY <1>1, <1>2, <1>3

LEMMA OnePlaceBuffer ==
  ASSUME QueueInv, NEW t \in Threads, BufferFlush(t) \/ \E x \in Vertices : BufferPush(t, x)
  PROVE  OnePlace'
<1>0. /\ pc[t] = "run" /\ copied[t] = 0 /\ waiting[t] = NoItem
      /\ UNCHANGED <<shared, shared_in, copied>>
      /\ local_queue[t] \in Seq(Vertices)
  BY DEF BufferFlush, BufferPush, queue, QueueInv, QueueShape, Control, TypeOK
<1>1. Written' = Written
  <2>1. pc[t] # "copy" /\ pc'[t] # "copy"
    BY <1>0 DEF BufferFlush, BufferPush, QueueInv, QueueShape, TypeOK
  <2>2. Unwritten(t) = {} /\ Unwritten(t)' = {}
    BY <2>1 DEF Unwritten
  <2>3. \A s \in Threads \ {t} : Unwritten(s)' = Unwritten(s)
    BY DEF BufferFlush, BufferPush, Unwritten, QueueInv, QueueShape, TypeOK
  <2> QED
    BY <1>0, <2>2, <2>3 DEF Written
<1>2. CASE BufferFlush(t)
  <2>1. \A s \in Threads : Live(s)' = Live(s)
    BY <1>2 DEF BufferFlush, Live
  <2> QED
    BY <1>1, <1>2, <2>1, SamePlaces DEF BufferFlush, queue
<1>3. ASSUME NEW x \in Vertices, BufferPush(t, x), Len(local_queue[t]) # LocalSize,
             local_queue' = [local_queue EXCEPT ![t] = Append(@, x)],
             UNCHANGED <<pc, waiting>>
      PROVE  OnePlace'
  <2> DEFINE n == Len(local_queue[t]) + 1
  <2>1. /\ local_queue'[t] = Append(local_queue[t], x)
        /\ \A s \in Threads \ {t} : local_queue'[s] = local_queue[s] /\ Live(s)' = Live(s)
    BY <1>3, <1>0 DEF Live, QueueInv, QueueShape, TypeOK
  <2>2. /\ Live(t) = 1 .. Len(local_queue[t])
        /\ Live(t)' = Live(t) \cup {n} /\ n \notin Live(t)
        /\ local_queue'[t][n] = x
        /\ \A j \in Live(t) : local_queue'[t][j] = local_queue[t][j]
    BY <1>0, <2>1 DEF Live
  <2>3. fresh' = fresh \ {x} /\ x \in fresh
    BY <1>3 DEF BufferPush
  <2> HIDE DEF n
  <2>4. ASSUME NEW r \in Threads, NEW j \in Live(r)'
        PROVE  \/ r = t /\ j = n /\ local_queue'[r][j] = x
               \/ /\ j \in Live(r) /\ local_queue'[r][j] = local_queue[r][j]
                  /\ (r # t \/ j # n)
                  /\ local_queue[r][j] # x
    BY <2>1, <2>2, <2>3 DEF QueueInv, OnePlace, Spent
  <2>5. \A r \in Threads : \A j \in Live(r) : local_queue[r][j] # x
    BY <2>3 DEF QueueInv, OnePlace, Spent
  <2>6. \A r \in Threads : waiting[r] # x
    BY <2>3 DEF QueueInv, OnePlace, Spent
  <2>7. \A k \in Written : shared[k] # x
    BY <2>3 DEF QueueInv, OnePlace, Spent
  <2>8. DistinctLive'
    <3> SUFFICES ASSUME NEW r \in Threads, NEW q \in Threads,
                        NEW j \in Live(r)', NEW k \in Live(q)',
                        local_queue'[r][j] = local_queue'[q][k]
                 PROVE  r = q /\ j = k
      BY DEF DistinctLive
    <3> QED
      BY <2>4, <2>5 DEF QueueInv, OnePlace, DistinctLive
  <2>9. SlotsApart'
    <3> SUFFICES ASSUME NEW k \in Written, NEW r \in Threads
                 PROVE  /\ shared[k] # waiting[r]
                        /\ \A j \in Live(r)' : shared[k] # local_queue'[r][j]
      BY <1>0, <1>1, <1>3 DEF SlotsApart
    <3> QED
      BY <2>4, <2>7 DEF QueueInv, OnePlace, SlotsApart
  <2>10. WaitingApart'
    <3> SUFFICES ASSUME NEW r \in Threads, NEW q \in Threads, NEW j \in Live(r)'
                 PROVE  local_queue'[r][j] # waiting[q]
      BY <1>3 DEF WaitingApart
    <3> QED
      BY <2>4, <2>6 DEF QueueInv, OnePlace, WaitingApart
  <2>11. Spent'
    <3>1. \A r \in Threads : \A j \in Live(r)' : local_queue'[r][j] \notin fresh'
      BY <2>3, <2>4 DEF QueueInv, OnePlace, Spent
    <3>2. \A k \in Written : shared[k] \in Vertices \ fresh'
      BY <2>3, <2>7 DEF QueueInv, OnePlace, Spent
    <3> QED
      BY <1>0, <1>1, <1>3, <2>3, <3>1, <3>2 DEF QueueInv, OnePlace, Spent
  <2> QED
    BY <1>0, <1>1, <1>3, <2>8, <2>9, <2>10, <2>11
       DEF QueueInv, OnePlace, NoDuplicates, DistinctWaiting
<1>4. ASSUME NEW x \in Vertices, BufferPush(t, x), Len(local_queue[t]) = LocalSize,
             waiting' = [waiting EXCEPT ![t] = x],
             UNCHANGED local_queue
      PROVE  OnePlace'
  <2>1. \A s \in Threads : Live(s)' = Live(s)
    BY <1>0, <1>4 DEF Live
  <2>2. /\ waiting'[t] = x /\ \A s \in Threads \ {t} : waiting'[s] = waiting[s]
        /\ fresh' = fresh \ {x} /\ x \in fresh /\ x # NoItem
    BY <1>4, NoItemAssumption DEF BufferPush, QueueInv, QueueShape, TypeOK
  <2>3. DistinctWaiting'
    BY <2>2 DEF DistinctWaiting, QueueInv, OnePlace, Spent
  <2>4. SlotsApart' /\ WaitingApart' /\ Spent'
    BY <1>0, <1>1, <1>4, <2>1, <2>2 DEF SlotsApart, WaitingApart, Spent, QueueInv, OnePlace
  <2> QED
    BY <1>0, <1>1, <1>4, <2>1, <2>3, <2>4 DEF QueueInv, OnePlace, NoDuplicates, DistinctLive
<1> QED
  BY <1>2, <1>3, <1>4 DEF BufferPush

LEMMA PlacesReserve ==
  ASSUME QueueInv, NEW t \in Threads, Reserve(t)
  PROVE  Written' = Written
<1> DEFINE n == Len(local_queue[t])
<1>1. /\ n \in Nat /\ shared_in \in Nat /\ pc[t] = "reserve" /\ pc'[t] = "copy"
      /\ copied'[t] = 0 /\ copy_start'[t] = shared_in
      /\ shared_in' = shared_in + n /\ local_queue' = local_queue
  BY DEF Reserve, QueueInv, QueueShape, TypeOK
<1>2. Unwritten(t) = {} /\ Unwritten(t)' = shared_in .. (shared_in + n - 1)
  BY <1>1 DEF Unwritten
<1>3. \A s \in Threads \ {t} : Unwritten(s)' = Unwritten(s)
  BY DEF Reserve, Unwritten, QueueInv, QueueShape, TypeOK
<1>4. \A k \in Int : k \in 0 .. (shared_in' - 1) /\ k \notin Unwritten(t)' <=>
                      k \in 0 .. (shared_in - 1) /\ k \notin Unwritten(t)
  BY <1>1, <1>2
<1> QED
  BY <1>3, <1>4 DEF Written

LEMMA OnePlaceReserve ==
  ASSUME QueueInv, NEW t \in Threads, Reserve(t)
  PROVE  OnePlace'
<1>1. copied' = copied
  BY DEF Reserve, QueueInv, QueueShape, TypeOK, Control
<1>2. \A s \in Threads : Live(s)' = Live(s)
  BY <1>1 DEF Live, Reserve
<1> QED
  BY <1>2, PlacesReserve, SamePlaces DEF Reserve

LEMMA PlacesCopy ==
  ASSUME QueueInv, NEW t \in Threads, Copy(t)
  PROVE  LET slot == copy_start[t] + copied[t]
             j == copied[t] + 1
         IN  /\ Written' = Written \cup {slot} /\ slot \notin Written
             /\ slot \in shared_out_end .. (shared_in - 1)
             /\ \A k \in Written : shared'[k] = shared[k]
             /\ shared'[slot] = local_queue[t][j]
             /\ j \in Live(t) /\ Live(t)' = Live(t) \ {j}
             /\ \A s \in Threads \ {t} : Live(s)' = Live(s)
<1> DEFINE slot == copy_start[t] + copied[t]
           j == copied[t] + 1
           n == Len(local_queue[t])
<1>1. /\ slot \in Slots /\ slot \in shared_out_end .. (shared_in - 1)
      /\ j \in 1 .. n /\ local_queue[t] \in Seq(Vertices)
  BY CopySlot
<1>2. /\ copied[t] \in Nat /\ copy_start[t] \in Nat /\ n \in Nat /\ shared_in \in Nat
      /\ shared_out_end \in Nat
      /\ pc[t] = "copy" /\ copied'[t] = copied[t] + 1
      /\ UNCHANGED <<shared_in, pc, copy_start, local_queue>>
      /\ \A s \in Threads \ {t} : copied'[s] = copied[s]
  BY DEF Copy, QueueInv, QueueShape, TypeOK
<1>3. /\ Unwritten(t) = slot .. (copy_start[t] + n - 1)
      /\ Unwritten(t)' = (slot + 1) .. (copy_start[t] + n - 1)
  BY <1>2 DEF Unwritten
<1>4. slot \in Unwritten(t) /\ Unwritten(t)' = Unwritten(t) \ {slot}
  <2>1. slot \in Int /\ copy_start[t] + n - 1 \in Int /\ slot <= copy_start[t] + n - 1
    BY <1>1, <1>2
  <2> QED
    BY <1>3, <2>1, SplitInterval
<1>5. \A s \in Threads \ {t} : Unwritten(s)' = Unwritten(s)
  BY <1>2 DEF Unwritten
<1>6. ASSUME NEW s \in Threads \ {t} PROVE slot \notin Unwritten(s)
  <2>1. /\ copied[s] \in Nat /\ copy_start[s] \in Nat /\ Len(local_queue[s]) \in Nat
        /\ TypeOK
    BY DEF QueueInv, QueueShape, TypeOK
  <2>2. pc[s] = "copy" => \/ copy_start[s] + Len(local_queue[s]) <= copy_start[t]
                          \/ copy_start[t] + n <= copy_start[s]
    BY <1>2 DEF QueueInv, QueueShape, Ranges
  <2>3. copy_start[t] <= slot /\ slot < copy_start[t] + n /\ slot \in Int
    BY <1>1, <1>2
  <2> HIDE DEF slot
  <2>4. pc[s] = "copy" => ~(/\ copy_start[s] + copied[s] <= slot
                            /\ slot < copy_start[s] + Len(local_queue[s]))
    BY <1>2, <2>1, <2>2, <2>3, RangesApart
  <2> QED
    BY <2>1, <2>3, <2>4, UnwrittenIff
<1>7. Written' = Written \cup {slot} /\ slot \notin Written
  <2>1. slot \in 0 .. (shared_in - 1)
    BY <1>1, <1>2
  <2> HIDE DEF slot
  <2> QED
    BY <1>2, <1>4, <1>5, <1>6, <2>1 DEF Written
<1>8. /\ \A k \in Written : shared'[k] = shared[k]
      /\ shared'[slot] = local_queue[t][j]
  BY <1>1, <1>7 DEF Copy, QueueInv, QueueShape, TypeOK
<1>9. /\ j \in Live(t) /\ Live(t)' = Live(t) \ {j}
      /\ \A s \in Threads \ {t} : Live(s)' = Live(s)
  BY <1>1, <1>2 DEF Live
<1> QED
  BY <1>1, <1>7, <1>8, <1>9

LEMMA OnePlaceCopy ==
  ASSUME QueueInv, NEW t \in Threads, Copy(t)
  PROVE  OnePlace'
<1> DEFINE slot == copy_start[t] + copied[t]
           j == copied[t] + 1
<1>1. /\ Written' = Written \cup {slot} /\ slot \notin Written
      /\ \A k \in Written : shared'[k] = shared[k]
      /\ shared'[slot] = local_queue[t][j]
      /\ j \in Live(t) /\ Live(t)' = Live(t) \ {j}
      /\ \A s \in Threads \ {t} : Live(s)' = Live(s)
  BY PlacesCopy
<1>2. UNCHANGED <<local_queue, waiting, fresh>>
  BY DEF Copy
<1>3. local_queue[t][j] \in Vertices
  BY CopySlot
<1> HIDE DEF slot, j
<1>4. \A s \in Threads : \A l \in Live(s)' :
        l \in Live(s) /\ local_queue[s][l] # local_queue[t][j]
  BY <1>1 DEF QueueInv, OnePlace, DistinctLive
<1>5. NoDuplicates'
  BY <1>1 DEF QueueInv, OnePlace, NoDuplicates, SlotsApart
<1>6. DistinctLive'
  BY <1>2, <1>4 DEF QueueInv, OnePlace, DistinctLive
<1>7. SlotsApart'
  BY <1>1, <1>2, <1>4 DEF QueueInv, OnePlace, SlotsApart, WaitingApart
<1>8. WaitingApart' /\ DistinctWaiting'
  BY <1>2, <1>4 DEF QueueInv, OnePlace, WaitingApart, DistinctWaiting
<1>9. Spent'
  BY <1>1, <1>2, <1>3, <1>4 DEF QueueInv, OnePlace, Spent
<1> QED
  BY <1>5, <1>6, <1>7, <1>8, <1>9 DEF OnePlace

LEMMA PlacesEndFlush ==
  ASSUME QueueInv, NEW t \in Threads, EndFlush(t)
  PROVE  /\ Written' = Written /\ UNCHANGED <<shared, fresh>>
         /\ Live(t) = {} /\ waiting'[t] = NoItem
         /\ waiting[t] = NoItem => Live(t)' = {}
         /\ waiting[t] # NoItem => Live(t)' = {1} /\ local_queue'[t][1] = waiting[t]
         /\ \A s \in Threads \ {t} : /\ Live(s)' = Live(s) /\ waiting'[s] = waiting[s]
                                     /\ local_queue'[s] = local_queue[s]
<1>1. /\ copied[t] \in Nat /\ copied[t] = Len(local_queue[t]) /\ copied'[t] = 0
      /\ copy_start[t] \in Nat /\ pc'[t] # "copy" /\ waiting'[t] = NoItem
      /\ local_queue'[t] = IF waiting[t] = NoItem THEN <<>> ELSE <<waiting[t]>>
      /\ UNCHANGED <<shared, shared_in, fresh>>
      /\ \A s \in Threads \ {t} :
           /\ pc'[s] = pc[s] /\ copied'[s] = copied[s] /\ copy_start'[s] = copy_start[s]
           /\ local_queue'[s] = local_queue[s] /\ waiting'[s] = waiting[s]
  BY DEF EndFlush, queue, QueueInv, QueueShape, TypeOK
<1>2. Unwritten(t) = {} /\ Unwritten(t)' = {}
  BY <1>1 DEF Unwritten
<1>3. \A s \in Threads \ {t} : Unwritten(s)' = Unwritten(s) /\ Live(s)' = Live(s)
  BY <1>1 DEF Unwritten, Live
<1>4. Written' = Written
  BY <1>1, <1>2, <1>3 DEF Written
<1>5. Live(t) = {}
  BY <1>1 DEF Live
<1>6. waiting[t] = NoItem => Live(t)' = {}
  BY <1>1 DEF Live
<1>7. waiting[t] # NoItem => Live(t)' = {1} /\ local_queue'[t][1] = waiting[t]
  BY <1>1 DEF Live
<1> QED
  BY <1>1, <1>3, <1>4, <1>5, <1>6, <1>7

LEMMA OnePlaceEndFlush ==
  ASSUME QueueInv, NEW t \in Threads, EndFlush(t)
  PROVE  OnePlace'
<1>1. /\ Written' = Written /\ UNCHANGED <<shared, fresh>>
      /\ Live(t) = {} /\ waiting'[t] = NoItem
      /\ waiting[t] = NoItem => Live(t)' = {}
      /\ waiting[t] # NoItem => Live(t)' = {1} /\ local_queue'[t][1] = waiting[t]
      /\ \A s \in Threads \ {t} : /\ Live(s)' = Live(s) /\ waiting'[s] = waiting[s]
                                  /\ local_queue'[s] = local_queue[s]
  BY PlacesEndFlush
<1>2. ASSUME NEW s \in Threads, NEW j \in Live(s)'
      PROVE  \/ s = t /\ j = 1 /\ waiting[t] # NoItem /\ local_queue'[s][j] = waiting[t]
             \/ s # t /\ j \in Live(s) /\ local_queue'[s][j] = local_queue[s][j]
  BY <1>1
<1>3. ASSUME NEW s \in Threads, waiting'[s] # NoItem PROVE s # t /\ waiting'[s] = waiting[s]
  BY <1>1, <1>3
<1>4. ASSUME NEW s \in Threads, NEW j \in Live(s)' PROVE local_queue'[s][j] # NoItem
  <2>1. \A r \in Threads : local_queue[r] \in Seq(Vertices) /\ copied[r] \in Nat
    BY DEF QueueInv, QueueShape, TypeOK
  <2>2. \A r \in Threads : \A k \in Live(r) : local_queue[r][k] \in Vertices
    BY <2>1 DEF Live
  <2> QED
    BY <1>2, <2>2, NoItemAssumption
<1>5. DistinctLive'
  <2> SUFFICES ASSUME NEW s \in Threads, NEW r \in Threads,
                      NEW j \in Live(s)', NEW k \in Live(r)',
                      local_queue'[s][j] = local_queue'[r][k]
               PROVE  s = r /\ j = k
    BY DEF DistinctLive
  <2> QED
    BY <1>2 DEF QueueInv, OnePlace, DistinctLive, WaitingApart
<1>6. DistinctWaiting'
  BY <1>1, <1>3 DEF QueueInv, OnePlace, DistinctWaiting
<1>7. SlotsApart'
  <2> SUFFICES ASSUME NEW k \in Written, NEW s \in Threads
               PROVE  /\ shared[k] # waiting'[s]
                      /\ \A j \in Live(s)' : shared[k] # local_queue'[s][j]
    BY <1>1 DEF SlotsApart
  <2>1. shared[k] \in Vertices
    BY DEF QueueInv, OnePlace, Spent
  <2> QED
    BY <1>2, <1>3, <2>1, NoItemAssumption DEF QueueInv, OnePlace, SlotsApart
<1>8. WaitingApart'
  <2> SUFFICES ASSUME NEW s \in Threads, NEW r \in Threads, NEW j \in Live(s)'
               PROVE  local_queue'[s][j] # waiting'[r]
    BY DEF WaitingApart
  <2>1. CASE waiting'[r] = NoItem
    BY <1>4, <2>1
  <2>2. CASE waiting'[r] # NoItem
    BY <1>2, <1>3, <2>2 DEF QueueInv, OnePlace, WaitingApart, DistinctWaiting
  <2> QED
    BY <2>1, <2>2
<1>9. Spent'
  <2>1. \A s \in Threads : waiting'[s] \notin fresh
    BY <1>1, <1>3, NoItemAssumption DEF QueueInv, QueueShape, TypeOK, OnePlace, Spent
  <2>2. \A s \in Threads : \A j \in Live(s)' : local_queue'[s][j] \notin fresh
    BY <1>2 DEF QueueInv, OnePlace, Spent
  <2> QED
    BY <1>1, <2>1, <2>2 DEF QueueInv, OnePlace, Spent
<1> QED
  BY <1>1, <1>5, <1>6, <1>7, <1>8, <1>9 DEF QueueInv, OnePlace, NoDuplicates

-----------------------------------------------------------------------------
LEMMA StepInv == QueueInv /\ [QueueNext]_queueVars => QueueInv'
<1> SUFFICES ASSUME QueueInv, [QueueNext]_queueVars PROVE QueueShape' /\ OnePlace'
  BY DEF QueueInv
<1>1. ASSUME NEW x \in Vertices, PushBack(x) PROVE QueueShape' /\ OnePlace'
  BY <1>1, ShapePushBack, OnePlacePushBack
<1>2. CASE slide_window \/ reset \/ Fork \/ Join
  BY <1>2, ShapeMaster, OnePlaceMaster
<1>3. ASSUME NEW t \in Threads, BufferFlush(t) \/ \E x \in Vertices : BufferPush(t, x)
      PROVE  QueueShape' /\ OnePlace'
  BY <1>3, ShapeBuffer, OnePlaceBuffer
<1>4. ASSUME NEW t \in Threads, Reserve(t) PROVE QueueShape' /\ OnePlace'
  BY <1>4, ShapeReserve, OnePlaceReserve
<1>5. ASSUME NEW t \in Threads, Copy(t) PROVE QueueShape' /\ OnePlace'
  BY <1>5, ShapeCopy, OnePlaceCopy
<1>6. ASSUME NEW t \in Threads, EndFlush(t) PROVE QueueShape' /\ OnePlace'
  BY <1>6, ShapeEndFlush, OnePlaceEndFlush
<1>7. CASE UNCHANGED queueVars
  <2>1. QueueShape'
    BY <1>7 DEF queueVars, QueueInv, QueueShape, TypeOK, Control, Ranges, Buffered
  <2>2. Written' = Written /\ \A t \in Threads : Live(t)' = Live(t)
    BY <1>7 DEF queueVars, Written, Unwritten, Live
  <2> QED
    BY <1>7, <2>1, <2>2, SamePlaces DEF queueVars
<1> QED
  BY <1>1, <1>2, <1>3, <1>4, <1>5, <1>6, <1>7 DEF QueueNext, flush

THEOREM Invariance == QueueSpec => []QueueInv
BY QueueInitInv, StepInv, PTL DEF QueueSpec

(***************************************************************************)
(* The variables keep their types, the three cursors their order and every *)
(* buffer its capacity.                                                    *)
(***************************************************************************)
THEOREM TypeCorrect == QueueSpec => []TypeOK
<1>1. QueueInv => TypeOK
  BY DEF QueueInv, QueueShape
<1> QED
  BY <1>1, Invariance, PTL

(***************************************************************************)
(* No append or flush writes past the array: what the missing bounds check *)
(* of push_back and flush relies on.                                       *)
(***************************************************************************)
THEOREM StaysInBounds == QueueSpec => []InBounds
<1>1. QueueInv => InBounds
  BY RoomFor DEF InBounds
<1> QED
  BY <1>1, Invariance, PTL

(***************************************************************************)
(* The plain copies of concurrent flushes never touch one slot twice, nor  *)
(* a slot of the window the team is reading, nor one behind the array.     *)
(***************************************************************************)
THEOREM FlushesArePrivate == QueueSpec => []PrivateRanges
<1>1. QueueInv => PrivateRanges
  <2> SUFFICES ASSUME QueueInv PROVE PrivateRanges
    OBVIOUS
  <2>0. InBounds
    BY RoomFor DEF InBounds
  <2>1. ASSUME NEW t \in Threads
        PROVE  Unwritten(t) \subseteq shared_out_end .. (shared_in - 1)
    BY DEF Unwritten, QueueInv, QueueShape, TypeOK, Ranges
  <2>2. ASSUME NEW s \in Threads, NEW t \in Threads, s # t
        PROVE  Unwritten(s) \cap Unwritten(t) = {}
    <3> SUFFICES ASSUME NEW k \in Unwritten(s), k \in Unwritten(t) PROVE FALSE
      OBVIOUS
    <3>0. TypeOK /\ k \in Int
      BY <2>1 DEF QueueInv, QueueShape, TypeOK
    <3>1. /\ pc[s] = "copy" /\ pc[t] = "copy"
          /\ copy_start[s] + copied[s] <= k /\ k < copy_start[s] + Len(local_queue[s])
          /\ copy_start[t] + copied[t] <= k /\ k < copy_start[t] + Len(local_queue[t])
      BY <3>0, UnwrittenIff
    <3>2. /\ copy_start[s] \in Nat /\ copied[s] \in Nat /\ Len(local_queue[s]) \in Nat
          /\ copy_start[t] \in Nat /\ copied[t] \in Nat /\ Len(local_queue[t]) \in Nat
      BY <3>0 DEF TypeOK
    <3>3. \/ copy_start[s] + Len(local_queue[s]) <= copy_start[t]
          \/ copy_start[t] + Len(local_queue[t]) <= copy_start[s]
      BY <2>2, <3>1 DEF QueueInv, QueueShape, Ranges
    <3>4. copy_start[t] <= k
      BY <3>0, <3>1, <3>2
    <3> QED
      BY <3>0, <3>1, <3>2, <3>3, <3>4, RangesApart
  <2> QED
    BY <2>0, <2>1, <2>2 DEF PrivateRanges
<1> QED
  BY <1>1, Invariance, PTL

\* No item is in the queue twice.
THEOREM QueuedOnce == QueueSpec => []NoDuplicates
<1>1. QueueInv => NoDuplicates
  BY DEF QueueInv, OnePlace
<1> QED
  BY <1>1, Invariance, PTL

-----------------------------------------------------------------------------
(***************************************************************************)
(* The refinement.  An item of the abstract incoming set is in a written   *)
(* slot above the window, in a buffer, or waiting for one to be flushed.   *)
(***************************************************************************)
IsIncoming(x) ==
  \/ \E k \in Written : k >= shared_out_end /\ x = shared[k]
  \/ \E t \in Threads : \E j \in 1 .. Len(local_queue[t]) : x = local_queue[t][j]
  \/ \E t \in Threads : waiting[t] # NoItem /\ x = waiting[t]

LEMMA IncomingIff == \A x : x \in Incoming <=> IsIncoming(x)
<1> SUFFICES ASSUME NEW x PROVE x \in Incoming <=> IsIncoming(x)
  OBVIOUS
<1> DEFINE A == {shared[k] : k \in {l \in Written : l >= shared_out_end}}
           B == UNION {ToSet(local_queue[t]) : t \in Threads}
           C == {waiting[t] : t \in {s \in Threads : waiting[s] # NoItem}}
<1>1. x \in A <=> \E k \in Written : k >= shared_out_end /\ x = shared[k]
  OBVIOUS
<1>2. x \in B <=> \E t \in Threads : \E j \in 1 .. Len(local_queue[t]) : x = local_queue[t][j]
  BY DEF ToSet
<1>3. x \in C <=> \E t \in Threads : waiting[t] # NoItem /\ x = waiting[t]
  OBVIOUS
<1>4. Incoming = A \cup B \cup C
  BY DEF Incoming
<1> HIDE DEF A, B, C
<1> QED
  BY <1>1, <1>2, <1>3, <1>4 DEF IsIncoming

LEMMA IncomingIffNext == \A x : x \in Incoming' <=> IsIncoming(x)'
<1>1. (\A x : x \in Incoming <=> IsIncoming(x))'
  BY IncomingIff, PTL
<1> QED
  BY <1>1

LEMMA RefineInit == QueueInit => Queue!Init
<1> SUFFICES ASSUME QueueInit PROVE Window = {} /\ Incoming = {}
  BY DEF Queue!Init
<1>1. Window = {} /\ Written = {}
  BY DEF QueueInit, Window, Written
<1>2. \A x : x \notin Incoming
  BY <1>1, IncomingIff DEF QueueInit, IsIncoming
<1> QED
  BY <1>1, <1>2

LEMMA RefinePushBack ==
  ASSUME QueueInv, NEW x \in Vertices, PushBack(x)
  PROVE  Queue!Append(x)
<1>1. /\ Written' = Written \cup {shared_in}
      /\ \A k \in Written : shared'[k] = shared[k]
      /\ shared'[shared_in] = x
  BY PlacesPushBack
<1>2. /\ UNCHANGED <<shared_out_start, shared_out_end, local_queue, waiting>>
      /\ shared_in >= shared_out_end
  BY DEF PushBack, buffers, QueueInv, QueueShape, TypeOK
<1>3. Window' = Window
  BY <1>1, <1>2, WindowWritten DEF Window, QueueInv
<1>4. ASSUME NEW y PROVE y \in Incoming' <=> y \in Incoming \/ y = x
  BY <1>1, <1>2, IncomingIff, IncomingIffNext DEF IsIncoming
<1> QED
  BY <1>3, <1>4 DEF Queue!Append

LEMMA RefineMaster ==
  ASSUME QueueInv, slide_window \/ reset \/ Fork \/ Join
  PROVE  [Queue!Next]_(Queue!vars)
<1>1. CASE slide_window
  <2>1. /\ Written = 0 .. (shared_in - 1)
        /\ \A t \in Threads : waiting[t] = NoItem /\ local_queue[t] = <<>>
    BY <1>1, SerialIsEmpty DEF slide_window, QueueInv
  <2>2. /\ shared_out_start' = shared_out_end /\ shared_out_end' = shared_in
        /\ UNCHANGED <<shared, shared_in, local_queue, waiting>>
        /\ \A t \in Threads : Unwritten(t)' = Unwritten(t)
    BY <1>1 DEF slide_window, buffers, Unwritten
  <2>3. shared_in \in Nat /\ shared_out_end \in Nat
    BY DEF QueueInv, QueueShape, TypeOK
  <2>4. Written' = Written
    BY <2>2 DEF Written
  <2>5. ASSUME NEW y PROVE y \in Incoming <=> y \in Window'
    <3>1. IsIncoming(y) <=> \E k \in Written : k >= shared_out_end /\ y = shared[k]
      BY <2>1 DEF IsIncoming
    <3>2. IsIncoming(y) <=> \E k \in shared_out_end .. (shared_in - 1) : y = shared[k]
      BY <2>1, <2>3, <3>1
    <3> QED
      BY <2>2, <3>2, IncomingIff DEF Window
  <2>6. ASSUME NEW y PROVE y \notin Incoming'
    BY <2>1, <2>2, <2>3, <2>4, IncomingIffNext DEF IsIncoming
  <2> QED
    BY <2>5, <2>6 DEF Queue!Next, Queue!Slide
<1>2. CASE reset
  <2>1. \A t \in Threads : waiting[t] = NoItem /\ local_queue[t] = <<>>
    BY <1>2, SerialIsEmpty DEF reset, QueueInv
  <2>2. Window' = {} /\ Written' = {}
    BY <1>2 DEF reset, Window, Written
  <2>3. ASSUME NEW y PROVE y \notin Incoming'
    BY <1>2, <2>1, <2>2, IncomingIffNext DEF IsIncoming, reset, buffers
  <2> QED
    BY <2>2, <2>3 DEF Queue!Next, Queue!Reset
<1>3. CASE Fork \/ Join
  <2>1. UNCHANGED <<shared, shared_in, shared_out_start, shared_out_end, local_queue, waiting>>
    BY <1>3 DEF Fork, Join, queue, buffers
  <2>2. \A t \in Threads : pc[t] # "copy" /\ pc'[t] # "copy"
    BY <1>3, SerialIsEmpty DEF Fork, Join, buffers, QueueInv
  <2>3. Written' = Written
    BY <2>1, <2>2 DEF Written, Unwritten
  <2>4. Incoming' = Incoming /\ Window' = Window
    BY <2>1, <2>3 DEF Incoming, Window
  <2> QED
    BY <2>4 DEF Queue!vars
<1> QED
  BY <1>1, <1>2, <1>3

LEMMA RefineBuffer ==
  ASSUME QueueInv, NEW t \in Threads, NEW x \in Vertices, BufferPush(t, x)
  PROVE  Queue!Append(x)
<1>0. /\ pc[t] = "run" /\ waiting[t] = NoItem /\ local_queue[t] \in Seq(Vertices)
      /\ UNCHANGED <<shared, shared_in, shared_out_start, shared_out_end, copy_start, copied>>
      /\ x # NoItem
  BY NoItemAssumption DEF BufferPush, queue, QueueInv, QueueShape, Control, TypeOK
<1>1. Written' = Written
  <2>1. pc[t] # "copy" /\ pc'[t] # "copy"
    BY <1>0 DEF BufferPush, QueueInv, QueueShape, TypeOK
  <2>2. \A s \in Threads \ {t} : Unwritten(s)' = Unwritten(s)
    BY DEF BufferPush, Unwritten, QueueInv, QueueShape, TypeOK
  <2> QED
    BY <1>0, <2>1, <2>2 DEF Written, Unwritten
<1>2. Window' = Window
  BY <1>0 DEF Window
<1>3. ASSUME NEW y PROVE y \in Incoming' <=> y \in Incoming \/ y = x
  <2>1. CASE Len(local_queue[t]) # LocalSize
    <3>1. /\ UNCHANGED waiting
          /\ local_queue'[t] = Append(local_queue[t], x)
          /\ \A s \in Threads \ {t} : local_queue'[s] = local_queue[s]
      BY <2>1 DEF BufferPush, QueueInv, QueueShape, TypeOK
    <3>2. (\E j \in 1 .. Len(local_queue'[t]) : y = local_queue'[t][j]) <=>
            \/ \E j \in 1 .. Len(local_queue[t]) : y = local_queue[t][j]
            \/ y = x
      BY <1>0, <3>1
    <3>3. (\E s \in Threads : \E j \in 1 .. Len(local_queue'[s]) : y = local_queue'[s][j]) <=>
            \/ \E s \in Threads : \E j \in 1 .. Len(local_queue[s]) : y = local_queue[s][j]
            \/ y = x
      BY ONLY t \in Threads, <3>1, <3>2
    <3>4. y \in Incoming <=> IsIncoming(y)
      BY IncomingIff
    <3>5. y \in Incoming' <=> IsIncoming(y)'
      BY IncomingIffNext
    <3> QED
      BY ONLY <1>0, <1>1, <3>1, <3>3, <3>4, <3>5 DEF IsIncoming
  <2>2. CASE Len(local_queue[t]) = LocalSize
    <3>1. /\ UNCHANGED local_queue
          /\ waiting'[t] = x /\ \A s \in Threads \ {t} : waiting'[s] = waiting[s]
      BY <2>2 DEF BufferPush, QueueInv, QueueShape, TypeOK
    <3> QED
      BY <1>0, <1>1, <3>1, IncomingIff, IncomingIffNext DEF IsIncoming
  <2> QED
    BY <2>1, <2>2
<1> QED
  BY <1>2, <1>3 DEF Queue!Append

\* Flushing moves items from a buffer to the array: nothing an iteration sees.
LEMMA RefineFlush ==
  ASSUME QueueInv, NEW t \in Threads, BufferFlush(t) \/ flush(t)
  PROVE  UNCHANGED <<Window, Incoming>>
<1>1. CASE BufferFlush(t)
  <2>1. UNCHANGED <<shared, shared_in, shared_out_start, shared_out_end, local_queue, waiting>>
    BY <1>1 DEF BufferFlush, queue
  <2>2. \A s \in Threads : Unwritten(s)' = Unwritten(s)
    BY <1>1 DEF BufferFlush, Unwritten, QueueInv, QueueShape, TypeOK
  <2> QED
    BY <2>1, <2>2 DEF Window, Incoming, Written
<1>2. CASE Reserve(t)
  <2>1. Written' = Written
    BY <1>2, PlacesReserve
  <2> QED
    BY <1>2, <2>1 DEF Reserve, Window, Incoming
<1>3. CASE Copy(t)
  <2> DEFINE slot == copy_start[t] + copied[t]
             j == copied[t] + 1
  <2>1. /\ Written' = Written \cup {slot} /\ slot \notin Written
        /\ slot \in shared_out_end .. (shared_in - 1)
        /\ \A k \in Written : shared'[k] = shared[k]
        /\ shared'[slot] = local_queue[t][j]
    BY <1>3, PlacesCopy
  <2>2. UNCHANGED <<shared_in, shared_out_start, shared_out_end, local_queue, waiting>>
    BY <1>3 DEF Copy
  <2>3. j \in 1 .. Len(local_queue[t])
    BY <1>3, CopySlot
  <2> HIDE DEF slot, j
  <2>4. Window' = Window
    BY <2>1, <2>2, WindowWritten DEF Window, QueueInv
  <2>5. slot >= shared_out_end
    BY <2>1 DEF QueueInv, QueueShape, TypeOK
  <2>6. ASSUME NEW y PROVE y \in Incoming' <=> y \in Incoming
    BY <2>1, <2>2, <2>3, <2>5, IncomingIff, IncomingIffNext DEF IsIncoming
  <2> QED
    BY <2>4, <2>6
<1>4. CASE EndFlush(t)
  <2>1. /\ Written' = Written /\ UNCHANGED <<shared, shared_in, shared_out_start, shared_out_end>>
        /\ waiting'[t] = NoItem
        /\ \A s \in Threads \ {t} : waiting'[s] = waiting[s] /\ local_queue'[s] = local_queue[s]
        /\ local_queue'[t] = IF waiting[t] = NoItem THEN <<>> ELSE <<waiting[t]>>
    BY <1>4, PlacesEndFlush DEF EndFlush, queue, QueueInv, QueueShape, TypeOK
  <2>2. ASSUME NEW j \in 1 .. Len(local_queue[t])
        PROVE  \E k \in Written : k >= shared_out_end /\ local_queue[t][j] = shared[k]
    <3> DEFINE k == copy_start[t] + j - 1
    <3>1. /\ pc[t] = "copy" /\ copied[t] = Len(local_queue[t]) /\ copy_start[t] \in Nat
          /\ Len(local_queue[t]) \in Nat /\ shared_out_end \in Nat /\ shared_in \in Nat
          /\ shared_out_end <= copy_start[t] /\ copy_start[t] + Len(local_queue[t]) <= shared_in
      BY <1>4 DEF EndFlush, QueueInv, QueueShape, TypeOK, Ranges
    <3>2. shared[k] = local_queue[t][j]
      BY <3>1 DEF QueueInv, QueueShape, Buffered
    <3>3. k \in 0 .. (shared_in - 1) /\ k >= shared_out_end
      BY <3>1
    <3>4. ASSUME NEW s \in Threads PROVE k \notin Unwritten(s)
      <4>1. /\ copied[s] \in Nat /\ copy_start[s] \in Nat /\ Len(local_queue[s]) \in Nat
            /\ TypeOK
        BY DEF QueueInv, QueueShape, TypeOK
      <4>2. s # t /\ pc[s] = "copy" =>
              \/ copy_start[s] + Len(local_queue[s]) <= copy_start[t]
              \/ copy_start[t] + Len(local_queue[t]) <= copy_start[s]
        BY <3>1 DEF QueueInv, QueueShape, Ranges
      <4>3. /\ copy_start[t] <= k /\ k < copy_start[t] + Len(local_queue[t]) /\ k \in Int
            /\ j \in Nat
        BY <3>1
      <4>4. CASE s = t
        BY <3>1, <4>1, <4>3, <4>4, UnwrittenIff
      <4>5. CASE s # t
        <5> HIDE DEF k
        <5>1. pc[s] = "copy" => ~(/\ copy_start[s] + copied[s] <= k
                                  /\ k < copy_start[s] + Len(local_queue[s]))
          BY <3>1, <4>1, <4>2, <4>3, <4>5, RangesApart
        <5> QED
          BY <4>1, <4>3, <5>1, UnwrittenIff
      <4> QED
        BY <4>4, <4>5
    <3> QED
      BY <3>2, <3>3, <3>4, WrittenIff
  <2>3. Window' = Window
    BY <2>1 DEF Window
  <2>4. ASSUME NEW y
        PROVE  (\E j \in 1 .. Len(local_queue'[t]) : y = local_queue'[t][j]) <=>
                 waiting[t] # NoItem /\ y = waiting[t]
    <3>1. CASE waiting[t] = NoItem
      BY <2>1, <3>1
    <3>2. CASE waiting[t] # NoItem
      <4>1. Len(local_queue'[t]) = 1 /\ local_queue'[t][1] = waiting[t]
        BY <2>1, <3>2
      <4> QED
        BY <3>2, <4>1
    <3> QED
      BY <3>1, <3>2
  <2>5. ASSUME NEW y PROVE y \in Incoming' <=> y \in Incoming
    BY <2>1, <2>2, <2>4, IncomingIff, IncomingIffNext DEF IsIncoming
  <2> QED
    BY <2>3, <2>5
<1> QED
  BY <1>1, <1>2, <1>3, <1>4 DEF flush

LEMMA RefineStep == QueueInv /\ [QueueNext]_queueVars => [Queue!Next]_(Queue!vars)
<1> SUFFICES ASSUME QueueInv, [QueueNext]_queueVars PROVE [Queue!Next]_(Queue!vars)
  OBVIOUS
<1>1. ASSUME NEW x \in Vertices, PushBack(x) PROVE Queue!Next
  BY <1>1, RefinePushBack DEF Queue!Next
<1>2. ASSUME NEW t \in Threads, NEW x \in Vertices, BufferPush(t, x) PROVE Queue!Next
  BY <1>2, RefineBuffer DEF Queue!Next
<1>3. ASSUME NEW t \in Threads, BufferFlush(t) \/ flush(t) PROVE UNCHANGED Queue!vars
  BY <1>3, RefineFlush DEF Queue!vars
<1>4. CASE UNCHANGED queueVars
  BY <1>4 DEF queueVars, Queue!vars, Window, Incoming, Written, Unwritten
<1> QED
  BY <1>1, <1>2, <1>3, <1>4, RefineMaster DEF QueueNext

(***************************************************************************)
(* An iteration over the queue sees what was appended before the last      *)
(* slide_window(), all of it and nothing else, however the flushes of the  *)
(* team interleave.                                                        *)
(***************************************************************************)
THEOREM Implements == QueueSpec => ImplementsAppendWindow
BY RefineInit, RefineStep, Invariance, PTL DEF QueueSpec, ImplementsAppendWindow, Queue!Spec
-----------------------------------------------------------------------------
(***************************************************************************)
(* Every block has one owner, none is leaked, and arrays and graphs that   *)
(* share the heap behave as values of their own, for any number of them,   *)
(* any heap and any allocator that returns free blocks only.               *)
(*                                                                         *)
(* The invariant sorts the pointers: those of arrays, and the four of a    *)
(* graph, which are two pairs or one pair twice.  Whoever has a block, its *)
(* kind is the one the owner expects; objects that do not exist have none. *)
(* Every step is then one of a few changes of the pointers.  In the second *)
(* part each of these changes is a step of Values, or a stutter.           *)
(***************************************************************************)
Pointers == Addr \cup {Null}
Kinds == {"free", "corrupt", "array", "index"}

IsBlock(b) == /\ b = [kind |-> b.kind, items |-> b.items, to |-> b.to]
              /\ b.kind \in Kinds
IsVector(r) == r = [start |-> r.start, size |-> r.size, capacity |-> r.capacity]
               /\ r.start \in Pointers
IsGraphRecord(r) ==
  /\ r = [directed |-> r.directed, out_index |-> r.out_index, out_neighbors |-> r.out_neighbors,
          in_index |-> r.in_index, in_neighbors |-> r.in_neighbors]
  /\ r.directed \in BOOLEAN
  /\ {r.out_index, r.out_neighbors, r.in_index, r.in_neighbors} \subseteq Pointers

Types ==
  /\ alive \subseteq Objects
  /\ heap = [a \in Addr |-> heap[a]] /\ \A a \in Addr : IsBlock(heap[a])
  /\ vec = [v \in Vectors |-> vec[v]] /\ \A v \in Vectors : IsVector(vec[v])
  /\ graph = [g \in Graphs |-> graph[g]] /\ \A g \in Graphs : IsGraphRecord(graph[g])

\* The blocks of a graph, both directions.
Blocks(r) == {r.out_index, r.out_neighbors, r.in_index, r.in_neighbors} \ {Null}

\* Without an index there is nothing; with one, the pointers are as they should be.
Shaped(r) == IF r.out_index = Null THEN Blocks(r) = {}
             ELSE r.in_index # Null /\ WholeGraph(r)

Shape ==
  /\ \A a \in Addr : heap[a].kind # "corrupt"
  /\ \A v \in Vectors : vec[v].start # Null => heap[vec[v].start].kind = "array"
  /\ \A g \in Graphs : Shaped(graph[g])

Apart ==
  /\ \A v, w \in Vectors : v # w /\ vec[v].start # Null => vec[v].start # vec[w].start
  /\ \A g, h \in Graphs : g # h => Blocks(graph[g]) \cap Blocks(graph[h]) = {}
  /\ \A v \in Vectors, g \in Graphs : vec[v].start \notin Blocks(graph[g])

\* A block that is in use belongs to somebody, and only the living have any.
Owned ==
  /\ \A a \in Addr : heap[a].kind # "free" =>
       \/ \E v \in Vectors : a = vec[v].start
       \/ \E g \in Graphs : a \in Blocks(graph[g])
  /\ \A v \in Vectors : v \notin alive => vec[v].start = Null
  /\ \A g \in Graphs : g \notin alive => Blocks(graph[g]) = {}

IInv == Types /\ Shape /\ Apart /\ Owned

-----------------------------------------------------------------------------
\* An index is never an array: with both pairs apart, Blocks is what has to be freed.
LEMMA HeldBlocks ==
  ASSUME IInv, NEW g \in Graphs
  PROVE  HeldByGraph(g) = Blocks(graph[g])
BY DEF IInv, Shape, Shaped, Blocks, HeldByGraph, WholeGraph

\* An object is an array or a graph, never both.
LEMMA Disjoint == ASSUME NEW o \in Objects PROVE (o \in Vectors) # (o \in Graphs)
BY ObjectsAssumption DEF Objects

\* What the runs check follows: one owner each, and nothing leaked.
THEOREM Implied == IInv => OneOwner /\ NoLeak
<1> SUFFICES ASSUME IInv PROVE OneOwner /\ NoLeak
  OBVIOUS
<1>1. \A o, p \in Objects : o # p => Held(o) \cap Held(p) = {}
  <2> SUFFICES ASSUME NEW o \in Objects, NEW p \in Objects, o # p PROVE Held(o) \cap Held(p) = {}
    OBVIOUS
  <2>1. CASE o \in Vectors /\ p \in Vectors
    BY <2>1 DEF IInv, Apart, Held, HeldByVector
  <2>2. CASE o \in Vectors /\ p \in Graphs
    BY <2>2, HeldBlocks, Disjoint DEF IInv, Apart, Held, HeldByVector
  <2>3. CASE o \in Graphs /\ p \in Vectors
    BY <2>3, HeldBlocks, Disjoint DEF IInv, Apart, Held, HeldByVector
  <2>4. CASE o \in Graphs /\ p \in Graphs
    BY <2>4, HeldBlocks, Disjoint DEF IInv, Apart, Held
  <2> QED
    BY <2>1, <2>2, <2>3, <2>4 DEF Objects
<1>2. \A g \in Graphs : WholeGraph(graph[g])
  BY DEF IInv, Shape, Shaped, WholeGraph
<1>3. OneOwner
  BY <1>1, <1>2 DEF IInv, Shape, OneOwner
<1>4. NoLeak
  <2> SUFFICES ASSUME NEW a \in Addr, heap[a].kind # "free" PROVE \E o \in alive : a \in Held(o)
    BY DEF NoLeak
  <2>1. CASE \E v \in Vectors : a = vec[v].start
    <3>1. PICK v \in Vectors : a = vec[v].start
      BY <2>1
    <3>2. a # Null
      BY AllocatorAssumption
    <3>3. v \in alive /\ a \in Held(v)
      BY <3>1, <3>2 DEF IInv, Owned, Held, HeldByVector
    <3> QED
      BY <3>3
  <2>2. CASE \E g \in Graphs : a \in Blocks(graph[g])
    <3>1. PICK g \in Graphs : a \in Blocks(graph[g])
      BY <2>2
    <3>2. g \in alive
      BY <3>1 DEF IInv, Owned
    <3>3. g \notin Vectors
      BY ObjectsAssumption
    <3>4. a \in Held(g)
      BY <3>1, <3>3, HeldBlocks DEF Held
    <3> QED
      BY <3>2, <3>4
  <2> QED
    BY <2>1, <2>2 DEF IInv, Owned
<1> QED
  BY <1>3, <1>4

-----------------------------------------------------------------------------
\* The blocks of a graph are blocks of the heap that are in use.
LEMMA BlocksInUse ==
  ASSUME IInv, NEW g \in Graphs, NEW b \in Blocks(graph[g])
  PROVE  b \in Addr /\ heap[b].kind \in {"array", "index"}
<1>1. IsGraphRecord(graph[g]) /\ Shaped(graph[g]) /\ WholeGraph(graph[g])
  BY DEF IInv, Types, Shape, Shaped, WholeGraph
<1>2. b \in Addr
  BY <1>1 DEF IsGraphRecord, Blocks, Pointers
<1>3. graph[g].out_index # Null
  BY <1>1 DEF Shaped
<1>4. heap[graph[g].out_index].kind = "index" /\ heap[graph[g].in_index].kind = "index"
  BY <1>1, <1>3 DEF WholeGraph, AtHome, Index
<1>5. b \in {graph[g].out_neighbors, graph[g].in_neighbors} => heap[b].kind = "array"
  BY <1>1, <1>3 DEF WholeGraph, AtHome, Blocks
<1> QED
  BY <1>2, <1>4, <1>5 DEF Blocks

\* A free block is nobody's.
LEMMA FreeIsNobodys ==
  ASSUME IInv, NEW a \in FreeAddrs
  PROVE  /\ a \in Addr /\ a # Null /\ heap[a].kind = "free"
         /\ \A v \in Vectors : vec[v].start # a
         /\ \A g \in Graphs : a \notin Blocks(graph[g])
<1>1. a \in Addr /\ a # Null /\ heap[a].kind = "free"
  BY AllocatorAssumption DEF FreeAddrs
<1>2. \A v \in Vectors : vec[v].start # a
  BY <1>1 DEF IInv, Shape
<1>3. \A g \in Graphs : a \notin Blocks(graph[g])
  BY <1>1, BlocksInUse
<1> QED
  BY <1>1, <1>2, <1>3

\* A graph is as it should be when its pointers stay and so do its blocks, except
\* for the contents of arrays.
LEMMA Undisturbed ==
  ASSUME IInv, NEW g \in Graphs, graph'[g] = graph[g],
         \A b \in Blocks(graph[g]) : \/ heap'[b] = heap[b]
                                     \/ heap[b].kind = "array" /\ heap'[b].kind = "array"
  PROVE  Shaped(graph[g])'
<1>1. Shaped(graph[g])
  BY DEF IInv, Shape
<1>2. CASE graph[g].out_index = Null
  BY <1>1, <1>2 DEF Shaped, Blocks
<1>3. CASE graph[g].out_index # Null
  <2> DEFINE r == graph[g]
  <2>1. /\ AtHome(r.out_index, r.out_neighbors) /\ AtHome(r.in_index, r.in_neighbors)
        /\ r.in_index # Null
    BY <1>1, <1>3 DEF Shaped, WholeGraph
  <2>2. heap'[r.out_index] = heap[r.out_index] /\ heap'[r.in_index] = heap[r.in_index]
    BY <2>1, <1>3 DEF AtHome, Index, Blocks
  <2>3. AtHome(r.out_index, r.out_neighbors)' /\ AtHome(r.in_index, r.in_neighbors)'
    BY <2>1, <2>2 DEF AtHome, Blocks
  <2> QED
    BY <1>1, <1>3, <2>3 DEF Shaped, WholeGraph
<1> QED
  BY <1>2, <1>3

-----------------------------------------------------------------------------
(* The steps of arrays. *)

\* An array that begins gets a block of its own.
LEMMA ConstructVectorKeeps ==
  ASSUME IInv, NEW v \in Vectors, NEW items, ConstructVector(v, items)
  PROVE  IInv'
<1>0. \A g \in Graphs : Blocks(graph[g])' = Blocks(graph[g]) /\ Null \notin Blocks(graph[g])
  BY DEF ConstructVector, Blocks
<1>1. PICK a \in FreeAddrs :
        /\ heap' = [heap EXCEPT ![a] = Array(items)]
        /\ vec' = [vec EXCEPT ![v] = [start |-> a, size |-> Len(items), capacity |-> Len(items)]]
  BY AllocatorAssumption DEF ConstructVector, FreeAddrs
<1>2. /\ a \in Addr /\ a # Null /\ heap[a].kind = "free"
      /\ \A w \in Vectors : vec[w].start # a
      /\ \A g \in Graphs : a \notin Blocks(graph[g])
  BY FreeIsNobodys
<1>3. graph' = graph /\ alive' = alive \cup {v} /\ v \notin alive /\ vec[v].start = Null
  BY DEF ConstructVector, Begin, IInv, Owned
<1>4. heap'[a].kind = "array" /\ \A b \in Addr \ {a} : heap'[b] = heap[b]
  BY <1>1, <1>2 DEF Array, IInv, Types
<1>5. vec'[v].start = a /\ \A w \in Vectors \ {v} : vec'[w] = vec[w]
  BY <1>1 DEF IInv, Types
<1>6. Types'
  BY <1>1, <1>2, <1>3 DEF IInv, Types, IsBlock, IsVector, Kinds, Pointers, Array, Objects
<1>7. Shape'
  <2>1. \A g \in Graphs : Shaped(graph[g])'
    BY <1>2, <1>3, <1>4, Undisturbed, BlocksInUse
  <2>2. \A w \in Vectors : vec'[w].start # Null => heap'[vec'[w].start].kind = "array"
    BY <1>2, <1>4, <1>5 DEF IInv, Shape, Types, IsVector, Pointers
  <2> QED
    BY <2>1, <2>2, <1>4 DEF IInv, Shape
<1>8. Apart'
  BY <1>2, <1>3, <1>5, <1>0 DEF IInv, Apart
<1>9. Owned'
  BY <1>3, <1>4, <1>5, <1>0, AllocatorAssumption DEF IInv, Owned
<1> QED
  BY <1>6, <1>7, <1>8, <1>9 DEF IInv

\* New contents, in the old block or in a new one that takes its place.
LEMMA StoreKeeps ==
  ASSUME IInv, NEW v \in Vectors, NEW n, NEW items, Store(v, n, items)
  PROVE  IInv'
<1>0. \A g \in Graphs : Blocks(graph[g])' = Blocks(graph[g]) /\ Null \notin Blocks(graph[g])
  BY DEF Store, Blocks
<1>1. graph' = graph /\ alive' = alive /\ v \in alive
  BY DEF Store, Usable
<1>2. CASE n > vec[v].capacity
  <2> DEFINE stored == [k \in 1 .. n |-> IF k <= Len(items) THEN items[k] ELSE Junk]
             old == vec[v].start
  <2>1. PICK a \in FreeAddrs :
          /\ heap' = Delete([heap EXCEPT ![a] = Array(stored)], old)
          /\ vec' = [vec EXCEPT ![v] = [start |-> a, size |-> Len(items), capacity |-> n]]
    BY <1>2, AllocatorAssumption DEF Store, FreeAddrs
  <2> HIDE DEF stored
  <2>2. /\ a \in Addr /\ a # Null /\ heap[a].kind = "free"
        /\ \A w \in Vectors : vec[w].start # a
        /\ \A g \in Graphs : a \notin Blocks(graph[g])
    BY FreeIsNobodys
  <2>3. old # Null => old \in Addr /\ heap[old].kind = "array"
    BY DEF IInv, Types, Shape, IsVector, Pointers
  <2>4. /\ heap' = [b \in Addr |-> heap'[b]]
        /\ heap'[a] = Array(stored)
        /\ old # Null => heap'[old] = Free
        /\ \A b \in Addr \ {a, old} : heap'[b] = heap[b]
    <3>1. CASE old = Null
      BY <2>1, <2>2, <3>1 DEF Delete, IInv, Types
    <3>2. CASE old # Null
      <4>1. heap' = [[heap EXCEPT ![a] = Array(stored)] EXCEPT ![old] = Free]
        BY <2>1, <2>2, <2>3, <3>2 DEF Delete, IInv, Types
      <4> QED
        BY <4>1, <2>2, <2>3, <3>2 DEF IInv, Types
    <3> QED
      BY <3>1, <3>2
  <2>5. vec'[v].start = a /\ \A w \in Vectors \ {v} : vec'[w] = vec[w]
    BY <2>1 DEF IInv, Types
  <2>6. Types'
    <3>1. \A b \in Addr : IsBlock(heap'[b])
      BY <2>4, AllocatorAssumption DEF IInv, Types, IsBlock, Kinds, Array, Free
    <3>2. vec' = [w \in Vectors |-> vec'[w]] /\ \A w \in Vectors : IsVector(vec'[w])
      BY <2>1, <2>2, <2>5 DEF IInv, Types, IsVector, Pointers
    <3> QED
      BY <3>1, <3>2, <2>4, <1>1 DEF IInv, Types, IsBlock, IsVector
  <2>7. \A g \in Graphs : old \notin Blocks(graph[g])
    BY DEF IInv, Apart
  <2>8. Shape'
    <3>1. \A g \in Graphs : Shaped(graph[g])'
      BY <1>1, <2>2, <2>4, <2>7, Undisturbed, BlocksInUse
    <3>2. \A b \in Addr : heap'[b].kind # "corrupt"
      BY <2>4, AllocatorAssumption DEF IInv, Shape, Array, Free
    <3>3. \A w \in Vectors : vec'[w].start # Null => heap'[vec'[w].start].kind = "array"
      BY <2>2, <2>4, <2>5 DEF IInv, Shape, Apart, Types, IsVector, Pointers, Array
    <3> QED
      BY <3>1, <3>2, <3>3 DEF Shape
  <2>9. Apart'
    BY <1>1, <2>2, <2>5, <1>0 DEF IInv, Apart
  <2>10. Owned'
    <3>1. \A b \in Addr : heap'[b].kind # "free" =>
            (\E w \in Vectors : b = vec'[w].start) \/ (\E g \in Graphs : b \in Blocks(graph[g]))
      <4> TAKE b \in Addr
      <4> HAVE heap'[b].kind # "free"
      <4>1. CASE b = a
        BY <4>1, <2>5
      <4>2. CASE b # a
        <5>1. b # old /\ heap[b].kind # "free"
          BY <4>2, <2>4, AllocatorAssumption DEF Free
        <5>2. CASE \E w \in Vectors : b = vec[w].start
          <6>1. PICK w \in Vectors : b = vec[w].start
            BY <5>2
          <6> QED
            BY <5>1, <6>1, <2>5
        <5> QED
          BY <5>1, <5>2 DEF IInv, Owned
      <4> QED
        BY <4>1, <4>2
    <3>2. \A w \in Vectors : w \notin alive' => vec'[w].start = Null
      BY <1>1, <2>5 DEF IInv, Owned
    <3> QED
      BY <3>1, <3>2, <1>0, <1>1 DEF IInv, Owned
  <2> QED
    BY <2>6, <2>8, <2>9, <2>10 DEF IInv
<1>3. CASE ~(n > vec[v].capacity)
  <2>1. /\ \A w \in Vectors : vec'[w].start = vec[w].start
        /\ vec' = [w \in Vectors |-> vec'[w]] /\ \A w \in Vectors : IsVector(vec'[w])
    BY <1>3 DEF Store, IInv, Types, IsVector
  <2>2. /\ heap' = [b \in Addr |-> heap'[b]] /\ \A b \in Addr : IsBlock(heap'[b])
        /\ \A b \in Addr : heap'[b].kind = heap[b].kind
        /\ \A b \in Addr : heap[b].kind # "array" => heap'[b] = heap[b]
    <3>1. CASE vec[v].start = Null
      BY <1>3, <3>1 DEF Store, IInv, Types
    <3>2. CASE vec[v].start # Null
      <4>1. PICK stored : heap' = [heap EXCEPT ![vec[v].start].items = stored]
        BY <1>3, <3>2 DEF Store
      <4>2. vec[v].start \in Addr /\ heap[vec[v].start].kind = "array"
        BY <3>2 DEF IInv, Types, Shape, IsVector, Pointers
      <4> QED
        BY <4>1, <4>2 DEF IInv, Types, IsBlock
    <3> QED
      BY <3>1, <3>2
  <2>3. Types'
    BY <1>1, <2>1, <2>2 DEF IInv, Types, IsBlock, IsVector
  <2>4. Shape'
    <3>1. \A g \in Graphs : Shaped(graph[g])'
      BY <1>1, <2>2, Undisturbed, BlocksInUse
    <3> QED
      BY <3>1, <2>1, <2>2 DEF IInv, Shape, Types, IsVector, Pointers
  <2>5. Apart'
    BY <1>1, <2>1, <1>0 DEF IInv, Apart
  <2>6. Owned'
    <3>1. \A b \in Addr : heap'[b].kind # "free" =>
            (\E w \in Vectors : b = vec'[w].start) \/ (\E g \in Graphs : b \in Blocks(graph[g]))
      <4> TAKE b \in Addr
      <4> HAVE heap'[b].kind # "free"
      <4>1. heap[b].kind # "free"
        BY <2>2
      <4>2. (\E w \in Vectors : b = vec[w].start) \/ (\E g \in Graphs : b \in Blocks(graph[g]))
        BY <4>1 DEF IInv, Owned
      <4> QED
        BY <4>2, <2>1
    <3>2. \A w \in Vectors : w \notin alive' => vec'[w].start = Null
      BY <1>1, <2>1 DEF IInv, Owned
    <3> QED
      BY <3>1, <3>2, <1>0, <1>1 DEF IInv, Owned
  <2> QED
    BY <2>3, <2>4, <2>5, <2>6 DEF IInv
<1> QED
  BY <1>2, <1>3

\* What v had is freed, and w's block is v's.
LEMMA MoveVectorKeeps ==
  ASSUME IInv, NEW v \in Vectors, NEW w \in Vectors, v # w, w \in alive,
         graph' = graph, alive' = alive \cup {v},
         heap' = Delete(heap, vec[v].start),
         vec' = [u \in Vectors |-> vec'[u]], vec'[v] = vec[w], vec'[w] = NoVector,
         \A u \in Vectors \ {v, w} : vec'[u] = vec[u]
  PROVE  IInv'
<1>0. \A g \in Graphs : Blocks(graph[g])' = Blocks(graph[g]) /\ Null \notin Blocks(graph[g])
  BY DEF Blocks
<1> DEFINE old == vec[v].start
<1>1. old # Null => old \in Addr /\ heap[old].kind = "array"
  BY DEF IInv, Types, Shape, IsVector, Pointers
<1>2. /\ heap' = [b \in Addr |-> heap'[b]]
      /\ old # Null => heap'[old] = Free
      /\ \A b \in Addr \ {old} : heap'[b] = heap[b]
  BY <1>1 DEF Delete, IInv, Types
<1>3. /\ vec'[v] = vec[w] /\ vec'[w].start = Null
      /\ \A u \in Vectors \ {v, w} : vec'[u] = vec[u]
  BY DEF NoVector
<1>4. \A g \in Graphs : old \notin Blocks(graph[g])
  BY DEF IInv, Apart
<1>5. Types'
  <2>1. \A b \in Addr : IsBlock(heap'[b])
    BY <1>2, AllocatorAssumption DEF IInv, Types, IsBlock, Kinds, Free
  <2>2. vec' = [u \in Vectors |-> vec'[u]] /\ \A u \in Vectors : IsVector(vec'[u])
    BY <1>3 DEF IInv, Types, IsVector, Pointers, NoVector
  <2> QED
    BY <2>1, <2>2, <1>2 DEF IInv, Types, IsBlock, IsVector, Objects
<1>6. Shape'
  <2>1. \A g \in Graphs : Shaped(graph[g])'
    BY <1>2, <1>4, Undisturbed, BlocksInUse
  <2>2. \A b \in Addr : heap'[b].kind # "corrupt"
    BY <1>2, AllocatorAssumption DEF IInv, Shape, Free
  <2>3. \A u \in Vectors : vec'[u].start # Null => heap'[vec'[u].start].kind = "array"
    BY <1>2, <1>3 DEF IInv, Shape, Apart, Types, IsVector, Pointers
  <2> QED
    BY <2>1, <2>2, <2>3 DEF Shape
<1>7. Apart'
  <2>1. \A u \in Vectors : vec'[u].start = IF u = v THEN vec[w].start
                                         ELSE IF u = w THEN Null ELSE vec[u].start
    BY <1>3
  <2>2. \A t, u \in Vectors : t # u /\ vec'[t].start # Null => vec'[t].start # vec'[u].start
    <3> TAKE t, u \in Vectors
    <3> HAVE t # u /\ vec'[t].start # Null
    <3>1. CASE t = v
      BY <2>1, <3>1 DEF IInv, Apart
    <3>2. CASE t # v
      BY <2>1, <3>2 DEF IInv, Apart
    <3> QED
      BY <3>1, <3>2
  <2>3. \A u \in Vectors, g \in Graphs : vec'[u].start \notin Blocks(graph[g])
    BY <2>1, <1>0 DEF IInv, Apart
  <2> QED
    BY <2>2, <2>3, <1>0 DEF IInv, Apart
<1>8. Owned'
  <2>1. \A b \in Addr : heap'[b].kind # "free" =>
          (\E u \in Vectors : b = vec'[u].start) \/ (\E g \in Graphs : b \in Blocks(graph[g]))
    <3> TAKE b \in Addr
    <3> HAVE heap'[b].kind # "free"
    <3>1. b # old /\ heap[b].kind # "free" /\ b # Null
      BY <1>2, AllocatorAssumption DEF Free
    <3>2. CASE \E u \in Vectors : b = vec[u].start
      <4>1. PICK u \in Vectors : b = vec[u].start
        BY <3>2
      <4> QED
        BY <3>1, <4>1, <1>3
    <3> QED
      BY <3>1, <3>2 DEF IInv, Owned
  <2>2. \A u \in Vectors : u \notin alive' => vec'[u].start = Null
    BY <1>3 DEF IInv, Owned
  <2> QED
    BY <2>1, <2>2, <1>0 DEF IInv, Owned
<1> QED
  BY <1>5, <1>6, <1>7, <1>8 DEF IInv

\* Two arrays exchange their blocks.
LEMMA SwapKeeps ==
  ASSUME IInv, NEW v \in Vectors, NEW w \in Vectors, swap(v, w)
  PROVE  IInv'
<1>0. \A g \in Graphs : Blocks(graph[g])' = Blocks(graph[g]) /\ Null \notin Blocks(graph[g])
  BY DEF swap, Blocks
<1>1. /\ heap' = heap /\ graph' = graph /\ alive' = alive /\ v \in alive /\ w \in alive
      /\ vec' = [vec EXCEPT ![v] = vec[w], ![w] = vec[v]]
  BY DEF swap, Usable
<1>2. /\ vec'[v] = vec[w] /\ vec'[w] = vec[v]
      /\ \A u \in Vectors \ {v, w} : vec'[u] = vec[u]
  BY <1>1 DEF IInv, Types
<1>3. Types'
  BY <1>1, <1>2 DEF IInv, Types, IsBlock, IsVector
<1>4. \A g \in Graphs : Shaped(graph[g])'
  BY <1>1, Undisturbed
<1>5. Shape'
  BY ZenonT(60), <1>1, <1>2, <1>4 DEF IInv, Shape
<1>6. Apart'
  <2>1. \A u \in Vectors : vec'[u].start = IF u = v THEN vec[w].start
                                         ELSE IF u = w THEN vec[v].start ELSE vec[u].start
    BY <1>2
  <2>2. \A t, u \in Vectors : t # u /\ vec'[t].start # Null => vec'[t].start # vec'[u].start
    BY <2>1 DEF IInv, Apart
  <2>3. \A u \in Vectors, g \in Graphs : vec'[u].start \notin Blocks(graph[g])
    BY <2>1 DEF IInv, Apart
  <2> QED
    BY <2>2, <2>3, <1>0 DEF IInv, Apart
<1>7. Owned'
  <2>1. \A b \in Addr : heap[b].kind # "free" =>
          (\E u \in Vectors : b = vec'[u].start) \/ (\E g \in Graphs : b \in Blocks(graph[g]))
    <3> TAKE b \in Addr
    <3> HAVE heap[b].kind # "free"
    <3>1. CASE \E u \in Vectors : b = vec[u].start
      <4>1. PICK u \in Vectors : b = vec[u].start
        BY <3>1
      <4> QED
        BY <4>1, <1>2
    <3> QED
      BY <3>1 DEF IInv, Owned
  <2>2. \A u \in Vectors : u \notin alive => vec'[u].start = Null
    BY <1>1, <1>2 DEF IInv, Owned
  <2> QED
    BY <2>1, <2>2, <1>0, <1>1 DEF IInv, Owned
<1> QED
  BY <1>3, <1>5, <1>6, <1>7 DEF IInv

\* An array frees its block when it ends.
LEMMA DestroyVectorKeeps ==
  ASSUME IInv, NEW v \in Vectors, DestroyVector(v)
  PROVE  IInv'
<1>0. \A g \in Graphs : Blocks(graph[g])' = Blocks(graph[g]) /\ Null \notin Blocks(graph[g])
  BY DEF DestroyVector, Blocks
<1> DEFINE old == vec[v].start
<1>1. /\ heap' = Delete(heap, old) /\ vec' = [vec EXCEPT ![v] = NoVector]
      /\ graph' = graph /\ alive' = alive \ {v}
  BY DEF DestroyVector, End
<1>2. old # Null => old \in Addr /\ heap[old].kind = "array"
  BY DEF IInv, Types, Shape, IsVector, Pointers
<1>3. /\ heap' = [b \in Addr |-> heap'[b]]
      /\ old # Null => heap'[old] = Free
      /\ \A b \in Addr \ {old} : heap'[b] = heap[b]
  BY <1>1, <1>2 DEF Delete, IInv, Types
<1>4. vec'[v].start = Null /\ \A u \in Vectors \ {v} : vec'[u] = vec[u]
  BY <1>1 DEF IInv, Types, NoVector
<1>5. \A g \in Graphs : old \notin Blocks(graph[g]) /\ g # v
  BY ObjectsAssumption DEF IInv, Apart
<1>6. Types'
  <2>1. \A b \in Addr : IsBlock(heap'[b])
    BY <1>3, AllocatorAssumption DEF IInv, Types, IsBlock, Kinds, Free
  <2>2. vec' = [u \in Vectors |-> vec'[u]] /\ \A u \in Vectors : IsVector(vec'[u])
    BY <1>1 DEF IInv, Types, IsVector, Pointers, NoVector
  <2> QED
    BY <2>1, <2>2, <1>1, <1>3 DEF IInv, Types, IsBlock, IsVector, Objects
<1>7. Shape'
  <2>1. \A g \in Graphs : Shaped(graph[g])'
    BY <1>1, <1>3, <1>5, Undisturbed, BlocksInUse
  <2>2. \A b \in Addr : heap'[b].kind # "corrupt"
    BY <1>3, AllocatorAssumption DEF IInv, Shape, Free
  <2>3. \A u \in Vectors : vec'[u].start # Null => heap'[vec'[u].start].kind = "array"
    BY <1>3, <1>4 DEF IInv, Shape, Apart, Types, IsVector, Pointers
  <2> QED
    BY <2>1, <2>2, <2>3 DEF Shape
<1>8. Apart'
  BY <1>1, <1>4, <1>0 DEF IInv, Apart
<1>9. Owned'
  BY <1>1, <1>2, <1>3, <1>4, <1>5, <1>0, AllocatorAssumption DEF IInv, Owned, Free
<1> QED
  BY <1>6, <1>7, <1>8, <1>9 DEF IInv

-----------------------------------------------------------------------------
(* The steps of graphs. *)

\* The block a was an array's, and the array has none any more.
GivenUp(a) == \E v \in Vectors : vec[v].start = a /\ vec'[v].start = Null

\* A graph that begins has the blocks New, which were free or an array gave them up.
LEMMA NewGraphKeeps ==
  ASSUME IInv, NEW g \in Graphs, g \notin alive, alive' = alive \cup {g},
         NEW New \in SUBSET Addr,
         heap' = [a \in Addr |-> heap'[a]], \A a \in Addr : IsBlock(heap'[a]),
         \A a \in New : /\ heap[a].kind = "free" \/ GivenUp(a)
                        /\ heap'[a].kind \in {"array", "index"},
         \A a \in Addr \ New : IF GivenUp(a) THEN heap'[a] = Free
                               ELSE \/ heap'[a] = heap[a]
                                    \/ heap[a].kind = "array" /\ heap'[a].kind = "array",
         vec' = [v \in Vectors |-> vec'[v]],
         \A v \in Vectors : IsVector(vec'[v]) /\ vec'[v].start \in {vec[v].start, Null},
         graph' = [h \in Graphs |-> graph'[h]],
         \A h \in Graphs \ {g} : graph'[h] = graph[h],
         IsGraphRecord(graph'[g]), Blocks(graph'[g]) = New, Shaped(graph[g])'
  PROVE  IInv'
<1>1. \A h \in Graphs, a \in New : h # g => a \notin Blocks(graph[h])
  <2> TAKE h \in Graphs, a \in New
  <2> HAVE h # g
  <2>1. CASE heap[a].kind = "free"
    BY <2>1, BlocksInUse
  <2>2. CASE GivenUp(a)
    BY <2>2 DEF GivenUp, IInv, Apart
  <2> QED
    BY <2>1, <2>2
<1>2. \A h \in Graphs, a \in Addr : h # g /\ a \in Blocks(graph[h]) =>
        heap'[a] = heap[a] \/ (heap[a].kind = "array" /\ heap'[a].kind = "array")
  BY <1>1 DEF GivenUp, IInv, Apart
<1>3. \A v \in Vectors : vec'[v].start # Null =>
        /\ vec'[v].start = vec[v].start /\ vec[v].start \in Addr \ New
        /\ ~GivenUp(vec[v].start)
  <2> TAKE v \in Vectors
  <2> HAVE vec'[v].start # Null
  <2>1. vec'[v].start = vec[v].start
    OBVIOUS
  <2>2. vec[v].start \in Addr /\ heap[vec[v].start].kind = "array"
    BY <2>1 DEF IInv, Types, IsVector, Pointers, Shape
  <2>3. ~GivenUp(vec[v].start)
    BY <2>1 DEF GivenUp, IInv, Apart
  <2> QED
    BY <2>1, <2>2, <2>3
<1>4. /\ \A h \in Graphs \ {g} : Blocks(graph[h])' = Blocks(graph[h])
      /\ Blocks(graph[g])' = New /\ Null \notin New
      /\ \A h \in Graphs : Null \notin Blocks(graph[h])
  BY AllocatorAssumption DEF Blocks
<1>5. Types'
  BY DEF IInv, Types, Objects, IsBlock, IsVector, IsGraphRecord
<1>6. Shape'
  <2>1. \A h \in Graphs \ {g} : Shaped(graph[h])'
    BY <1>2, Undisturbed, BlocksInUse
  <2>2. \A a \in Addr : heap'[a].kind # "corrupt"
    BY DEF IInv, Shape, Free
  <2>3. \A v \in Vectors : vec'[v].start # Null => heap'[vec'[v].start].kind = "array"
    BY <1>3 DEF IInv, Shape
  <2> QED
    BY <2>1, <2>2, <2>3 DEF Shape
<1>7. Apart'
  <2>1. \A v, w \in Vectors : v # w /\ vec'[v].start # Null => vec'[v].start # vec'[w].start
    BY <1>3 DEF IInv, Apart
  <2>2. \A h, k \in Graphs : h # k => Blocks(graph[h])' \cap Blocks(graph[k])' = {}
    <3> TAKE h, k \in Graphs
    <3> HAVE h # k
    <3>1. CASE h = g
      BY <3>1, <1>1, <1>4
    <3>2. CASE k = g
      BY <3>2, <1>1, <1>4
    <3>3. CASE h # g /\ k # g
      BY <3>3, <1>4 DEF IInv, Apart
    <3> QED
      BY <3>1, <3>2, <3>3
  <2>3. \A v \in Vectors, h \in Graphs : vec'[v].start \notin Blocks(graph[h])'
    <3> TAKE v \in Vectors, h \in Graphs
    <3>1. CASE vec'[v].start = Null
      BY <3>1, <1>4
    <3>2. CASE vec'[v].start # Null
      BY <3>2, <1>3, <1>4 DEF IInv, Apart
    <3> QED
      BY <3>1, <3>2
  <2> QED
    BY <2>1, <2>2, <2>3 DEF Apart
<1>8. Owned'
  <2>1. ASSUME NEW a \in Addr, heap'[a].kind # "free"
        PROVE  \/ \E v \in Vectors : a = vec'[v].start
               \/ \E h \in Graphs : a \in Blocks(graph[h])'
    <3>1. CASE a \in New
      BY <3>1, <1>4
    <3>2. CASE a \notin New
      <4>1. ~GivenUp(a) /\ heap[a].kind # "free"
        BY <3>2, <2>1 DEF Free
      <4>2. CASE \E v \in Vectors : a = vec[v].start
        <5>1. PICK v \in Vectors : a = vec[v].start
          BY <4>2
        <5>2. vec'[v].start = a
          BY <4>1, <5>1 DEF GivenUp
        <5> QED
          BY <5>2
      <4>3. CASE \E h \in Graphs : a \in Blocks(graph[h])
        <5>1. PICK h \in Graphs : a \in Blocks(graph[h])
          BY <4>3
        <5>2. h # g
          BY <5>1 DEF IInv, Owned
        <5> QED
          BY <5>1, <5>2, <1>4
      <4> QED
        BY <4>1, <4>2, <4>3 DEF IInv, Owned
    <3> QED
      BY <3>1, <3>2
  <2>2. \A v \in Vectors : v \notin alive' => vec'[v].start = Null
    BY DEF IInv, Owned
  <2>3. \A h \in Graphs : h \notin alive' => Blocks(graph[h])' = {}
    BY <1>4 DEF IInv, Owned
  <2> QED
    BY <2>1, <2>2, <2>3 DEF Owned
<1> QED
  BY <1>5, <1>6, <1>7, <1>8 DEF IInv

\* What a graph releases are its blocks, each of them once.
LEMMA Released ==
  ASSUME IInv, NEW g \in Graphs
  PROVE  ReleaseResources(heap, graph[g])
           = [a \in Addr |-> IF a \in Blocks(graph[g]) THEN Free ELSE heap[a]]
<1> DEFINE r == graph[g]
<1>1. IsGraphRecord(r) /\ Shaped(r)
  BY DEF IInv, Types, Shape
<1>2. CASE r.out_index = Null
  <2>1. /\ r.out_neighbors = Null /\ r.in_index = Null /\ r.in_neighbors = Null
        /\ Blocks(r) = {}
    BY <1>1, <1>2 DEF Shaped, Blocks
  <2>2. ReleaseResources(heap, r) = heap
    BY <1>2, <2>1 DEF ReleaseResources, Delete
  <2> QED
    BY <2>1, <2>2 DEF IInv, Types
<1>3. CASE r.out_index # Null
  <2> DEFINE h1 == Delete(heap, r.out_index)
             h2 == Delete(h1, r.out_neighbors)
             h3 == Delete(h2, r.in_index)
             h4 == Delete(h3, r.in_neighbors)
  <2>1. WholeGraph(r) /\ r.in_index # Null
    BY <1>1, <1>3 DEF Shaped
  <2>2. /\ r.out_index \in Addr /\ heap[r.out_index].kind = "index"
        /\ r.in_index \in Addr /\ heap[r.in_index].kind = "index"
        /\ r.out_neighbors # Null => r.out_neighbors \in Addr /\ heap[r.out_neighbors].kind = "array"
        /\ r.in_neighbors # Null => r.in_neighbors \in Addr /\ heap[r.in_neighbors].kind = "array"
    BY <1>1, <1>3, <2>1 DEF IsGraphRecord, Pointers, WholeGraph, AtHome, Index
  <2>3. h1 = [a \in Addr |-> IF a = r.out_index THEN Free ELSE heap[a]]
    BY <1>3, <2>2 DEF Delete, IInv, Types
  <2>4. h2 = [a \in Addr |-> IF a \in {r.out_index, r.out_neighbors} THEN Free ELSE heap[a]]
    <3> HIDE DEF h1
    <3>1. CASE r.out_neighbors = Null
      BY <3>1, <2>3, AllocatorAssumption DEF Delete
    <3>2. CASE r.out_neighbors # Null
      BY <3>2, <2>2, <2>3 DEF Delete
    <3> QED
      BY <3>1, <3>2
  <2>5. CASE r.directed
    <3>1. {r.out_index, r.out_neighbors} \cap {r.in_index, r.in_neighbors} = {}
      BY <1>3, <2>1, <2>5 DEF WholeGraph
    <3>2. h3 = [a \in Addr |-> IF a \in {r.out_index, r.out_neighbors, r.in_index} THEN Free
                               ELSE heap[a]]
      <4> HIDE DEF h2
      <4> QED
        BY <2>1, <2>2, <2>4, <3>1 DEF Delete
    <3>3. h4 = [a \in Addr |-> IF a \in {r.out_index, r.out_neighbors, r.in_index, r.in_neighbors}
                               THEN Free ELSE heap[a]]
      <4> HIDE DEF h3
      <4>1. CASE r.in_neighbors = Null
        BY <4>1, <3>2, AllocatorAssumption DEF Delete
      <4>2. CASE r.in_neighbors # Null
        BY <4>2, <2>2, <3>1, <3>2 DEF Delete
      <4> QED
        BY <4>1, <4>2
    <3>4. ReleaseResources(heap, r) = h4
      BY <2>5 DEF ReleaseResources
    <3> QED
      BY <3>3, <3>4, AllocatorAssumption DEF Blocks
  <2>6. CASE ~r.directed
    <3>1. r.in_index = r.out_index /\ r.in_neighbors = r.out_neighbors
      BY <1>3, <2>1, <2>6 DEF WholeGraph
    <3>2. ReleaseResources(heap, r) = h2
      BY <2>6 DEF ReleaseResources
    <3> QED
      BY <2>4, <3>1, <3>2, AllocatorAssumption DEF Blocks
  <2> QED
    BY <2>5, <2>6
<1> QED
  BY <1>2, <1>3

\* A graph ends with all of its blocks.
LEMMA DestroyGraphKeeps ==
  ASSUME IInv, NEW g \in Graphs, DestroyGraph(g)
  PROVE  IInv'
<1>1. /\ heap' = [a \in Addr |-> IF a \in Blocks(graph[g]) THEN Free ELSE heap[a]]
      /\ graph' = [graph EXCEPT ![g] = NoGraph] /\ vec' = vec /\ alive' = alive \ {g}
  BY Released DEF DestroyGraph, End
<1>2. graph'[g] = NoGraph /\ \A h \in Graphs \ {g} : graph'[h] = graph[h]
  BY <1>1 DEF IInv, Types
<1>3. /\ \A h \in Graphs \ {g} : Blocks(graph[h])' = Blocks(graph[h])
      /\ Blocks(graph[g])' = {}
  BY <1>2 DEF Blocks, NoGraph
<1>4. Types'
  <2>1. heap' = [a \in Addr |-> heap'[a]] /\ \A a \in Addr : IsBlock(heap'[a])
    BY <1>1 DEF IInv, Types, IsBlock, Kinds, Free
  <2>2. graph' = [h \in Graphs |-> graph'[h]] /\ \A h \in Graphs : IsGraphRecord(graph'[h])
    BY <1>1, <1>2 DEF IInv, Types, IsGraphRecord, NoGraph, Pointers
  <2> QED
    BY <2>1, <2>2, <1>1 DEF IInv, Types, IsBlock, IsVector, IsGraphRecord
<1>5. Shape'
  <2>1. ASSUME NEW h \in Graphs PROVE Shaped(graph[h])'
    <3>1. CASE h = g
      BY <3>1, <1>2, <1>3 DEF Shaped, NoGraph, Blocks
    <3>2. CASE h # g
      <4>1. \A b \in Blocks(graph[h]) : heap'[b] = heap[b]
        BY <3>2, <1>1, BlocksInUse DEF IInv, Apart
      <4> QED
        BY <4>1, <3>2, <1>2, Undisturbed
    <3> QED
      BY <3>1, <3>2
  <2>2. \A a \in Addr : heap'[a].kind # "corrupt"
    BY <1>1 DEF IInv, Shape, Free
  <2>3. \A v \in Vectors : vec'[v].start # Null => heap'[vec'[v].start].kind = "array"
    BY <1>1 DEF IInv, Shape, Apart, Types, IsVector, Pointers
  <2> QED
    BY <2>1, <2>2, <2>3 DEF Shape
<1>6. Apart'
  <2>1. \A h, k \in Graphs : h # k => Blocks(graph[h])' \cap Blocks(graph[k])' = {}
    BY <1>3 DEF IInv, Apart
  <2>2. \A v \in Vectors, h \in Graphs : vec[v].start \notin Blocks(graph[h])'
    BY <1>3 DEF IInv, Apart
  <2> QED
    BY <2>1, <2>2, <1>1 DEF IInv, Apart
<1>7. Owned'
  <2>1. ASSUME NEW a \in Addr, heap'[a].kind # "free"
        PROVE  \/ \E v \in Vectors : a = vec[v].start
               \/ \E h \in Graphs : a \in Blocks(graph[h])'
    <3>1. heap[a].kind # "free" /\ a \notin Blocks(graph[g])
      BY <1>1, <2>1 DEF Free
    <3> QED
      BY <3>1, <1>3 DEF IInv, Owned
  <2>2. \A v \in Vectors : v \notin alive' => vec[v].start = Null
    BY <1>1, ObjectsAssumption DEF IInv, Owned
  <2>3. \A h \in Graphs : h \notin alive' => Blocks(graph[h])' = {}
    BY <1>1, <1>3 DEF IInv, Owned
  <2> QED
    BY <2>1, <2>2, <2>3, <1>1 DEF Owned
<1> QED
  BY <1>4, <1>5, <1>6, <1>7 DEF IInv

\* What g had is freed, and h's blocks are g's.
LEMMA MoveGraphKeeps ==
  ASSUME IInv, NEW g \in Graphs, NEW h \in Graphs, g # h, h \in alive,
         heap' = [a \in Addr |-> IF a \in Blocks(graph[g]) THEN Free ELSE heap[a]],
         graph' = [k \in Graphs |-> graph'[k]],
         graph'[g] = graph[h], graph'[h] = MovedFrom(graph[h]),
         \A k \in Graphs \ {g, h} : graph'[k] = graph[k],
         vec' = vec, alive' = alive \cup {g}
  PROVE  IInv'
<1>1. /\ Blocks(graph[g])' = Blocks(graph[h]) /\ Blocks(graph[h])' = {}
      /\ \A k \in Graphs \ {g, h} : Blocks(graph[k])' = Blocks(graph[k])
  BY DEF Blocks, NoGraph, MovedFrom
<1>2. \A k \in Graphs \ {g} : \A b \in Blocks(graph[k]) : b \in Addr /\ heap'[b] = heap[b]
  <2> TAKE k \in Graphs \ {g}
  <2> TAKE b \in Blocks(graph[k])
  <2>1. b \in Addr
    BY BlocksInUse
  <2>2. b \notin Blocks(graph[g])
    BY DEF IInv, Apart
  <2> QED
    BY <2>1, <2>2
<1>3. Types'
  <2>1. heap' = [a \in Addr |-> heap'[a]] /\ \A a \in Addr : IsBlock(heap'[a])
    BY DEF IInv, Types, IsBlock, Kinds, Free
  <2>2. \A k \in Graphs : IsGraphRecord(graph[k])'
    BY DEF IInv, Types, IsGraphRecord, NoGraph, MovedFrom, Pointers
  <2> QED
    BY <2>1, <2>2 DEF IInv, Types, Objects, IsBlock, IsVector, IsGraphRecord
<1>4. Shape'
  <2>1. ASSUME NEW k \in Graphs PROVE Shaped(graph[k])'
    <3>1. CASE k = g
      <4>1. Shaped(graph[h]) /\ IsGraphRecord(graph[h])
        BY DEF IInv, Shape, Types
      <4>2. CASE graph[h].out_index = Null
        BY <3>1, <4>1, <4>2, <1>1 DEF Shaped
      <4>3. CASE graph[h].out_index # Null
        <5> DEFINE r == graph[h]
        <5>1. /\ AtHome(r.out_index, r.out_neighbors) /\ AtHome(r.in_index, r.in_neighbors)
              /\ r.in_index # Null
          BY <4>1, <4>3 DEF Shaped, WholeGraph
        <5>2. \A b \in {r.out_index, r.in_index, r.out_neighbors, r.in_neighbors} :
                b # Null => heap'[b] = heap[b]
          BY <1>2 DEF Blocks
        <5>3. /\ AtHome(graph[g].out_index, graph[g].out_neighbors)'
              /\ AtHome(graph[g].in_index, graph[g].in_neighbors)'
          BY <4>3, <5>1, <5>2 DEF AtHome
        <5> QED
          BY <3>1, <4>1, <4>3, <5>3 DEF Shaped, WholeGraph
      <4> QED
        BY <4>2, <4>3
    <3>2. CASE k = h
      BY <3>2, <1>1 DEF Shaped, NoGraph, MovedFrom
    <3>3. CASE k \notin {g, h}
      BY <3>3, <1>2, Undisturbed
    <3> QED
      BY <3>1, <3>2, <3>3
  <2>2. \A a \in Addr : heap'[a].kind # "corrupt"
    BY DEF IInv, Shape, Free
  <2>3. \A v \in Vectors : vec'[v].start # Null => heap'[vec'[v].start].kind = "array"
    BY DEF IInv, Shape, Apart, Types, IsVector, Pointers
  <2> QED
    BY <2>1, <2>2, <2>3 DEF Shape
<1>5. Apart'
  <2>1. \A k, l \in Graphs : k # l => Blocks(graph[k])' \cap Blocks(graph[l])' = {}
    <3> TAKE k, l \in Graphs
    <3> HAVE k # l
    <3>1. CASE k = g
      BY <3>1, <1>1 DEF IInv, Apart
    <3>2. CASE l = g
      BY <3>2, <1>1 DEF IInv, Apart
    <3>3. CASE k # g /\ l # g
      BY <3>3, <1>1 DEF IInv, Apart
    <3> QED
      BY <3>1, <3>2, <3>3
  <2>2. \A v \in Vectors, k \in Graphs : vec[v].start \notin Blocks(graph[k])'
    BY <1>1 DEF IInv, Apart
  <2> QED
    BY <2>1, <2>2 DEF IInv, Apart
<1>6. Owned'
  <2>1. ASSUME NEW a \in Addr, heap'[a].kind # "free"
        PROVE  \/ \E v \in Vectors : a = vec[v].start
               \/ \E k \in Graphs : a \in Blocks(graph[k])'
    <3>1. heap[a].kind # "free" /\ a \notin Blocks(graph[g])
      BY <2>1 DEF Free
    <3>2. CASE \E k \in Graphs : a \in Blocks(graph[k])
      <4>1. PICK k \in Graphs : a \in Blocks(graph[k])
        BY <3>2
      <4> QED
        BY <3>1, <4>1, <1>1
    <3> QED
      BY <3>1, <3>2 DEF IInv, Owned
  <2>2. \A v \in Vectors : v \notin alive' => vec[v].start = Null
    BY DEF IInv, Owned
  <2>3. \A k \in Graphs : k \notin alive' => Blocks(graph[k])' = {}
    BY <1>1 DEF IInv, Owned
  <2> QED
    BY <2>1, <2>2, <2>3 DEF Owned
<1> QED
  BY <1>3, <1>4, <1>5, <1>6 DEF IInv

\* A graph in free blocks, over a heap whose arrays may have changed.
LEMMA FreshGraphKeeps ==
  ASSUME IInv, NEW g \in Graphs, NEW h, NEW directed \in BOOLEAN, NEW out, NEW in,
         Begin(g), NewGraph(g, h, directed, out, in), vec' = vec,
         h = [a \in Addr |-> h[a]],
         \A a \in Addr : /\ IsBlock(h[a])
                         /\ h[a] = heap[a] \/ (heap[a].kind = "array" /\ h[a].kind = "array")
  PROVE  IInv'
<1>1. \A S \in SUBSET FreeAddrs : Fresh(S) \subseteq S /\ S \subseteq Addr
  BY AllocatorAssumption DEF FreeAddrs
<1>2. \A a \in Addr : ~GivenUp(a)
  BY AllocatorAssumption DEF GivenUp
<1>3. /\ vec' = [v \in Vectors |-> vec'[v]]
      /\ \A v \in Vectors : IsVector(vec'[v]) /\ vec'[v].start \in {vec[v].start, Null}
  BY DEF IInv, Types
<1>0. g \notin alive /\ alive' = alive \cup {g}
  BY DEF Begin
<1>4. CASE directed
  <2>1. PICK n, x, m, y \in FreeAddrs :
          /\ x # n /\ m \notin {n, x} /\ y \notin {n, x, m}
          /\ heap' = WithCSR(WithCSR(h, n, x, out), m, y, in)
          /\ graph' = [graph EXCEPT ![g] =
               [directed |-> TRUE, out_index |-> x, out_neighbors |-> n,
                in_index |-> y, in_neighbors |-> m]]
    BY ZenonT(60), <1>1, <1>4 DEF NewGraph
  <2>2. /\ {n, x, m, y} \subseteq Addr /\ {x, n} \cap {y, m} = {} /\ x # n /\ y # m
        /\ \A a \in {n, x, m, y} : heap[a].kind = "free"
    BY <2>1 DEF FreeAddrs
  <2>3. heap' = [a \in Addr |-> IF a = n THEN Array(out) ELSE IF a = x THEN Index(n)
                                ELSE IF a = m THEN Array(in) ELSE IF a = y THEN Index(m) ELSE h[a]]
    BY <2>1, <2>2 DEF WithCSR
  <2>4. \A a \in Addr : IsBlock(heap'[a])
    BY <2>3, AllocatorAssumption DEF IsBlock, Array, Index, Kinds
  <2>5. /\ heap'[x] = Index(n) /\ heap'[n].kind = "array"
        /\ heap'[y] = Index(m) /\ heap'[m].kind = "array"
    BY <2>2, <2>3 DEF Array
  <2> DEFINE New == {n, x, m, y}
  <2>6. \A a \in Addr \ New : IF GivenUp(a) THEN heap'[a] = Free
                              ELSE \/ heap'[a] = heap[a]
                                   \/ heap[a].kind = "array" /\ heap'[a].kind = "array"
    BY <1>2, <2>2, <2>3
  <2>7. heap' = [a \in Addr |-> heap'[a]]
    BY <2>3
  <2>8. /\ graph' = [k \in Graphs |-> graph'[k]]
        /\ \A k \in Graphs \ {g} : graph'[k] = graph[k]
        /\ graph'[g] = [directed |-> TRUE, out_index |-> x, out_neighbors |-> n,
                      in_index |-> y, in_neighbors |-> m]
    BY <2>1 DEF IInv, Types
  <2>9. IsGraphRecord(graph'[g]) /\ Blocks(graph'[g]) = New
    BY <2>2, <2>8, AllocatorAssumption DEF IsGraphRecord, Blocks, Pointers
  <2>10. Shaped(graph[g])'
    BY <2>2, <2>5, <2>8, AllocatorAssumption DEF Shaped, WholeGraph, AtHome
  <2>11. \A a \in New : heap[a].kind = "free" /\ heap'[a].kind \in {"array", "index"}
    BY <2>2, <2>5 DEF Index
  <2>12. New \in SUBSET Addr
    BY <2>2
  <2> HIDE DEF New
  <2> QED
    BY <1>3, <1>0, <2>4, <2>6, <2>7, <2>8, <2>9, <2>10, <2>11, <2>12, NewGraphKeeps
<1>5. CASE ~directed
  <2>1. PICK n, x \in FreeAddrs :
          /\ x # n
          /\ heap' = WithCSR(h, n, x, out)
          /\ graph' = [graph EXCEPT ![g] =
               [directed |-> FALSE, out_index |-> x, out_neighbors |-> n,
                in_index |-> x, in_neighbors |-> n]]
    BY <1>1, <1>5 DEF NewGraph
  <2>2. {n, x} \subseteq Addr /\ x # n /\ \A a \in {n, x} : heap[a].kind = "free"
    BY <2>1 DEF FreeAddrs
  <2>3. heap' = [a \in Addr |-> IF a = n THEN Array(out) ELSE IF a = x THEN Index(n) ELSE h[a]]
    BY <2>1, <2>2 DEF WithCSR
  <2>4. \A a \in Addr : IsBlock(heap'[a])
    BY <2>3, AllocatorAssumption DEF IsBlock, Array, Index, Kinds
  <2>5. heap'[x] = Index(n) /\ heap'[n].kind = "array"
    BY <2>2, <2>3 DEF Array
  <2> DEFINE New == {n, x}
  <2>6. \A a \in Addr \ New : IF GivenUp(a) THEN heap'[a] = Free
                              ELSE \/ heap'[a] = heap[a]
                                   \/ heap[a].kind = "array" /\ heap'[a].kind = "array"
    BY <1>2, <2>2, <2>3
  <2>7. heap' = [a \in Addr |-> heap'[a]]
    BY <2>3
  <2>8. /\ graph' = [k \in Graphs |-> graph'[k]]
        /\ \A k \in Graphs \ {g} : graph'[k] = graph[k]
        /\ graph'[g] = [directed |-> FALSE, out_index |-> x, out_neighbors |-> n,
                      in_index |-> x, in_neighbors |-> n]
    BY <2>1 DEF IInv, Types
  <2>9. IsGraphRecord(graph'[g]) /\ Blocks(graph'[g]) = New
    BY <2>2, <2>8, AllocatorAssumption DEF IsGraphRecord, Blocks, Pointers
  <2>10. Shaped(graph[g])'
    BY <2>2, <2>5, <2>8, AllocatorAssumption DEF Shaped, WholeGraph, AtHome
  <2>11. \A a \in New : heap[a].kind = "free" /\ heap'[a].kind \in {"array", "index"}
    BY <2>2, <2>5 DEF Index
  <2>12. New \in SUBSET Addr
    BY <2>2
  <2> HIDE DEF New
  <2> QED
    BY <1>3, <1>0, <2>4, <2>6, <2>7, <2>8, <2>9, <2>10, <2>11, <2>12, NewGraphKeeps
<1> QED
  BY <1>4, <1>5

\* What building in place makes of the list that was in old: its block moves to new, if
\* that is another one, and the rest of g goes to blocks that are free by then.
InPlace(g, directed, old, items, new, x, m, y) ==
  /\ old \in Addr /\ heap[old].kind = "array"
  /\ new \in IF directed /\ items = <<>> THEN {Null} ELSE Addr
  /\ {x, m, y} \subseteq Addr /\ new \notin {x, m, y}
  /\ IF directed THEN m # x /\ y \notin {x, m} ELSE m = x /\ y = x
  /\ \A a \in {x, m, y, new} \ {Null} : heap[a].kind = "free" \/ a = old
  /\ heap' = [a \in Addr |->
       IF directed /\ a = m THEN Array(items) ELSE IF directed /\ a = y THEN Index(m)
       ELSE IF a = x THEN Index(new) ELSE IF a = new THEN Array(items)
       ELSE IF a = old THEN Free ELSE heap[a]]
  /\ graph' = [graph EXCEPT ![g] =
       [directed |-> directed, out_index |-> x, out_neighbors |-> new,
        in_index |-> IF directed THEN y ELSE x,
        in_neighbors |-> IF directed THEN m ELSE new]]

\* Every outcome of MakeCSRInPlace is one of these.
LEMMA InPlaceIs ==
  ASSUME IInv, NEW g \in Graphs, NEW el \in Vectors, NEW directed \in BOOLEAN,
         MakeCSRInPlace(g, el, directed),
         NEW old, old = vec[el].start, NEW items, items = V!Squished(Elements(el))
  PROVE  \E new, x, m, y : InPlace(g, directed, old, items, new, x, m, y)
<1>1. old \in Addr /\ heap[old].kind = "array"
  BY DEF MakeCSRInPlace, IInv, Types, IsVector, Pointers, Shape
<1>2. PICK h :
        /\ h = [heap EXCEPT ![old] = Array(items)]
        /\ \E new \in IF items = <<>> THEN {Null} ELSE {old} \cup Fresh(FreeAddrs) :
             LET free == (FreeAddrs \cup {old}) \ {new}
             IN  \E x \in Fresh(free) :
                   IF directed
                   THEN \E m \in Fresh(free \ {x}) : \E y \in Fresh(free \ {x, m}) :
                          /\ heap' = WithCSR(Reallocated(h, old, new, x), m, y, items)
                          /\ graph' = [graph EXCEPT ![g] =
                               [directed |-> TRUE, out_index |-> x, out_neighbors |-> new,
                                in_index |-> y, in_neighbors |-> m]]
                   ELSE /\ new # Null
                        /\ heap' = Reallocated(h, old, new, x)
                        /\ graph' = [graph EXCEPT ![g] =
                             [directed |-> FALSE, out_index |-> x, out_neighbors |-> new,
                              in_index |-> x, in_neighbors |-> new]]
  BY ZenonT(60) DEF MakeCSRInPlace
<1>3. PICK new \in IF items = <<>> THEN {Null} ELSE {old} \cup Fresh(FreeAddrs) :
        LET free == (FreeAddrs \cup {old}) \ {new}
        IN  \E x \in Fresh(free) :
              IF directed
              THEN \E m \in Fresh(free \ {x}) : \E y \in Fresh(free \ {x, m}) :
                     /\ heap' = WithCSR(Reallocated(h, old, new, x), m, y, items)
                     /\ graph' = [graph EXCEPT ![g] =
                          [directed |-> TRUE, out_index |-> x, out_neighbors |-> new,
                           in_index |-> y, in_neighbors |-> m]]
              ELSE /\ new # Null
                   /\ heap' = Reallocated(h, old, new, x)
                   /\ graph' = [graph EXCEPT ![g] =
                        [directed |-> FALSE, out_index |-> x, out_neighbors |-> new,
                         in_index |-> x, in_neighbors |-> new]]
  BY <1>2
<1>4. PICK free : free = (FreeAddrs \cup {old}) \ {new}
  OBVIOUS
<1>5. PICK x \in Fresh(free) :
        IF directed
        THEN \E m \in Fresh(free \ {x}) : \E y \in Fresh(free \ {x, m}) :
               /\ heap' = WithCSR(Reallocated(h, old, new, x), m, y, items)
               /\ graph' = [graph EXCEPT ![g] =
                    [directed |-> TRUE, out_index |-> x, out_neighbors |-> new,
                     in_index |-> y, in_neighbors |-> m]]
        ELSE /\ new # Null
             /\ heap' = Reallocated(h, old, new, x)
             /\ graph' = [graph EXCEPT ![g] =
                  [directed |-> FALSE, out_index |-> x, out_neighbors |-> new,
                   in_index |-> x, in_neighbors |-> new]]
  BY ZenonT(60), <1>3, <1>4
<1>6. \A S \in SUBSET (FreeAddrs \cup {old}) : Fresh(S) \subseteq S /\ S \subseteq Addr
  BY <1>1, AllocatorAssumption DEF FreeAddrs
<1>7. x \in free /\ free \subseteq FreeAddrs \cup {old} /\ new \notin free
  BY <1>4, <1>5, <1>6
<1>8. new \in IF items = <<>> THEN {Null} ELSE Addr
  BY <1>1, <1>3, <1>6
<1>9. CASE directed
  <2>1. PICK m \in Fresh(free \ {x}) : \E y \in Fresh(free \ {x, m}) :
          /\ heap' = WithCSR(Reallocated(h, old, new, x), m, y, items)
          /\ graph' = [graph EXCEPT ![g] =
               [directed |-> TRUE, out_index |-> x, out_neighbors |-> new,
                in_index |-> y, in_neighbors |-> m]]
    BY <1>5, <1>9
  <2>2. PICK y \in Fresh(free \ {x, m}) :
          /\ heap' = WithCSR(Reallocated(h, old, new, x), m, y, items)
          /\ graph' = [graph EXCEPT ![g] =
               [directed |-> TRUE, out_index |-> x, out_neighbors |-> new,
                in_index |-> y, in_neighbors |-> m]]
    BY <2>1
  <2>3. {x, m, y} \subseteq free /\ m # x /\ y \notin {x, m}
    BY <1>6, <1>7, <2>1, <2>2
  <2>4. /\ {x, m, y} \subseteq Addr /\ new \notin {x, m, y}
        /\ \A a \in {x, m, y, new} \ {Null} : heap[a].kind = "free" \/ a = old
    BY <1>1, <1>6, <1>7, <1>8, <1>3, <1>4, <2>3 DEF FreeAddrs
  <2>5. heap' = [a \in Addr |-> IF a = m THEN Array(items) ELSE IF a = y THEN Index(m)
                                ELSE IF a = x THEN Index(new) ELSE IF a = new THEN Array(items)
                                ELSE IF a = old THEN Free ELSE heap[a]]
    BY ZenonT(60), <1>1, <1>2, <1>8, <2>2, <2>3, <2>4 DEF WithCSR, Reallocated, IInv, Types
  <2>6. heap' = [a \in Addr |->
          IF directed /\ a = m THEN Array(items) ELSE IF directed /\ a = y THEN Index(m)
          ELSE IF a = x THEN Index(new) ELSE IF a = new THEN Array(items)
          ELSE IF a = old THEN Free ELSE heap[a]]
    BY <1>9, <2>5
  <2>7. graph' = [graph EXCEPT ![g] =
          [directed |-> directed, out_index |-> x, out_neighbors |-> new,
           in_index |-> IF directed THEN y ELSE x,
           in_neighbors |-> IF directed THEN m ELSE new]]
    BY <1>9, <2>2
  <2>8. InPlace(g, directed, old, items, new, x, m, y)
    BY <1>1, <1>8, <1>9, <2>3, <2>4, <2>6, <2>7 DEF InPlace
  <2> QED
    BY <2>8
<1>10. CASE ~directed
  <2>1. /\ new # Null
        /\ heap' = Reallocated(h, old, new, x)
        /\ graph' = [graph EXCEPT ![g] =
             [directed |-> FALSE, out_index |-> x, out_neighbors |-> new,
              in_index |-> x, in_neighbors |-> new]]
    BY <1>5, <1>10
  <2>2. /\ x \in Addr /\ new # x /\ new \in Addr
        /\ \A a \in {x, new} : heap[a].kind = "free" \/ a = old
    BY <1>1, <1>6, <1>7, <1>8, <1>3, <1>4, <2>1 DEF FreeAddrs
  <2>3. heap' = [a \in Addr |-> IF a = x THEN Index(new) ELSE IF a = new THEN Array(items)
                                ELSE IF a = old THEN Free ELSE heap[a]]
    BY <2>1, <2>2, <1>1, <1>2 DEF Reallocated, IInv, Types
  <2>4. new \in IF directed /\ items = <<>> THEN {Null} ELSE Addr
    BY <1>10, <2>2
  <2>5. heap' = [a \in Addr |->
          IF directed /\ a = x THEN Array(items) ELSE IF directed /\ a = x THEN Index(x)
          ELSE IF a = x THEN Index(new) ELSE IF a = new THEN Array(items)
          ELSE IF a = old THEN Free ELSE heap[a]]
    BY <1>10, <2>3
  <2>6. graph' = [graph EXCEPT ![g] =
          [directed |-> directed, out_index |-> x, out_neighbors |-> new,
           in_index |-> IF directed THEN x ELSE x,
           in_neighbors |-> IF directed THEN x ELSE new]]
    BY <1>10, <2>1
  <2>7. InPlace(g, directed, old, items, new, x, x, x)
    BY <1>1, <1>10, <2>2, <2>4, <2>5, <2>6 DEF InPlace
  <2> QED
    BY <2>7
<1> QED
  BY <1>9, <1>10

\* The list el becomes the neighbours of a graph, where it is or where realloc moved it.
LEMMA InPlaceKeeps ==
  ASSUME IInv, NEW g \in Graphs, NEW el \in Vectors, NEW directed \in BOOLEAN,
         MakeCSRInPlace(g, el, directed)
  PROVE  IInv'
<1>1. /\ g \notin alive /\ alive' = alive \cup {g}
      /\ vec' = [vec EXCEPT ![el] = [start |-> Null, size |-> -1, capacity |-> -1]]
  BY DEF MakeCSRInPlace, Begin
<1>2. PICK old, items : old = vec[el].start /\ items = V!Squished(Elements(el))
  OBVIOUS
<1>3. PICK new, x, m, y : InPlace(g, directed, old, items, new, x, m, y)
  BY <1>2, InPlaceIs
<1>4. /\ old \in Addr /\ heap[old].kind = "array"
      /\ new # Null => new \in Addr
      /\ {x, m, y} \subseteq Addr /\ new \notin {x, m, y}
      /\ IF directed THEN m # x /\ y \notin {x, m} ELSE new # Null /\ m = x /\ y = x
      /\ \A a \in {x, m, y, new} \ {Null} : heap[a].kind = "free" \/ a = old
  BY <1>3, AllocatorAssumption DEF InPlace
<1>5. heap' = [a \in Addr |->
        IF directed /\ a = m THEN Array(items) ELSE IF directed /\ a = y THEN Index(m)
        ELSE IF a = x THEN Index(new) ELSE IF a = new THEN Array(items)
        ELSE IF a = old THEN Free ELSE heap[a]]
  BY <1>3 DEF InPlace
<1>6. /\ vec' = [v \in Vectors |-> vec'[v]]
      /\ \A v \in Vectors : IsVector(vec'[v]) /\ vec'[v].start \in {vec[v].start, Null}
  BY <1>1 DEF IInv, Types, IsVector, Pointers
<1>7. \A a \in Addr : GivenUp(a) <=> a = old
  <2>1. vec'[el].start = Null /\ \A v \in Vectors \ {el} : vec'[v] = vec[v]
    BY <1>1 DEF IInv, Types
  <2> QED
    BY <2>1, <1>2, <1>4, AllocatorAssumption DEF GivenUp
<1>8. \A n : IsBlock(Array(items)) /\ IsBlock(Index(n)) /\ IsBlock(Free)
  BY DEF IsBlock, Array, Index, Free, Kinds
<1>9. heap' = [a \in Addr |-> heap'[a]] /\ \A a \in Addr : IsBlock(heap'[a])
  BY <1>4, <1>5, <1>8 DEF IInv, Types
<1>10. /\ heap'[x] = Index(new) /\ (new # Null => heap'[new].kind = "array")
       /\ directed => heap'[y] = Index(m) /\ heap'[m].kind = "array"
  BY <1>4, <1>5 DEF Array
<1> DEFINE New == {x, m, y, new} \ {Null}
<1>11. \A a \in Addr \ New : IF GivenUp(a) THEN heap'[a] = Free ELSE heap'[a] = heap[a]
  BY <1>4, <1>5, <1>7, AllocatorAssumption
<1>12. /\ graph' = [k \in Graphs |-> graph'[k]]
       /\ \A k \in Graphs \ {g} : graph'[k] = graph[k]
       /\ graph'[g] = [directed |-> directed, out_index |-> x, out_neighbors |-> new,
                       in_index |-> IF directed THEN y ELSE x,
                       in_neighbors |-> IF directed THEN m ELSE new]
  BY <1>3 DEF InPlace, IInv, Types
<1>13. IsGraphRecord(graph'[g]) /\ Blocks(graph'[g]) = New
  BY <1>4, <1>12 DEF IsGraphRecord, Blocks, Pointers
<1>14. Shaped(graph[g])'
  <2>1. AtHome(graph[g].out_index, graph[g].out_neighbors)'
    BY <1>10, <1>12 DEF AtHome
  <2>2. AtHome(graph[g].in_index, graph[g].in_neighbors)'
    BY <1>10, <1>12 DEF AtHome
  <2>3. x # Null /\ y # Null /\ m # Null
    BY <1>4, AllocatorAssumption
  <2> QED
    BY <1>4, <1>12, <2>1, <2>2, <2>3 DEF Shaped, WholeGraph
<1>15. \A a \in New : /\ heap[a].kind = "free" \/ GivenUp(a)
                      /\ heap'[a].kind \in {"array", "index"}
  <2> TAKE a \in New
  <2>1. heap[a].kind = "free" \/ GivenUp(a)
    BY <1>4, <1>7
  <2>2. heap'[a].kind \in {"array", "index"}
    BY <1>4, <1>10 DEF Index
  <2> QED
    BY <2>1, <2>2
<1>16. New \in SUBSET Addr
  BY <1>4
<1> HIDE DEF New
<1> QED
  BY ZenonT(60), <1>1, <1>6, <1>9, <1>11, <1>12, <1>13, <1>14, <1>15, <1>16, NewGraphKeeps

-----------------------------------------------------------------------------
\* The steps that make a graph of lists, one after the other.
LEMMA FromListKeeps ==
  ASSUME IInv, NEW g \in Graphs, NEW el \in Vectors, NEW directed \in BOOLEAN,
         MakeGraphFromEL(g, el, directed)
  PROVE  IInv'
<1>1. PICK h, items : h = heap /\ items = Elements(el)
  OBVIOUS
<1>2. NewGraph(g, h, directed, items, items)
  BY <1>1 DEF MakeGraphFromEL, NewGraph
<1>3. h = [a \in Addr |-> h[a]] /\ \A a \in Addr : IsBlock(h[a]) /\ h[a] = heap[a]
  BY <1>1 DEF IInv, Types
<1> QED
  BY <1>2, <1>3, FreshGraphKeeps DEF MakeGraphFromEL

\* A graph from a file.
LEMMA FromFileKeeps ==
  ASSUME IInv, NEW g \in Graphs, NEW directed \in BOOLEAN, ReadSerializedGraph(g, directed)
  PROVE  IInv'
<1>1. PICK h : h = heap
  OBVIOUS
<1>2. PICK items : NewGraph(g, h, directed, items, items)
  BY ZenonT(60), <1>1 DEF ReadSerializedGraph, NewGraph
<1>3. h = [a \in Addr |-> h[a]] /\ \A a \in Addr : IsBlock(h[a]) /\ h[a] = heap[a]
  BY <1>1 DEF IInv, Types
<1> QED
  BY <1>2, <1>3, FreshGraphKeeps DEF ReadSerializedGraph

\* A graph from another one, whose lists are sorted where they are.
LEMMA SquishKeeps ==
  ASSUME IInv, NEW g \in Graphs, NEW k \in Graphs, SquishGraph(g, k)
  PROVE  IInv'
<1> DEFINE own == {graph[g].out_neighbors, graph[g].in_neighbors}
<1>0. PICK h, out, in, directed :
        /\ h = [a \in Addr |-> IF a \in own THEN Array(V!SquishedOver(heap[a].items)) ELSE heap[a]]
        /\ directed = graph[g].directed
        /\ out = V!Squished(ListsAt(graph[g].out_index))
        /\ in = V!Squished(ListsAt(graph[g].in_index))
  OBVIOUS
<1>1. /\ h = [a \in Addr |-> IF a \in own THEN Array(V!SquishedOver(heap[a].items)) ELSE heap[a]]
      /\ directed = graph[g].directed
      /\ NewGraph(k, h, directed, out, in)
  BY ZenonT(60), <1>0 DEF SquishGraph, NewGraph
<1>2. directed \in BOOLEAN
  BY <1>1 DEF IInv, Types, IsGraphRecord
<1>3. \A a \in own : a # Null => heap[a].kind = "array"
  BY DEF IInv, Shape, Shaped, WholeGraph, AtHome, SquishGraph
<1>4. \A a \in Addr : /\ IsBlock(h[a])
                      /\ h[a] = heap[a] \/ (heap[a].kind = "array" /\ h[a].kind = "array")
  BY <1>1, <1>3, AllocatorAssumption DEF Array, IsBlock, Kinds, IInv, Types
<1>5. h = [a \in Addr |-> h[a]]
  BY <1>1
<1> QED
  BY <1>1, <1>2, <1>4, <1>5, FreshGraphKeeps DEF SquishGraph

\* A graph from another one, in a new order.
LEMMA RelabelKeeps ==
  ASSUME IInv, NEW g \in Graphs, NEW k \in Graphs, RelabelByDegree(g, k)
  PROVE  IInv'
<1>1. PICK h, out : h = heap /\ out = ListsAt(graph[g].out_index)
  OBVIOUS
<1>2. NewGraph(k, h, FALSE, out, out)
  BY <1>1 DEF RelabelByDegree, NewGraph
<1>3. h = [a \in Addr |-> h[a]] /\ \A a \in Addr : IsBlock(h[a]) /\ h[a] = heap[a]
  BY <1>1 DEF IInv, Types
<1> QED
  BY <1>2, <1>3, FreshGraphKeeps DEF RelabelByDegree

\* An object without memory begins.
LEMMA BeginKeeps ==
  ASSUME IInv, NEW o \in Objects, Begin(o), UNCHANGED <<heap, vec, graph>>
  PROVE  IInv'
<1>1. alive' = alive \cup {o} /\ heap' = heap /\ vec' = vec /\ graph' = graph
  BY DEF Begin
<1>2. \A g \in Graphs : Blocks(graph[g])' = Blocks(graph[g]) /\ Shaped(graph[g])'
  BY <1>1, Undisturbed DEF Blocks
<1>3. Types'
  BY <1>1 DEF IInv, Types, IsBlock, IsVector, IsGraphRecord
<1>4. Shape'
  BY <1>1, <1>2 DEF IInv, Shape
<1>5. Apart'
  BY <1>1, <1>2 DEF IInv, Apart
<1>6. Owned'
  BY <1>1, <1>2 DEF IInv, Owned
<1> QED
  BY <1>3, <1>4, <1>5, <1>6 DEF IInv

\* A step that changes nothing.
LEMMA StutterKeeps ==
  ASSUME IInv, UNCHANGED vars
  PROVE  IInv'
<1>1. alive' = alive /\ heap' = heap /\ vec' = vec /\ graph' = graph
  BY DEF vars
<1>2. \A g \in Graphs : Blocks(graph[g])' = Blocks(graph[g]) /\ Shaped(graph[g])'
  BY <1>1, Undisturbed DEF Blocks
<1>3. Types'
  BY <1>1 DEF IInv, Types, IsBlock, IsVector, IsGraphRecord
<1>4. Shape'
  BY <1>1, <1>2 DEF IInv, Shape
<1>5. Apart'
  BY <1>1, <1>2 DEF IInv, Apart
<1>6. Owned'
  BY <1>1, <1>2 DEF IInv, Owned
<1> QED
  BY <1>3, <1>4, <1>5, <1>6 DEF IInv

\* Moving to an array that begins and assigning to one that is there.
LEMMA MovesOfVectorsKeep ==
  ASSUME IInv, NEW v \in Vectors, NEW w \in Vectors,
         MoveConstructVector(v, w) \/ MoveAssignVector(v, w)
  PROVE  IInv'
<1>1. CASE MoveConstructVector(v, w)
  <2>1. /\ v \notin alive /\ v # w /\ w \in alive /\ graph' = graph /\ alive' = alive \cup {v}
        /\ heap' = heap /\ vec' = [vec EXCEPT ![v] = vec[w], ![w] = NoVector]
    BY <1>1 DEF MoveConstructVector, Begin, Usable
  <2>2. heap' = Delete(heap, vec[v].start)
    BY <2>1 DEF Delete, IInv, Owned
  <2>3. /\ vec' = [u \in Vectors |-> vec'[u]] /\ vec'[v] = vec[w] /\ vec'[w] = NoVector
        /\ \A u \in Vectors \ {v, w} : vec'[u] = vec[u]
    BY <2>1 DEF IInv, Types
  <2> QED
    BY <2>1, <2>2, <2>3, MoveVectorKeeps
<1>2. CASE MoveAssignVector(v, w) /\ v # w
  <2>1. /\ w \in alive /\ graph' = graph /\ alive' = alive \cup {v}
        /\ heap' = Delete(heap, vec[v].start) /\ vec' = [vec EXCEPT ![v] = vec[w], ![w] = NoVector]
    BY <1>2 DEF MoveAssignVector, Usable
  <2>2. /\ vec' = [u \in Vectors |-> vec'[u]] /\ vec'[v] = vec[w] /\ vec'[w] = NoVector
        /\ \A u \in Vectors \ {v, w} : vec'[u] = vec[u]
    BY <1>2, <2>1 DEF IInv, Types
  <2> QED
    BY <1>2, <2>1, <2>2, MoveVectorKeeps
<1>3. CASE MoveAssignVector(v, w) /\ v = w
  BY <1>3, StutterKeeps DEF MoveAssignVector, vars
<1> QED
  BY <1>1, <1>2, <1>3

\* The same for graphs.
LEMMA MovesOfGraphsKeep ==
  ASSUME IInv, NEW g \in Graphs, NEW h \in Graphs,
         MoveConstructGraph(g, h) \/ MoveAssignGraph(g, h)
  PROVE  IInv'
<1>1. CASE MoveConstructGraph(g, h)
  <2>1. /\ g \notin alive /\ g # h /\ h \in alive /\ vec' = vec /\ alive' = alive \cup {g}
        /\ heap' = heap /\ graph' = [graph EXCEPT ![g] = graph[h], ![h] = MovedFrom(graph[h])]
    BY <1>1 DEF MoveConstructGraph, Begin
  <2>2. heap' = [a \in Addr |-> IF a \in Blocks(graph[g]) THEN Free ELSE heap[a]]
    BY <2>1 DEF IInv, Owned, Types
  <2>3. /\ graph' = [k \in Graphs |-> graph'[k]]
        /\ graph'[g] = graph[h] /\ graph'[h] = MovedFrom(graph[h])
        /\ \A k \in Graphs \ {g, h} : graph'[k] = graph[k]
    BY <2>1 DEF IInv, Types
  <2> QED
    BY <2>1, <2>2, <2>3, MoveGraphKeeps
<1>2. CASE MoveAssignGraph(g, h) /\ g # h
  <2>1. /\ h \in alive /\ vec' = vec /\ alive' = alive \cup {g}
        /\ heap' = ReleaseResources(heap, graph[g])
        /\ graph' = [graph EXCEPT ![g] = graph[h], ![h] = MovedFrom(graph[h])]
    BY <1>2 DEF MoveAssignGraph
  <2>2. heap' = [a \in Addr |-> IF a \in Blocks(graph[g]) THEN Free ELSE heap[a]]
    BY <2>1, Released
  <2>3. /\ graph' = [k \in Graphs |-> graph'[k]]
        /\ graph'[g] = graph[h] /\ graph'[h] = MovedFrom(graph[h])
        /\ \A k \in Graphs \ {g, h} : graph'[k] = graph[k]
    BY <1>2, <2>1 DEF IInv, Types
  <2> QED
    BY <1>2, <2>1, <2>2, <2>3, MoveGraphKeeps
<1>3. CASE MoveAssignGraph(g, h) /\ g = h
  BY <1>3, StutterKeeps DEF MoveAssignGraph, vars
<1> QED
  BY <1>1, <1>2, <1>3

-----------------------------------------------------------------------------
\* At first there is nothing.
LEMMA InitHolds == Init => IInv
<1> SUFFICES ASSUME Init PROVE IInv
  OBVIOUS
<1>1. \A g \in Graphs : Blocks(graph[g]) = {} /\ graph[g] = NoGraph
  BY DEF Init, Blocks, NoGraph
<1>2. Types
  BY DEF Init, Types, IsBlock, IsVector, IsGraphRecord, Free, NoVector, NoGraph, Kinds, Pointers
<1>3. Shape
  BY <1>1 DEF Init, Shape, Shaped, Free, NoVector, NoGraph
<1>4. Apart
  BY <1>1 DEF Init, Apart, NoVector
<1>5. Owned
  BY <1>1 DEF Init, Owned, NoVector, Free
<1> QED
  BY <1>2, <1>3, <1>4, <1>5 DEF IInv

\* Every step keeps the order of the heap.
LEMMA NextKeeps == IInv /\ [Next]_vars => IInv'
<1> SUFFICES ASSUME IInv, [Next]_vars PROVE IInv'
  OBVIOUS
<1>1. CASE UNCHANGED vars
  BY <1>1, StutterKeeps
<1>2. ASSUME NEW v \in Vectors, DefaultVector(v) PROVE IInv'
  BY <1>2, BeginKeeps DEF DefaultVector, Objects
<1>3. ASSUME NEW v \in Vectors, DestroyVector(v) PROVE IInv'
  BY <1>3, DestroyVectorKeeps
<1>4. ASSUME NEW v \in Vectors, NEW n, NEW x,
             \/ clear(v) \/ reserve(v, n) \/ resize(v, n) \/ push_back(v, x) \/ fill(v, x)
             \/ write(v, n, x)
      PROVE  IInv'
  <2>1. \E m, items : Store(v, m, items)
    BY <1>4 DEF clear, reserve, resize, push_back, fill, write
  <2> QED
    BY <2>1, StoreKeeps
<1>5. ASSUME NEW v \in Vectors, NEW n, NEW x, ConstructVector(v, [k \in 1 .. n |-> x]) PROVE IInv'
  BY <1>5, ConstructVectorKeeps
<1>6. ASSUME NEW v \in Vectors, NEW w \in Vectors, ConstructVector(v, Elements(w)) PROVE IInv'
  <2>1. PICK items : items = Elements(w)
    OBVIOUS
  <2>2. ConstructVector(v, items)
    BY <1>6, <2>1 DEF ConstructVector
  <2> QED
    BY <2>2, ConstructVectorKeeps
<1>7. ASSUME NEW v \in Vectors, NEW w \in Vectors,
             MoveConstructVector(v, w) \/ MoveAssignVector(v, w) \/ swap(v, w)
      PROVE  IInv'
  BY <1>7, MovesOfVectorsKeep, SwapKeeps
<1>8. ASSUME NEW g \in Graphs, ConstructGraph(g) PROVE IInv'
  BY <1>8, BeginKeeps DEF ConstructGraph, Objects
<1>9. ASSUME NEW g \in Graphs, DestroyGraph(g) PROVE IInv'
  BY <1>9, DestroyGraphKeeps
<1>10. ASSUME NEW g \in Graphs, NEW directed \in BOOLEAN, ReadSerializedGraph(g, directed)
       PROVE  IInv'
  BY <1>10, FromFileKeeps
<1>11. ASSUME NEW g \in Graphs, NEW directed \in BOOLEAN, NEW el \in Vectors,
              MakeGraphFromEL(g, el, directed) \/ MakeCSRInPlace(g, el, directed)
       PROVE  IInv'
  BY <1>11, FromListKeeps, InPlaceKeeps
<1>12. ASSUME NEW g \in Graphs, NEW h \in Graphs, SquishGraph(g, h) \/ RelabelByDegree(g, h)
       PROVE  IInv'
  BY <1>12, SquishKeeps, RelabelKeeps
<1>13. ASSUME NEW g \in Graphs, NEW h \in Graphs, MoveConstructGraph(g, h) \/ MoveAssignGraph(g, h)
       PROVE  IInv'
  BY <1>13, MovesOfGraphsKeep
<1> QED
  BY <1>1, <1>2, <1>3, <1>4, <1>5, <1>6, <1>7, <1>8, <1>9, <1>10, <1>11, <1>12, <1>13 DEF Next

\* Whatever is moved, grown, built in place and destroyed, the heap is in order.
THEOREM HeapInOrder == Spec => []IInv
<1>1. Init => IInv
  BY InitHolds
<1>2. IInv /\ [Next]_vars => IInv'
  BY NextKeeps
<1> QED
  BY <1>1, <1>2, PTL DEF Spec

\* No block is freed twice or has two owners, and indices stay within their graphs.
THEOREM OwnersAreUnique == Spec => []OneOwner
BY HeapInOrder, Implied, PTL

\* Destroying all objects leaves no block behind.
THEOREM NothingLeaks == Spec => []NoLeak
BY HeapInOrder, Implied, PTL
-----------------------------------------------------------------------------
(***************************************************************************)
(* Objects that share the heap behave as values of their own.  What the    *)
(* order of the heap lacks for this is what the block of an array holds:   *)
(* as many elements as the array has room for, or there is no block.       *)
(***************************************************************************)
Leaked == [start |-> Null, size |-> -1, capacity |-> -1]

Whole(v) ==
  \/ vec[v] = NoVector
  \/ vec[v] = Leaked /\ v \in alive
  \/ /\ vec[v].start \in Addr /\ v \in alive
     /\ vec[v].size \in 0 .. MaxLen /\ vec[v].capacity \in Nat /\ vec[v].size <= vec[v].capacity
     /\ heap[vec[v].start].items \in [1 .. vec[v].capacity -> Items \cup {Junk}]

RInv == IInv /\ \A v \in Vectors : Whole(v)

Contents == V!Sequences(Items \cup {Junk})

\* A sequence has its length, and the domain of that length.
LEMMA ContentsAre ==
  ASSUME NEW s \in Contents
  PROVE  /\ Len(s) \in 0 .. MaxLen /\ s \in [1 .. Len(s) -> Items \cup {Junk}]
         /\ s \in Seq(Items \cup {Junk}) /\ s # Absent /\ s # Gone
<1>1. PICK n \in 0 .. MaxLen : s \in [1 .. n -> Items \cup {Junk}]
  BY DEF Contents, V!Sequences, V!Lengths
<1>2. n \in Nat
  BY <1>1, ObjectsAssumption
<1>3. Len(s) = n
  BY <1>1, <1>2
<1>4. s \in Seq(Items \cup {Junk})
  BY <1>1, <1>2, SeqDef
<1> QED
  BY <1>1, <1>3, <1>4, NamesAssumption DEF Contents

\* Any function on the right domain is a sequence.
LEMMA AreContents ==
  ASSUME NEW n \in 0 .. MaxLen, NEW s \in [1 .. n -> Items \cup {Junk}]
  PROVE  s \in Contents /\ Len(s) = n
BY ObjectsAssumption DEF Contents, V!Sequences, V!Lengths

\* Nothing is a sequence too.
LEMMA EmptyContents == <<>> \in Contents /\ Len(<<>>) = 0
<1>1. <<>> \in [1 .. 0 -> Items \cup {Junk}]
  OBVIOUS
<1>2. 0 \in 0 .. MaxLen
  BY ObjectsAssumption
<1> QED
  BY <1>1, <1>2, AreContents

\* What an array that is not leaked holds.
LEMMA ElementsAre ==
  ASSUME NEW v \in Vectors, Whole(v), vec[v] # Leaked
  PROVE  /\ Elements(v) \in Contents /\ Len(Elements(v)) = vec[v].size
         /\ vec[v].start = Null => Elements(v) = <<>> /\ vec[v] = NoVector
         /\ vec[v].start # Null =>
              Elements(v) = [k \in 1 .. vec[v].size |-> heap[vec[v].start].items[k]]
         /\ vec[v].size \in 0 .. MaxLen
<1>1. CASE vec[v].start = Null
  <2>1. vec[v] = NoVector
    BY <1>1, AllocatorAssumption DEF Whole
  <2> QED
    BY <1>1, <2>1, EmptyContents, ObjectsAssumption DEF Elements, NoVector
<1>2. CASE vec[v].start # Null
  <2> DEFINE n == vec[v].size
             c == vec[v].capacity
             s == heap[vec[v].start].items
  <2>1. n \in 0 .. MaxLen /\ c \in Nat /\ n <= c /\ s \in [1 .. c -> Items \cup {Junk}]
    BY <1>2 DEF Whole, NoVector
  <2>2. Elements(v) = SubSeq(s, 1, n)
    BY <1>2 DEF Elements
  <2> HIDE DEF n, c, s
  <2>3. SubSeq(s, 1, n) = [k \in 1 .. n |-> s[k]]
    BY <2>1, ObjectsAssumption
  <2>4. [k \in 1 .. n |-> s[k]] \in [1 .. n -> Items \cup {Junk}]
    BY <2>1, ObjectsAssumption
  <2>5. Elements(v) \in Contents /\ Len(Elements(v)) = n /\ Elements(v) = [k \in 1 .. n |-> s[k]]
    BY <2>1, <2>2, <2>3, <2>4, AreContents
  <2> QED
    BY <1>2, <2>1, <2>5 DEF n, s
<1> QED
  BY <1>1, <1>2

\* The value of an array: absent, gone, or its elements.
LEMMA ValueIs ==
  ASSUME NEW v \in Vectors, Whole(v)
  PROVE  /\ v \notin alive => VectorValue(v) = Absent
         /\ v \in alive /\ vec[v] = Leaked => VectorValue(v) = Gone
         /\ v \in alive /\ vec[v] # Leaked => /\ VectorValue(v) = Elements(v)
                                              /\ Usable(v) /\ V!Exists(VectorValue(v))
         /\ Usable(v) => vec[v] # Leaked
         /\ VectorValue(v) = Absent => v \notin alive
         /\ VectorValue(v) = Gone => v \in alive /\ vec[v] = Leaked
<1>1. vec[v] # Leaked => vec[v].size \in Nat /\ Elements(v) # Absent /\ Elements(v) # Gone
  BY ElementsAre, ContentsAre, ObjectsAssumption
<1>2. vec[v] = Leaked => vec[v].size = -1
  BY DEF Leaked
<1> QED
  BY <1>1, <1>2, NamesAssumption DEF VectorValue, V!Exists, Usable

\* An array that has what another one had has its value.
LEMMA SameValue ==
  ASSUME NEW v \in Vectors, NEW w \in Vectors, Whole(w), vec'[v] = vec[w],
         v \in alive' <=> w \in alive,
         vec[w].start # Null => heap'[vec[w].start] = heap[vec[w].start]
  PROVE  Whole(v)' /\ VectorValue(v)' = VectorValue(w)
<1>1. Whole(v)'
  BY AllocatorAssumption DEF Whole
<1>2. Elements(v)' = Elements(w)
  BY DEF Elements
<1> QED
  BY <1>1, <1>2 DEF VectorValue

\* The lists behind an index that is whole.
LEMMA SameLists ==
  ASSUME NEW g \in Graphs, NEW h \in Graphs, Shaped(graph[h]), graph'[g] = graph[h],
         g \in alive' <=> h \in alive,
         \A b \in Blocks(graph[h]) : heap'[b] = heap[b]
  PROVE  ListsValue(g)' = ListsValue(h)
<1>0. PICK r : r = graph[h]
  OBVIOUS
<1>1. r.out_index # Null =>
        /\ AtHome(r.out_index, r.out_neighbors) /\ AtHome(r.in_index, r.in_neighbors)
        /\ r.in_index # Null
  BY <1>0 DEF Shaped, WholeGraph
<1>2. /\ r.out_index = Null => r.in_index = Null
      /\ Blocks(r) = {r.out_index, r.out_neighbors, r.in_index, r.in_neighbors} \ {Null}
  BY <1>0 DEF Shaped, Blocks
<1>3. ASSUME NEW i, NEW n, i # Null => AtHome(i, n), {i, n} \ {Null} \subseteq Blocks(r)
      PROVE  ListsAt(i)' = ListsAt(i)
  <2>1. \A b \in {i, n} : b # Null => heap'[b] = heap[b]
    BY <1>0, <1>3
  <2> QED
    BY <1>3, <2>1 DEF ListsAt, AtHome, Index
<1>4. ListsAt(r.out_index)' = ListsAt(r.out_index) /\ ListsAt(r.in_index)' = ListsAt(r.in_index)
  BY <1>1, <1>2, <1>3
<1>5. /\ graph'[g].out_index = r.out_index /\ graph'[g].in_index = r.in_index
      /\ graph'[g].directed = r.directed
  BY <1>0
<1>6. ListsAt(graph[g].out_index)' = ListsAt(r.out_index)'
  BY <1>5 DEF ListsAt
<1>7. ListsAt(graph[g].in_index)' = ListsAt(r.in_index)'
  BY <1>5 DEF ListsAt
<1> QED
  BY <1>0, <1>4, <1>5, <1>6, <1>7 DEF ListsValue

-----------------------------------------------------------------------------
\* An array whose value changes, the others' staying, is a step of Values.
LEMMA UseVectorStep ==
  ASSUME NEW v \in Vectors,
         \A g \in Graphs : ListsValue(g)' = ListsValue(g),
         \A u \in Vectors \ {v} : VectorValue(u)' = VectorValue(u),
         \/ VectorValue(v) # Absent /\ VectorValue(v)' = Absent
         \/ V!Resized(VectorValue(v), VectorValue(v)')
         \/ /\ V!Exists(VectorValue(v))
            /\ \/ V!Filled(VectorValue(v), VectorValue(v)')
               \/ V!Written(VectorValue(v), VectorValue(v)')
  PROVE  V!Next
<1>1. [g \in Graphs |-> ListsValue(g)]' = [g \in Graphs |-> ListsValue(g)]
  OBVIOUS
<1>2. V!UseVector(v)
  BY DEF V!UseVector, V!OnlyIn
<1> QED
  BY <1>1, <1>2 DEF V!Next

\* So is a value that is moved, or two that are swapped.
LEMMA MoveVectorStep ==
  ASSUME NEW v \in Vectors, NEW w \in Vectors, v # w,
         \A g \in Graphs : ListsValue(g)' = ListsValue(g),
         \A u \in Vectors \ {v, w} : VectorValue(u)' = VectorValue(u),
         V!Exists(VectorValue(w)), VectorValue(v)' = VectorValue(w),
         VectorValue(w)' \in {<<>>, VectorValue(v)}, V!Exists(VectorValue(w)')
  PROVE  V!Next
<1>1. [g \in Graphs |-> ListsValue(g)]' = [g \in Graphs |-> ListsValue(g)]
  OBVIOUS
<1>2. V!MoveVector(v, w)
  BY DEF V!MoveVector, V!OnlyIn
<1> QED
  BY <1>1, <1>2 DEF V!Next

\* And a step that leaves all values is a stutter.
ValuesStay == /\ \A g \in Graphs : ListsValue(g)' = ListsValue(g)
              /\ \A v \in Vectors : VectorValue(v)' = VectorValue(v)

\* What a step shows: the arrays are whole, and it is one of Values, or a stutter.
Shown == (\A v \in Vectors : Whole(v)') /\ (V!Next \/ ValuesStay)

\* Graphs do not notice what happens to the blocks of arrays.
LEMMA ArrayStepsSpareGraphs ==
  ASSUME RInv, graph' = graph, \A g \in Graphs : g \in alive' <=> g \in alive,
         \A a \in Addr : \/ heap'[a] = heap[a] \/ heap[a].kind = "free"
                         \/ \E v \in Vectors : a = vec[v].start
  PROVE  \A g \in Graphs : ListsValue(g)' = ListsValue(g)
<1> SUFFICES ASSUME NEW g \in Graphs PROVE ListsValue(g)' = ListsValue(g)
  OBVIOUS
<1>1. Shaped(graph[g])
  BY DEF RInv, IInv, Shape
<1>2. \A b \in Blocks(graph[g]) : heap'[b] = heap[b]
  BY BlocksInUse DEF RInv, IInv, Apart
<1> QED
  BY <1>1, <1>2, SameLists

\* The block of an array is in use, and no other array's.
LEMMA BlockOf ==
  ASSUME RInv, NEW v \in Vectors, vec[v].start # Null
  PROVE  /\ vec[v].start \in Addr /\ heap[vec[v].start].kind = "array"
         /\ \A w \in Vectors \ {v} : vec[w].start # vec[v].start
BY DEF RInv, IInv, Types, IsVector, Pointers, Shape, Apart

\* A sequence written over the start of another one.
LEMMA Splice ==
  ASSUME NEW S, NEW c \in Nat, NEW l \in Nat, l <= c,
         NEW h \in [1 .. c -> S], NEW s \in [1 .. l -> S]
  PROVE  /\ s \o SubSeq(h, l + 1, Len(h)) \in [1 .. c -> S]
         /\ SubSeq(s \o SubSeq(h, l + 1, Len(h)), 1, l) = s
<1>1. h \in Seq(S) /\ s \in Seq(S) /\ Len(h) = c /\ Len(s) = l
  BY SeqDef
<1> DEFINE rest == SubSeq(h, l + 1, c)
           stored == s \o rest
<1>4. rest \in Seq(S) /\ Len(rest) = c - l
  BY <1>1, SubSeqProperties
<1> HIDE DEF rest
<1>5. /\ stored \in Seq(S) /\ Len(stored) = Len(s) + Len(rest)
      /\ \A k \in 1 .. Len(s) + Len(rest) :
           stored[k] = IF k <= Len(s) THEN s[k] ELSE rest[k - Len(s)]
  BY <1>1, <1>4, ConcatProperties
<1> HIDE DEF stored
<1>6. /\ stored \in [1 .. c -> S]
      /\ \A k \in 1 .. l : stored[k] = s[k]
  <2>1. Len(stored) = c
    BY <1>1, <1>4, <1>5
  <2>2. \A k \in 1 .. l : k \in 1 .. Len(s) + Len(rest) /\ k <= Len(s)
    BY <1>1, <1>4
  <2> QED
    BY <1>5, <2>1, <2>2, LenProperties
<1>7. SubSeq(stored, 1, l) = s
  <2>1. \A i \in 1 .. l : stored[i] \in S
    BY <1>6
  <2>2. SubSeq(stored, 1, l) = [k \in 1 .. l |-> stored[k]]
    BY <1>6
  <2> QED
    BY <2>2, <1>6
<1> QED
  BY <1>1, <1>6, <1>7 DEF stored, rest

\* New elements, where the array has room for them or gets it.
LEMMA StoreShows ==
  ASSUME RInv, NEW v \in Vectors, NEW n \in Nat, NEW items \in Contents, Store(v, n, items),
         Len(items) <= n \/ Len(items) <= vec[v].capacity
  PROVE  /\ \A u \in Vectors : Whole(u)'
         /\ VectorValue(v)' = items
         /\ \A u \in Vectors \ {v} : VectorValue(u)' = VectorValue(u)
         /\ \A g \in Graphs : ListsValue(g)' = ListsValue(g)
<1> DEFINE old == vec[v].start
           c == vec[v].capacity
           l == Len(items)
<1>1. graph' = graph /\ alive' = alive /\ v \in alive /\ vec[v] # Leaked
  BY DEF Store, Usable, Leaked
<1>2. /\ l \in 0 .. MaxLen /\ l \in Nat /\ items \in [1 .. l -> Items \cup {Junk}]
      /\ items \in Seq(Items \cup {Junk})
  BY ContentsAre, ObjectsAssumption
<1>3. c \in Nat /\ (old = Null => c = 0) /\ Whole(v)
  BY <1>1, AllocatorAssumption DEF RInv, Whole, NoVector
<1>4. old # Null => /\ old \in Addr /\ heap[old].kind = "array"
                    /\ heap[old].items \in [1 .. c -> Items \cup {Junk}]
                    /\ \A w \in Vectors \ {v} : vec[w].start # old
  BY <1>1, BlockOf DEF RInv, Whole, NoVector
<1>5. CASE n > c
  <2> DEFINE stored == [k \in 1 .. n |-> IF k <= l THEN items[k] ELSE Junk]
  <2>1. PICK a \in FreeAddrs :
          /\ heap' = Delete([heap EXCEPT ![a] = Array(stored)], old)
          /\ vec' = [vec EXCEPT ![v] = [start |-> a, size |-> l, capacity |-> n]]
    BY <1>5, AllocatorAssumption DEF Store, FreeAddrs
  <2>2. stored \in [1 .. n -> Items \cup {Junk}] /\ SubSeq(stored, 1, l) = items /\ l <= n
    <3>1. l <= n
      BY <1>2, <1>3, <1>5
    <3>2. stored \in [1 .. n -> Items \cup {Junk}]
      BY <1>2
    <3>3. SubSeq(stored, 1, l) = [k \in 1 .. l |-> stored[k]]
      BY <3>1, <3>2, <1>2
    <3>4. [k \in 1 .. l |-> stored[k]] = items
      BY <3>1, <1>2
    <3> QED
      BY <3>1, <3>2, <3>3, <3>4
  <2> HIDE DEF stored
  <2>3. /\ a \in Addr /\ a # Null /\ a # old /\ \A w \in Vectors : vec[w].start # a
    BY FreeIsNobodys DEF RInv
  <2>4. heap'[a] = Array(stored) /\ \A b \in Addr \ {a, old} : heap'[b] = heap[b]
    <3>1. CASE old = Null
      BY <2>1, <2>3, <3>1 DEF Delete, RInv, IInv, Types
    <3>2. CASE old # Null
      BY <2>1, <2>3, <1>4, <3>2 DEF Delete, RInv, IInv, Types
    <3> QED
      BY <3>1, <3>2
  <2>5. /\ vec'[v] = [start |-> a, size |-> l, capacity |-> n]
        /\ \A w \in Vectors \ {v} : vec'[w] = vec[w]
    BY <2>1 DEF RInv, IInv, Types
  <2>6. \A w \in Vectors \ {v} : vec[w].start # Null => heap'[vec[w].start] = heap[vec[w].start]
    BY <2>3, <2>4, BlockOf
  <2>7. \A w \in Vectors \ {v} : Whole(w)' /\ VectorValue(w)' = VectorValue(w)
    BY <2>5, <2>6, <1>1, SameValue DEF RInv
  <2>8. Whole(v)' /\ VectorValue(v)' = items
    <3>1. Whole(v)'
      BY <2>2, <2>3, <2>4, <2>5, <1>1, <1>2 DEF Whole, Array
    <3>2. Elements(v)' = items
      BY <2>2, <2>3, <2>4, <2>5 DEF Elements, Array
    <3> QED
      BY <3>1, <3>2, <2>5, <1>1, <1>2 DEF VectorValue
  <2>9. \A g \in Graphs : ListsValue(g)' = ListsValue(g)
    <3>1. \A b \in Addr : \/ heap'[b] = heap[b] \/ heap[b].kind = "free"
                          \/ \E u \in Vectors : b = vec[u].start
      BY <2>4 DEF FreeAddrs
    <3> QED
      BY <3>1, <1>1, ArrayStepsSpareGraphs
  <2> QED
    BY <2>7, <2>8, <2>9
<1>6. CASE ~(n > c)
  <2>1. l <= c
    BY <1>2, <1>3, <1>6
  <2>2. /\ vec'[v] = [start |-> old, size |-> l, capacity |-> c]
        /\ \A w \in Vectors \ {v} : vec'[w] = vec[w]
    BY <1>6 DEF Store, RInv, IInv, Types, IsVector
  <2>3. CASE old = Null
    <3>1. heap' = heap
      BY <1>6, <2>3 DEF Store
    <3>2. c = 0 /\ l = 0 /\ items = <<>>
      BY <2>1, <2>3, <1>2, <1>3, EmptySeq
    <3>3. Whole(v)' /\ VectorValue(v)' = items
      BY <2>2, <2>3, <3>2, <1>1 DEF Whole, NoVector, VectorValue, Elements
    <3>4. \A w \in Vectors \ {v} : Whole(w)' /\ VectorValue(w)' = VectorValue(w)
      BY <2>2, <3>1, <1>1, SameValue DEF RInv
    <3>5. \A g \in Graphs : ListsValue(g)' = ListsValue(g)
      BY <3>1, <1>1, ArrayStepsSpareGraphs
    <3> QED
      BY <3>3, <3>4, <3>5
  <2>4. CASE old # Null
    <3> DEFINE had == heap[old].items
               stored == items \o SubSeq(had, l + 1, Len(had))
    <3>1. heap' = [heap EXCEPT ![old].items = stored]
      BY <1>6, <2>4 DEF Store
    <3>2. stored \in [1 .. c -> Items \cup {Junk}] /\ SubSeq(stored, 1, l) = items
      <4>1. had \in [1 .. c -> Items \cup {Junk}]
        BY <1>4, <2>4
      <4>2. c \in Nat /\ l \in Nat /\ l <= c /\ items \in [1 .. l -> Items \cup {Junk}]
        BY <1>2, <1>3, <2>1
      <4>3. PICK T, h : T = Items \cup {Junk} /\ h = had
        OBVIOUS
      <4> HIDE DEF had, c, l
      <4>4. h \in [1 .. c -> T] /\ items \in [1 .. l -> T]
        BY <4>1, <4>2, <4>3
      <4>5. items \o SubSeq(h, l + 1, Len(h)) \in [1 .. c -> T]
        BY <4>2, <4>4, Splice
      <4>6. SubSeq(items \o SubSeq(h, l + 1, Len(h)), 1, l) = items
        BY <4>2, <4>4, Splice
      <4> QED
        BY <4>3, <4>5, <4>6
    <3> HIDE DEF stored
    <3>3. heap'[old].items = stored /\ \A b \in Addr \ {old} : heap'[b] = heap[b]
      BY <3>1, <1>4, <2>4 DEF RInv, IInv, Types, IsBlock
    <3>4. Whole(v)'
      BY <2>1, <2>2, <2>4, <3>2, <3>3, <1>1, <1>2, <1>3, <1>4 DEF Whole
    <3>5. Elements(v)' = items
      <4>1. Elements(v)' = SubSeq(heap'[old].items, 1, l)
        BY <2>2, <2>4 DEF Elements
      <4> QED
        BY <4>1, <3>2, <3>3
    <3>6. VectorValue(v)' = items
      BY <3>5, <2>2, <1>1, <1>2 DEF VectorValue
    <3>7. \A w \in Vectors \ {v} : vec[w].start # Null => heap'[vec[w].start] = heap[vec[w].start]
      BY <3>3, <1>4, <2>4, BlockOf
    <3>8. \A w \in Vectors \ {v} : Whole(w)' /\ VectorValue(w)' = VectorValue(w)
      BY <2>2, <3>7, <1>1, SameValue DEF RInv
    <3>9. \A g \in Graphs : ListsValue(g)' = ListsValue(g)
      <4>1. \A b \in Addr : \/ heap'[b] = heap[b] \/ heap[b].kind = "free"
                            \/ \E u \in Vectors : b = vec[u].start
        BY <3>3
      <4> QED
        BY <4>1, <1>1, ArrayStepsSpareGraphs
    <3> QED
      BY <3>4, <3>6, <3>8, <3>9
  <2> QED
    BY <2>3, <2>4
<1> QED
  BY <1>3, <1>5, <1>6

\* An array that is used is neither absent nor gone.
LEMMA UsedIs ==
  ASSUME RInv, NEW v \in Vectors, Usable(v)
  PROVE  /\ vec[v] # Leaked /\ v \in alive /\ Whole(v)
         /\ VectorValue(v) = Elements(v) /\ V!Exists(VectorValue(v))
         /\ Elements(v) \in Contents /\ Len(Elements(v)) = vec[v].size
         /\ vec[v].size \in 0 .. MaxLen /\ vec[v].size <= vec[v].capacity
         /\ vec[v].capacity \in Nat
<1>1. vec[v] # Leaked /\ v \in alive /\ Whole(v)
  BY ObjectsAssumption DEF RInv, Usable, Leaked
<1>2. /\ VectorValue(v) = Elements(v) /\ V!Exists(VectorValue(v))
  BY <1>1, ValueIs
<1>3. vec[v].size <= vec[v].capacity /\ vec[v].capacity \in Nat
  BY <1>1 DEF Whole, NoVector
<1> QED
  BY <1>1, <1>2, <1>3, ElementsAre

\* Storing elements that keep what was there is resizing.
LEMMA ResizedBy ==
  ASSUME RInv, NEW v \in Vectors, Usable(v), NEW items \in Contents,
         \A k \in 1 .. vec[v].size : k <= Len(items) => items[k] = Elements(v)[k]
  PROVE  V!Resized(VectorValue(v), items)
<1>1. /\ VectorValue(v) = Elements(v) /\ VectorValue(v) # Gone
      /\ DOMAIN Elements(v) = 1 .. vec[v].size
  BY UsedIs, ContentsAre, ObjectsAssumption DEF V!Exists
<1>2. DOMAIN items = 1 .. Len(items)
  BY ContentsAre, ObjectsAssumption
<1> QED
  BY <1>1, <1>2, ContentsAre, ObjectsAssumption DEF V!Resized, Contents

\* A step that stores is shown when what it stores is what Values allows.
LEMMA StoringShows ==
  ASSUME RInv, NEW v \in Vectors, NEW n \in Nat, NEW items \in Contents, Store(v, n, items),
         Len(items) <= n \/ Len(items) <= vec[v].capacity,
         \/ V!Resized(VectorValue(v), items)
         \/ V!Filled(VectorValue(v), items) \/ V!Written(VectorValue(v), items)
  PROVE  Shown
<1>1. /\ \A u \in Vectors : Whole(u)'
      /\ VectorValue(v)' = items
      /\ \A u \in Vectors \ {v} : VectorValue(u)' = VectorValue(u)
      /\ \A g \in Graphs : ListsValue(g)' = ListsValue(g)
  BY StoreShows
<1>2. V!Exists(VectorValue(v))
  BY UsedIs DEF Store
<1>3. V!Next
  BY <1>1, <1>2, UseVectorStep
<1> QED
  BY <1>1, <1>3 DEF Shown

\* Making room changes no element.
LEMMA ReserveShows ==
  ASSUME RInv, NEW v \in Vectors, NEW n \in 0 .. MaxLen, reserve(v, n)
  PROVE  Shown
<1>1. Usable(v) /\ n \in Nat
  BY ObjectsAssumption DEF reserve, Store
<1>2. PICK items : items = Elements(v)
  OBVIOUS
<1>3. items \in Contents /\ Len(items) <= vec[v].capacity /\ Store(v, n, items)
  BY <1>1, <1>2, UsedIs DEF reserve, Store
<1>4. V!Resized(VectorValue(v), items)
  BY <1>1, <1>2, <1>3, ResizedBy
<1> QED
  BY <1>1, <1>3, <1>4, StoringShows

\* A new size keeps what fits.
LEMMA ResizeShows ==
  ASSUME RInv, NEW v \in Vectors, NEW n \in 0 .. MaxLen, resize(v, n)
  PROVE  Shown
<1>1. Usable(v) /\ n \in Nat
  BY ObjectsAssumption DEF resize, Store
<1>2. PICK items : items = [k \in 1 .. n |-> IF k <= vec[v].size \/ n <= vec[v].capacity
                                             THEN heap[vec[v].start].items[k] ELSE Junk]
  OBVIOUS
<1>3. Store(v, n, items)
  BY <1>2 DEF resize, Store
<1>4. /\ vec[v].size \in Nat /\ vec[v].capacity \in Nat /\ vec[v].size <= vec[v].capacity
      /\ vec[v].start = Null => vec[v].capacity = 0
      /\ vec[v].start # Null =>
           heap[vec[v].start].items \in [1 .. vec[v].capacity -> Items \cup {Junk}]
  BY <1>1, UsedIs, AllocatorAssumption, ObjectsAssumption DEF Whole, NoVector
<1>5. items \in [1 .. n -> Items \cup {Junk}]
  <2>1. ASSUME NEW k \in 1 .. n PROVE items[k] \in Items \cup {Junk}
    <3>1. CASE k <= vec[v].size \/ n <= vec[v].capacity
      <4>1. k \in 1 .. vec[v].capacity
        BY <1>1, <1>4, <3>1
      <4>2. vec[v].start # Null
        BY <1>4, <4>1
      <4> QED
        BY <1>2, <1>4, <3>1, <4>1, <4>2
    <3>2. CASE ~(k <= vec[v].size \/ n <= vec[v].capacity)
      BY <1>2, <3>2
    <3> QED
      BY <3>1, <3>2
  <2> QED
    BY <1>2, <2>1
<1>6. items \in Contents /\ Len(items) = n
  BY <1>5, AreContents
<1>7. \A k \in 1 .. vec[v].size : k <= Len(items) => items[k] = Elements(v)[k]
  <2> TAKE k \in 1 .. vec[v].size
  <2> HAVE k <= Len(items)
  <2>1. vec[v].start # Null /\ k \in 1 .. n
    BY <1>1, <1>4, <1>6
  <2>2. Elements(v)[k] = heap[vec[v].start].items[k]
    BY <1>1, <2>1, UsedIs, ElementsAre
  <2> QED
    BY <1>2, <2>1, <2>2
<1>8. V!Resized(VectorValue(v), items)
  BY <1>1, <1>6, <1>7, ResizedBy
<1> QED
  BY <1>1, <1>3, <1>6, <1>8, StoringShows

\* One more element at the end, in twice the room if need be.
LEMMA PushBackShows ==
  ASSUME RInv, NEW v \in Vectors, NEW x \in Items, push_back(v, x)
  PROVE  Shown
<1>1. PICK n, items :
        /\ n = IF vec[v].size < vec[v].capacity THEN 0
               ELSE IF vec[v].capacity = 0 THEN 1 ELSE 2 * vec[v].capacity
        /\ items = Append(Elements(v), x)
  OBVIOUS
<1>2. Usable(v) /\ vec[v].size < MaxLen /\ Store(v, n, items)
  BY ZenonT(60), <1>1 DEF push_back, Store
<1>3. /\ vec[v].size \in Nat /\ vec[v].capacity \in Nat /\ vec[v].size <= vec[v].capacity
      /\ Elements(v) \in [1 .. vec[v].size -> Items \cup {Junk}]
      /\ Elements(v) \in Seq(Items \cup {Junk}) /\ Len(Elements(v)) = vec[v].size
  BY <1>2, UsedIs, ContentsAre, ObjectsAssumption
<1>4. n \in Nat /\ (vec[v].size + 1 <= n \/ vec[v].size + 1 <= vec[v].capacity)
  BY SMTT(30), <1>1, <1>3
<1>5. /\ Len(items) = vec[v].size + 1 /\ items \in [1 .. vec[v].size + 1 -> Items \cup {Junk}]
      /\ \A k \in 1 .. vec[v].size : items[k] = Elements(v)[k]
  <2>1. PICK S, s, m : S = Items \cup {Junk} /\ s = Elements(v) /\ m = vec[v].size
    OBVIOUS
  <2>2. s \in Seq(S) /\ Len(s) = m /\ x \in S /\ items = Append(s, x) /\ m \in Nat
    BY <1>1, <1>3, <2>1
  <2>3. /\ Len(items) = m + 1 /\ items \in Seq(S)
        /\ \A k \in 1 .. m : items[k] = s[k]
    BY <2>2, AppendProperties
  <2>4. items \in [1 .. m + 1 -> S]
    BY <2>3, LenProperties
  <2> QED
    BY <2>1, <2>3, <2>4
<1>6. items \in Contents
  <2>1. vec[v].size + 1 \in 0 .. MaxLen
    BY <1>2, <1>3, ObjectsAssumption
  <2> QED
    BY <1>5, <2>1, AreContents
<1>7. V!Resized(VectorValue(v), items)
  BY <1>2, <1>5, <1>6, ResizedBy
<1> QED
  BY <1>2, <1>4, <1>5, <1>6, <1>7, StoringShows

\* No elements.
LEMMA ClearShows ==
  ASSUME RInv, NEW v \in Vectors, clear(v)
  PROVE  Shown
<1>1. PICK items : items = <<>>
  OBVIOUS
<1>2. Usable(v) /\ Store(v, 0, items) /\ items \in Contents /\ Len(items) = 0
  BY <1>1, EmptyContents DEF clear, Store
<1>3. V!Resized(VectorValue(v), items)
  BY <1>2, ResizedBy
<1> QED
  BY <1>2, <1>3, StoringShows

\* The same element everywhere.
LEMMA FillShows ==
  ASSUME RInv, NEW v \in Vectors, NEW x \in Items, fill(v, x)
  PROVE  Shown
<1>1. PICK items : items = [k \in 1 .. vec[v].size |-> x]
  OBVIOUS
<1>2. Usable(v) /\ Store(v, 0, items)
  <2>1. Usable(v)
    BY DEF fill, Store
  <2>2. Store(v, 0, items)
    BY <1>1 DEF fill
  <2> QED
    BY <2>1, <2>2
<1>3. /\ vec[v].size \in 0 .. MaxLen /\ vec[v].size <= vec[v].capacity
      /\ VectorValue(v) = Elements(v)
      /\ Elements(v) \in [1 .. vec[v].size -> Items \cup {Junk}]
  BY <1>2, UsedIs, ContentsAre
<1>4. items \in Contents /\ Len(items) = vec[v].size
  BY <1>1, <1>3, AreContents
<1>5. V!Filled(VectorValue(v), items)
  BY <1>1, <1>3 DEF V!Filled
<1> QED
  BY <1>2, <1>3, <1>4, <1>5, StoringShows

\* One element.
LEMMA WriteShows ==
  ASSUME RInv, NEW v \in Vectors, NEW k \in 1 .. MaxLen, NEW x \in Items, write(v, k, x)
  PROVE  Shown
<1>1. PICK items : items = [Elements(v) EXCEPT ![k] = x]
  OBVIOUS
<1>2. Usable(v) /\ Store(v, 0, items) /\ k <= vec[v].size
  BY <1>1 DEF write, Store
<1>3. /\ vec[v].size \in 0 .. MaxLen /\ vec[v].size <= vec[v].capacity
      /\ VectorValue(v) = Elements(v)
      /\ Elements(v) \in [1 .. vec[v].size -> Items \cup {Junk}]
  BY <1>2, UsedIs, ContentsAre
<1>4. items \in [1 .. vec[v].size -> Items \cup {Junk}] /\ k \in DOMAIN Elements(v)
  BY <1>1, <1>2, <1>3, ObjectsAssumption
<1>5. items \in Contents /\ Len(items) = vec[v].size
  BY <1>3, <1>4, AreContents
<1>6. V!Written(VectorValue(v), items)
  BY <1>1, <1>3, <1>4 DEF V!Written
<1> QED
  BY <1>2, <1>3, <1>5, <1>6, StoringShows

\* An array that begins has the elements it is given, in a block of its own.
LEMMA ConstructShows ==
  ASSUME RInv, NEW v \in Vectors, NEW items \in Contents, ConstructVector(v, items)
  PROVE  Shown
<1>1. PICK a \in FreeAddrs :
        /\ heap' = [heap EXCEPT ![a] = Array(items)]
        /\ vec' = [vec EXCEPT ![v] = [start |-> a, size |-> Len(items), capacity |-> Len(items)]]
  BY AllocatorAssumption DEF ConstructVector, FreeAddrs
<1>2. /\ a \in Addr /\ a # Null /\ heap[a].kind = "free"
      /\ \A w \in Vectors : vec[w].start # a
  BY FreeIsNobodys DEF RInv
<1>3. graph' = graph /\ alive' = alive \cup {v} /\ v \notin alive
  BY DEF ConstructVector, Begin
<1>4. heap'[a] = Array(items) /\ \A b \in Addr \ {a} : heap'[b] = heap[b]
  BY <1>1, <1>2 DEF RInv, IInv, Types
<1>5. /\ vec'[v] = [start |-> a, size |-> Len(items), capacity |-> Len(items)]
      /\ \A w \in Vectors \ {v} : vec'[w] = vec[w]
  BY <1>1 DEF RInv, IInv, Types
<1>6. /\ Len(items) \in 0 .. MaxLen /\ Len(items) \in Nat
      /\ items \in [1 .. Len(items) -> Items \cup {Junk}]
      /\ items \in Seq(Items \cup {Junk})
  BY ContentsAre, ObjectsAssumption
<1>7. Whole(v)'
  BY <1>2, <1>3, <1>4, <1>5, <1>6 DEF Whole, Array
<1>8. VectorValue(v)' = items
  <2>1. Elements(v)' = SubSeq(items, 1, Len(items))
    BY <1>2, <1>4, <1>5 DEF Elements, Array
  <2>2. Elements(v)' = items
    BY <2>1, <1>6, SubSeqFull
  <2> QED
    BY <2>2, <1>3, <1>5, <1>6 DEF VectorValue
<1>9. \A w \in Vectors \ {v} : Whole(w)' /\ VectorValue(w)' = VectorValue(w)
  <2> TAKE w \in Vectors \ {v}
  <2>1. vec[w].start # Null => heap'[vec[w].start] = heap[vec[w].start]
    BY <1>2, <1>4, BlockOf
  <2> QED
    BY <2>1, <1>3, <1>5, SameValue DEF RInv
<1>10. \A g \in Graphs : ListsValue(g)' = ListsValue(g)
  <2>1. \A b \in Addr : heap'[b] = heap[b] \/ heap[b].kind = "free"
    BY <1>2, <1>4
  <2>2. \A g \in Graphs : g \in alive' <=> g \in alive
    BY <1>3, ObjectsAssumption
  <2> QED
    BY <2>1, <2>2, <1>3, ArrayStepsSpareGraphs
<1>11. V!Resized(VectorValue(v), VectorValue(v)')
  BY <1>3, <1>8, NamesAssumption DEF VectorValue, V!Resized, Contents
<1>12. V!Next
  BY <1>9, <1>10, <1>11, UseVectorStep
<1> QED
  BY <1>7, <1>9, <1>12 DEF Shown

\* An array that begins without elements needs no block.
LEMMA DefaultShows ==
  ASSUME RInv, NEW v \in Vectors, DefaultVector(v)
  PROVE  Shown
<1>1. /\ heap' = heap /\ vec' = vec /\ graph' = graph
      /\ alive' = alive \cup {v} /\ v \notin alive
  BY DEF DefaultVector, Begin
<1>2. vec[v] = NoVector
  BY <1>1 DEF RInv, Whole
<1>3. Whole(v)' /\ VectorValue(v)' = <<>>
  BY <1>1, <1>2 DEF Whole, VectorValue, NoVector, Elements
<1>4. \A w \in Vectors \ {v} : Whole(w)' /\ VectorValue(w)' = VectorValue(w)
  BY <1>1, SameValue DEF RInv
<1>5. \A g \in Graphs : ListsValue(g)' = ListsValue(g)
  <2>1. \A g \in Graphs : g \in alive' <=> g \in alive
    BY <1>1, ObjectsAssumption
  <2> QED
    BY <2>1, <1>1, ArrayStepsSpareGraphs
<1>6. V!Resized(VectorValue(v), VectorValue(v)')
  BY <1>1, <1>3, EmptyContents, NamesAssumption DEF VectorValue, V!Resized, Contents
<1>7. V!Next
  BY <1>4, <1>5, <1>6, UseVectorStep
<1> QED
  BY <1>3, <1>4, <1>7 DEF Shown

\* To free the block of an array leaves the others.
LEMMA DeletedBlock ==
  ASSUME RInv, NEW v \in Vectors, heap' = Delete(heap, vec[v].start)
  PROVE  /\ \A b \in Addr : heap'[b] = heap[b] \/ b = vec[v].start
         /\ \A w \in Vectors \ {v} : vec[w].start # Null => heap'[vec[w].start] = heap[vec[w].start]
<1>1. \A b \in Addr : heap'[b] = heap[b] \/ b = vec[v].start
  BY DEF Delete, RInv, IInv, Types
<1> QED
  BY <1>1, BlockOf

\* An array that ends, leaked or not.
LEMMA DestroyShows ==
  ASSUME RInv, NEW v \in Vectors, DestroyVector(v)
  PROVE  Shown
<1>1. /\ heap' = Delete(heap, vec[v].start) /\ vec' = [vec EXCEPT ![v] = NoVector]
      /\ graph' = graph /\ alive' = alive \ {v} /\ v \in alive
  BY DEF DestroyVector, End
<1>2. vec'[v] = NoVector /\ \A w \in Vectors \ {v} : vec'[w] = vec[w]
  BY <1>1 DEF RInv, IInv, Types
<1>3. Whole(v)' /\ VectorValue(v)' = Absent /\ VectorValue(v) # Absent
  BY <1>1, <1>2, ValueIs DEF Whole, VectorValue, RInv
<1>4. \A w \in Vectors \ {v} : Whole(w)' /\ VectorValue(w)' = VectorValue(w)
  <2> TAKE w \in Vectors \ {v}
  <2>1. vec[w].start # Null => heap'[vec[w].start] = heap[vec[w].start]
    BY <1>1, DeletedBlock
  <2> QED
    BY <2>1, <1>1, <1>2, SameValue DEF RInv
<1>5. \A g \in Graphs : ListsValue(g)' = ListsValue(g)
  <2>1. \A g \in Graphs : g \in alive' <=> g \in alive
    BY <1>1, ObjectsAssumption
  <2> QED
    BY <2>1, <1>1, DeletedBlock, ArrayStepsSpareGraphs
<1>6. V!Next
  BY <1>3, <1>4, <1>5, UseVectorStep
<1> QED
  BY <1>3, <1>4, <1>6 DEF Shown

\* The elements of w are v's, whose own were freed.
LEMMA MovedVectorShows ==
  ASSUME RInv, NEW v \in Vectors, NEW w \in Vectors, v # w, Usable(w),
         heap' = Delete(heap, vec[v].start), vec' = [vec EXCEPT ![v] = vec[w], ![w] = NoVector],
         graph' = graph, alive' = alive \cup {v}
  PROVE  Shown
<1>1. /\ vec'[v] = vec[w] /\ vec'[w] = NoVector
      /\ \A u \in Vectors \ {v, w} : vec'[u] = vec[u]
  BY DEF RInv, IInv, Types
<1>2. \A u \in Vectors \ {v} : vec[u].start # Null => heap'[vec[u].start] = heap[vec[u].start]
  BY DeletedBlock
<1>3. V!Exists(VectorValue(w)) /\ w \in alive
  BY UsedIs
<1>4. Whole(v)' /\ VectorValue(v)' = VectorValue(w)
  BY <1>1, <1>2, <1>3, SameValue DEF RInv
<1>5. Whole(w)' /\ VectorValue(w)' = <<>>
  BY <1>1, <1>3 DEF Whole, VectorValue, NoVector, Elements
<1>6. V!Exists(VectorValue(w)')
  BY <1>5, EmptyContents, ContentsAre DEF V!Exists
<1>7. \A u \in Vectors \ {v, w} : Whole(u)' /\ VectorValue(u)' = VectorValue(u)
  BY <1>1, <1>2, SameValue DEF RInv
<1>8. \A g \in Graphs : ListsValue(g)' = ListsValue(g)
  <2>1. \A g \in Graphs : g \in alive' <=> g \in alive
    BY ObjectsAssumption
  <2> QED
    BY <2>1, DeletedBlock, ArrayStepsSpareGraphs
<1>9. V!Next
  BY <1>3, <1>4, <1>5, <1>6, <1>7, <1>8, MoveVectorStep
<1> QED
  BY <1>4, <1>5, <1>7, <1>9 DEF Shown

\* A step that changes nothing.
LEMMA StutterShows ==
  ASSUME RInv, UNCHANGED vars
  PROVE  Shown
<1>1. heap' = heap /\ alive' = alive /\ vec' = vec /\ graph' = graph
  BY DEF vars
<1>2. \A v \in Vectors : Whole(v)' /\ VectorValue(v)' = VectorValue(v)
  BY <1>1, SameValue DEF RInv
<1>3. \A g \in Graphs : ListsValue(g)' = ListsValue(g)
  BY <1>1, ArrayStepsSpareGraphs
<1> QED
  BY <1>2, <1>3 DEF Shown, ValuesStay

\* Moving to an array that begins, assigning and swapping.
LEMMA MovesOfVectorsShow ==
  ASSUME RInv, NEW v \in Vectors, NEW w \in Vectors,
         MoveConstructVector(v, w) \/ MoveAssignVector(v, w) \/ swap(v, w)
  PROVE  Shown
<1>1. CASE MoveConstructVector(v, w)
  <2>1. /\ v \notin alive /\ v # w /\ graph' = graph /\ alive' = alive \cup {v}
        /\ heap' = heap /\ vec' = [vec EXCEPT ![v] = vec[w], ![w] = NoVector] /\ Usable(w)
    BY <1>1 DEF MoveConstructVector, Begin, Usable
  <2>2. heap' = Delete(heap, vec[v].start)
    BY <2>1 DEF Delete, RInv, IInv, Owned
  <2> QED
    BY <2>1, <2>2, MovedVectorShows
<1>2. CASE MoveAssignVector(v, w) /\ v # w
  <2>1. /\ Usable(w) /\ graph' = graph /\ alive' = alive \cup {v}
        /\ heap' = Delete(heap, vec[v].start) /\ vec' = [vec EXCEPT ![v] = vec[w], ![w] = NoVector]
    BY <1>2 DEF MoveAssignVector
  <2> QED
    BY <1>2, <2>1, MovedVectorShows
<1>3. CASE MoveAssignVector(v, w) /\ v = w
  BY <1>3, StutterShows DEF MoveAssignVector, vars
<1>4. CASE swap(v, w)
  <2>1. /\ heap' = heap /\ graph' = graph /\ alive' = alive
        /\ vec' = [vec EXCEPT ![v] = vec[w], ![w] = vec[v]] /\ Usable(v) /\ Usable(w)
    BY <1>4 DEF swap
  <2>2. v \in alive /\ w \in alive /\ V!Exists(VectorValue(v)) /\ V!Exists(VectorValue(w))
    BY <2>1, UsedIs
  <2>3. vec'[v] = vec[w] /\ vec'[w] = vec[v] /\ \A u \in Vectors \ {v, w} : vec'[u] = vec[u]
    BY <2>1 DEF RInv, IInv, Types
  <2>4. /\ Whole(v)' /\ VectorValue(v)' = VectorValue(w)
        /\ Whole(w)' /\ VectorValue(w)' = VectorValue(v)
    BY <2>1, <2>2, <2>3, SameValue DEF RInv
  <2>5. \A u \in Vectors \ {v, w} : Whole(u)' /\ VectorValue(u)' = VectorValue(u)
    BY <2>1, <2>3, SameValue DEF RInv
  <2>6. \A g \in Graphs : ListsValue(g)' = ListsValue(g)
    BY <2>1, ArrayStepsSpareGraphs
  <2>7. CASE v # w
    <3>1. V!Next
      BY <2>2, <2>4, <2>5, <2>6, <2>7, MoveVectorStep
    <3> QED
      BY <2>4, <2>5, <3>1 DEF Shown
  <2>8. CASE v = w
    BY <2>4, <2>5, <2>6, <2>8 DEF Shown, ValuesStay
  <2> QED
    BY <2>7, <2>8
<1> QED
  BY <1>1, <1>2, <1>3, <1>4

-----------------------------------------------------------------------------
\* Arrays do not notice what happens to free blocks and to those of graphs.
LEMMA GraphStepsSpareArrays ==
  ASSUME RInv, vec' = vec, \A v \in Vectors : v \in alive' <=> v \in alive,
         \A a \in Addr : \/ heap'[a] = heap[a] \/ heap[a].kind = "free"
                         \/ \E g \in Graphs : a \in Blocks(graph[g])
  PROVE  \A v \in Vectors : Whole(v)' /\ VectorValue(v)' = VectorValue(v)
<1> SUFFICES ASSUME NEW v \in Vectors PROVE Whole(v)' /\ VectorValue(v)' = VectorValue(v)
  OBVIOUS
<1>1. vec[v].start # Null => heap'[vec[v].start] = heap[vec[v].start]
  BY BlockOf DEF RInv, IInv, Apart
<1> QED
  BY <1>1, SameValue DEF RInv

\* Graphs whose pointers and blocks stay keep their lists.
LEMMA OtherGraphsStay ==
  ASSUME RInv, NEW S,
         \A g \in Graphs \ S : graph'[g] = graph[g] /\ (g \in alive' <=> g \in alive),
         \A g \in Graphs \ S : \A b \in Blocks(graph[g]) : heap'[b] = heap[b]
  PROVE  \A g \in Graphs \ S : ListsValue(g)' = ListsValue(g)
BY SameLists DEF RInv, IInv, Shape

\* A graph whose lists change, the others' staying, is a step of Values.
LEMMA UseGraphStep ==
  ASSUME NEW g \in Graphs, \A v \in Vectors : VectorValue(v)' = VectorValue(v),
         \A k \in Graphs \ {g} : ListsValue(k)' = ListsValue(k),
         \/ /\ ListsValue(g).state = "absent"
            /\ \/ ListsValue(g)' = V!NoLists
               \/ \E directed \in BOOLEAN, s \in V!Sequences(Items) :
                    ListsValue(g)' = V!Lists(directed, s, s)
               \/ \E h \in Graphs \ {g} : /\ ListsValue(h).state # "absent"
                                          /\ ListsValue(g)' = ListsValue(h)
         \/ ListsValue(g).state # "absent" /\ ListsValue(g)' = V!NoGraph
  PROVE  V!Next
<1>1. [v \in Vectors |-> VectorValue(v)]' = [v \in Vectors |-> VectorValue(v)]
  OBVIOUS
<1>2. V!UseGraph(g)
  BY DEF V!UseGraph, V!OnlyIn, V!NewGraph, V!Known
<1> QED
  BY <1>1, <1>2 DEF V!Next

\* The state of a graph is that of the object.
LEMMA StateIs ==
  ASSUME NEW g \in Graphs
  PROVE  /\ ListsValue(g).state = "absent" <=> g \notin alive
         /\ ListsValue(g).state = "made" <=> g \in alive /\ graph[g].out_index # Null
BY DEF ListsValue

\* A graph in free blocks has the lists it was made of, and every other block is h's.
LEMMA FreshGraphIs ==
  ASSUME RInv, NEW g \in Graphs, NEW h, NEW directed \in BOOLEAN, NEW out, NEW in,
         NewGraph(g, h, directed, out, in), g \in alive', h = [a \in Addr |-> h[a]]
  PROVE  /\ ListsValue(g)' = V!Lists(directed, out, IF directed THEN in ELSE out)
         /\ \A a \in Addr : heap[a].kind # "free" => heap'[a] = h[a]
         /\ \A k \in Graphs \ {g} : graph'[k] = graph[k]
<1>1. \A S \in SUBSET FreeAddrs : Fresh(S) \subseteq S /\ S \subseteq Addr
  BY AllocatorAssumption DEF FreeAddrs
<1>2. CASE directed
  <2>1. PICK n, x, m, y \in FreeAddrs :
          /\ x # n /\ m \notin {n, x} /\ y \notin {n, x, m}
          /\ heap' = WithCSR(WithCSR(h, n, x, out), m, y, in)
          /\ graph' = [graph EXCEPT ![g] =
               [directed |-> TRUE, out_index |-> x, out_neighbors |-> n,
                in_index |-> y, in_neighbors |-> m]]
    BY ZenonT(60), <1>1, <1>2 DEF NewGraph
  <2>2. /\ {n, x, m, y} \subseteq Addr \ {Null} /\ {x, n} \cap {y, m} = {} /\ x # n /\ y # m
        /\ \A a \in {n, x, m, y} : heap[a].kind = "free"
    BY <2>1, AllocatorAssumption DEF FreeAddrs
  <2>3. heap' = [a \in Addr |-> IF a = n THEN Array(out) ELSE IF a = x THEN Index(n)
                                ELSE IF a = m THEN Array(in) ELSE IF a = y THEN Index(m) ELSE h[a]]
    BY <2>1, <2>2 DEF WithCSR
  <2>4. /\ heap'[n] = Array(out) /\ heap'[x] = Index(n)
        /\ heap'[m] = Array(in) /\ heap'[y] = Index(m)
    BY <2>2, <2>3
  <2>5. /\ \A k \in Graphs \ {g} : graph'[k] = graph[k]
        /\ graph'[g] = [directed |-> TRUE, out_index |-> x, out_neighbors |-> n,
                        in_index |-> y, in_neighbors |-> m]
    BY <2>1 DEF RInv, IInv, Types
  <2>6. ListsValue(g)' = V!Lists(directed, out, in)
    <3>1. ListsAt(graph[g].out_index)' = out /\ ListsAt(graph[g].in_index)' = in
      BY <2>2, <2>4, <2>5 DEF ListsAt, Array, Index
    <3>2. (graph[g].out_index # Null /\ graph[g].directed)' = TRUE /\ directed = TRUE
      BY <1>2, <2>2, <2>5
    <3>3. ListsValue(g)' = [state |-> "made", directed |-> TRUE, out |-> out, in |-> in]
      BY <2>2, <2>5, <3>1, <3>2 DEF ListsValue
    <3> QED
      BY <3>2, <3>3 DEF V!Lists
  <2> QED
    BY <1>2, <2>2, <2>3, <2>5, <2>6
<1>3. CASE ~directed
  <2>1. PICK n, x \in FreeAddrs :
          /\ x # n
          /\ heap' = WithCSR(h, n, x, out)
          /\ graph' = [graph EXCEPT ![g] =
               [directed |-> FALSE, out_index |-> x, out_neighbors |-> n,
                in_index |-> x, in_neighbors |-> n]]
    BY <1>1, <1>3 DEF NewGraph
  <2>2. {n, x} \subseteq Addr \ {Null} /\ x # n /\ \A a \in {n, x} : heap[a].kind = "free"
    BY <2>1, AllocatorAssumption DEF FreeAddrs
  <2>3. heap' = [a \in Addr |-> IF a = n THEN Array(out) ELSE IF a = x THEN Index(n) ELSE h[a]]
    BY <2>1, <2>2 DEF WithCSR
  <2>4. heap'[n] = Array(out) /\ heap'[x] = Index(n)
    BY <2>2, <2>3
  <2>5. /\ \A k \in Graphs \ {g} : graph'[k] = graph[k]
        /\ graph'[g] = [directed |-> FALSE, out_index |-> x, out_neighbors |-> n,
                        in_index |-> x, in_neighbors |-> n]
    BY <2>1 DEF RInv, IInv, Types
  <2>6. ListsValue(g)' = V!Lists(directed, out, out)
    BY <1>3, <2>2, <2>4, <2>5 DEF ListsValue, ListsAt, V!Lists, Array, Index
  <2> QED
    BY <1>3, <2>2, <2>3, <2>5, <2>6
<1> QED
  BY <1>2, <1>3

\* What does not exist has no pointers.
LEMMA AbsentGraphIs ==
  ASSUME RInv, NEW g \in Graphs, g \notin alive
  PROVE  graph[g].out_index = Null /\ graph[g].in_index = Null /\ Blocks(graph[g]) = {}
<1>1. Blocks(graph[g]) = {}
  BY DEF RInv, IInv, Owned
<1> QED
  BY <1>1 DEF Blocks

\* A graph that begins has no lists.
LEMMA ConstructGraphShows ==
  ASSUME RInv, NEW g \in Graphs, ConstructGraph(g)
  PROVE  Shown
<1>1. /\ heap' = heap /\ vec' = vec /\ graph' = graph
      /\ alive' = alive \cup {g} /\ g \notin alive
  BY DEF ConstructGraph, Begin
<1>2. ListsAt(graph[g].out_index)' = <<>> /\ ListsAt(graph[g].in_index)' = <<>>
  BY <1>1, AbsentGraphIs DEF ListsAt
<1>3. ListsValue(g)' = V!NoLists
  <2>1. (graph[g].out_index # Null /\ graph[g].directed)' = FALSE /\ graph'[g].out_index = Null
    BY <1>1, AbsentGraphIs
  <2>2. ListsValue(g)' = [state |-> "empty", directed |-> FALSE, out |-> <<>>, in |-> <<>>]
    BY <1>1, <1>2, <2>1 DEF ListsValue
  <2> QED
    BY <2>2 DEF V!NoLists, V!Nothing
<1>4. \A v \in Vectors : Whole(v)' /\ VectorValue(v)' = VectorValue(v)
  <2>1. \A v \in Vectors : v \in alive' <=> v \in alive
    BY <1>1, ObjectsAssumption
  <2> QED
    BY <2>1, <1>1, GraphStepsSpareArrays
<1>5. \A k \in Graphs \ {g} : ListsValue(k)' = ListsValue(k)
  BY <1>1, OtherGraphsStay
<1>6. V!Next
  BY <1>1, <1>3, <1>4, <1>5, StateIs, UseGraphStep
<1> QED
  BY <1>4, <1>6 DEF Shown

\* A graph that ends.
LEMMA DestroyGraphShows ==
  ASSUME RInv, NEW g \in Graphs, DestroyGraph(g)
  PROVE  Shown
<1>1. /\ heap' = [a \in Addr |-> IF a \in Blocks(graph[g]) THEN Free ELSE heap[a]]
      /\ graph' = [graph EXCEPT ![g] = NoGraph] /\ vec' = vec /\ alive' = alive \ {g} /\ g \in alive
  BY Released DEF DestroyGraph, End, RInv
<1>2. graph'[g] = NoGraph /\ \A h \in Graphs \ {g} : graph'[h] = graph[h]
  BY <1>1 DEF RInv, IInv, Types
<1>3. ListsValue(g)' = V!NoGraph
  <2>1. /\ (graph[g].out_index # Null /\ graph[g].directed)' = FALSE
        /\ graph'[g].out_index = Null /\ graph'[g].in_index = Null
    BY <1>2 DEF NoGraph
  <2>2. ListsAt(graph[g].out_index)' = <<>> /\ ListsAt(graph[g].in_index)' = <<>>
    BY <2>1 DEF ListsAt
  <2>3. ListsValue(g)' = [state |-> "absent", directed |-> FALSE, out |-> <<>>, in |-> <<>>]
    BY <1>1, <2>1, <2>2 DEF ListsValue
  <2> QED
    BY <2>3 DEF V!NoGraph, V!Nothing
<1>4. \A v \in Vectors : Whole(v)' /\ VectorValue(v)' = VectorValue(v)
  <2>1. \A v \in Vectors : v \in alive' <=> v \in alive
    BY <1>1, ObjectsAssumption
  <2>2. \A a \in Addr : heap'[a] = heap[a] \/ a \in Blocks(graph[g])
    BY <1>1
  <2> QED
    BY <2>1, <2>2, <1>1, GraphStepsSpareArrays
<1>5. \A k \in Graphs \ {g} : ListsValue(k)' = ListsValue(k)
  <2>1. \A k \in Graphs \ {g} : \A b \in Blocks(graph[k]) : heap'[b] = heap[b]
    BY <1>1, BlocksInUse DEF RInv, IInv, Apart
  <2> QED
    BY <2>1, <1>1, <1>2, OtherGraphsStay
<1>6. V!Next
  BY <1>1, <1>3, <1>4, <1>5, StateIs, UseGraphStep
<1> QED
  BY <1>4, <1>6 DEF Shown

\* A graph in free blocks, beside everything else.
LEMMA BesideShows ==
  ASSUME RInv, NEW g \in Graphs, NEW h, h = heap, NEW directed \in BOOLEAN, NEW out, NEW in,
         Begin(g), NewGraph(g, h, directed, out, in), vec' = vec
  PROVE  /\ ListsValue(g)' = V!Lists(directed, out, IF directed THEN in ELSE out)
         /\ g \notin alive
         /\ \A v \in Vectors : Whole(v)' /\ VectorValue(v)' = VectorValue(v)
         /\ \A k \in Graphs \ {g} : ListsValue(k)' = ListsValue(k)
<1>1. alive' = alive \cup {g} /\ g \notin alive
  BY DEF Begin
<1>2. h = [a \in Addr |-> h[a]]
  BY DEF RInv, IInv, Types
<1>3. /\ ListsValue(g)' = V!Lists(directed, out, IF directed THEN in ELSE out)
      /\ \A a \in Addr : heap[a].kind # "free" => heap'[a] = heap[a]
      /\ \A k \in Graphs \ {g} : graph'[k] = graph[k]
  BY <1>1, <1>2, FreshGraphIs
<1>4. \A v \in Vectors : Whole(v)' /\ VectorValue(v)' = VectorValue(v)
  <2>1. \A v \in Vectors : v \in alive' <=> v \in alive
    BY <1>1, ObjectsAssumption
  <2> QED
    BY <2>1, <1>3, GraphStepsSpareArrays
<1>5. \A k \in Graphs \ {g} : ListsValue(k)' = ListsValue(k)
  <2>1. \A k \in Graphs \ {g} : \A b \in Blocks(graph[k]) : heap'[b] = heap[b]
    BY <1>3, BlocksInUse DEF RInv
  <2> QED
    BY <2>1, <1>1, <1>3, OtherGraphsStay
<1> QED
  BY <1>1, <1>3, <1>4, <1>5

\* From a list or a file: both directions are the same edges.
LEMMA MakeShows ==
  ASSUME RInv, NEW g \in Graphs, NEW h, h = heap, NEW directed \in BOOLEAN,
         NEW items \in V!Sequences(Items),
         Begin(g), NewGraph(g, h, directed, items, items), vec' = vec
  PROVE  Shown
<1>1. /\ ListsValue(g)' = V!Lists(directed, items, items)
      /\ g \notin alive
      /\ \A v \in Vectors : Whole(v)' /\ VectorValue(v)' = VectorValue(v)
      /\ \A k \in Graphs \ {g} : ListsValue(k)' = ListsValue(k)
  <2>1. (IF directed THEN items ELSE items) = items
    OBVIOUS
  <2> QED
    BY <2>1, BesideShows
<1>2. V!Next
  BY <1>1, StateIs, UseGraphStep
<1> QED
  BY <1>1, <1>2 DEF Shown

\* The elements of a list that is complete.
LEMMA CompleteList ==
  ASSUME RInv, NEW el \in Vectors, Usable(el),
         \A k \in DOMAIN Elements(el) : Elements(el)[k] # Junk
  PROVE  Elements(el) \in V!Sequences(Items)
<1>1. PICK s : s = Elements(el)
  OBVIOUS
<1>2. s \in Contents /\ \A k \in DOMAIN s : s[k] # Junk
  BY <1>1, UsedIs
<1>3. PICK n \in 0 .. MaxLen : s \in [1 .. n -> Items \cup {Junk}]
  BY <1>2 DEF Contents, V!Sequences, V!Lengths
<1>4. s \in [1 .. n -> Items]
  BY <1>2, <1>3
<1> QED
  BY <1>1, <1>3, <1>4 DEF V!Sequences, V!Lengths

\* From a list.
LEMMA FromListShows ==
  ASSUME RInv, NEW g \in Graphs, NEW el \in Vectors, NEW directed \in BOOLEAN,
         MakeGraphFromEL(g, el, directed)
  PROVE  Shown
<1>1. PICK h, items : h = heap /\ items = Elements(el)
  OBVIOUS
<1>2. NewGraph(g, h, directed, items, items)
  BY <1>1 DEF MakeGraphFromEL, NewGraph
<1>3. items \in V!Sequences(Items)
  BY <1>1, CompleteList DEF MakeGraphFromEL
<1> QED
  BY <1>1, <1>2, <1>3, MakeShows DEF MakeGraphFromEL

\* From a file.
LEMMA FromFileShows ==
  ASSUME RInv, NEW g \in Graphs, NEW directed \in BOOLEAN, ReadSerializedGraph(g, directed)
  PROVE  Shown
<1>1. PICK h : h = heap
  OBVIOUS
<1>2. PICK items \in V!Sequences(Items) : NewGraph(g, h, directed, items, items)
  BY ZenonT(60), <1>1 DEF ReadSerializedGraph, NewGraph
<1> QED
  BY <1>1, <1>2, MakeShows DEF ReadSerializedGraph

\* A graph that is whole, undirected and relabelled has the same lists.
LEMMA RelabelShows ==
  ASSUME RInv, NEW g \in Graphs, NEW k \in Graphs, RelabelByDegree(g, k)
  PROVE  Shown
<1>1. PICK h, out : h = heap /\ out = ListsAt(graph[g].out_index)
  OBVIOUS
<1>2. /\ Begin(k) /\ NewGraph(k, h, FALSE, out, out) /\ vec' = vec
      /\ g \in alive /\ graph[g].out_index # Null /\ ~graph[g].directed
  BY <1>1 DEF RelabelByDegree, NewGraph
<1>3. /\ ListsValue(k)' = V!Lists(FALSE, out, out)
      /\ k \notin alive
      /\ \A v \in Vectors : Whole(v)' /\ VectorValue(v)' = VectorValue(v)
      /\ \A j \in Graphs \ {k} : ListsValue(j)' = ListsValue(j)
  BY <1>1, <1>2, BesideShows
<1>4. graph[g].in_index = graph[g].out_index /\ graph[g].directed = FALSE
  BY <1>2 DEF RInv, IInv, Shape, Shaped, WholeGraph, Types, IsGraphRecord
<1>5. ListsValue(g) = V!Lists(FALSE, out, out)
  BY <1>1, <1>2, <1>4 DEF ListsValue, V!Lists
<1>6. g # k /\ ListsValue(g).state # "absent" /\ ListsValue(k)' = ListsValue(g)
  BY <1>2, <1>3, <1>5, StateIs
<1>7. V!Next
  BY <1>3, <1>6, StateIs, UseGraphStep
<1> QED
  BY <1>3, <1>7 DEF Shown

\* Nothing squished over itself is nothing.
LEMMA SquishedOverNothing == V!SquishedOver(<<>>) = <<>>
BY DEF V!SquishedOver

\* The lists of g are squished where they are, and k's are what is left of them.
LEMMA SquishShows ==
  ASSUME RInv, NEW g \in Graphs, NEW k \in Graphs, SquishGraph(g, k)
  PROVE  Shown
<1>0. PICK r, own, h, out, in, directed :
        /\ r = graph[g] /\ own = {r.out_neighbors, r.in_neighbors}
        /\ h = [a \in Addr |-> IF a \in own THEN Array(V!SquishedOver(heap[a].items)) ELSE heap[a]]
        /\ directed = r.directed
        /\ out = ListsAt(r.out_index) /\ in = ListsAt(r.in_index)
  OBVIOUS
<1>1. NewGraph(k, h, directed, V!Squished(out), V!Squished(in))
  BY ZenonT(60), <1>0 DEF SquishGraph, NewGraph
<1>2. /\ directed \in BOOLEAN /\ vec' = vec /\ alive' = alive \cup {k} /\ k \notin alive
      /\ g \in alive /\ r.out_index # Null
  BY <1>0 DEF RInv, IInv, Types, IsGraphRecord, SquishGraph, Begin
<1>3. h = [a \in Addr |-> h[a]]
  BY <1>0
<1>4. /\ ListsValue(k)' = V!Lists(directed, V!Squished(out),
                                  IF directed THEN V!Squished(in) ELSE V!Squished(out))
      /\ \A a \in Addr : heap[a].kind # "free" => heap'[a] = h[a]
      /\ \A j \in Graphs \ {k} : graph'[j] = graph[j]
  BY <1>1, <1>2, <1>3, FreshGraphIs
<1>5. /\ AtHome(r.out_index, r.out_neighbors) /\ AtHome(r.in_index, r.in_neighbors)
      /\ r.in_index # Null
      /\ ~directed => in = out
      /\ Blocks(r) = {r.out_index, r.out_neighbors, r.in_index, r.in_neighbors} \ {Null}
  BY <1>0, <1>2 DEF RInv, IInv, Shape, Shaped, WholeGraph, Blocks
<1>6. \A a \in own \ {Null} : a \in Blocks(graph[g])
  BY <1>0, <1>5
<1>7. ListsValue(k)' = V!Lists(directed, V!Squished(out), V!Squished(in))
  <2>1. (IF directed THEN V!Squished(in) ELSE V!Squished(out)) = V!Squished(in)
    <3>1. CASE directed
      BY <3>1
    <3>2. CASE ~directed
      BY <3>2, <1>5
    <3> QED
      BY <3>1, <3>2
  <2> QED
    BY <2>1, <1>4
<1>8. ListsValue(g) = V!Lists(directed, out, in)
  <2>1. (graph[g].out_index # Null /\ graph[g].directed) = directed
    BY <1>0, <1>2
  <2> QED
    BY <1>0, <1>2, <2>1 DEF ListsValue, V!Lists
<1>9. g # k /\ graph'[g] = r
  BY <1>0, <1>2, <1>4
<1>10. ASSUME NEW i, NEW n, i # Null, AtHome(i, n), n \in own, i \in Blocks(graph[g]),
              n # Null => n \in Blocks(graph[g])
       PROVE  ListsAt(i)' = V!SquishedOver(ListsAt(i))
  <2>1. i \in Addr /\ heap[i] = Index(n) /\ heap[i].kind = "index"
    BY <1>10, BlocksInUse DEF AtHome, Index, RInv
  <2>2. heap'[i] = Index(n)
    <3>1. i \notin own
      BY <1>0, <1>5, <1>10, <2>1 DEF AtHome, Index
    <3> QED
      BY <1>0, <1>4, <2>1, <3>1
  <2>3. CASE n = Null
    BY <1>10, <2>1, <2>2, <2>3, SquishedOverNothing DEF ListsAt, Index
  <2>4. CASE n # Null
    <3>1. n \in Addr /\ heap[n].kind = "array"
      BY <1>10, <2>4, BlocksInUse DEF AtHome, RInv
    <3>2. heap'[n] = Array(V!SquishedOver(heap[n].items))
      BY <1>0, <1>4, <1>10, <3>1
    <3> QED
      BY <1>10, <2>1, <2>2, <2>4, <3>2 DEF ListsAt, Index, Array
  <2> QED
    BY <2>3, <2>4
<1>11. /\ ListsAt(r.out_index)' = V!SquishedOver(out)
       /\ ListsAt(r.in_index)' = V!SquishedOver(in)
  <2>1. /\ {r.out_neighbors, r.in_neighbors} \subseteq own
        /\ \A i \in {r.out_index, r.in_index, r.out_neighbors, r.in_neighbors} :
             i # Null => i \in Blocks(graph[g])
    BY <1>0, <1>5
  <2>2. ListsAt(r.out_index)' = V!SquishedOver(ListsAt(r.out_index))
    BY <1>2, <1>5, <1>10, <2>1
  <2>3. ListsAt(r.in_index)' = V!SquishedOver(ListsAt(r.in_index))
    BY <1>5, <1>10, <2>1
  <2> QED
    BY <1>0, <2>2, <2>3
<1>12. ListsValue(g)' = V!Lists(directed, V!SquishedOver(out), V!SquishedOver(in))
  <2>1. /\ (graph[g].out_index # Null /\ graph[g].directed)' = directed
        /\ graph'[g].out_index # Null /\ g \in alive'
    BY <1>0, <1>2, <1>9
  <2>2. /\ ListsAt(graph[g].out_index)' = ListsAt(r.out_index)'
        /\ ListsAt(graph[g].in_index)' = ListsAt(r.in_index)'
    BY <1>9 DEF ListsAt
  <2> QED
    BY <1>11, <2>1, <2>2 DEF ListsValue, V!Lists
<1>13. \A v \in Vectors : Whole(v)' /\ VectorValue(v)' = VectorValue(v)
  <2>1. \A v \in Vectors : v \in alive' <=> v \in alive
    BY <1>2, ObjectsAssumption
  <2>2. \A a \in Addr : heap'[a] = heap[a] \/ heap[a].kind = "free" \/ a \in Blocks(graph[g])
    BY <1>0, <1>4, <1>6, AllocatorAssumption
  <2> QED
    BY <2>1, <2>2, <1>2, GraphStepsSpareArrays
<1>14. \A j \in Graphs \ {g, k} : ListsValue(j)' = ListsValue(j)
  <2>1. \A j \in Graphs \ {g, k} : \A b \in Blocks(graph[j]) : heap'[b] = heap[b]
    <3> TAKE j \in Graphs \ {g, k}
    <3> TAKE b \in Blocks(graph[j])
    <3>1. b \in Addr /\ heap[b].kind # "free"
      BY BlocksInUse DEF RInv
    <3>2. b \notin own
      BY <1>6, <3>1, AllocatorAssumption DEF RInv, IInv, Apart
    <3> QED
      BY <1>0, <1>4, <3>1, <3>2
  <2>2. \A j \in Graphs \ {g, k} : graph'[j] = graph[j] /\ (j \in alive' <=> j \in alive)
    BY <1>2, <1>4
  <2> QED
    BY <2>1, <2>2, OtherGraphsStay
<1>15. V!Squish(g, k)
  <2>1. ~V!Known(k)
    BY <1>2, StateIs DEF V!Known
  <2>2. ListsValue(g).state = "made"
    BY <1>8 DEF V!Lists
  <2>3. ListsValue(g).directed = directed /\ ListsValue(g).out = out /\ ListsValue(g).in = in
    BY <1>8 DEF V!Lists
  <2> QED
    BY <1>7, <1>12, <1>14, <2>1, <2>2, <2>3 DEF V!Squish, V!OnlyIn, V!NewGraph
<1>16. [v \in Vectors |-> VectorValue(v)]' = [v \in Vectors |-> VectorValue(v)]
  BY <1>13
<1>17. V!Next
  BY <1>15, <1>16 DEF V!Next
<1> QED
  BY <1>13, <1>17 DEF Shown

\* The list is used up, and what is left of it when it is squished is the graph's.
LEMMA InPlaceShows ==
  ASSUME RInv, NEW g \in Graphs, NEW el \in Vectors, NEW directed \in BOOLEAN,
         MakeCSRInPlace(g, el, directed)
  PROVE  Shown
<1>1. /\ alive' = alive \cup {g} /\ g \notin alive /\ Usable(el)
      /\ \A k \in DOMAIN Elements(el) : Elements(el)[k] # Junk
      /\ vec' = [vec EXCEPT ![el] = [start |-> Null, size |-> -1, capacity |-> -1]]
  BY DEF MakeCSRInPlace, Begin
<1>2. PICK old, items : old = vec[el].start /\ items = V!Squished(Elements(el))
  OBVIOUS
<1>3. PICK new, x, m, y : InPlace(g, directed, old, items, new, x, m, y)
  BY <1>2, InPlaceIs DEF RInv
<1>4. /\ old \in Addr /\ heap[old].kind = "array"
      /\ new # Null => new \in Addr
      /\ new = Null => directed /\ items = <<>>
      /\ {x, m, y} \subseteq Addr /\ new \notin {x, m, y}
      /\ IF directed THEN m # x /\ y \notin {x, m} ELSE m = x /\ y = x
      /\ \A a \in {x, m, y, new} \ {Null} : heap[a].kind = "free" \/ a = old
      /\ x # Null /\ m # Null /\ y # Null
  BY <1>3, AllocatorAssumption DEF InPlace
<1>5. heap' = [a \in Addr |->
        IF directed /\ a = m THEN Array(items) ELSE IF directed /\ a = y THEN Index(m)
        ELSE IF a = x THEN Index(new) ELSE IF a = new THEN Array(items)
        ELSE IF a = old THEN Free ELSE heap[a]]
  BY <1>3 DEF InPlace
<1>6. /\ heap'[x] = Index(new)
      /\ new # Null => heap'[new] = Array(items)
      /\ directed => heap'[y] = Index(m) /\ heap'[m] = Array(items)
      /\ \A a \in Addr : heap[a].kind # "free" /\ a # old => heap'[a] = heap[a]
  <2>1. \A a \in Addr : heap[a].kind # "free" /\ a # old => a \notin {x, m, y, new}
    BY <1>4, AllocatorAssumption
  <2>2. \A a \in Addr : heap[a].kind # "free" /\ a # old => heap'[a] = heap[a]
    BY <1>5, <2>1
  <2>3. heap'[x] = Index(new) /\ (new # Null => heap'[new] = Array(items))
    BY <1>4, <1>5
  <2>4. directed => heap'[y] = Index(m) /\ heap'[m] = Array(items)
    BY <1>4, <1>5
  <2> QED
    BY <2>2, <2>3, <2>4
<1>7. /\ \A k \in Graphs \ {g} : graph'[k] = graph[k]
      /\ graph'[g] = [directed |-> directed, out_index |-> x, out_neighbors |-> new,
                      in_index |-> IF directed THEN y ELSE x,
                      in_neighbors |-> IF directed THEN m ELSE new]
  BY <1>3 DEF InPlace, RInv, IInv, Types
<1>8. /\ vec'[el] = Leaked /\ \A v \in Vectors \ {el} : vec'[v] = vec[v]
  BY <1>1 DEF RInv, IInv, Types, Leaked
<1>9. el \in alive' /\ g \in alive' /\ \A v \in Vectors : v \in alive' <=> v \in alive
  BY <1>1, ObjectsAssumption DEF Usable
<1>10. Whole(el)' /\ VectorValue(el)' = Gone
  <2>1. vec'[el].size < 0
    BY <1>8 DEF Leaked
  <2> QED
    BY <1>8, <1>9, <2>1 DEF Whole, VectorValue, Leaked
<1>11. \A v \in Vectors \ {el} : Whole(v)' /\ VectorValue(v)' = VectorValue(v)
  <2> TAKE v \in Vectors \ {el}
  <2>1. vec[v].start # Null => heap'[vec[v].start] = heap[vec[v].start]
    BY <1>2, <1>4, <1>6, BlockOf
  <2> QED
    BY <2>1, <1>8, <1>9, SameValue DEF RInv
<1>12. \A k \in Graphs \ {g} : ListsValue(k)' = ListsValue(k)
  <2>1. \A k \in Graphs \ {g} : \A b \in Blocks(graph[k]) : heap'[b] = heap[b]
    BY <1>2, <1>6, BlocksInUse DEF RInv, IInv, Apart
  <2> QED
    BY <2>1, <1>1, <1>7, OtherGraphsStay
<1>13. ListsValue(g)' = V!Lists(directed, items, items)
  <2>1. ListsAt(x)' = items
    BY <1>4, <1>6 DEF ListsAt, Index, Array
  <2>2. ListsAt(IF directed THEN y ELSE x)' = items
    BY <1>4, <1>6, <2>1 DEF ListsAt, Index, Array
  <2>3. ListsAt(graph[g].out_index)' = items /\ ListsAt(graph[g].in_index)' = items
    BY <1>7, <2>1, <2>2 DEF ListsAt
  <2>4. (graph[g].out_index # Null /\ graph[g].directed)' = directed
    BY <1>4, <1>7
  <2> QED
    BY <1>4, <1>7, <1>9, <2>3, <2>4 DEF ListsValue, V!Lists
<1>14. V!BuildOver(g, el)
  <2>1. VectorValue(el) = Elements(el) /\ V!Exists(VectorValue(el))
    BY <1>1, UsedIs
  <2>2. ~V!Known(g)
    BY <1>1, StateIs DEF V!Known
  <2> QED
    BY <1>1, <1>2, <1>10, <1>11, <1>12, <1>13, <2>1, <2>2 DEF V!BuildOver, V!OnlyIn, V!NewGraph
<1>15. V!Next
  BY <1>14 DEF V!Next
<1> QED
  BY <1>10, <1>11, <1>15 DEF Shown

\* The lists of h are g's, whose own were freed, and h has none.
LEMMA MovedGraphShows ==
  ASSUME RInv, NEW g \in Graphs, NEW h \in Graphs, g # h, h \in alive,
         heap' = [a \in Addr |-> IF a \in Blocks(graph[g]) THEN Free ELSE heap[a]],
         graph' = [graph EXCEPT ![g] = graph[h], ![h] = MovedFrom(graph[h])],
         vec' = vec, alive' = alive \cup {g}
  PROVE  Shown
<1>1. /\ graph'[g] = graph[h] /\ graph'[h] = MovedFrom(graph[h])
      /\ \A k \in Graphs \ {g, h} : graph'[k] = graph[k]
  BY DEF RInv, IInv, Types
<1>2. \A k \in Graphs \ {g} : \A b \in Blocks(graph[k]) : heap'[b] = heap[b]
  BY BlocksInUse DEF RInv, IInv, Apart
<1>3. ListsValue(g)' = ListsValue(h)
  BY <1>1, <1>2, SameLists DEF RInv, IInv, Shape
<1>4. ListsValue(h)' = V!NoLists
  <2>1. /\ (graph[h].out_index # Null /\ graph[h].directed)' = FALSE
        /\ graph'[h].out_index = Null /\ graph'[h].in_index = Null /\ h \in alive'
    BY <1>1 DEF MovedFrom, NoGraph
  <2>2. ListsAt(graph[h].out_index)' = <<>> /\ ListsAt(graph[h].in_index)' = <<>>
    BY <2>1 DEF ListsAt
  <2>3. ListsValue(h)' = [state |-> "empty", directed |-> FALSE, out |-> <<>>, in |-> <<>>]
    BY <2>1, <2>2 DEF ListsValue
  <2> QED
    BY <2>3 DEF V!NoLists, V!Nothing
<1>5. \A k \in Graphs \ {g, h} : ListsValue(k)' = ListsValue(k)
  BY <1>1, <1>2, OtherGraphsStay
<1>6. \A v \in Vectors : Whole(v)' /\ VectorValue(v)' = VectorValue(v)
  <2>1. \A v \in Vectors : v \in alive' <=> v \in alive
    BY ObjectsAssumption
  <2>2. \A a \in Addr : heap'[a] = heap[a] \/ a \in Blocks(graph[g])
    OBVIOUS
  <2> QED
    BY <2>1, <2>2, GraphStepsSpareArrays
<1>7. [v \in Vectors |-> VectorValue(v)]' = [v \in Vectors |-> VectorValue(v)]
  BY <1>6
<1>8. V!MoveGraph(g, h)
  BY <1>3, <1>4, <1>5, StateIs DEF V!MoveGraph, V!OnlyIn, V!Known
<1>9. V!Next
  BY <1>7, <1>8 DEF V!Next
<1> QED
  BY <1>6, <1>9 DEF Shown

\* Moving to a graph that begins and assigning to one that is there.
LEMMA MovesOfGraphsShow ==
  ASSUME RInv, NEW g \in Graphs, NEW h \in Graphs,
         MoveConstructGraph(g, h) \/ MoveAssignGraph(g, h)
  PROVE  Shown
<1>1. CASE MoveConstructGraph(g, h)
  <2>1. /\ g \notin alive /\ g # h /\ h \in alive /\ vec' = vec /\ alive' = alive \cup {g}
        /\ heap' = heap /\ graph' = [graph EXCEPT ![g] = graph[h], ![h] = MovedFrom(graph[h])]
    BY <1>1 DEF MoveConstructGraph, Begin
  <2>2. heap' = [a \in Addr |-> IF a \in Blocks(graph[g]) THEN Free ELSE heap[a]]
    BY <2>1 DEF RInv, IInv, Owned, Types
  <2> QED
    BY <2>1, <2>2, MovedGraphShows
<1>2. CASE MoveAssignGraph(g, h) /\ g # h
  <2>1. /\ h \in alive /\ vec' = vec /\ alive' = alive \cup {g}
        /\ heap' = ReleaseResources(heap, graph[g])
        /\ graph' = [graph EXCEPT ![g] = graph[h], ![h] = MovedFrom(graph[h])]
    BY <1>2 DEF MoveAssignGraph
  <2>2. heap' = [a \in Addr |-> IF a \in Blocks(graph[g]) THEN Free ELSE heap[a]]
    BY <2>1, Released DEF RInv
  <2> QED
    BY <1>2, <2>1, <2>2, MovedGraphShows
<1>3. CASE MoveAssignGraph(g, h) /\ g = h
  BY <1>3, StutterShows DEF MoveAssignGraph, vars
<1> QED
  BY <1>1, <1>2, <1>3

-----------------------------------------------------------------------------
\* At first there are no values, as in Values.
LEMMA InitShows == Init => RInv /\ V!Init
<1> SUFFICES ASSUME Init PROVE RInv /\ V!Init
  OBVIOUS
<1>1. RInv
  BY InitHolds DEF RInv, Whole, Init
<1>2. \A v \in Vectors : VectorValue(v) = Absent
  BY DEF Init, VectorValue
<1>3. \A g \in Graphs : ListsValue(g) = V!NoGraph
  <2> TAKE g \in Graphs
  <2>1. /\ (graph[g].out_index # Null /\ graph[g].directed) = FALSE
        /\ graph[g].out_index = Null /\ graph[g].in_index = Null /\ g \notin alive
    BY DEF Init, NoGraph
  <2>2. ListsAt(graph[g].out_index) = <<>> /\ ListsAt(graph[g].in_index) = <<>>
    BY <2>1 DEF ListsAt
  <2>3. ListsValue(g) = [state |-> "absent", directed |-> FALSE, out |-> <<>>, in |-> <<>>]
    BY <2>1, <2>2 DEF ListsValue
  <2> QED
    BY <2>3 DEF V!NoGraph, V!Nothing
<1> QED
  BY <1>1, <1>2, <1>3 DEF V!Init

\* Every step is one of Values, or a stutter.
LEMMA NextShows == RInv /\ [Next]_vars => Shown
<1> SUFFICES ASSUME RInv, [Next]_vars PROVE Shown
  OBVIOUS
<1>1. CASE UNCHANGED vars
  BY <1>1, StutterShows
<1>2. ASSUME NEW v \in Vectors, DefaultVector(v) \/ DestroyVector(v) \/ clear(v) PROVE Shown
  BY <1>2, DefaultShows, DestroyShows, ClearShows
<1>3. ASSUME NEW v \in Vectors, NEW n \in 0 .. MaxLen, reserve(v, n) \/ resize(v, n) PROVE Shown
  BY <1>3, ReserveShows, ResizeShows
<1>4. ASSUME NEW v \in Vectors, NEW n \in 0 .. MaxLen, NEW x \in Items \cup {Junk},
             ConstructVector(v, [k \in 1 .. n |-> x])
      PROVE  Shown
  <2>1. PICK items : items = [k \in 1 .. n |-> x]
    OBVIOUS
  <2>2. items \in Contents /\ ConstructVector(v, items)
    BY <1>4, <2>1, AreContents DEF ConstructVector
  <2> QED
    BY <2>2, ConstructShows
<1>5. ASSUME NEW v \in Vectors, NEW x \in Items, push_back(v, x) \/ fill(v, x) PROVE Shown
  BY <1>5, PushBackShows, FillShows
<1>6. ASSUME NEW v \in Vectors, NEW x \in Items, NEW k \in 1 .. MaxLen, write(v, k, x) PROVE Shown
  BY <1>6, WriteShows
<1>7. ASSUME NEW v \in Vectors, NEW w \in Vectors, Usable(w), ConstructVector(v, Elements(w))
      PROVE  Shown
  <2>1. PICK items : items = Elements(w)
    OBVIOUS
  <2>2. items \in Contents /\ ConstructVector(v, items)
    BY <1>7, <2>1, UsedIs DEF ConstructVector
  <2> QED
    BY <2>2, ConstructShows
<1>8. ASSUME NEW v \in Vectors, NEW w \in Vectors,
             MoveConstructVector(v, w) \/ MoveAssignVector(v, w) \/ swap(v, w)
      PROVE  Shown
  BY <1>8, MovesOfVectorsShow
<1>9. ASSUME NEW g \in Graphs, ConstructGraph(g) \/ DestroyGraph(g) PROVE Shown
  BY <1>9, ConstructGraphShows, DestroyGraphShows
<1>10. ASSUME NEW g \in Graphs, NEW directed \in BOOLEAN, ReadSerializedGraph(g, directed)
       PROVE  Shown
  BY <1>10, FromFileShows
<1>11. ASSUME NEW g \in Graphs, NEW directed \in BOOLEAN, NEW el \in Vectors,
              MakeGraphFromEL(g, el, directed) \/ MakeCSRInPlace(g, el, directed)
       PROVE  Shown
  BY <1>11, FromListShows, InPlaceShows
<1>12. ASSUME NEW g \in Graphs, NEW h \in Graphs, SquishGraph(g, h) \/ RelabelByDegree(g, h)
       PROVE  Shown
  BY <1>12, SquishShows, RelabelShows
<1>13. ASSUME NEW g \in Graphs, NEW h \in Graphs, MoveConstructGraph(g, h) \/ MoveAssignGraph(g, h)
       PROVE  Shown
  BY <1>13, MovesOfGraphsShow
<1> QED
  BY <1>1, <1>2, <1>3, <1>4, <1>5, <1>6, <1>7, <1>8, <1>9, <1>10, <1>11, <1>12, <1>13 DEF Next

\* Arrays are whole as long as the heap is in order.
THEOREM ArraysAreWhole == Spec => []RInv
<1>1. Init => RInv
  BY InitShows
<1>2. RInv /\ [Next]_vars => RInv'
  BY NextKeeps, NextShows DEF RInv, Shown
<1> QED
  BY <1>1, <1>2, PTL DEF Spec

\* Arrays and graphs that share one heap behave as values of their own: whatever is moved,
\* reallocated or built in place, a step changes what was asked for and nothing else.
THEOREM MemoryIsInvisible == Spec => ImplementsValues
<1>1. Init => V!Init
  BY InitShows
<1>2. RInv /\ [Next]_vars =>
        [V!Next]_<<[v \in Vectors |-> VectorValue(v)], [g \in Graphs |-> ListsValue(g)]>>
  <2> SUFFICES ASSUME RInv, [Next]_vars, ~V!Next
               PROVE  UNCHANGED <<[v \in Vectors |-> VectorValue(v)],
                                  [g \in Graphs |-> ListsValue(g)]>>
    OBVIOUS
  <2>1. ValuesStay
    BY NextShows DEF Shown
  <2> QED
    BY <2>1 DEF ValuesStay
<1> QED
  BY <1>1, <1>2, ArraysAreWhole, PTL DEF Spec, ImplementsValues, V!Spec
=============================================================================
