-------------------------- MODULE TwoVectorsProofs --------------------------
(***************************************************************************)
(* Proofs about vectors that share memory and allocators (TwoVectors), for *)
(* any number of vectors, blocks, values and allocators, and any traits:   *)
(* that they own their storage, what may be lost, that comparisons         *)
(* (Comparisons) agree, and that elements and allocators end up where the  *)
(* contract (TwoVectorsSpec) says.                                         *)
(***************************************************************************)
EXTENDS Comparisons, FiniteSetTheorems, TLAPS

(* Copy assignment swaps with a copy that has the selected allocator: that *)
(* is right when the allocators are swapped too, or are the same anyway.   *)
CopiesMatch ==
  \A t \in Assignable :
    t.always_equal \/ t.pocs \/ (t.pocca /\ t.select = "same")

Inv == TypeOK /\ StorageOwned /\ NoMisuse

Harmless == {"construct_live", "free_live"}

-----------------------------------------------------------------------------
(* Operators on records and heaps.                                         *)

LEMMA FreeType == Free \in [size : 0 .. MaxSize, by : Personality, cell : [Slot -> Cell]]
  BY TraitsAssumption DEF Free, Cell

LEMMA CellsType ==
  ASSUME NEW r \in VectorRecord, NEW h \in Heap
  PROVE  Cells(r, h) \in [Slot -> Cell]
  BY DEF Cells, Free, Cell, VectorRecord, Heap

(* The elements of a vector are objects.                                   *)
LEMMA CellsLive ==
  ASSUME NEW r \in VectorRecord, NEW h \in Heap, Holds(r, h),
         NEW s \in 0 .. (r.finish - 1)
  PROVE  s \in Slot /\ Cells(r, h)[s] # Raw
  BY TraitsAssumption DEF Cells, Holds, VectorRecord, Heap, Slot

LEMMA EmptyHolds ==
  ASSUME NEW p \in Personality, NEW h
  PROVE  Empty(p) \in VectorRecord /\ Empty(p).start = Null /\ Holds(Empty(p), h)
  BY TraitsAssumption DEF Empty, VectorRecord, Holds

(* A block that changes leaves the vectors alone that do not hold it.      *)
LEMMA HoldsElsewhere ==
  ASSUME NEW r, NEW h, NEW k, Holds(r, h), r.start # Null => k[r.start] = h[r.start]
  PROVE  Holds(r, k)
  BY DEF Holds

LEMMA AllocatedBlock ==
  ASSUME NEW h \in Heap, NEW b \in Block, NEW cap \in 1 .. MaxSize,
         NEW p \in Personality, NEW n \in 0 .. cap, NEW cell \in [Slot -> Cell],
         \A s \in 0 .. (n - 1) : cell[s] # Raw
  PROVE  /\ Allocated(h, b, cap, p, n, cell) \in Heap
         /\ \A c \in Block \ {b} : Allocated(h, b, cap, p, n, cell)[c] = h[c]
         /\ Allocated(h, b, cap, p, n, cell)[b].size = cap
         /\ Owning(b, n, cap, p) \in VectorRecord
         /\ Owning(b, n, cap, p).start = b
         /\ Holds(Owning(b, n, cap, p), Allocated(h, b, cap, p, n, cell))
<1> DEFINE k == Allocated(h, b, cap, p, n, cell)
           new == [s \in Slot |-> IF s < n THEN cell[s] ELSE Raw]
<1>1. new \in [Slot -> Cell]
  BY DEF Cell
<1>2. k = [h EXCEPT ![b] = [size |-> cap, by |-> p, cell |-> new]]
  BY DEF Allocated
<1>3. k[b] = [size |-> cap, by |-> p, cell |-> new] /\ k \in Heap
  <2> HIDE DEF new
  <2> QED  BY <1>1, <1>2 DEF Heap
<1>4. \A c \in Block \ {b} : k[c] = h[c]
  BY <1>2 DEF Heap
<1>5. Owning(b, n, cap, p) \in VectorRecord
  BY TraitsAssumption DEF Owning, VectorRecord
<1>6. \A s \in 0 .. (n - 1) : k[b].cell[s] # Raw
  BY <1>3, TraitsAssumption DEF Slot
<1>7. Holds(Owning(b, n, cap, p), k)
  <2> HIDE DEF k
  <2> QED  BY <1>3, <1>6, TwoVectorsAssumption DEF Owning, Holds, Equal
<1> QED
  BY <1>3, <1>4, <1>5, <1>7 DEF Owning

LEMMA ReleasedBlock ==
  ASSUME NEW h \in Heap, NEW r \in VectorRecord
  PROVE  /\ Released(h, r) \in Heap
         /\ \A b \in Block \ {r.start} : Released(h, r)[b] = h[b]
         /\ r.start # Null => Released(h, r)[r.start].size = 0
  BY FreeType DEF Released, Heap, VectorRecord, Free

(* A vector that holds its storage may release it.                         *)
LEMMA ReleaseHarmless ==
  ASSUME NEW h \in Heap, NEW r \in VectorRecord, Holds(r, h)
  PROVE  OnRelease(h, r) \subseteq Harmless
<1>1. CASE r.start = Null
  BY <1>1 DEF OnRelease
<1>2. CASE r.start # Null
  <2>1. r.eos > 0 /\ h[r.start].size = r.eos /\ Equal(r.alloc, h[r.start].by)
    BY <1>2 DEF Holds
  <2>2. ~\E s \in Slot : s < r.finish /\ h[r.start].cell[s] = Raw
    BY <1>2, TraitsAssumption DEF Holds, Slot, VectorRecord
  <2> QED
    BY <1>2, <2>1, <2>2 DEF OnRelease, Harmless
<1> QED
  BY <1>1, <1>2

(* No vector holds a block that is free.                                   *)
LEMMA FreeNotHeld ==
  ASSUME NEW h \in Heap, NEW r \in VectorRecord, Holds(r, h), NEW b \in FreeBlocks(h)
  PROVE  b \in Block /\ r.start # b
<1>1. b \in Block /\ h[b].size = 0 /\ b # Null
  BY TwoVectorsAssumption DEF FreeBlocks
<1>2. r.start # Null => h[r.start].size > 0
  BY DEF Holds
<1> QED
  BY <1>1, <1>2

(* What a step has to establish.                                           *)
LEMMA InvKept ==
  ASSUME Inv, UNCHANGED traits,
         vec' \in [Vec -> VectorRecord], heap' \in Heap,
         faults' \subseteq faults \cup Harmless,
         \A u \in Vec : Holds(vec'[u], heap'),
         \A u, w \in Vec : u # w /\ vec'[u].start # Null => vec'[w].start # vec'[u].start
  PROVE  Inv'
<1>1. TypeOK'
  BY DEF Inv, TypeOK, Harmless
<1>2. NoMisuse'
  BY DEF Inv, NoMisuse, Harmless
<1>3. \A u \in Vec : Holds(vec[u], heap)'
  BY DEF Holds, Equal
<1> QED
  BY <1>1, <1>2, <1>3 DEF Inv, StorageOwned

LEMMA InvFacts ==
  ASSUME Inv
  PROVE  /\ traits \in AllTraits
         /\ vec \in [Vec -> VectorRecord] /\ heap \in Heap
         /\ \A u \in Vec : /\ Holds(vec[u], heap) /\ vec[u] \in VectorRecord
                           /\ vec[u].alloc \in Personality
                           /\ vec[u].finish \in 0 .. vec[u].eos
                           /\ vec[u].eos \in 0 .. MaxSize
         /\ \A u, w \in Vec : u # w /\ vec[u].start # Null => vec[w].start # vec[u].start
<1>1. traits \in AllTraits /\ vec \in [Vec -> VectorRecord] /\ heap \in Heap
  BY TraitsAssumption DEF Inv, TypeOK
<1>2. \A u \in Vec : Holds(vec[u], heap) /\ vec[u] \in VectorRecord
  BY <1>1 DEF Inv, StorageOwned
<1>3. ASSUME NEW u \in Vec
      PROVE  vec[u].finish \in 0 .. vec[u].eos /\ vec[u].eos \in 0 .. MaxSize
             /\ vec[u].alloc \in Personality
  BY <1>2, TraitsAssumption DEF VectorRecord, Holds
<1> QED
  BY <1>1, <1>2, <1>3 DEF Inv, StorageOwned

-----------------------------------------------------------------------------
(* The steps.                                                              *)

(* A constructor, whatever it has done to the objects of other vectors.    *)
LEMMA BuildStep ==
  ASSUME Inv, NEW v \in Vec, NEW p \in Personality, NEW op, NEW args,
         NEW cap \in 0 .. MaxSize, NEW n \in 0 .. cap, NEW cell \in [Slot -> Cell],
         \A s \in 0 .. (n - 1) : cell[s] # Raw,
         NEW how, NEW h \in Heap, \A u \in Vec : Holds(vec[u], h),
         \A b \in Block : h[b].size = heap[b].size,
         Build(op, args, v, p, cap, n, cell, how, h), UNCHANGED <<faults, traits>>
  PROVE  Inv'
<1>1. CASE UNCHANGED <<vec, heap>>
  BY <1>1, InvFacts, InvKept
<1>2. CASE vec' = [vec EXCEPT ![v] = Empty(p)] /\ UNCHANGED heap
  BY <1>2, InvFacts, EmptyHolds, InvKept
<1>3. ASSUME cap > 0, NEW b \in FreeBlocks(heap),
             vec' = [vec EXCEPT ![v] = Owning(b, n, cap, p)],
             heap' = Allocated(h, b, cap, p, n, cell)
      PROVE  Inv'
  <2>1. b \in Block /\ \A u \in Vec : vec[u].start # b
    BY <1>3, InvFacts, FreeNotHeld
  <2>2. /\ heap' \in Heap /\ \A c \in Block \ {b} : heap'[c] = h[c]
        /\ Owning(b, n, cap, p) \in VectorRecord /\ Owning(b, n, cap, p).start = b
        /\ Holds(Owning(b, n, cap, p), heap')
    BY <1>3, <2>1, AllocatedBlock
  <2>3. \A u \in Vec \ {v} : Holds(vec[u], heap')
    <3> TAKE u \in Vec \ {v}
    <3>1. vec[u].start # Null => heap'[vec[u].start] = h[vec[u].start]
      BY <2>1, <2>2, InvFacts DEF VectorRecord
    <3> QED
      BY <3>1, HoldsElsewhere
  <2> QED
    BY <1>3, <2>1, <2>2, <2>3, InvFacts, InvKept
<1> QED
  BY <1>1, <1>2, <1>3 DEF Build

(* The elements of w over those of r, in a heap h where all hold what they *)
(* have.                                                                   *)
LEMMA OverwriteStep ==
  ASSUME Inv, NEW v \in Vec, NEW w \in Vec, v # w, NEW op,
         NEW r \in VectorRecord, NEW h \in Heap, Holds(r, h),
         \A u \in Vec \ {v} : Holds(vec[u], h),
         \A u \in Vec \ {v} : r.start # Null => vec[u].start # r.start,
         NEW f \in SUBSET Harmless, NEW how, vec[w].finish <= r.eos,
         Overwrite(op, v, w, r, h, f, how), UNCHANGED traits
  PROVE  Inv'
<1> DEFINE q == vec[w]
           n == q.finish
           x == Cells(q, h)
           y == Cells(r, h)
           gone(c) == IF op # "move_assign" THEN {}
                      ELSE {s \in 0 .. (c - 1) : s < r.finish \/ how = "move"}
           cell(c) == [s \in Slot |-> IF s < c THEN x[s]
                                     ELSE IF c = n /\ s < r.finish THEN Raw ELSE y[s]]
           after(c) == [b \in Block |->
                 IF b = r.start THEN [h[b] EXCEPT !.cell = cell(c)]
                 ELSE IF b = q.start THEN [h[b] EXCEPT !.cell = MovedAway(x, gone(c))]
                 ELSE h[b]]
           done(c) == IF c = n THEN [r EXCEPT !.finish = n] ELSE r
<1>1. PICK c \in 0 .. n :
        /\ heap' = after(c)
        /\ vec' = [vec EXCEPT ![v] = done(c)]
        /\ faults' = faults \cup f
             \cup (IF \E s \in Slot : s < c /\ x[s] = Raw THEN {"read_raw"} ELSE {})
             \cup (IF \E s \in Slot : s < r.finish /\ y[s] = Raw
                   THEN {"assign_raw"} ELSE {})
             \cup (IF \E s \in Slot : s >= r.finish /\ s < c /\ y[s] # Raw
                   THEN {"construct_live"} ELSE {})
  BY Zenon DEF Overwrite
<1>2. /\ q \in VectorRecord /\ Holds(q, h) /\ n \in 0 .. MaxSize /\ MaxSize \in Nat
      /\ r.finish \in 0 .. r.eos /\ r.eos \in 0 .. MaxSize
      /\ q.start # Null => q.start # r.start
  BY InvFacts, TraitsAssumption DEF VectorRecord, Holds
<1>3. /\ x \in [Slot -> Cell] /\ y \in [Slot -> Cell]
      /\ \A s \in 0 .. (n - 1) : x[s] # Raw
      /\ \A s \in 0 .. (r.finish - 1) : y[s] # Raw
  BY <1>2, CellsType, CellsLive
<1>4. cell(c) \in [Slot -> Cell]
  BY <1>3 DEF Cell
<1>5. MovedAway(x, gone(c)) \in [Slot -> Cell]
  BY <1>3 DEF MovedAway, Cell
<1>6. /\ done(c) \in VectorRecord /\ done(c).start = r.start /\ done(c).eos = r.eos
      /\ done(c).alloc = r.alloc
      /\ done(c).finish = IF c = n THEN n ELSE r.finish
  BY <1>2 DEF VectorRecord
<1>7. \A s \in 0 .. (done(c).finish - 1) : s \in Slot /\ cell(c)[s] # Raw
  <2> SUFFICES ASSUME NEW s \in 0 .. (done(c).finish - 1)
               PROVE  s \in Slot /\ cell(c)[s] # Raw
    OBVIOUS
  <2>1. s \in Slot
    BY <1>2, <1>6 DEF Slot
  <2>2. s < c => x[s] # Raw
    BY <1>2, <1>3, <2>1 DEF Slot
  <2>3. s >= c => c # n /\ y[s] # Raw
    BY <1>2, <1>3, <1>6, <2>1 DEF Slot
  <2> QED
    BY <2>1, <2>2, <2>3 DEF Slot
<1>8. \A s \in 0 .. (n - 1) : MovedAway(x, gone(c))[s] # Raw
  BY <1>2, <1>3, TraitsAssumption DEF MovedAway, Slot
<1> HIDE DEF cell, gone, done, x, y
<1>9. after(c) \in Heap
  BY <1>4, <1>5 DEF Heap
<1>10. Holds(done(c), after(c))
  BY <1>2, <1>4, <1>6, <1>7 DEF Holds, Heap, VectorRecord
<1>11. Holds(q, after(c))
  BY <1>2, <1>5, <1>8 DEF Holds, Heap, VectorRecord
<1>12. \A u \in Vec \ {v, w} : Holds(vec[u], after(c))
  <2> TAKE u \in Vec \ {v, w}
  <2>1. vec[u].start # Null => after(c)[vec[u].start] = h[vec[u].start]
    BY InvFacts DEF VectorRecord
  <2> QED
    BY <2>1, HoldsElsewhere
<1>13. faults' \subseteq faults \cup Harmless
  <2>1. ~\E s \in Slot : s < c /\ x[s] = Raw
    BY <1>2, <1>3 DEF Slot
  <2>2. ~\E s \in Slot : s < r.finish /\ y[s] = Raw
    BY <1>2, <1>3 DEF Slot
  <2> QED
    BY <1>1, <2>1, <2>2 DEF Harmless
<1> HIDE DEF after
<1>15. vec' \in [Vec -> VectorRecord] /\ \A u \in Vec : Holds(vec'[u], heap')
  BY <1>1, <1>6, <1>10, <1>11, <1>12, InvFacts
<1>16. \A u, t \in Vec : u # t /\ vec'[u].start # Null => vec'[t].start # vec'[u].start
  BY <1>1, <1>6, InvFacts
<1> QED
  BY <1>1, <1>9, <1>13, <1>15, <1>16, InvKept

LEMMA ConstructStep ==
  ASSUME Inv, NEW v \in Vec, NEW x \in Source, NEW p \in Personality,
         Construct(v, x, p)
  PROVE  Inv'
<1>1. Build("construct", <<v, x, p>>, v, p, Len(x), Len(x),
            [s \in Slot |-> IF s < Len(x) THEN x[s + 1] ELSE Raw], "copy", heap)
  BY DEF Construct
<1>2. PICK n \in 0 .. MaxSize : x \in [1 .. n -> Value]
  BY TraitsAssumption
<1>3. Len(x) = n /\ n \in Nat
  BY <1>2, TraitsAssumption
<1> DEFINE cell == [s \in Slot |-> IF s < n THEN x[s + 1] ELSE Raw]
<1>4. cell \in [Slot -> Cell] /\ \A s \in 0 .. (n - 1) : cell[s] # Raw
  BY <1>2, <1>3, TraitsAssumption DEF Cell, Slot
<1>5. UNCHANGED <<faults, traits>>
  BY DEF Construct
<1>6. Build("construct", <<v, x, p>>, v, p, n, n, cell, "copy", heap)
  BY <1>1, <1>3
<1> HIDE DEF cell
<1> QED
  BY <1>2, <1>3, <1>4, <1>5, <1>6, InvFacts, BuildStep

LEMMA CopyConstructStep ==
  ASSUME Inv, NEW v \in Vec, NEW w \in Vec, NEW p \in Personality,
         NEW op, NEW args, CopyFrom(op, args, v, w, p)
  PROVE  Inv'
<1> DEFINE n == vec[w].finish
           cell == Cells(vec[w], heap)
<1>1. n \in 0 .. MaxSize /\ n \in 0 .. n
  BY InvFacts, TraitsAssumption
<1>2. cell \in [Slot -> Cell] /\ \A s \in 0 .. (n - 1) : cell[s] # Raw
  BY InvFacts, CellsType, CellsLive
<1>3. /\ Build(op, args, v, p, n, n, cell, "copy", heap)
      /\ UNCHANGED <<faults, traits>>
  BY DEF CopyFrom
<1> HIDE DEF n, cell
<1> QED
  BY <1>1, <1>2, <1>3, InvFacts, BuildStep

(* A vector that has let go of its storage takes that of another.          *)
LEMMA TakeStep ==
  ASSUME Inv, NEW v \in Vec, NEW w \in Vec, v # w, NEW p \in Personality,
         Take(v, w, p), Equal(p, vec[w].alloc), UNCHANGED traits,
         heap' \in Heap,
         \A b \in Block \ {vec[v].start} : heap'[b] = heap[b],
         faults' \subseteq faults \cup Harmless
  PROVE  Inv'
<1> DEFINE r == [vec[w] EXCEPT !.alloc = p]
<1>1. /\ r \in VectorRecord /\ r.start = vec[w].start /\ r.finish = vec[w].finish
      /\ r.eos = vec[w].eos /\ r.alloc = p
  BY InvFacts DEF VectorRecord
<1>2. Holds(r, heap)
  BY <1>1, InvFacts DEF Holds, Equal
<1>3. \A u \in Vec \ {v} : Holds(vec[u], heap')
  <2> TAKE u \in Vec \ {v}
  <2>1. vec[u].start # Null => vec[u].start \in Block \ {vec[v].start}
    BY InvFacts DEF VectorRecord
  <2> QED
    BY <2>1, InvFacts, HoldsElsewhere
<1>4. Holds(r, heap')
  <2>1. vec[w].start # Null => vec[w].start \in Block \ {vec[v].start}
    BY InvFacts DEF VectorRecord
  <2> QED
    BY <1>1, <1>2, <2>1, HoldsElsewhere
<1>5. /\ Empty(vec[w].alloc) \in VectorRecord /\ Empty(vec[w].alloc).start = Null
      /\ Holds(Empty(vec[w].alloc), heap')
  BY InvFacts, EmptyHolds
<1>6. vec' = [vec EXCEPT ![v] = r, ![w] = Empty(vec[w].alloc)]
  BY InvFacts DEF Take
<1> HIDE DEF r
<1> QED
  BY <1>1, <1>3, <1>4, <1>5, <1>6, InvFacts, InvKept

LEMMA DestroyStep ==
  ASSUME Inv, NEW v \in Vec, Destroy(v)
  PROVE  Inv'
<1>1. /\ heap' = Released(heap, vec[v]) /\ vec' = [vec EXCEPT ![v] = Empty(vec[v].alloc)]
      /\ faults' = faults \cup OnRelease(heap, vec[v]) /\ UNCHANGED traits
  BY InvFacts DEF Destroy
<1>2. /\ heap' \in Heap /\ \A b \in Block \ {vec[v].start} : heap'[b] = heap[b]
      /\ OnRelease(heap, vec[v]) \subseteq Harmless
  BY <1>1, InvFacts, ReleasedBlock, ReleaseHarmless
<1>3. \A u \in Vec \ {v} : Holds(vec[u], heap')
  <2> TAKE u \in Vec \ {v}
  <2>1. vec[u].start # Null => vec[u].start \in Block \ {vec[v].start}
    BY InvFacts DEF VectorRecord
  <2> QED
    BY <1>2, <2>1, InvFacts, HoldsElsewhere
<1>4. /\ Empty(vec[v].alloc) \in VectorRecord /\ Empty(vec[v].alloc).start = Null
      /\ Holds(Empty(vec[v].alloc), heap')
  BY InvFacts, EmptyHolds
<1> QED
  BY <1>1, <1>2, <1>3, <1>4, InvFacts, InvKept

LEMMA MoveConstructStep ==
  ASSUME Inv, NEW v \in Vec, NEW w \in Vec, v # w, MoveConstruct(v, w)
  PROVE  Inv'
  BY InvFacts, TakeStep DEF MoveConstruct, Equal

LEMMA MoveConstructWithStep ==
  ASSUME Inv, NEW v \in Vec, NEW w \in Vec, v # w, NEW p \in Personality,
         MoveConstructWith(v, w, p)
  PROVE  Inv'
<1>1. CASE Equal(p, vec[w].alloc)
  BY <1>1, InvFacts, TakeStep DEF MoveConstructWith
<1>2. CASE ~Equal(p, vec[w].alloc)
  <2> DEFINE q == vec[w]
             gone == IF MoveIfNoexcept = "move" THEN 0 .. (q.finish - 1) ELSE {}
             h == [b \in Block |-> IF b = q.start
                     THEN [heap[b] EXCEPT !.cell = MovedAway(@, gone)] ELSE heap[b]]
             x == Cells(q, heap)
  <2>1. /\ Build("move_construct_with", <<v, w, p>>, v, p, q.eos, q.finish, x,
                 MoveIfNoexcept, h)
        /\ UNCHANGED <<faults, traits>>
    BY <1>2 DEF MoveConstructWith
  <2>2. x \in [Slot -> Cell] /\ \A s \in 0 .. (q.finish - 1) : x[s] # Raw
    BY InvFacts, CellsType, CellsLive
  <2>3. \A b \in Block : MovedAway(heap[b].cell, gone) \in [Slot -> Cell]
    BY InvFacts DEF MovedAway, Cell, Heap
  <2>4. \A s \in Slot : \A b \in Block :
          heap[b].cell[s] # Raw => MovedAway(heap[b].cell, gone)[s] # Raw
    BY TraitsAssumption DEF MovedAway
  <2> HIDE DEF gone
  <2>5. h \in Heap
    BY <2>3, InvFacts DEF Heap
  <2>6. \A b \in Block : /\ h[b].size = heap[b].size /\ h[b].by = heap[b].by
                         /\ \A s \in Slot : heap[b].cell[s] # Raw => h[b].cell[s] # Raw
    BY <2>4, InvFacts DEF Heap
  <2> HIDE DEF h
  <2>7. ASSUME NEW u \in Vec PROVE Holds(vec[u], h)
    <3>1. \A s \in 0 .. (vec[u].finish - 1) : s \in Slot
      BY InvFacts, TraitsAssumption DEF Slot
    <3> QED
      BY <2>6, <3>1, InvFacts DEF Holds, VectorRecord
  <2> HIDE DEF x
  <2> QED
    BY <2>1, <2>2, <2>5, <2>6, <2>7, InvFacts, BuildStep
<1> QED
  BY <1>1, <1>2

LEMMA MoveAssignTakesStep ==
  ASSUME Inv, NEW v \in Vec, NEW w \in Vec, v # w, MoveAssignTakes(v, w)
  PROVE  Inv'
<1>1. /\ heap' \in Heap /\ \A b \in Block \ {vec[v].start} : heap'[b] = heap[b]
      /\ faults' \subseteq faults \cup Harmless
  BY InvFacts, ReleasedBlock, ReleaseHarmless DEF MoveAssignTakes
<1> DEFINE p == IF traits.pocma THEN vec[w].alloc ELSE vec[v].alloc
<1>2. p \in Personality /\ Equal(p, vec[w].alloc)
  BY InvFacts DEF MoveAssignTakes, AlwaysTakes, Equal
<1> QED
  BY <1>1, <1>2, TakeStep DEF MoveAssignTakes

LEMMA SwapStep ==
  ASSUME Inv, NEW v \in Vec, NEW w \in Vec, v # w, Swap(v, w)
  PROVE  Inv'
<1> DEFINE r == [vec[w] EXCEPT !.alloc = IF traits.pocs THEN @ ELSE vec[v].alloc]
           q == [vec[v] EXCEPT !.alloc = IF traits.pocs THEN @ ELSE vec[w].alloc]
<1>1. /\ r \in VectorRecord /\ r.start = vec[w].start /\ r.finish = vec[w].finish
      /\ r.eos = vec[w].eos
      /\ r.alloc = IF traits.pocs THEN vec[w].alloc ELSE vec[v].alloc
  BY InvFacts DEF VectorRecord
<1>2. /\ q \in VectorRecord /\ q.start = vec[v].start /\ q.finish = vec[v].finish
      /\ q.eos = vec[v].eos
      /\ q.alloc = IF traits.pocs THEN vec[v].alloc ELSE vec[w].alloc
  BY InvFacts DEF VectorRecord
<1>3. Holds(r, heap) /\ Holds(q, heap)
  BY <1>1, <1>2, InvFacts DEF Holds, Swap, Swappable, Equal
<1>4. vec' = [vec EXCEPT ![v] = r, ![w] = q]
  BY DEF Swap
<1> HIDE DEF r, q
<1> QED
  BY <1>1, <1>2, <1>3, <1>4, InvFacts, InvKept DEF Swap

(* Released storage of v, and v without storage, in a heap that is         *)
(* otherwise the same.                                                     *)
LEMMA ReleasedElsewhere ==
  ASSUME NEW h \in Heap, NEW r \in VectorRecord, NEW u \in VectorRecord,
         Holds(u, h), u.start # Null => u.start # r.start
  PROVE  Holds(u, Released(h, r))
<1>1. u.start # Null => u.start \in Block \ {r.start}
  BY DEF VectorRecord
<1> QED
  BY <1>1, ReleasedBlock, HoldsElsewhere

(* The vector that copy assignment leaves to destroy can release its block,*)
(* and the other one can release its own one day.                          *)
LEMMA CopyAssignStep ==
  ASSUME Inv, CopiesMatch, NEW v \in Vec, NEW w \in Vec, v # w, CopyAssign(v, w)
  PROVE  Inv'
<1> DEFINE q == vec[w]
           p == IF traits.pocca THEN q.alloc ELSE vec[v].alloc
           r == IF DropsStorage(v, w) THEN Empty(p) ELSE [vec[v] EXCEPT !.alloc = p]
           h == IF DropsStorage(v, w) THEN Released(heap, vec[v]) ELSE heap
           f == IF DropsStorage(v, w) THEN OnRelease(heap, vec[v]) ELSE {}
<1>1. p \in Personality /\ p = IF traits.pocca THEN q.alloc ELSE vec[v].alloc
  BY InvFacts
<1>2. h \in Heap /\ f \in SUBSET Harmless
  BY InvFacts, ReleasedBlock, ReleaseHarmless
<1>3. \A u \in Vec \ {v} : Holds(vec[u], h)
  BY InvFacts, ReleasedElsewhere
<1>4. /\ r \in VectorRecord /\ Holds(r, h) /\ r.alloc = p
      /\ r.start # Null => r.start = vec[v].start
  <2>1. CASE DropsStorage(v, w)
    BY <1>1, <2>1, EmptyHolds DEF Empty
  <2>2. CASE ~DropsStorage(v, w)
    <3> DEFINE t == [vec[v] EXCEPT !.alloc = p]
    <3>1. /\ t \in VectorRecord /\ t.start = vec[v].start /\ t.finish = vec[v].finish
          /\ t.eos = vec[v].eos /\ t.alloc = p
      BY <1>1, InvFacts DEF VectorRecord
    <3>2. Holds(t, heap)
      BY <1>1, <2>2, <3>1, InvFacts DEF Holds, DropsStorage, Equal
    <3> QED
      BY <2>2, <3>1, <3>2
  <2> QED
    BY <2>1, <2>2
<1>5. \A u \in Vec \ {v} : r.start # Null => vec[u].start # r.start
  BY <1>4, InvFacts
<1>6. /\ traits \in Assignable /\ UNCHANGED traits
      /\ \/ q.finish <= r.eos /\ Overwrite("copy_assign", v, w, r, h, f, "copy")
         \/ /\ q.finish > r.eos
            /\ AllocationFails("copy_assign", <<v, w>>, h, q.finish, "copy")
            /\ vec' = [vec EXCEPT ![v] = r] /\ heap' = h /\ faults' = faults \cup f
         \/ /\ q.finish > r.eos
            /\ \E b \in FreeBlocks(h) :
                 LET s == Select(q.alloc)
                     temp == [r EXCEPT !.alloc = IF traits.pocs THEN p ELSE s]
                     this == Owning(b, q.finish, q.finish, IF traits.pocs THEN s ELSE p)
                     k == Allocated(h, b, q.finish, s, q.finish, Cells(q, h))
                 IN  /\ vec' = [vec EXCEPT ![v] = this]
                     /\ heap' = Released(k, temp)
                     /\ faults' = faults \cup f \cup OnRelease(k, temp)
  BY Zenon DEF CopyAssign
<1>7. q \in VectorRecord /\ Holds(q, h) /\ q.finish \in 0 .. MaxSize /\ MaxSize \in Nat
  BY <1>3, InvFacts, TraitsAssumption
<1> HIDE DEF p, r, h, f, q
<1>9. CASE q.finish <= r.eos /\ Overwrite("copy_assign", v, w, r, h, f, "copy")
  BY <1>2, <1>3, <1>4, <1>5, <1>6, <1>9, OverwriteStep DEF q
<1>10. CASE vec' = [vec EXCEPT ![v] = r] /\ heap' = h /\ faults' = faults \cup f
  BY <1>2, <1>3, <1>4, <1>5, <1>6, <1>10, InvFacts, InvKept
<1>11. ASSUME q.finish > r.eos, NEW b \in FreeBlocks(h),
          LET s == Select(q.alloc)
              temp == [r EXCEPT !.alloc = IF traits.pocs THEN p ELSE s]
              this == Owning(b, q.finish, q.finish, IF traits.pocs THEN s ELSE p)
              k == Allocated(h, b, q.finish, s, q.finish, Cells(q, h))
          IN  /\ vec' = [vec EXCEPT ![v] = this]
              /\ heap' = Released(k, temp)
              /\ faults' = faults \cup f \cup OnRelease(k, temp)
       PROVE  Inv'
  <2> DEFINE s == Select(q.alloc)
             temp == [r EXCEPT !.alloc = IF traits.pocs THEN p ELSE s]
             this == Owning(b, q.finish, q.finish, IF traits.pocs THEN s ELSE p)
             k == Allocated(h, b, q.finish, s, q.finish, Cells(q, h))
  <2>1. /\ vec' = [vec EXCEPT ![v] = this] /\ heap' = Released(k, temp)
        /\ faults' = faults \cup f \cup OnRelease(k, temp)
    BY <1>11
  <2>2. q.finish \in 1 .. MaxSize /\ q.finish \in 0 .. q.finish
    BY <1>4, <1>7, <1>11 DEF VectorRecord
  <2>3. s \in Personality
    BY InvFacts, TraitsAssumption DEF Select, q
  <2>4. Cells(q, h) \in [Slot -> Cell] /\ \A j \in 0 .. (q.finish - 1) : Cells(q, h)[j] # Raw
    BY <1>2, <1>7, CellsType, CellsLive
  <2>5. b \in Block /\ b # r.start /\ \A u \in Vec \ {v} : vec[u].start # b
    BY <1>2, <1>3, <1>4, InvFacts, FreeNotHeld
  <2>6. /\ k \in Heap /\ \A c \in Block \ {b} : k[c] = h[c]
        /\ Owning(b, q.finish, q.finish, s) \in VectorRecord
        /\ Owning(b, q.finish, q.finish, s).start = b
        /\ Holds(Owning(b, q.finish, q.finish, s), k)
    BY <1>2, <2>2, <2>3, <2>4, <2>5, AllocatedBlock
  <2>7. traits.always_equal \/ traits.pocs \/ s = p
    BY <1>1, <1>6 DEF CopiesMatch, Select
  <2> HIDE DEF s, k
  <2>8. this \in VectorRecord /\ this.start = b /\ Holds(this, k)
    <3>1. /\ this.start = b /\ this.finish = q.finish /\ this.eos = q.finish
          /\ this.alloc = IF traits.pocs THEN s ELSE p
      BY DEF Owning
    <3>2. this \in VectorRecord
      BY <1>1, <1>7, <2>3, <2>5 DEF Owning, VectorRecord
    <3> QED
      BY <2>6, <2>7, <3>1, <3>2 DEF Holds, Owning, Equal
  <2>9. /\ temp \in VectorRecord /\ temp.start = r.start /\ temp.finish = r.finish
        /\ temp.eos = r.eos /\ temp.alloc = IF traits.pocs THEN p ELSE s
    BY <1>1, <1>4, <2>3 DEF VectorRecord
  <2> HIDE DEF this, temp
  <2>10. Holds(r, k)
    <3>1. r.start # Null => r.start \in Block \ {b}
      BY <1>4, <2>5 DEF VectorRecord
    <3> QED
      BY <1>4, <2>6, <3>1, HoldsElsewhere
  <2>11. Holds(temp, k)
    BY <1>4, <2>7, <2>9, <2>10 DEF Holds, Equal
  <2>12. \A u \in Vec \ {v} : Holds(vec[u], k)
    <3> TAKE u \in Vec \ {v}
    <3>1. vec[u].start # Null => vec[u].start \in Block \ {b}
      BY <2>5, InvFacts DEF VectorRecord
    <3> QED
      BY <1>3, <2>6, <3>1, HoldsElsewhere
  <2>13. heap' \in Heap /\ OnRelease(k, temp) \subseteq Harmless
    BY <2>1, <2>6, <2>9, <2>11, ReleasedBlock, ReleaseHarmless
  <2>14. \A u \in Vec \ {v} : Holds(vec[u], heap')
    BY <1>5, <2>1, <2>6, <2>9, <2>12, InvFacts, ReleasedElsewhere
  <2>15. Holds(this, heap')
    BY <2>1, <2>5, <2>6, <2>8, <2>9, ReleasedElsewhere
  <2> QED
    BY <1>2, <1>6, <1>11, <2>1, <2>5, <2>8, <2>13, <2>14, <2>15, InvFacts, InvKept
<1> QED
  BY <1>6, <1>9, <1>10, <1>11

LEMMA MoveAssignElementsStep ==
  ASSUME Inv, NEW v \in Vec, NEW w \in Vec, v # w, MoveAssignElements(v, w)
  PROVE  Inv'
<1> DEFINE r == vec[v]
           n == vec[w].finish
<1>1. /\ r \in VectorRecord /\ Holds(r, heap) /\ heap \in Heap /\ r.alloc \in Personality
      /\ r.finish \in 0 .. r.eos /\ r.eos \in 0 .. MaxSize /\ MaxSize \in Nat
      /\ n \in 0 .. MaxSize
  BY InvFacts, TraitsAssumption
<1>2. UNCHANGED traits /\ {} \in SUBSET Harmless
  BY DEF MoveAssignElements
<1>3. CASE n <= r.eos /\ Overwrite("move_assign", v, w, r, heap, {}, MoveIfNoexcept)
  BY <1>1, <1>2, <1>3, InvFacts, OverwriteStep
<1>4. CASE /\ vec' = IF last'.threw = "bad_alloc" THEN vec
                     ELSE [vec EXCEPT ![v] = Empty(@.alloc)]
           /\ UNCHANGED <<heap, faults>>
  <2>1. /\ Empty(r.alloc) \in VectorRecord /\ Empty(r.alloc).start = Null
        /\ Holds(Empty(r.alloc), heap)
    BY <1>1, EmptyHolds
  <2>2. vec' = vec \/ vec' = [vec EXCEPT ![v] = Empty(r.alloc)]
    BY <1>4, InvFacts
  <2> QED
    BY <1>2, <1>4, <2>1, <2>2, InvFacts, InvKept
<1>5. ASSUME n > r.eos, NEW b \in FreeBlocks(heap),
             LET h == Allocated(heap, b, n, r.alloc, r.finish, Cells(r, heap))
             IN  Overwrite("move_assign", v, w, Owning(b, r.finish, n, r.alloc),
                           Released(h, r), OnRelease(heap, r), MoveIfNoexcept)
      PROVE  Inv'
  <2> DEFINE h == Allocated(heap, b, n, r.alloc, r.finish, Cells(r, heap))
             new == Owning(b, r.finish, n, r.alloc)
  <2>1. n \in 1 .. MaxSize /\ r.finish \in 0 .. n
    BY <1>1, <1>5
  <2>2. Cells(r, heap) \in [Slot -> Cell] /\ \A j \in 0 .. (r.finish - 1) : Cells(r, heap)[j] # Raw
    BY <1>1, CellsType, CellsLive
  <2>3. b \in Block /\ \A u \in Vec : vec[u].start # b
    BY <1>5, InvFacts, FreeNotHeld
  <2>4. /\ h \in Heap /\ \A c \in Block \ {b} : h[c] = heap[c]
        /\ new \in VectorRecord /\ new.start = b /\ Holds(new, h) /\ new.eos = n
    <3>1. new.eos = n
      BY DEF Owning
    <3> QED
      BY <1>1, <2>1, <2>2, <2>3, <3>1, AllocatedBlock
  <2>5. Overwrite("move_assign", v, w, new, Released(h, r), OnRelease(heap, r), MoveIfNoexcept)
    BY <1>5
  <2> HIDE DEF h, new
  <2>6. \A u \in Vec \ {v} : Holds(vec[u], h)
    <3> TAKE u \in Vec \ {v}
    <3>1. vec[u].start # Null => vec[u].start \in Block \ {b}
      BY <2>3, InvFacts DEF VectorRecord
    <3> QED
      BY <2>4, <3>1, InvFacts, HoldsElsewhere
  <2>7. Released(h, r) \in Heap /\ OnRelease(heap, r) \in SUBSET Harmless
    BY <1>1, <2>4, ReleasedBlock, ReleaseHarmless
  <2>8. Holds(new, Released(h, r))
    BY <1>1, <2>3, <2>4, ReleasedElsewhere
  <2>9. \A u \in Vec \ {v} : Holds(vec[u], Released(h, r))
    BY <1>1, <2>4, <2>6, InvFacts, ReleasedElsewhere
  <2>10. \A u \in Vec \ {v} : new.start # Null => vec[u].start # new.start
    BY <2>3, <2>4
  <2>11. vec[w].finish <= new.eos
    BY <1>1, <2>4
  <2> HIDE DEF r, n
  <2> QED
    BY <1>2, <2>4, <2>5, <2>7, <2>8, <2>9, <2>10, <2>11, OverwriteStep
<1> QED
  BY <1>3, <1>4, <1>5 DEF MoveAssignElements

(* At most c of the first c elements are kept.                             *)
LEMMA RankBound ==
  ASSUME NEW c \in Nat, NEW S \in SUBSET (0 .. (c - 1))
  PROVE  Cardinality(S) \in 0 .. c
<1>1. IsFiniteSet(0 .. (c - 1)) /\ Cardinality(0 .. (c - 1)) = c
  BY FS_Interval
<1>2. IsFiniteSet(S) /\ Cardinality(S) <= c
  BY <1>1, FS_Subset
<1> QED
  BY <1>2, FS_CardinalityType

LEMMA EraseIfStep ==
  ASSUME Inv, NEW v \in Vec, NEW S \in SUBSET Value, EraseIf(v, S)
  PROVE  Inv'
<1> DEFINE r == vec[v]
           x == Cells(r, heap)
           Kept(c) == {s \in 0 .. (c - 1) : x[s] \notin S}
           Rank(s) == Cardinality(Kept(s))
           Before(c) == [s \in Slot |->
             IF \E t \in Kept(c) : Rank(t) = s THEN x[CHOOSE t \in Kept(c) : Rank(t) = s]
             ELSE IF s \in Kept(c) THEN Moved ELSE x[s]]
           Cut(c) == [s \in Slot |-> IF Rank(c) <= s /\ s < c THEN Raw ELSE Before(c)[s]]
<1>1. /\ r \in VectorRecord /\ Holds(r, heap) /\ heap \in Heap
      /\ r.finish \in 0 .. r.eos /\ r.eos \in 0 .. MaxSize /\ MaxSize \in Nat
  BY InvFacts, TraitsAssumption
<1>2. PICK c \in 0 .. r.finish :
        IF c < r.finish
        THEN /\ heap' = [heap EXCEPT ![r.start].cell = Before(c)]
             /\ UNCHANGED vec
        ELSE /\ heap' = [heap EXCEPT ![r.start].cell = Cut(c)]
             /\ vec' = [vec EXCEPT ![v].finish = Rank(c)]
  BY Zenon DEF EraseIf
<1>3. r.start # Null /\ UNCHANGED <<faults, traits>>
  BY DEF EraseIf
<1>4. r.start \in Block
  BY <1>1, <1>3 DEF VectorRecord
<1>5. x \in [Slot -> Cell] /\ \A s \in 0 .. (r.finish - 1) : s \in Slot /\ x[s] # Raw
  BY <1>1, CellsType, CellsLive
<1>6. c \in Nat /\ Rank(c) \in 0 .. c
  BY <1>1, RankBound
<1>7. \A s \in Slot : /\ Before(c)[s] \in Cell
                      /\ s \in 0 .. (r.finish - 1) => Before(c)[s] # Raw
  <2> TAKE s \in Slot
  <2>1. CASE \E t \in Kept(c) : Rank(t) = s
    <3> DEFINE u == CHOOSE t \in Kept(c) : Rank(t) = s
    <3>1. u \in Kept(c)
      BY <2>1
    <3>2. u \in 0 .. (r.finish - 1)
      BY <1>1, <3>1
    <3>3. Before(c)[s] = x[u]
      BY <2>1
    <3> QED
      BY <1>5, <3>2, <3>3
  <2>2. CASE ~\E t \in Kept(c) : Rank(t) = s
    <3>1. Before(c)[s] = Moved \/ Before(c)[s] = x[s]
      BY <2>2
    <3> QED
      BY <1>5, <3>1, TraitsAssumption DEF Cell
  <2> QED
    BY <2>1, <2>2
<1>8. Before(c) \in [Slot -> Cell]
  BY <1>7
<1> HIDE DEF Before, Rank
<1>9. Cut(c) \in [Slot -> Cell] /\ \A s \in 0 .. (Rank(c) - 1) : s \in Slot /\ Cut(c)[s] # Raw
  BY <1>1, <1>5, <1>6, <1>7 DEF Cell
<1> HIDE DEF Cut
<1>10. CASE c < r.finish
  <2>1. heap' = [heap EXCEPT ![r.start].cell = Before(c)] /\ UNCHANGED vec
    BY <1>2, <1>10
  <2>2. heap' \in Heap /\ \A b \in Block \ {r.start} : heap'[b] = heap[b]
    BY <1>1, <1>4, <1>8, <2>1 DEF Heap
  <2>3. Holds(r, heap')
    BY <1>1, <1>3, <1>4, <1>5, <1>7, <2>1 DEF Holds, Heap, VectorRecord
  <2>4. \A u \in Vec \ {v} : Holds(vec[u], heap')
    <3> TAKE u \in Vec \ {v}
    <3>1. vec[u].start # Null => vec[u].start \in Block \ {r.start}
      BY <1>3, InvFacts DEF VectorRecord
    <3> QED
      BY <2>2, <3>1, InvFacts, HoldsElsewhere
  <2> QED
    BY <1>3, <2>1, <2>2, <2>3, <2>4, InvFacts, InvKept
<1>11. CASE c = r.finish
  <2> DEFINE q == [r EXCEPT !.finish = Rank(c)]
  <2>1. /\ heap' = [heap EXCEPT ![r.start].cell = Cut(c)]
        /\ vec' = [vec EXCEPT ![v] = q]
    BY <1>1, <1>2, <1>11, InvFacts
  <2>2. heap' \in Heap /\ \A b \in Block \ {r.start} : heap'[b] = heap[b]
    BY <1>1, <1>4, <1>9, <2>1 DEF Heap
  <2>3. /\ q \in VectorRecord /\ q.start = r.start /\ q.finish = Rank(c)
        /\ q.eos = r.eos /\ q.alloc = r.alloc
    BY <1>1, <1>6, <1>11 DEF VectorRecord
  <2>4. Holds(q, heap')
    BY <1>1, <1>3, <1>4, <1>6, <1>9, <1>11, <2>1, <2>3 DEF Holds, Heap, VectorRecord
  <2>5. \A u \in Vec \ {v} : Holds(vec[u], heap')
    <3> TAKE u \in Vec \ {v}
    <3>1. vec[u].start # Null => vec[u].start \in Block \ {r.start}
      BY <1>3, InvFacts DEF VectorRecord
    <3> QED
      BY <2>2, <3>1, InvFacts, HoldsElsewhere
  <2> HIDE DEF q
  <2>6. vec' \in [Vec -> VectorRecord] /\ \A u \in Vec : Holds(vec'[u], heap')
    BY <2>1, <2>3, <2>4, <2>5, InvFacts
  <2>7. \A u, w \in Vec : u # w /\ vec'[u].start # Null => vec'[w].start # vec'[u].start
    BY <2>1, <2>3, InvFacts
  <2> QED
    BY <1>3, <2>1, <2>2, <2>6, <2>7, InvKept
<1> QED
  BY <1>1, <1>10, <1>11

-----------------------------------------------------------------------------

LEMMA InitInv == Init => Inv
<1> SUFFICES ASSUME Init PROVE Inv
  OBVIOUS
<1>1. PICK p \in [Vec -> Personality] : vec = [v \in Vec |-> Empty(p[v])]
  BY DEF Init
<1>2. \A v \in Vec : vec[v] \in VectorRecord /\ vec[v].start = Null /\ Holds(vec[v], heap)
  BY <1>1, EmptyHolds
<1>3. heap \in Heap
  BY FreeType DEF Init, Heap
<1> QED
  BY <1>1, <1>2, <1>3 DEF Init, Inv, TypeOK, StorageOwned, NoMisuse

LEMMA NextInv == CopiesMatch /\ Inv /\ [Next]_vars => Inv'
<1> SUFFICES ASSUME CopiesMatch, Inv, [Next]_vars PROVE Inv'
  OBVIOUS
<1>1. ASSUME NEW v \in Vec, NEW w \in Vec, v # w, CopyConstruct(v, w) PROVE Inv'
  <2>1. Select(vec[w].alloc) \in Personality
    BY InvFacts, TraitsAssumption DEF Select
  <2> QED
    BY <1>1, <2>1, CopyConstructStep DEF CopyConstruct
<1>2. ASSUME NEW v \in Vec, NEW w \in Vec, NEW p \in Personality,
             CopyConstructWith(v, w, p)
      PROVE  Inv'
  BY <1>2, CopyConstructStep DEF CopyConstructWith
<1>3. CASE UNCHANGED vars
  BY <1>3, InvFacts, InvKept DEF vars, Inv, TypeOK
<1> QED
  BY <1>1, <1>2, <1>3, DestroyStep, ConstructStep, EraseIfStep,
     MoveConstructStep, MoveConstructWithStep, CopyAssignStep, MoveAssignTakesStep,
     MoveAssignElementsStep, SwapStep DEF Next

(* Types, for any number of vectors and blocks.                            *)
THEOREM VectorTypes == CopiesMatch => (Spec => []TypeOK)
<1> SUFFICES ASSUME CopiesMatch PROVE Spec => []TypeOK
  OBVIOUS
<1>1. Inv => TypeOK
  BY DEF Inv
<1>2. Inv /\ [Next]_vars => Inv'
  BY NextInv
<1> QED
  BY InitInv, <1>1, <1>2, PTL DEF Spec

(* Through any sequence of constructions, assignments, swaps and removals, *)
(* thrown out of wherever they may be, every vector holds a block of its   *)
(* own that its allocator may release.                                     *)
THEOREM OwnStorage == CopiesMatch => (Spec => []StorageOwned)
<1> SUFFICES ASSUME CopiesMatch PROVE Spec => []StorageOwned
  OBVIOUS
<1>1. Inv => StorageOwned
  BY DEF Inv
<1>2. Inv /\ [Next]_vars => Inv'
  BY NextInv
<1> QED
  BY InitInv, <1>1, <1>2, PTL DEF Spec

(* No block is released with another allocator or size, and no element is  *)
(* read, assigned or destroyed where there is none.                        *)
THEOREM NothingMisused == CopiesMatch => (Spec => []NoMisuse)
<1> SUFFICES ASSUME CopiesMatch PROVE Spec => []NoMisuse
  OBVIOUS
<1>1. Inv => NoMisuse
  BY DEF Inv
<1>2. Inv /\ [Next]_vars => Inv'
  BY NextInv
<1> QED
  BY InitInv, <1>1, <1>2, PTL DEF Spec

-----------------------------------------------------------------------------
(* Lost blocks.                                                            *)

(* No block is lost or found by a step that changes the size of a block    *)
(* only if a vector holds it before and none after, or the reverse.        *)
LEMMA LeakedKept ==
  ASSUME \A b \in Block :
           (heap'[b].size > 0 /\ \A u \in Vec : vec'[u].start # b)
           <=> (heap[b].size > 0 /\ \A u \in Vec : vec[u].start # b)
  PROVE  Leaked' = Leaked
  BY DEF Leaked

LEMMA AllocatedSizes ==
  ASSUME NEW h \in Heap, NEW b \in Block, NEW cap, NEW p, NEW n, NEW cell, NEW c \in Block
  PROVE  Allocated(h, b, cap, p, n, cell)[c].size = IF c = b THEN cap ELSE h[c].size
<1> DEFINE new == [size |-> cap, by |-> p,
                   cell |-> [s \in Slot |-> IF s < n THEN cell[s] ELSE Raw]]
<1>1. Allocated(h, b, cap, p, n, cell) = [h EXCEPT ![b] = new]
  BY DEF Allocated
<1>2. new.size = cap
  OBVIOUS
<1> HIDE DEF new
<1> QED
  BY <1>1, <1>2 DEF Heap

LEMMA ReleasedSizes ==
  ASSUME NEW h, NEW r, DOMAIN h = Block, NEW c \in Block
  PROVE  Released(h, r)[c].size = IF c = r.start /\ r.start # Null THEN 0 ELSE h[c].size
<1>1. Free.size = 0
  BY DEF Free
<1>2. CASE r.start = Null
  BY <1>2 DEF Released
<1>3. CASE r.start # Null
  <2>1. Released(h, r) = [h EXCEPT ![r.start] = Free]
    BY <1>3 DEF Released
  <2>2. Released(h, r)[c] = IF c = r.start THEN Free ELSE h[c]
    BY <2>1
  <2> QED
    BY <1>1, <1>3, <2>2
<1> QED
  BY <1>2, <1>3

LEMMA OverwriteSizes ==
  ASSUME Inv, NEW v \in Vec, NEW w \in Vec, NEW op, NEW how,
         NEW f \in SUBSET Harmless, NEW r \in VectorRecord, NEW h \in Heap,
         Overwrite(op, v, w, r, h, f, how)
  PROVE  /\ \A b \in Block : heap'[b].size = h[b].size
         /\ \A u \in Vec : vec'[u].start = IF u = v THEN r.start ELSE vec[u].start
<1> DEFINE q == vec[w]
           n == q.finish
           x == Cells(q, h)
           y == Cells(r, h)
           gone(c) == IF op # "move_assign" THEN {}
                      ELSE {s \in 0 .. (c - 1) : s < r.finish \/ how = "move"}
           cell(c) == [s \in Slot |-> IF s < c THEN x[s]
                                     ELSE IF c = n /\ s < r.finish THEN Raw ELSE y[s]]
<1>1. PICK c \in 0 .. n :
        /\ heap' = [b \in Block |->
             IF b = r.start THEN [h[b] EXCEPT !.cell = cell(c)]
             ELSE IF b = q.start THEN [h[b] EXCEPT !.cell = MovedAway(x, gone(c))]
             ELSE h[b]]
        /\ vec' = [vec EXCEPT ![v] = IF c = n THEN [r EXCEPT !.finish = n] ELSE r]
  BY Zenon DEF Overwrite
<1> HIDE DEF cell, gone, x, y
<1>2. \A b \in Block : heap'[b].size = h[b].size
  BY <1>1 DEF Heap
<1>3. [r EXCEPT !.finish = vec[w].finish].start = r.start
  BY DEF VectorRecord
<1> QED
  BY <1>1, <1>2, <1>3, InvFacts

LEMMA BuildLeaks ==
  ASSUME Inv, NEW v \in Vec, Vacant(v), NEW op, NEW args, NEW p, NEW cap, NEW n, NEW cell,
         NEW how, NEW h \in Heap, \A b \in Block : h[b].size = heap[b].size,
         Build(op, args, v, p, cap, n, cell, how, h)
  PROVE  Leaked' = Leaked
<1>1. CASE UNCHANGED <<vec, heap>>
  BY <1>1, LeakedKept
<1>2. CASE vec' = [vec EXCEPT ![v] = Empty(p)] /\ UNCHANGED heap
  BY <1>2, InvFacts, TwoVectorsAssumption, LeakedKept DEF Empty, Vacant
<1>3. ASSUME cap > 0, NEW b \in FreeBlocks(heap),
             vec' = [vec EXCEPT ![v] = Owning(b, n, cap, p)],
             heap' = Allocated(h, b, cap, p, n, cell)
      PROVE  Leaked' = Leaked
  <2>1. b \in Block /\ heap[b].size = 0
    BY <1>3 DEF FreeBlocks
  <2>2. \A c \in Block : heap'[c].size = IF c = b THEN cap ELSE heap[c].size
    BY <1>3, <2>1, AllocatedSizes
  <2>3. \A u \in Vec : vec'[u].start = IF u = v THEN b ELSE vec[u].start
    BY <1>3, InvFacts DEF Owning
  <2>4. vec[v].start = Null /\ ~(0 > 0)
    BY DEF Vacant
  <2> QED
    BY <2>1, <2>2, <2>3, <2>4, TwoVectorsAssumption, LeakedKept
<1> QED
  BY <1>1, <1>2, <1>3 DEF Build

LEMMA CopyAssignLeaks ==
  ASSUME Inv, NEW v \in Vec, NEW w \in Vec, v # w, CopyAssign(v, w)
  PROVE  Leaked' = Leaked
<1> DEFINE q == vec[w]
           p == IF traits.pocca THEN q.alloc ELSE vec[v].alloc
           r == IF DropsStorage(v, w) THEN Empty(p) ELSE [vec[v] EXCEPT !.alloc = p]
           h == IF DropsStorage(v, w) THEN Released(heap, vec[v]) ELSE heap
           f == IF DropsStorage(v, w) THEN OnRelease(heap, vec[v]) ELSE {}
<1>1. p \in Personality
  BY InvFacts
<1>2. /\ r \in VectorRecord /\ h \in Heap /\ f \in SUBSET Harmless
      /\ \/ /\ r.start = Null
            /\ \A c \in Block : h[c].size =
                 IF c = vec[v].start /\ vec[v].start # Null THEN 0 ELSE heap[c].size
         \/ r.start = vec[v].start /\ h = heap
  <2>1. CASE DropsStorage(v, w)
    <3>1. Empty(p) \in VectorRecord /\ Empty(p).start = Null
      BY <1>1, EmptyHolds
    <3>2. \A c \in Block : Released(heap, vec[v])[c].size =
            IF c = vec[v].start /\ vec[v].start # Null THEN 0 ELSE heap[c].size
      BY InvFacts, ReleasedSizes DEF Heap
    <3> QED
      BY <2>1, <3>1, <3>2, InvFacts, ReleasedBlock, ReleaseHarmless
  <2>2. CASE ~DropsStorage(v, w)
    BY <1>1, <2>2, InvFacts DEF VectorRecord
  <2> QED
    BY <2>1, <2>2
<1>3. \/ Overwrite("copy_assign", v, w, r, h, f, "copy")
      \/ vec' = [vec EXCEPT ![v] = r] /\ heap' = h
      \/ \E b \in FreeBlocks(h) :
           LET s == Select(q.alloc)
               temp == [r EXCEPT !.alloc = IF traits.pocs THEN p ELSE s]
               this == Owning(b, q.finish, q.finish, IF traits.pocs THEN s ELSE p)
               k == Allocated(h, b, q.finish, s, q.finish, Cells(q, h))
           IN  /\ vec' = [vec EXCEPT ![v] = this] /\ heap' = Released(k, temp)
               /\ q.finish > r.eos
  BY Zenon DEF CopyAssign
<1>4. q.finish \in Nat /\ r.eos \in Nat
  BY <1>2, InvFacts, TraitsAssumption DEF VectorRecord
<1> HIDE DEF r, h, f
<1>5. ASSUME \A c \in Block : heap'[c].size = h[c].size,
             \A u \in Vec : vec'[u].start = IF u = v THEN r.start ELSE vec[u].start
      PROVE  Leaked' = Leaked
  <2>1. CASE r.start = vec[v].start /\ h = heap
    BY <1>5, <2>1, LeakedKept
  <2>2. CASE /\ r.start = Null
             /\ \A c \in Block : h[c].size =
                  IF c = vec[v].start /\ vec[v].start # Null THEN 0 ELSE heap[c].size
    <3>1. ASSUME NEW c \in Block
          PROVE  (heap'[c].size > 0 /\ \A u \in Vec : vec'[u].start # c)
                 <=> (heap[c].size > 0 /\ \A u \in Vec : vec[u].start # c)
      BY <1>5, <2>2, TwoVectorsAssumption, InvFacts
    <3> QED
      BY <3>1, LeakedKept
  <2> QED
    BY <1>2, <2>1, <2>2
<1>6. CASE Overwrite("copy_assign", v, w, r, h, f, "copy")
  <2>1. /\ \A c \in Block : heap'[c].size = h[c].size
        /\ \A u \in Vec : vec'[u].start = IF u = v THEN r.start ELSE vec[u].start
    <3> HIDE DEF q
    <3> QED
      BY <1>2, <1>6, OverwriteSizes
  <2> QED
    BY <1>5, <2>1
<1>7. CASE vec' = [vec EXCEPT ![v] = r] /\ heap' = h
  BY <1>5, <1>7, InvFacts
<1>8. ASSUME NEW b \in FreeBlocks(h),
             LET s == Select(q.alloc)
                 temp == [r EXCEPT !.alloc = IF traits.pocs THEN p ELSE s]
                 this == Owning(b, q.finish, q.finish, IF traits.pocs THEN s ELSE p)
                 k == Allocated(h, b, q.finish, s, q.finish, Cells(q, h))
             IN  /\ vec' = [vec EXCEPT ![v] = this] /\ heap' = Released(k, temp)
                 /\ q.finish > r.eos
      PROVE  Leaked' = Leaked
  <2> DEFINE s == Select(q.alloc)
             temp == [r EXCEPT !.alloc = IF traits.pocs THEN p ELSE s]
             k == Allocated(h, b, q.finish, s, q.finish, Cells(q, h))
  <2>1. /\ vec' = [vec EXCEPT ![v] = Owning(b, q.finish, q.finish, IF traits.pocs THEN s ELSE p)]
        /\ heap' = Released(k, temp) /\ q.finish > 0
    BY <1>4, <1>8
  <2>2. b \in Block /\ h[b].size = 0 /\ temp.start = r.start /\ DOMAIN k = Block
    BY <1>2 DEF FreeBlocks, VectorRecord, Heap, Allocated
  <2>3. \A c \in Block : k[c].size = IF c = b THEN q.finish ELSE h[c].size
    BY <1>2, <2>2, AllocatedSizes
  <2> HIDE DEF k, temp
  <2>4. \A c \in Block : heap'[c].size = IF c = r.start /\ r.start # Null THEN 0
                                         ELSE IF c = b THEN q.finish ELSE h[c].size
    BY <2>1, <2>2, <2>3, ReleasedSizes
  <2>5. \A u \in Vec : vec'[u].start = IF u = v THEN b ELSE vec[u].start
    BY <2>1, InvFacts DEF Owning
  <2>6. \A u \in Vec : vec[u].start # Null => vec[u].start \in Block
    BY InvFacts DEF VectorRecord
  <2>7. ASSUME NEW c \in Block
        PROVE  (heap'[c].size > 0 /\ \A u \in Vec : vec'[u].start # c)
               <=> (heap[c].size > 0 /\ \A u \in Vec : vec[u].start # c)
    <3>1. CASE c = b
      <4>1. heap[c].size = 0 \/ c = vec[v].start
        BY <1>2, <2>2, <3>1
      <4> QED
        BY <2>5, <3>1, <4>1
    <3>2. CASE c # b
      BY <1>2, <2>4, <2>5, <3>2, TwoVectorsAssumption, InvFacts
    <3> QED
      BY <3>1, <3>2
  <2> QED
    BY <2>7, LeakedKept
<1> QED
  BY <1>3, <1>6, <1>7, <1>8

LEMMA MoveAssignElementsLeaks ==
  ASSUME Inv, NEW v \in Vec, NEW w \in Vec, v # w, MoveAssignElements(v, w),
         last'.threw # "exception"
  PROVE  Leaked' = Leaked
<1> DEFINE r == vec[v]
           n == vec[w].finish
<1>1. r \in VectorRecord /\ heap \in Heap /\ n \in Nat /\ r.eos \in Nat /\ r.alloc \in Personality
  BY InvFacts, TraitsAssumption
<1>2. CASE Overwrite("move_assign", v, w, r, heap, {}, MoveIfNoexcept)
  <2>1. /\ \A b \in Block : heap'[b].size = heap[b].size
        /\ \A u \in Vec : vec'[u].start = IF u = v THEN r.start ELSE vec[u].start
    <3> HIDE DEF r
    <3>1. {} \in SUBSET Harmless
      OBVIOUS
    <3> QED
      BY <1>1, <1>2, <3>1, OverwriteSizes
  <2> QED
    BY <2>1, LeakedKept
<1>3. CASE /\ AllocationFails("move_assign", <<v, w>>, heap, r.finish, MoveIfNoexcept)
           /\ vec' = IF last'.threw = "bad_alloc" THEN vec
                     ELSE [vec EXCEPT ![v] = Empty(@.alloc)]
           /\ UNCHANGED <<heap, faults>>
  <2>1. last'.threw = "bad_alloc"
    BY <1>3 DEF AllocationFails, Throws
  <2> QED
    BY <1>3, <2>1, LeakedKept
<1>4. ASSUME n > r.eos, NEW b \in FreeBlocks(heap),
             LET h == Allocated(heap, b, n, r.alloc, r.finish, Cells(r, heap))
             IN  Overwrite("move_assign", v, w, Owning(b, r.finish, n, r.alloc),
                           Released(h, r), OnRelease(heap, r), MoveIfNoexcept)
      PROVE  Leaked' = Leaked
  <2> DEFINE h == Allocated(heap, b, n, r.alloc, r.finish, Cells(r, heap))
             new == Owning(b, r.finish, n, r.alloc)
  <2>1. n \in 1 .. MaxSize /\ r.finish \in 0 .. n /\ MaxSize \in Nat
    BY <1>1, <1>4, InvFacts, TraitsAssumption
  <2>2. Cells(r, heap) \in [Slot -> Cell] /\ \A j \in 0 .. (r.finish - 1) : Cells(r, heap)[j] # Raw
    BY <1>1, InvFacts, CellsType, CellsLive
  <2>3. b \in Block /\ heap[b].size = 0
    BY <1>4 DEF FreeBlocks
  <2>4. h \in Heap /\ new \in VectorRecord /\ new.start = b
    BY <1>1, <2>1, <2>2, <2>3, AllocatedBlock
  <2>5. \A c \in Block : h[c].size = IF c = b THEN n ELSE heap[c].size
    BY <1>1, <2>3, AllocatedSizes
  <2>6. Overwrite("move_assign", v, w, new, Released(h, r), OnRelease(heap, r), MoveIfNoexcept)
    BY <1>4
  <2> HIDE DEF h, new
  <2>7. /\ Released(h, r) \in Heap /\ OnRelease(heap, r) \in SUBSET Harmless
        /\ \A c \in Block : Released(h, r)[c].size =
             IF c = r.start /\ r.start # Null THEN 0 ELSE h[c].size
    BY <1>1, <2>4, InvFacts, ReleasedBlock, ReleasedSizes, ReleaseHarmless DEF Heap
  <2>8. /\ \A c \in Block : heap'[c].size = Released(h, r)[c].size
        /\ \A u \in Vec : vec'[u].start = IF u = v THEN new.start ELSE vec[u].start
    BY <2>4, <2>6, <2>7, OverwriteSizes
  <2>9. /\ \A c \in Block : heap'[c].size = IF c = r.start /\ r.start # Null THEN 0
                                            ELSE IF c = b THEN n ELSE heap[c].size
        /\ \A u \in Vec : vec'[u].start = IF u = v THEN b ELSE vec[u].start
    BY <2>4, <2>5, <2>7, <2>8
  <2>10. ASSUME NEW c \in Block
         PROVE  (heap'[c].size > 0 /\ \A u \in Vec : vec'[u].start # c)
                <=> (heap[c].size > 0 /\ \A u \in Vec : vec[u].start # c)
    <3>1. CASE c = b
      BY <2>3, <2>9, <3>1
    <3>2. CASE c # b
      BY <2>9, <3>2, TwoVectorsAssumption, InvFacts
    <3> QED
      BY <3>1, <3>2
  <2> QED
    BY <2>10, LeakedKept
<1> QED
  BY <1>2, <1>3, <1>4 DEF MoveAssignElements

LEMMA NextLeaks ==
  ASSUME Inv, [Next]_vars, last'.threw # "exception"
  PROVE  Leaked' = Leaked
<1>1. ASSUME NEW v \in Vec, Destroy(v) PROVE Leaked' = Leaked
  <2>1. /\ \A c \in Block : heap'[c].size =
               IF c = vec[v].start /\ vec[v].start # Null THEN 0 ELSE heap[c].size
        /\ \A u \in Vec : vec'[u].start = IF u = v THEN Null ELSE vec[u].start
    BY <1>1, InvFacts, ReleasedSizes DEF Destroy, Empty, Heap
  <2> QED
    BY <2>1, TwoVectorsAssumption, InvFacts, LeakedKept
<1>2. ASSUME NEW v \in Vec, NEW x, NEW p, Construct(v, x, p) PROVE Leaked' = Leaked
  BY <1>2, InvFacts, BuildLeaks DEF Construct
<1>3. ASSUME NEW v \in Vec, NEW S \in SUBSET Value, EraseIf(v, S) PROVE Leaked' = Leaked
  <2>1. PICK cell, n : /\ heap' = [heap EXCEPT ![vec[v].start].cell = cell]
                       /\ vec' = vec \/ vec' = [vec EXCEPT ![v].finish = n]
    BY <1>3, Zenon DEF EraseIf
  <2>2. \A c \in Block : heap'[c].size = heap[c].size
    BY <2>1, InvFacts DEF Heap
  <2>3. \A u \in Vec : vec'[u].start = vec[u].start
    BY <2>1, InvFacts DEF VectorRecord
  <2> QED
    BY <2>2, <2>3, LeakedKept
<1>4. ASSUME NEW v \in Vec, NEW w \in Vec, NEW p, NEW op, NEW args,
             CopyFrom(op, args, v, w, p)
      PROVE  Leaked' = Leaked
  BY <1>4, InvFacts, BuildLeaks DEF CopyFrom
<1>5. ASSUME NEW v \in Vec, NEW w \in Vec, v # w, NEW p, NEW k, Take(v, w, p),
             k = heap \/ k = Released(heap, vec[v]), heap' = k
      PROVE  Vacant(v) \/ k = Released(heap, vec[v]) => Leaked' = Leaked
  <2>1. \A u \in Vec : vec'[u].start = IF u = w THEN Null
                                      ELSE IF u = v THEN vec[w].start ELSE vec[u].start
    <3>1. [vec[w] EXCEPT !.alloc = p].start = vec[w].start
      BY InvFacts DEF VectorRecord
    <3>2. Empty(vec[w].alloc).start = Null
      BY DEF Empty
    <3> QED
      BY <1>5, <3>1, <3>2, InvFacts DEF Take
  <2>2. CASE Vacant(v) /\ k = heap
    BY <1>5, <2>1, <2>2, TwoVectorsAssumption, LeakedKept DEF Vacant
  <2>3. CASE k = Released(heap, vec[v])
    <3>1. \A c \in Block : heap'[c].size =
            IF c = vec[v].start /\ vec[v].start # Null THEN 0 ELSE heap[c].size
      BY <1>5, <2>3, InvFacts, ReleasedSizes DEF Heap
    <3> QED
      BY <1>5, <2>1, <3>1, TwoVectorsAssumption, InvFacts, LeakedKept
  <2> QED
    BY <1>5, <2>2, <2>3
<1>6. ASSUME NEW v \in Vec, NEW w \in Vec, v # w, MoveConstruct(v, w) PROVE Leaked' = Leaked
  BY <1>5, <1>6 DEF MoveConstruct
<1>7. ASSUME NEW v \in Vec, NEW w \in Vec, v # w, NEW p \in Personality,
             MoveConstructWith(v, w, p)
      PROVE  Leaked' = Leaked
  <2>1. CASE Equal(p, vec[w].alloc)
    BY <1>5, <1>7, <2>1 DEF MoveConstructWith
  <2>2. CASE ~Equal(p, vec[w].alloc)
    <3> DEFINE q == vec[w]
               gone == IF MoveIfNoexcept = "move" THEN 0 .. (q.finish - 1) ELSE {}
               h == [b \in Block |-> IF b = q.start
                       THEN [heap[b] EXCEPT !.cell = MovedAway(@, gone)] ELSE heap[b]]
    <3>1. Vacant(v) /\ Build("move_construct_with", <<v, w, p>>, v, p, q.eos, q.finish,
                             Cells(q, heap), MoveIfNoexcept, h)
      BY <1>7, <2>2 DEF MoveConstructWith
    <3>2. \A b \in Block : MovedAway(heap[b].cell, gone) \in [Slot -> Cell]
      BY InvFacts DEF MovedAway, Cell, Heap
    <3> HIDE DEF gone
    <3>3. h \in Heap /\ \A b \in Block : h[b].size = heap[b].size
      BY <3>2, InvFacts DEF Heap
    <3> HIDE DEF h
    <3> QED
      BY <3>1, <3>3, BuildLeaks
  <2> QED
    BY <2>1, <2>2
<1>8. ASSUME NEW v \in Vec, NEW w \in Vec, v # w, MoveAssignTakes(v, w) PROVE Leaked' = Leaked
  BY <1>5, <1>8 DEF MoveAssignTakes
<1>9. ASSUME NEW v \in Vec, NEW w \in Vec, v # w, Swap(v, w) PROVE Leaked' = Leaked
  <2>1. \A u \in Vec : vec'[u].start = IF u = v THEN vec[w].start
                                      ELSE IF u = w THEN vec[v].start ELSE vec[u].start
    BY <1>9, InvFacts DEF Swap, VectorRecord
  <2>2. UNCHANGED heap
    BY <1>9 DEF Swap
  <2> QED
    BY <1>9, <2>1, <2>2, LeakedKept
<1>10. ASSUME NEW v \in Vec, NEW w \in Vec, v # w, CopyAssign(v, w) PROVE Leaked' = Leaked
  BY <1>10, CopyAssignLeaks
<1>11. ASSUME NEW v \in Vec, NEW w \in Vec, v # w, MoveAssignElements(v, w)
       PROVE  Leaked' = Leaked
  BY <1>11, MoveAssignElementsLeaks
<1>12. CASE UNCHANGED vars
  BY <1>12, LeakedKept DEF vars
<1> QED
  BY <1>1, <1>2, <1>3, <1>4, <1>6, <1>7, <1>8, <1>9, <1>10, <1>11, <1>12
     DEF Next, CopyConstruct, CopyConstructWith

(* What no exception of an element has interrupted loses no block.         *)
THEOREM BlocksKept == CopiesMatch => (Spec => OnlyElementsLoseBlocks)
<1> SUFFICES ASSUME CopiesMatch PROVE Spec => OnlyElementsLoseBlocks
  OBVIOUS
<1>1. Inv /\ [Next]_vars => Inv'
  BY NextInv
<1>2. Inv /\ [Next]_vars => [Leaked' # Leaked => last'.threw = "exception"]_vars
  BY NextLeaks
<1> QED
  BY InitInv, <1>1, <1>2, PTL DEF Spec, OnlyElementsLoseBlocks

-----------------------------------------------------------------------------
(* Comparisons.                                                            *)

(* What the operators of the element type have to be: < asymmetric, == of a*)
(* type with <=> symmetric and apart from <, and == of a type without <=>  *)
(* true where neither operand is less.                                     *)
SoundComparisons ==
  \A t \in ElementTypes : \A x, y \in Value :
    /\ <<x, y>> \in t.less => <<y, x>> \notin t.less
    /\ t.three_way /\ <<x, y>> \in t.same => <<y, x>> \in t.same /\ <<x, y>> \notin t.less
    /\ t.equality /\ ~t.three_way =>
         (<<x, y>> \in t.same <=> <<x, y>> \notin t.less /\ <<y, x>> \notin t.less)

(* == and synth_three_way of two elements agree, and exchange with them.   *)
LEMMA ElementsAgree ==
  ASSUME SoundComparisons, NEW t \in ElementTypes, NEW x \in Value, NEW y \in Value
  PROVE  /\ SameElement(t, x, y) <=> SynthThreeWay(t, x, y) = "equivalent"
         /\ SynthThreeWay(t, x, y) = "less" <=> SynthThreeWay(t, y, x) = "greater"
         /\ SynthThreeWay(t, x, y) = "equivalent" <=> SynthThreeWay(t, y, x) = "equivalent"
<1>1. t.three_way \in BOOLEAN /\ t.equality \in BOOLEAN
  BY ElementAssumption
<1>2. /\ <<x, y>> \in t.less => <<y, x>> \notin t.less
      /\ t.three_way /\ <<x, y>> \in t.same => <<y, x>> \in t.same /\ <<x, y>> \notin t.less
      /\ t.three_way /\ <<y, x>> \in t.same => <<x, y>> \in t.same /\ <<y, x>> \notin t.less
      /\ t.equality /\ ~t.three_way =>
           (<<x, y>> \in t.same <=> <<x, y>> \notin t.less /\ <<y, x>> \notin t.less)
  BY DEF SoundComparisons
<1>3. CASE t.three_way
  <2>1. /\ ThreeWay(t, x, y) = "equivalent" <=> <<x, y>> \in t.same
        /\ ThreeWay(t, y, x) = "equivalent" <=> <<y, x>> \in t.same
        /\ ThreeWay(t, x, y) = "less" <=> <<x, y>> \in t.less
        /\ ThreeWay(t, y, x) = "greater" <=> <<x, y>> \in t.less
    BY <1>2, <1>3 DEF ThreeWay
  <2> QED
    BY <1>1, <1>2, <1>3, <2>1 DEF SameElement, SynthThreeWay
<1>4. CASE ~t.three_way
  <2>1. /\ SynthThreeWay(t, x, y) = "equivalent" <=>
             <<x, y>> \notin t.less /\ <<y, x>> \notin t.less
        /\ SynthThreeWay(t, y, x) = "equivalent" <=>
             <<x, y>> \notin t.less /\ <<y, x>> \notin t.less
        /\ SynthThreeWay(t, x, y) = "less" <=> <<x, y>> \in t.less
        /\ SynthThreeWay(t, y, x) = "greater" <=> <<x, y>> \in t.less
    BY <1>2, <1>4 DEF SynthThreeWay
  <2>2. SameElement(t, x, y) <=> <<x, y>> \notin t.less /\ <<y, x>> \notin t.less
    BY <1>1, <1>2, <1>4 DEF SameElement
  <2> QED
    BY <2>1, <2>2
<1> QED
  BY <1>3, <1>4

(* The least of some numbers has the smallest initial segment.             *)
LEMMA Smallest ==
  ASSUME NEW S \in SUBSET Nat, S # {}
  PROVE  \E k \in S : \A j \in S : k <= j
<1> DEFINE Below(k) == {j \in S : j <= k}
           T == {Below(k) : k \in S}
<1>1. T \subseteq FiniteSubsetsOf(Nat) /\ T # {}
  <2>1. ASSUME NEW k \in S PROVE Below(k) \in FiniteSubsetsOf(Nat)
    <3>1. Below(k) \in SUBSET Nat /\ \A j \in Below(k) : j <= k
      OBVIOUS
    <3>2. IsFiniteSet(Below(k))
      BY <3>1, FS_BoundedSetOfNaturals
    <3> QED
      BY <3>1, <3>2 DEF FiniteSubsetsOf
  <2> QED
    BY <2>1
<1>2. PICK B \in T : \A C \in T : <<C, B>> \notin StrictSubsetOrdering(Nat)
  BY <1>1, FS_StrictSubsetOrderingWellFounded, WFMin
<1>3. PICK k \in S : B = Below(k)
  BY <1>2
<1>4. ASSUME NEW j \in S PROVE k <= j
  <2>1. SUFFICES ASSUME j < k PROVE FALSE
    OBVIOUS
  <2>2. Below(j) \subseteq Below(k) /\ k \in Below(k) /\ k \notin Below(j)
    <3>1. j \in Nat /\ k \in Nat /\ \A x \in S : x \in Nat
      OBVIOUS
    <3>2. \A x \in Below(j) : x \in S /\ x <= k
      BY <2>1, <3>1
    <3>3. k <= k /\ ~(k <= j)
      BY <2>1, <3>1
    <3> QED
      BY <3>2, <3>3
  <2>3. Below(j) \in SUBSET Nat /\ Below(k) \in SUBSET Nat /\ Below(j) \in T
    OBVIOUS
  <2>4. <<Below(j), Below(k)>> \in StrictSubsetOrdering(Nat)
    BY <2>2, <2>3 DEF StrictSubsetOrdering
  <2> QED
    BY <1>2, <1>3, <2>3, <2>4
<1> QED
  BY <1>4

(* The elements that are not moved from are values.                        *)
LEMMA ContentsAreValues ==
  ASSUME Inv, NEW u \in Vec, \A k \in DOMAIN Contents(u) : Contents(u)[k] # Moved
  PROVE  /\ vec[u].finish \in Nat /\ Len(Contents(u)) = vec[u].finish
         /\ DOMAIN Contents(u) = 1 .. vec[u].finish
         /\ \A k \in 1 .. vec[u].finish : Contents(u)[k] \in Value
<1>1. vec[u] \in VectorRecord /\ Holds(vec[u], heap) /\ heap \in Heap
      /\ vec[u].finish \in Nat
  BY InvFacts, TraitsAssumption
<1>2. DOMAIN Contents(u) = 1 .. vec[u].finish
  BY DEF Contents
<1>3. ASSUME NEW k \in 1 .. vec[u].finish PROVE Contents(u)[k] \in Value
  <2>1. k - 1 \in 0 .. (vec[u].finish - 1)
    BY <1>1
  <2>2. k - 1 \in Slot /\ Cells(vec[u], heap)[k - 1] # Raw
    BY <1>1, <2>1, CellsLive
  <2>3. Cells(vec[u], heap)[k - 1] \in Cell
    BY <1>1, <2>2, CellsType
  <2>4. Contents(u)[k] = Cells(vec[u], heap)[k - 1] /\ Contents(u)[k] # Moved
    BY <1>2 DEF Contents
  <2> QED
    BY <2>2, <2>3, <2>4 DEF Cell
<1>4. Len(Contents(u)) = vec[u].finish
  BY <1>1 DEF Contents
<1> QED
  BY <1>1, <1>2, <1>3, <1>4

(* The positions at which two vectors differ: the same for <=> of the      *)
(* operands exchanged.                                                     *)
Differing(t, v, w) ==
  {k \in DOMAIN Contents(v) \cap DOMAIN Contents(w) :
     SynthThreeWay(t, Contents(v)[k], Contents(w)[k]) # "equivalent"}

First(S) == CHOOSE k \in S : \A j \in S : k <= j

LEMMA ThreeWayMeaning ==
  ASSUME NEW t, NEW v, NEW w
  PROVE  ThreeWayVectors(t, v, w) =
           IF Differing(t, v, w) # {}
           THEN SynthThreeWay(t, Contents(v)[First(Differing(t, v, w))],
                                 Contents(w)[First(Differing(t, v, w))])
           ELSE IF Len(Contents(v)) < Len(Contents(w)) THEN "less"
           ELSE IF Len(Contents(v)) > Len(Contents(w)) THEN "greater"
           ELSE "equivalent"
  BY DEF ThreeWayVectors, Differing, First

LEMMA VectorsAgree ==
  ASSUME SoundComparisons, Inv PROVE ComparisonsAgree
<1> SUFFICES ASSUME NEW v \in Vec, NEW w \in Vec, NEW t \in ElementTypes,
                    \A u \in {v, w} : \A k \in DOMAIN Contents(u) : Contents(u)[k] # Moved
             PROVE  /\ EqualVectors(t, v, w) <=> ThreeWayVectors(t, v, w) = "equivalent"
                    /\ ThreeWayVectors(t, v, w) = "less" <=>
                         ThreeWayVectors(t, w, v) = "greater"
  BY DEF ComparisonsAgree
<1> DEFINE x == Contents(v)
           y == Contents(w)
           m == vec[v].finish
           n == vec[w].finish
           D == Differing(t, v, w)
<1>1. /\ m \in Nat /\ Len(x) = m /\ DOMAIN x = 1 .. m
      /\ n \in Nat /\ Len(y) = n /\ DOMAIN y = 1 .. n
      /\ \A k \in 1 .. m : x[k] \in Value
      /\ \A k \in 1 .. n : y[k] \in Value
  BY ContentsAreValues
<1>2. D = {k \in (1 .. m) \cap (1 .. n) : SynthThreeWay(t, x[k], y[k]) # "equivalent"}
  BY <1>1 DEF Differing
<1>3. EqualVectors(t, v, w) <=> m = n /\ \A k \in 1 .. m : SameElement(t, x[k], y[k])
  BY <1>1 DEF EqualVectors
<1>4. /\ ThreeWayVectors(t, v, w) =
           IF D # {} THEN SynthThreeWay(t, x[First(D)], y[First(D)])
           ELSE IF m < n THEN "less" ELSE IF m > n THEN "greater" ELSE "equivalent"
      /\ ThreeWayVectors(t, w, v) =
           IF Differing(t, w, v) # {}
           THEN SynthThreeWay(t, y[First(Differing(t, w, v))], x[First(Differing(t, w, v))])
           ELSE IF n < m THEN "less" ELSE IF n > m THEN "greater" ELSE "equivalent"
  BY <1>1, ThreeWayMeaning
<1>5. Differing(t, w, v) =
        {k \in (1 .. m) \cap (1 .. n) : SynthThreeWay(t, y[k], x[k]) # "equivalent"}
  BY <1>1 DEF Differing
<1> HIDE DEF x, y, m, n, D
<1>6. ASSUME NEW k \in (1 .. m) \cap (1 .. n) PROVE x[k] \in Value /\ y[k] \in Value
  BY <1>1
<1>7. Differing(t, w, v) = D
  BY <1>2, <1>5, <1>6, ElementsAgree
<1>8. CASE D # {}
  <2>1. D \subseteq Nat
    BY <1>1, <1>2
  <2>2. First(D) \in D
    BY <1>8, <2>1, Smallest DEF First
  <2>3. /\ First(D) \in (1 .. m) \cap (1 .. n)
        /\ SynthThreeWay(t, x[First(D)], y[First(D)]) # "equivalent"
    BY <1>2, <2>2
  <2>4. ~EqualVectors(t, v, w)
    BY <1>3, <1>6, <2>3, ElementsAgree
  <2> QED
    BY <1>4, <1>6, <1>7, <1>8, <2>3, <2>4, ElementsAgree
<1>9. CASE D = {}
  <2>1. ASSUME m = n, NEW k \in 1 .. m PROVE SameElement(t, x[k], y[k])
    BY <1>2, <1>6, <1>9, <2>1, ElementsAgree
  <2>2. EqualVectors(t, v, w) <=> m = n
    BY <1>3, <2>1
  <2> QED
    BY <1>1, <1>4, <1>7, <1>9, <2>2
<1> QED
  BY <1>8, <1>9

(* Whatever the vectors have been through, == and <=> of any two whose     *)
(* elements are not moved from agree, for every element type whose own     *)
(* operators do.                                                           *)
THEOREM ComparisonsHold ==
  CopiesMatch /\ SoundComparisons => (Spec => []ComparisonsAgree)
<1> SUFFICES ASSUME CopiesMatch, SoundComparisons PROVE Spec => []ComparisonsAgree
  OBVIOUS
<1>1. Inv => ComparisonsAgree
  BY VectorsAgree
<1>2. Inv /\ [Next]_vars => Inv'
  BY NextInv
<1> QED
  BY InitInv, <1>1, <1>2, PTL DEF Spec

-----------------------------------------------------------------------------
(* Refinement of TwoVectorsSpec.                                           *)

(* Copy assignment has the effect the traits ask for: the copy it makes    *)
(* has the allocator the vector is to have, or one that is equal and stays *)
(* behind.                                                                 *)
AssignsMatch ==
  \A t \in Assignable :
    (t.pocca /\ t.select = "same") \/ (t.always_equal /\ ~t.pocs)

LEMMA AssignsSound == AssignsMatch => CopiesMatch
  BY DEF AssignsMatch, CopiesMatch

(* What the callers see of record r in heap h.                             *)
View(r, h) == [k \in 1 .. r.finish |-> Cells(r, h)[k - 1]]

LEMMA ContentsView ==
  \A u : Contents(u) = View(vec[u], heap) /\ Contents(u)' = View(vec'[u], heap')
  BY DEF Contents, View

LEMMA ViewsEqual ==
  ASSUME NEW r, NEW h, NEW q, NEW k, r.finish \in Nat, r.finish = q.finish,
         \A s \in 0 .. (r.finish - 1) : Cells(r, h)[s] = Cells(q, k)[s]
  PROVE  View(r, h) = View(q, k)
  BY DEF View

LEMMA ViewEmpty ==
  ASSUME NEW r, NEW h, r.finish = 0
  PROVE  View(r, h) = <<>>
  BY DEF View

LEMMA ViewSize ==
  ASSUME NEW r, NEW h, r.finish \in Nat
  PROVE  Len(View(r, h)) = r.finish /\ DOMAIN View(r, h) = 1 .. r.finish
  BY DEF View

(* The other vectors show what they showed.                                *)
Others(V) ==
  \A u \in Vec \ V : Contents(u)' = Contents(u) /\ vec'[u].alloc = vec[u].alloc

LEMMA OthersKept ==
  ASSUME Inv, NEW V,
         \A u \in Vec \ V :
           /\ vec'[u] = vec[u]
           /\ vec[u].start # Null => heap'[vec[u].start].cell = heap[vec[u].start].cell
  PROVE  Others(V)
<1> SUFFICES ASSUME NEW u \in Vec \ V
             PROVE  Contents(u)' = Contents(u) /\ vec'[u].alloc = vec[u].alloc
  BY DEF Others
<1>1. Cells(vec'[u], heap') = Cells(vec[u], heap)
  BY DEF Cells
<1> QED
  BY <1>1 DEF Contents

-----------------------------------------------------------------------------
(* The abstract specification in the terms of the code.                    *)

LEMMA SameTraits ==
  /\ \A op, args : Abstract!Returns(op, args) <=> Returns(op, args)
  /\ \A op, args, what : Abstract!Throws(op, args, what) <=> Throws(op, args, what)
  /\ \A p, q : Abstract!Equal(p, q) <=> Equal(p, q)
  /\ \A p : Abstract!Select(p) = Select(p)
  /\ Abstract!AlwaysTakes <=> AlwaysTakes
  /\ \A p, q : Abstract!Swappable(p, q) <=> Swappable(p, q)
  /\ Abstract!MoveIfNoexcept = MoveIfNoexcept
  /\ Abstract!NoneYet = NoneYet
  BY DEF Abstract!Returns, Returns, Abstract!Throws, Throws, Abstract!Equal, Equal,
         Abstract!Select, Select, Abstract!AlwaysTakes, AlwaysTakes,
         Abstract!Swappable, Swappable, Abstract!MoveIfNoexcept, MoveIfNoexcept,
         Abstract!NoneYet, NoneYet

LEMMA SpecOnly ==
  ASSUME NEW V, Others(V) PROVE Abstract!Only(V)
  BY DEF Others, Abstract!Only

LEMMA SpecFails ==
  ASSUME NEW op, NEW args, NEW h, NEW n, NEW how, AllocationFails(op, args, h, n, how)
  PROVE  Abstract!Fails(op, args)
  BY SameTraits DEF AllocationFails, Abstract!Fails

LEMMA SpecNoEffect ==
  ASSUME NEW op, NEW args, UNCHANGED <<vec, heap>>, Abstract!Fails(op, args)
  PROVE  Abstract!NoEffect(op, args)
<1>1. \A u : Contents(u)' = Contents(u)
  BY DEF Contents, Cells
<1> QED
  BY <1>1 DEF Abstract!NoEffect

(* The elements that moving the first n of w leaves in it.                 *)
Left(w, n) ==
  [k \in DOMAIN Contents(w) |->
     IF k <= n \/ MoveIfNoexcept = "move" THEN Moved ELSE Contents(w)[k]]

LEMMA SpecLeft ==
  ASSUME NEW w \in Vec, NEW n PROVE Abstract!LeftIn(w, n) = Left(w, n)
  BY SameTraits DEF Abstract!LeftIn, Left

(* Some of the elements of v replaced by those of w, in their places.      *)
Partly(v, w) ==
  /\ Len(Contents(v)') = Len(Contents(v))
  /\ \A k \in DOMAIN Contents(v)' :
       \/ Contents(v)'[k] = Contents(v)[k]
       \/ k \in DOMAIN Contents(w) /\ Contents(v)'[k] = Contents(w)[k]

LEMMA SpecPartly ==
  ASSUME NEW v \in Vec, NEW w \in Vec, Partly(v, w) PROVE Abstract!PartlyAssigned(v, w)
  BY DEF Partly, Abstract!PartlyAssigned

-----------------------------------------------------------------------------
(* The functions.                                                          *)

(* A vector without storage has no elements.                               *)
LEMMA VacantEmpty ==
  ASSUME Inv, NEW v \in Vec, Vacant(v)
  PROVE  Contents(v) = <<>> /\ vec[v].finish = 0 /\ vec[v].eos = 0
<1>1. vec[v].finish = 0 /\ vec[v].eos = 0
  BY InvFacts DEF Vacant, Holds
<1> QED
  BY <1>1, ContentsView, ViewEmpty

(* What a constructor of v from cell does.                                 *)
BuildFails(op, args) == UNCHANGED <<vec, heap>> /\ Abstract!Fails(op, args)

Built(op, args, v, p, cap, n, cell, h) ==
  /\ Returns(op, args) /\ vec'[v].alloc = p
  /\ \A u \in Vec \ {v} : vec'[u] = vec[u]
  /\ Contents(v)' = [k \in 1 .. n |-> cell[k - 1]]
  /\ IF cap = 0 THEN UNCHANGED heap
     ELSE \A u \in Vec : vec[u].start # Null =>
            heap'[vec[u].start] = h[vec[u].start]

LEMMA BuildEffect ==
  ASSUME Inv, NEW op, NEW args, NEW v \in Vec, NEW p \in Personality,
         NEW cap \in 0 .. MaxSize, NEW n \in 0 .. cap, NEW cell \in [Slot -> Cell],
         \A s \in 0 .. (n - 1) : cell[s] # Raw, NEW how, NEW h \in Heap,
         Build(op, args, v, p, cap, n, cell, how, h)
  PROVE  BuildFails(op, args) \/ Built(op, args, v, p, cap, n, cell, h)
<1>0. vec \in [Vec -> VectorRecord] /\ n \in Nat /\ cap \in Nat /\ MaxSize \in Nat
  BY InvFacts, TraitsAssumption
<1>1. CASE cap > 0 /\ AllocationFails(op, args, heap, n, how) /\ UNCHANGED <<vec, heap>>
  BY <1>1, SpecFails DEF BuildFails
<1>2. CASE /\ cap = 0 /\ vec' = [vec EXCEPT ![v] = Empty(p)] /\ UNCHANGED heap
           /\ Returns(op, args)
  <2>1. vec'[v] = Empty(p) /\ \A u \in Vec \ {v} : vec'[u] = vec[u]
    BY <1>0, <1>2
  <2>2. vec'[v].alloc = p /\ vec'[v].finish = 0 /\ n = 0
    BY <1>0, <1>2, <2>1 DEF Empty
  <2>3. Contents(v)' = [k \in 1 .. n |-> cell[k - 1]]
    BY <2>2, ContentsView DEF View
  <2> QED
    BY <1>2, <2>1, <2>2, <2>3 DEF Built
<1>3. ASSUME cap > 0, NEW b \in FreeBlocks(heap), Returns(op, args),
             vec' = [vec EXCEPT ![v] = Owning(b, n, cap, p)],
             heap' = Allocated(h, b, cap, p, n, cell)
      PROVE  Built(op, args, v, p, cap, n, cell, h)
  <2>1. b \in Block /\ b # Null /\ \A u \in Vec : vec[u].start # b
    BY <1>3, InvFacts, FreeNotHeld, TwoVectorsAssumption
  <2>2. \A c \in Block \ {b} : heap'[c] = h[c]
    BY <1>0, <1>3, <2>1, AllocatedBlock
  <2>3. vec'[v] = Owning(b, n, cap, p) /\ \A u \in Vec \ {v} : vec'[u] = vec[u]
    BY <1>0, <1>3
  <2>4. vec'[v].start = b /\ vec'[v].finish = n /\ vec'[v].alloc = p
    BY <2>3 DEF Owning
  <2>5. heap'[b].cell = [s \in Slot |-> IF s < n THEN cell[s] ELSE Raw]
    BY <1>3, <2>1 DEF Allocated, Heap
  <2>6. \A k \in 1 .. n : k - 1 \in Slot /\ k - 1 < n
    BY <1>0 DEF Slot
  <2>7. \A k \in 1 .. n : Cells(vec'[v], heap')[k - 1] = cell[k - 1]
    BY <2>1, <2>4, <2>5, <2>6 DEF Cells
  <2>8. Contents(v)' = [k \in 1 .. n |-> cell[k - 1]]
    BY <2>4, <2>7, ContentsView DEF View
  <2>9. \A u \in Vec : vec[u].start # Null => vec[u].start \in Block \ {b}
    BY <2>1, InvFacts DEF VectorRecord
  <2> QED
    BY <1>0, <1>3, <2>2, <2>3, <2>4, <2>8, <2>9 DEF Built
<1> QED
  BY <1>0, <1>1, <1>2, <1>3 DEF Build

LEMMA ConstructSpec ==
  ASSUME Inv, NEW v \in Vec, NEW x \in Source, NEW p \in Personality,
         Construct(v, x, p)
  PROVE  Abstract!Construct(v, x, p)
<1> DEFINE args == <<v, x, p>>
<1>1. Build("construct", args, v, p, Len(x), Len(x),
            [s \in Slot |-> IF s < Len(x) THEN x[s + 1] ELSE Raw], "copy", heap)
  BY DEF Construct
<1>2. PICK n \in 0 .. MaxSize : x \in [1 .. n -> Value]
  BY TraitsAssumption
<1>3. Len(x) = n /\ n \in Nat /\ n <= MaxSize /\ n \in 0 .. n
  BY <1>2, TraitsAssumption
<1> DEFINE cell == [s \in Slot |-> IF s < n THEN x[s + 1] ELSE Raw]
<1>4. cell \in [Slot -> Cell] /\ \A s \in 0 .. (n - 1) : cell[s] # Raw
  BY <1>2, <1>3, TraitsAssumption DEF Cell, Slot
<1>5. Build("construct", args, v, p, n, n, cell, "copy", heap)
  BY <1>1, <1>3
<1>6. Vacant(v) /\ Contents(v) = <<>>
  BY VacantEmpty DEF Construct
<1>7. x = [k \in 1 .. n |-> cell[k - 1]]
  <2>1. \A k \in 1 .. n : k - 1 \in Slot /\ k - 1 < n /\ (k - 1) + 1 = k
    BY <1>3, TraitsAssumption DEF Slot
  <2> QED
    BY <1>2, <2>1
<1> HIDE DEF cell
<1>8. CASE BuildFails("construct", args)
  <2>1. Abstract!NoEffect("construct", args)
    BY <1>8, SpecNoEffect DEF BuildFails
  <2> QED
    BY <1>6, <2>1 DEF Abstract!Construct
<1>9. CASE Built("construct", args, v, p, n, n, cell, heap)
  <2>1. Others({v})
    BY <1>9, OthersKept DEF Built
  <2>2. Contents(v)' = x /\ vec'[v].alloc = p /\ Returns("construct", args)
    BY <1>7, <1>9 DEF Built
  <2> QED
    BY <1>6, <2>1, <2>2, SpecOnly, SameTraits DEF Abstract!Construct, Abstract!Become
<1>10. n \in 0 .. MaxSize /\ n \in 0 .. n /\ heap \in Heap
  BY <1>2, <1>3, InvFacts
<1> HIDE DEF args
<1> QED
  BY <1>4, <1>5, <1>8, <1>9, <1>10, BuildEffect

LEMMA DestroySpec ==
  ASSUME Inv, NEW v \in Vec, Destroy(v)
  PROVE  Abstract!Destroy(v)
<1>1. /\ heap' = Released(heap, vec[v]) /\ vec' = [vec EXCEPT ![v] = Empty(vec[v].alloc)]
      /\ Returns("destroy", <<v>>)
  BY InvFacts DEF Destroy
<1>2. \A b \in Block \ {vec[v].start} : heap'[b] = heap[b]
  BY <1>1, InvFacts, ReleasedBlock
<1>3. \A u \in Vec \ {v} : vec[u].start # Null => vec[u].start \in Block \ {vec[v].start}
  BY InvFacts DEF VectorRecord
<1>4. Others({v})
  BY <1>1, <1>2, <1>3, InvFacts, OthersKept
<1>5. vec'[v].finish = 0 /\ vec'[v].alloc = vec[v].alloc
  BY <1>1, InvFacts DEF Empty
<1>6. Contents(v)' = <<>>
  BY <1>5, ContentsView, ViewEmpty
<1>7. Abstract!Only({v}) /\ Abstract!Returns("destroy", <<v>>)
  BY <1>1, <1>4, SpecOnly, SameTraits
<1> QED
  BY <1>5, <1>6, <1>7 DEF Abstract!Destroy, Abstract!Become

LEMMA CopyConstructSpec ==
  ASSUME Inv, NEW v \in Vec, NEW w \in Vec, v # w, NEW p \in Personality,
         NEW op, NEW args, CopyFrom(op, args, v, w, p)
  PROVE  Abstract!CopyConstruct(v, w, p, op, args)
<1> DEFINE n == vec[w].finish
           cell == Cells(vec[w], heap)
<1>1. n \in 0 .. MaxSize /\ n \in 0 .. n
  BY InvFacts, TraitsAssumption
<1>2. cell \in [Slot -> Cell] /\ \A s \in 0 .. (n - 1) : cell[s] # Raw
  BY InvFacts, CellsType, CellsLive
<1>3. Build(op, args, v, p, n, n, cell, "copy", heap)
  BY DEF CopyFrom
<1>4. Contents(v) = <<>> /\ Contents(w) = [k \in 1 .. n |-> cell[k - 1]]
  BY VacantEmpty DEF CopyFrom, Contents
<1> HIDE DEF n, cell
<1>5. CASE BuildFails(op, args)
  BY <1>4, <1>5, SpecNoEffect DEF BuildFails, Abstract!CopyConstruct
<1>6. CASE Built(op, args, v, p, n, n, cell, heap)
  <2>1. Others({v})
    BY <1>6, OthersKept DEF Built
  <2>2. Contents(v)' = Contents(w) /\ vec'[v].alloc = p
    BY <1>4, <1>6 DEF Built
  <2> QED
    BY <1>4, <1>6, <2>1, <2>2, SpecOnly, SameTraits
       DEF Built, Abstract!CopyConstruct, Abstract!Become
<1>7. heap \in Heap
  BY InvFacts
<1> QED
  BY <1>1, <1>2, <1>3, <1>5, <1>6, <1>7, BuildEffect

(* The storage of w has become that of v.                                  *)
LEMMA TakeEffect ==
  ASSUME Inv, NEW v \in Vec, NEW w \in Vec, v # w, NEW p, Take(v, w, p),
         \A b \in Block \ {vec[v].start} : heap'[b] = heap[b]
  PROVE  /\ Contents(v)' = Contents(w) /\ vec'[v].alloc = p
         /\ Contents(w)' = <<>> /\ vec'[w].alloc = vec[w].alloc
         /\ Others({v, w})
<1> DEFINE r == [vec[w] EXCEPT !.alloc = p]
<1>1. /\ r.start = vec[w].start /\ r.finish = vec[w].finish /\ r.alloc = p
      /\ r.finish \in Nat
  BY InvFacts, TraitsAssumption DEF VectorRecord
<1>2. /\ vec'[v] = r /\ vec'[w] = Empty(vec[w].alloc)
      /\ \A u \in Vec \ {v, w} : vec'[u] = vec[u]
  BY InvFacts DEF Take
<1> HIDE DEF r
<1>3. \A u \in Vec \ {v} : vec[u].start # Null => heap'[vec[u].start] = heap[vec[u].start]
  <2> TAKE u \in Vec \ {v}
  <2>1. vec[u].start # Null => vec[u].start \in Block \ {vec[v].start}
    BY InvFacts DEF VectorRecord
  <2> QED
    BY <2>1
<1>4. Cells(r, heap') = Cells(vec[w], heap)
  BY <1>1, <1>3 DEF Cells
<1>5. Contents(v)' = Contents(w)
  BY <1>1, <1>2, <1>4, ContentsView, ViewsEqual
<1>6. vec'[w].finish = 0 /\ vec'[w].alloc = vec[w].alloc
  BY <1>2 DEF Empty
<1>7. Contents(w)' = <<>>
  BY <1>6, ContentsView, ViewEmpty
<1>8. Others({v, w})
  BY <1>2, <1>3, OthersKept
<1> QED
  BY <1>1, <1>2, <1>5, <1>6, <1>7, <1>8

LEMMA MoveConstructSpec ==
  ASSUME Inv, NEW v \in Vec, NEW w \in Vec, v # w, MoveConstruct(v, w)
  PROVE  Abstract!MoveConstruct(v, w, vec[w].alloc, "move_construct", <<v, w>>)
<1>1. /\ Take(v, w, vec[w].alloc) /\ heap' = heap /\ Contents(v) = <<>>
      /\ Returns("move_construct", <<v, w>>)
  BY VacantEmpty DEF MoveConstruct
<1>2. /\ Contents(v)' = Contents(w) /\ vec'[v].alloc = vec[w].alloc
      /\ Contents(w)' = <<>> /\ vec'[w].alloc = vec[w].alloc
      /\ Others({v, w})
  BY <1>1, TakeEffect
<1>3. /\ Abstract!Only({v, w}) /\ Abstract!Equal(vec[w].alloc, vec[w].alloc)
      /\ Abstract!Returns("move_construct", <<v, w>>)
  BY <1>1, <1>2, SpecOnly, SameTraits DEF Equal
<1> QED
  BY <1>1, <1>2, <1>3 DEF Abstract!MoveConstruct, Abstract!Become

LEMMA MoveConstructWithSpec ==
  ASSUME Inv, NEW v \in Vec, NEW w \in Vec, v # w, NEW p \in Personality,
         MoveConstructWith(v, w, p)
  PROVE  Abstract!MoveConstruct(v, w, p, "move_construct_with", <<v, w, p>>)
<1> DEFINE op == "move_construct_with"
           args == <<v, w, p>>
<1>0. Contents(v) = <<>>
  BY VacantEmpty DEF MoveConstructWith
<1>1. CASE Equal(p, vec[w].alloc)
  <2>1. Take(v, w, p) /\ heap' = heap /\ Returns(op, args)
    BY <1>1 DEF MoveConstructWith
  <2>2. /\ Contents(v)' = Contents(w) /\ vec'[v].alloc = p
        /\ Contents(w)' = <<>> /\ vec'[w].alloc = vec[w].alloc
        /\ Others({v, w})
    BY <2>1, TakeEffect
  <2>3. /\ Abstract!Only({v, w}) /\ Abstract!Returns(op, args)
        /\ Abstract!Equal(p, vec[w].alloc)
    BY <1>1, <2>1, <2>2, SpecOnly, SameTraits
  <2> QED
    BY <1>0, <2>2, <2>3 DEF Abstract!MoveConstruct, Abstract!Become
<1>2. CASE ~Equal(p, vec[w].alloc)
  <2> DEFINE q == vec[w]
             gone == IF MoveIfNoexcept = "move" THEN 0 .. (q.finish - 1) ELSE {}
             h == [b \in Block |-> IF b = q.start
                     THEN [heap[b] EXCEPT !.cell = MovedAway(@, gone)] ELSE heap[b]]
             x == Cells(q, heap)
             after == Left(w, 0)
  <2>1. Build(op, args, v, p, q.eos, q.finish, x, MoveIfNoexcept, h)
    BY <1>2 DEF MoveConstructWith
  <2>2. x \in [Slot -> Cell] /\ \A s \in 0 .. (q.finish - 1) : s \in Slot /\ x[s] # Raw
    BY InvFacts, CellsType, CellsLive
  <2>3. \A b \in Block : MovedAway(heap[b].cell, gone) \in [Slot -> Cell]
    BY InvFacts DEF MovedAway, Cell, Heap
  <2>4. Contents(w) = [k \in 1 .. q.finish |-> x[k - 1]] /\ q.finish \in Nat
    BY InvFacts, TraitsAssumption DEF Contents
  <2>5. h \in Heap
    <3> HIDE DEF gone
    <3> QED  BY <2>3, InvFacts DEF Heap
  <2>6. ~Abstract!Equal(p, vec[w].alloc)
    BY <1>2, SameTraits
  <2>7. q.start \in Block => h[q.start].cell = MovedAway(heap[q.start].cell, gone)
    BY InvFacts DEF Heap
  <2>8. \A b \in Block : b # q.start => h[b] = heap[b]
    OBVIOUS
  <2> HIDE DEF h, x
  <2>9. BuildFails(op, args) \/ Built(op, args, v, p, q.eos, q.finish, x, h)
    BY <2>1, <2>2, <2>5, InvFacts, BuildEffect
  <2>10. CASE BuildFails(op, args)
    BY <1>0, <2>6, <2>10, SpecNoEffect DEF BuildFails, Abstract!MoveConstruct
  <2>11. CASE Built(op, args, v, p, q.eos, q.finish, x, h)
    <3>1. /\ Returns(op, args) /\ Contents(v)' = Contents(w) /\ vec'[v].alloc = p
          /\ vec'[w] = q
      BY <2>4, <2>11 DEF Built
    <3>2. \A k \in 1 .. q.finish : Cells(vec'[w], heap')[k - 1] = after[k]
      <4> SUFFICES ASSUME NEW k \in 1 .. q.finish
                   PROVE  Cells(vec'[w], heap')[k - 1] = after[k]
        OBVIOUS
      <4>1. q.start # Null /\ q.start \in Block /\ q.eos > 0
        BY <2>4, InvFacts DEF Holds, VectorRecord
      <4>2. k - 1 \in 0 .. (q.finish - 1) /\ k - 1 \in Slot
        BY <2>2, <2>4
      <4>3. Cells(vec'[w], heap')[k - 1] = MovedAway(heap[q.start].cell, gone)[k - 1]
        BY <2>7, <2>11, <3>1, <4>1 DEF Built, Cells
      <4>4. x = heap[q.start].cell
        BY <4>1 DEF Cells, x
      <4>5. MovedAway(x, gone)[k - 1] = IF traits.nothrow THEN Moved ELSE x[k - 1]
        BY <4>2 DEF MovedAway, MoveIfNoexcept
      <4>6. after[k] = IF traits.nothrow THEN Moved ELSE x[k - 1]
        BY <2>4 DEF Left, MoveIfNoexcept
      <4> QED
        BY <4>3, <4>4, <4>5, <4>6
    <3>3. Contents(w)' = after
      BY <2>4, <3>1, <3>2, ContentsView DEF View, Left
    <3>4. Others({v, w})
      <4>1. ASSUME NEW u \in Vec \ {v, w}, vec[u].start # Null
            PROVE  heap'[vec[u].start].cell = heap[vec[u].start].cell
        <5>1. vec[u].start \in Block /\ vec[u].start # q.start
          BY <4>1, InvFacts DEF VectorRecord
        <5> QED
          BY <2>8, <2>11, <4>1, <5>1 DEF Built
      <4> QED
        BY <2>11, <4>1, OthersKept DEF Built
    <3>5. /\ Abstract!Only({v, w}) /\ Abstract!Returns(op, args)
          /\ Abstract!LeftIn(w, 0) = after
      BY <3>1, <3>4, SpecOnly, SpecLeft, SameTraits
    <3> QED
      BY <1>0, <2>6, <3>1, <3>3, <3>5 DEF Abstract!MoveConstruct, Abstract!Become
  <2> QED
    BY <2>9, <2>10, <2>11
<1> QED
  BY <1>1, <1>2

LEMMA MoveAssignTakesSpec ==
  ASSUME Inv, NEW v \in Vec, NEW w \in Vec, v # w, MoveAssignTakes(v, w)
  PROVE  Abstract!MoveAssign(v, w)
<1> DEFINE p == IF traits.pocma THEN vec[w].alloc ELSE vec[v].alloc
<1>1. /\ heap' = Released(heap, vec[v]) /\ Take(v, w, p)
      /\ Returns("move_assign", <<v, w>>)
      /\ AlwaysTakes \/ Equal(vec[v].alloc, vec[w].alloc)
  BY DEF MoveAssignTakes
<1>2. \A b \in Block \ {vec[v].start} : heap'[b] = heap[b]
  BY <1>1, InvFacts, ReleasedBlock
<1> HIDE DEF p
<1>3. /\ Contents(v)' = Contents(w) /\ vec'[v].alloc = p
      /\ Contents(w)' = <<>> /\ vec'[w].alloc = vec[w].alloc
      /\ Others({v, w})
  BY <1>1, <1>2, TakeEffect
<1>4. /\ Abstract!Only({v, w}) /\ Abstract!Returns("move_assign", <<v, w>>)
      /\ Abstract!AlwaysTakes \/ Abstract!Equal(vec[v].alloc, vec[w].alloc)
  BY <1>1, <1>3, SpecOnly, SameTraits
<1> QED
  BY <1>3, <1>4 DEF p, Abstract!MoveAssign

LEMMA SwapSpec ==
  ASSUME Inv, NEW v \in Vec, NEW w \in Vec, v # w, Swap(v, w)
  PROVE  Abstract!Swap(v, w)
<1> DEFINE r == [vec[w] EXCEPT !.alloc = IF traits.pocs THEN @ ELSE vec[v].alloc]
           q == [vec[v] EXCEPT !.alloc = IF traits.pocs THEN @ ELSE vec[w].alloc]
<1>1. /\ r.start = vec[w].start /\ r.finish = vec[w].finish
      /\ r.alloc = IF traits.pocs THEN vec[w].alloc ELSE vec[v].alloc
  BY InvFacts DEF VectorRecord
<1>2. /\ q.start = vec[v].start /\ q.finish = vec[v].finish
      /\ q.alloc = IF traits.pocs THEN vec[v].alloc ELSE vec[w].alloc
  BY InvFacts DEF VectorRecord
<1>3. /\ vec'[v] = r /\ vec'[w] = q /\ heap' = heap /\ Returns("swap", <<v, w>>)
      /\ \A u \in Vec \ {v, w} : vec'[u] = vec[u]
  BY InvFacts DEF Swap
<1>4. Swappable(vec[v].alloc, vec[w].alloc)
  BY DEF Swap
<1> HIDE DEF r, q
<1>5. Contents(v)' = Contents(w) /\ Contents(w)' = Contents(v)
  BY <1>1, <1>2, <1>3 DEF Contents, Cells
<1>6. Others({v, w})
  BY <1>3, OthersKept
<1>7. /\ Abstract!Only({v, w}) /\ Abstract!Returns("swap", <<v, w>>)
      /\ Abstract!Swappable(vec[v].alloc, vec[w].alloc)
  BY <1>3, <1>4, <1>6, SpecOnly, SameTraits
<1> QED
  BY <1>1, <1>2, <1>3, <1>5, <1>7 DEF Abstract!Swap, Abstract!Become

(* What moving and assigning leave in w, when the target had m elements.   *)
LeftBy(w, m, how) ==
  [k \in DOMAIN Contents(w) |->
     IF k <= m \/ how = "move" THEN Moved ELSE Contents(w)[k]]

(* All elements of w are where those of record r were, or some of them.    *)
Overwritten(op, v, w, r, how) ==
  /\ Returns(op, <<v, w>>) /\ Contents(v)' = Contents(w)
  /\ op = "move_assign" => Contents(w)' = LeftBy(w, r.finish, how)

PartlyOverwritten(op, v, w, r, h) ==
  /\ Throws(op, <<v, w>>, "exception")
  /\ vec'[v].finish = r.finish
  /\ \A k \in 1 .. r.finish :
       \/ Contents(v)'[k] = View(r, h)[k]
       \/ k \in DOMAIN Contents(w) /\ Contents(v)'[k] = Contents(w)[k]

(* Some of the elements of w have been moved from.                         *)
SomeMoved(w) ==
  /\ DOMAIN Contents(w)' = DOMAIN Contents(w)
  /\ \A k \in DOMAIN Contents(w) : Contents(w)'[k] \in {Contents(w)[k], Moved}

(* The elements of w over those of r, in a heap h where the other vectors  *)
(* are what they were.                                                     *)
LEMMA OverwriteEffect ==
  ASSUME Inv, NEW v \in Vec, NEW w \in Vec, v # w, NEW op,
         NEW r \in VectorRecord, NEW h \in Heap, Holds(r, h),
         \A u \in Vec \ {v} : vec[u].start # Null =>
           vec[u].start # r.start /\ h[vec[u].start] = heap[vec[u].start],
         NEW f, NEW how, vec[w].finish <= r.eos,
         Overwrite(op, v, w, r, h, f, how)
  PROVE  /\ Overwritten(op, v, w, r, how) \/ PartlyOverwritten(op, v, w, r, h)
         /\ vec'[v].alloc = r.alloc
         /\ SomeMoved(w)
         /\ Others({v, w}) /\ vec'[w] = vec[w]
         /\ op # "move_assign" => Others({v})
<1> DEFINE q == vec[w]
           n == q.finish
           x == Cells(q, h)
           y == Cells(r, h)
           gone(c) == IF op # "move_assign" THEN {}
                      ELSE {s \in 0 .. (c - 1) : s < r.finish \/ how = "move"}
           cell(c) == [s \in Slot |-> IF s < c THEN x[s]
                                     ELSE IF c = n /\ s < r.finish THEN Raw ELSE y[s]]
           after(c) == [b \in Block |->
                 IF b = r.start THEN [h[b] EXCEPT !.cell = cell(c)]
                 ELSE IF b = q.start THEN [h[b] EXCEPT !.cell = MovedAway(x, gone(c))]
                 ELSE h[b]]
           done(c) == IF c = n THEN [r EXCEPT !.finish = n] ELSE r
<1>1. PICK c \in 0 .. n :
        /\ heap' = after(c)
        /\ vec' = [vec EXCEPT ![v] = done(c)]
        /\ IF c = n THEN Returns(op, <<v, w>>) ELSE Throws(op, <<v, w>>, "exception")
  BY Zenon DEF Overwrite
<1>2. /\ q \in VectorRecord /\ n \in 0 .. MaxSize /\ MaxSize \in Nat
      /\ r.eos \in 0 .. MaxSize /\ n \in Nat
      /\ q.start # Null => q.start # r.start /\ h[q.start] = heap[q.start]
      /\ r.start = Null => n = 0 /\ r.finish = 0
      /\ r.finish \in Nat /\ r.finish <= MaxSize
      /\ q.start = Null => n = 0
  BY InvFacts, TraitsAssumption DEF VectorRecord, Holds
<1>3. x = Cells(q, heap) /\ x \in [Slot -> Cell]
  <2>1. x = Cells(q, heap)
    BY <1>2 DEF Cells
  <2> QED
    BY <1>2, <2>1, InvFacts, CellsType
<1>4. /\ done(c).start = r.start /\ done(c).alloc = r.alloc
      /\ done(c).finish = IF c = n THEN n ELSE r.finish
  BY <1>2 DEF VectorRecord
<1> HIDE DEF done
<1>5. vec'[v] = done(c) /\ \A u \in Vec \ {v} : vec'[u] = vec[u]
  BY <1>1, InvFacts
<1>6. r.start # Null => r.start \in Block /\ heap'[r.start].cell = cell(c)
  BY <1>1 DEF VectorRecord, Heap
<1>7. q.start # Null => q.start \in Block /\ heap'[q.start].cell = MovedAway(x, gone(c))
  BY <1>1, <1>2 DEF VectorRecord, Heap
<1>8. \A u \in Vec \ {v, w} : vec[u].start # Null =>
        heap'[vec[u].start] = heap[vec[u].start]
  <2> SUFFICES ASSUME NEW u \in Vec \ {v, w}, vec[u].start # Null
               PROVE  heap'[vec[u].start] = heap[vec[u].start]
    OBVIOUS
  <2>1. vec[u].start \in Block /\ vec[u].start # r.start /\ vec[u].start # q.start
    BY InvFacts DEF VectorRecord
  <2> QED
    BY <1>1, <2>1
<1> HIDE DEF after, gone
<1>9. c = n => \A s \in 0 .. (n - 1) : Cells(vec'[v], heap')[s] = x[s]
  <2> SUFFICES ASSUME c = n, NEW s \in 0 .. (n - 1)
               PROVE  Cells(vec'[v], heap')[s] = x[s]
    OBVIOUS
  <2>1. s \in Slot /\ s < c /\ r.start # Null
    BY <1>2 DEF Slot
  <2>2. Cells(vec'[v], heap') = cell(c)
    BY <1>4, <1>5, <1>6, <2>1 DEF Cells
  <2> QED
    BY <2>1, <2>2
<1>10. c # n => \A s \in 0 .. (r.finish - 1) :
          Cells(vec'[v], heap')[s] = IF s < c THEN x[s] ELSE y[s]
  <2> SUFFICES ASSUME c # n, NEW s \in 0 .. (r.finish - 1)
               PROVE  Cells(vec'[v], heap')[s] = IF s < c THEN x[s] ELSE y[s]
    OBVIOUS
  <2>1. s \in Slot /\ r.start # Null
    BY <1>2 DEF Slot
  <2>2. Cells(vec'[v], heap') = cell(c)
    BY <1>4, <1>5, <1>6, <2>1 DEF Cells
  <2> QED
    BY <2>1, <2>2
<1> HIDE DEF cell
<1>11. /\ DOMAIN Contents(w) = 1 .. n /\ DOMAIN Contents(w)' = 1 .. n
       /\ \A k \in 1 .. n : /\ Contents(w)[k] = x[k - 1]
                            /\ Contents(w)'[k] = MovedAway(x, gone(c))[k - 1]
  <2>1. n > 0 => Cells(vec'[w], heap') = MovedAway(x, gone(c))
    BY <1>2, <1>5, <1>7 DEF Cells
  <2> QED
    BY <1>2, <1>3, <1>5, <2>1, ContentsView DEF View
<1>12. \A k \in 1 .. n : /\ k - 1 \in Slot
                         /\ MovedAway(x, gone(c))[k - 1] =
                              IF k - 1 \in gone(c) THEN Moved ELSE x[k - 1]
  BY <1>2 DEF MovedAway, Slot
<1>13. \A k \in DOMAIN Contents(w) : Contents(w)'[k] \in {Contents(w)[k], Moved}
  BY <1>11, <1>12
<1>14. c = n => Contents(v)' = Contents(w)
  BY <1>2, <1>3, <1>4, <1>5, <1>9, ContentsView, ViewsEqual
<1>15. c = n /\ op = "move_assign" => Contents(w)' = LeftBy(w, r.finish, how)
  <2> SUFFICES ASSUME c = n, op = "move_assign"
               PROVE  Contents(w)' = LeftBy(w, r.finish, how)
    OBVIOUS
  <2>1. \A k \in 1 .. n : k - 1 \in gone(c) <=> k <= r.finish \/ how = "move"
    BY <1>2 DEF gone
  <2>2. \A k \in 1 .. n : Contents(w)'[k] = LeftBy(w, r.finish, how)[k]
    BY <1>11, <1>12, <2>1 DEF LeftBy
  <2>3. Contents(w)' = [k \in 1 .. n |-> Contents(w)'[k]]
    BY <1>5, ContentsView DEF View
  <2> QED
    BY <1>11, <2>2, <2>3 DEF LeftBy
<1>16. c # n => /\ vec'[v].finish = r.finish
                /\ \A k \in 1 .. r.finish :
                     \/ Contents(v)'[k] = View(r, h)[k]
                     \/ k \in DOMAIN Contents(w) /\ Contents(v)'[k] = Contents(w)[k]
  <2> SUFFICES ASSUME c # n, NEW k \in 1 .. r.finish
               PROVE  \/ Contents(v)'[k] = View(r, h)[k]
                      \/ k \in DOMAIN Contents(w) /\ Contents(v)'[k] = Contents(w)[k]
    BY <1>4, <1>5
  <2>1. k - 1 \in 0 .. (r.finish - 1)
    BY <1>2
  <2>2. Contents(v)'[k] = IF k - 1 < c THEN x[k - 1] ELSE y[k - 1]
    BY <1>4, <1>5, <1>10, <2>1, ContentsView DEF View
  <2>3. View(r, h)[k] = y[k - 1]
    BY DEF View
  <2>4. k - 1 < c => k \in 1 .. n
    BY <1>2
  <2> QED
    BY <1>11, <2>2, <2>3, <2>4
<1>17. Others({v, w})
  BY <1>5, <1>8, OthersKept
<1>18. op # "move_assign" => Others({v})
  <2> SUFFICES ASSUME op # "move_assign" PROVE Others({v})
    OBVIOUS
  <2>1. MovedAway(x, gone(c)) = x
    BY <1>3 DEF MovedAway, gone
  <2>2. q.start # Null => heap'[q.start].cell = heap[q.start].cell
    BY <1>3, <1>7, <2>1 DEF Cells
  <2> QED
    BY <1>5, <1>8, <2>2, OthersKept
<1> QED
  BY <1>1, <1>4, <1>5, <1>11, <1>13, <1>14, <1>15, <1>16, <1>17, <1>18
     DEF Overwritten, PartlyOverwritten, SomeMoved

LEMMA PartlyFrom ==
  ASSUME Inv, NEW v \in Vec, NEW w \in Vec, NEW r, NEW h, r.finish \in Nat,
         View(r, h) = Contents(v), vec'[v].finish = r.finish,
         \A k \in 1 .. r.finish :
           \/ Contents(v)'[k] = View(r, h)[k]
           \/ k \in DOMAIN Contents(w) /\ Contents(v)'[k] = Contents(w)[k]
  PROVE  Partly(v, w)
<1>1. Len(Contents(v)) = r.finish
  BY ViewSize
<1>2. Len(Contents(v)') = r.finish /\ DOMAIN Contents(v)' = 1 .. r.finish
  BY ContentsView, ViewSize
<1> QED
  BY <1>1, <1>2 DEF Partly

(* A temporary has the allocator the vector is to have, or keeps its own.  *)
LEMMA CopyAssignSpec ==
  ASSUME Inv, AssignsMatch, NEW v \in Vec, NEW w \in Vec, v # w, CopyAssign(v, w)
  PROVE  Abstract!CopyAssign(v, w)
<1> DEFINE q == vec[w]
           p == IF traits.pocca THEN q.alloc ELSE vec[v].alloc
           r == IF DropsStorage(v, w) THEN Empty(p) ELSE [vec[v] EXCEPT !.alloc = p]
           h == IF DropsStorage(v, w) THEN Released(heap, vec[v]) ELSE heap
           f == IF DropsStorage(v, w) THEN OnRelease(heap, vec[v]) ELSE {}
           Shown == /\ Others({v}) /\ vec'[v].alloc = p
                    /\ \/ Contents(v)' = Contents(w) /\ Returns("copy_assign", <<v, w>>)
                       \/ /\ IF DropsStorage(v, w) THEN Contents(v)' = <<>>
                             ELSE Partly(v, w)
                          /\ Abstract!Fails("copy_assign", <<v, w>>)
<1>1. p \in Personality /\ p = IF traits.pocca THEN q.alloc ELSE vec[v].alloc
  BY InvFacts
<1>2. h \in Heap
  BY InvFacts, ReleasedBlock
<1>3. \A u \in Vec \ {v} : vec[u].start # Null =>
        vec[u].start \in Block /\ h[vec[u].start] = heap[vec[u].start]
  <2> SUFFICES ASSUME NEW u \in Vec \ {v}, vec[u].start # Null
               PROVE  vec[u].start \in Block /\ h[vec[u].start] = heap[vec[u].start]
    OBVIOUS
  <2>1. vec[u].start \in Block \ {vec[v].start}
    BY InvFacts DEF VectorRecord
  <2> QED
    BY <2>1, InvFacts, ReleasedBlock
<1>4. /\ r \in VectorRecord /\ Holds(r, h) /\ r.alloc = p
      /\ r.start # Null => r.start = vec[v].start
      /\ r.finish \in Nat
      /\ IF DropsStorage(v, w) THEN r.finish = 0 ELSE View(r, h) = Contents(v)
  <2>1. CASE DropsStorage(v, w)
    BY <1>1, <2>1, EmptyHolds DEF Empty
  <2>2. CASE ~DropsStorage(v, w)
    <3> DEFINE t == [vec[v] EXCEPT !.alloc = p]
    <3>1. /\ t \in VectorRecord /\ t.start = vec[v].start /\ t.finish = vec[v].finish
          /\ t.eos = vec[v].eos /\ t.alloc = p
      BY <1>1, InvFacts DEF VectorRecord
    <3>2. Holds(t, heap)
      BY <1>1, <2>2, <3>1, InvFacts DEF Holds, DropsStorage, Equal
    <3>3. View(t, heap) = Contents(v) /\ t.finish \in Nat
      BY <3>1, InvFacts, TraitsAssumption DEF View, Contents, Cells
    <3> HIDE DEF t
    <3> QED
      BY <2>2, <3>1, <3>2, <3>3 DEF t
  <2> QED
    BY <2>1, <2>2
<1>5. \A u \in Vec \ {v} : vec[u].start # Null => vec[u].start # r.start
  BY <1>4, InvFacts
<1>6. /\ traits \in Assignable
      /\ \/ q.finish <= r.eos /\ Overwrite("copy_assign", v, w, r, h, f, "copy")
         \/ /\ q.finish > r.eos
            /\ AllocationFails("copy_assign", <<v, w>>, h, q.finish, "copy")
            /\ vec' = [vec EXCEPT ![v] = r] /\ heap' = h /\ faults' = faults \cup f
         \/ /\ q.finish > r.eos
            /\ \E b \in FreeBlocks(h) :
                 LET s == Select(q.alloc)
                     temp == [r EXCEPT !.alloc = IF traits.pocs THEN p ELSE s]
                     this == Owning(b, q.finish, q.finish, IF traits.pocs THEN s ELSE p)
                     k == Allocated(h, b, q.finish, s, q.finish, Cells(q, h))
                 IN  /\ vec' = [vec EXCEPT ![v] = this]
                     /\ heap' = Released(k, temp)
                     /\ faults' = faults \cup f \cup OnRelease(k, temp)
            /\ Returns("copy_assign", <<v, w>>)
  BY Zenon DEF CopyAssign
<1>7. /\ q \in VectorRecord /\ q.finish \in 0 .. MaxSize /\ MaxSize \in Nat
      /\ q.start # Null => q.start \in Block /\ h[q.start] = heap[q.start]
  BY <1>3, InvFacts, TraitsAssumption
<1>8. Cells(q, h) = Cells(q, heap)
  BY <1>7 DEF Cells
<1> HIDE DEF p, r, h, f, q
<1>9. ASSUME q.finish <= r.eos, Overwrite("copy_assign", v, w, r, h, f, "copy")
      PROVE  Shown
  <2>0. /\ vec[w].finish <= r.eos /\ "copy_assign" # "move_assign"
        /\ \A u \in Vec \ {v} : vec[u].start # Null =>
             vec[u].start # r.start /\ h[vec[u].start] = heap[vec[u].start]
    BY <1>3, <1>5, <1>9 DEF q
  <2>1. /\ \/ Overwritten("copy_assign", v, w, r, "copy")
           \/ PartlyOverwritten("copy_assign", v, w, r, h)
        /\ vec'[v].alloc = r.alloc
        /\ "copy_assign" # "move_assign" => Others({v})
    <3>1. r \in VectorRecord /\ Holds(r, h) /\ h \in Heap
      BY <1>2, <1>4
    <3> QED
      BY <1>9, <2>0, <3>1, OverwriteEffect
  <2>2. Throws("copy_assign", <<v, w>>, "exception") =>
          Abstract!Fails("copy_assign", <<v, w>>)
    BY SameTraits DEF Abstract!Fails
  <2>3. CASE Overwritten("copy_assign", v, w, r, "copy")
    BY <1>4, <2>0, <2>1, <2>3 DEF Overwritten
  <2>4. CASE PartlyOverwritten("copy_assign", v, w, r, h)
    <3>1. DropsStorage(v, w) => Contents(v)' = <<>>
      BY <1>4, <2>4, ContentsView, ViewEmpty DEF PartlyOverwritten
    <3>2. ~DropsStorage(v, w) => Partly(v, w)
      BY <1>4, <2>4, PartlyFrom DEF PartlyOverwritten
    <3> QED
      BY <1>4, <2>0, <2>1, <2>2, <2>4, <3>1, <3>2 DEF PartlyOverwritten
  <2> QED
    BY <2>1, <2>3, <2>4
<1>10. ASSUME AllocationFails("copy_assign", <<v, w>>, h, q.finish, "copy"),
              vec' = [vec EXCEPT ![v] = r], heap' = h
       PROVE  Shown
  <2>1. Abstract!Fails("copy_assign", <<v, w>>)
    BY <1>10, SpecFails
  <2>2. vec'[v] = r /\ \A u \in Vec \ {v} : vec'[u] = vec[u]
    BY <1>10, InvFacts
  <2>3. Others({v})
    BY <1>3, <1>10, <2>2, OthersKept
  <2>4. Contents(v)' = View(r, h)
    BY <1>10, <2>2, ContentsView
  <2>5. DropsStorage(v, w) => Contents(v)' = <<>>
    BY <1>4, <2>4, ViewEmpty
  <2>6. ~DropsStorage(v, w) => Partly(v, w)
    BY <1>4, <2>2, <2>4, PartlyFrom
  <2> QED
    BY <1>4, <2>1, <2>2, <2>3, <2>5, <2>6
<1>11. ASSUME q.finish > r.eos, NEW b \in FreeBlocks(h), Returns("copy_assign", <<v, w>>),
          LET s == Select(q.alloc)
              temp == [r EXCEPT !.alloc = IF traits.pocs THEN p ELSE s]
              this == Owning(b, q.finish, q.finish, IF traits.pocs THEN s ELSE p)
              k == Allocated(h, b, q.finish, s, q.finish, Cells(q, h))
          IN  /\ vec' = [vec EXCEPT ![v] = this]
              /\ heap' = Released(k, temp)
       PROVE  Shown
  <2> DEFINE s == Select(q.alloc)
             temp == [r EXCEPT !.alloc = IF traits.pocs THEN p ELSE s]
             this == Owning(b, q.finish, q.finish, IF traits.pocs THEN s ELSE p)
             k == Allocated(h, b, q.finish, s, q.finish, Cells(q, h))
  <2>1. vec' = [vec EXCEPT ![v] = this] /\ heap' = Released(k, temp)
    BY <1>11
  <2>2. q.finish \in 1 .. MaxSize /\ q.finish \in 0 .. q.finish
    BY <1>4, <1>7, <1>11 DEF VectorRecord
  <2>3. s \in Personality /\ (traits.pocs => s = p)
    <3>1. s \in Personality
      BY InvFacts, TraitsAssumption DEF Select, q
    <3> QED
      BY <1>1, <1>6, <3>1 DEF AssignsMatch, Select
  <2>4. Cells(q, h) \in [Slot -> Cell] /\ \A j \in 0 .. (q.finish - 1) : Cells(q, h)[j] # Raw
    BY <1>7, <1>8, InvFacts, CellsType, CellsLive DEF q
  <2>5. b \in Block /\ b # Null /\ b # r.start
    BY <1>2, <1>4, FreeNotHeld, TwoVectorsAssumption
  <2>6. \A u \in Vec \ {v} : vec[u].start # b
    <3> SUFFICES ASSUME NEW u \in Vec \ {v}, vec[u].start = b PROVE FALSE
      OBVIOUS
    <3>1. h[vec[u].start] = heap[vec[u].start] /\ Holds(vec[u], heap)
      BY <1>3, <2>5, InvFacts
    <3>2. Holds(vec[u], h)
      BY <3>1, HoldsElsewhere
    <3> QED
      BY <1>2, <3>2, InvFacts, FreeNotHeld
  <2>7. k \in Heap /\ \A c \in Block \ {b} : k[c] = h[c]
    BY <1>2, <2>2, <2>3, <2>4, <2>5, AllocatedBlock
  <2>8. k[b].cell = [j \in Slot |-> IF j < q.finish THEN Cells(q, h)[j] ELSE Raw]
    BY <1>2, <2>5 DEF Allocated, Heap
  <2>9. temp \in VectorRecord /\ temp.start = r.start
    BY <1>1, <1>4, <2>3 DEF VectorRecord
  <2>10. this.start = b /\ this.finish = q.finish /\ this.alloc = p
    BY <2>3 DEF Owning
  <2> HIDE DEF s, k, this, temp
  <2>11. \A c \in Block \ {r.start} : heap'[c] = k[c]
    BY <2>1, <2>7, <2>9, ReleasedBlock
  <2>12. vec'[v] = this /\ \A u \in Vec \ {v} : vec'[u] = vec[u]
    BY <2>1, InvFacts
  <2>13. \A u \in Vec \ {v} : vec[u].start # Null =>
           heap'[vec[u].start] = heap[vec[u].start]
    BY <1>3, <1>5, <2>6, <2>7, <2>11
  <2>14. Others({v})
    BY <2>12, <2>13, OthersKept
  <2>15. \A j \in 0 .. (q.finish - 1) : Cells(vec'[v], heap')[j] = Cells(q, heap)[j]
    <3>1. Cells(vec'[v], heap') = k[b].cell
      BY <2>5, <2>10, <2>11, <2>12 DEF Cells
    <3>2. \A j \in 0 .. (q.finish - 1) : j \in Slot /\ j < q.finish
      BY <1>7 DEF Slot
    <3> QED
      BY <1>8, <2>8, <3>1, <3>2
  <2>16. vec'[v].finish \in Nat /\ vec'[v].finish = vec[w].finish
    BY <1>7, <2>10, <2>12 DEF q
  <2>17. Contents(v)' = Contents(w)
    BY <2>10, <2>12, <2>15, <2>16, ContentsView, ViewsEqual DEF q
  <2> QED
    BY <1>11, <2>10, <2>12, <2>14, <2>17
<1>12. Shown
  BY <1>6, <1>9, <1>10, <1>11
<1>13. /\ Abstract!Only({v})
       /\ Abstract!Returns("copy_assign", <<v, w>>) <=> Returns("copy_assign", <<v, w>>)
       /\ Partly(v, w) => Abstract!PartlyAssigned(v, w)
       /\ Abstract!Equal(vec[v].alloc, vec[w].alloc) <=> Equal(vec[v].alloc, vec[w].alloc)
  BY <1>12, SpecOnly, SpecPartly, SameTraits
<1> QED
  BY <1>6, <1>12, <1>13 DEF p, q, DropsStorage, Abstract!CopyAssign

LEMMA MoveAssignElementsSpec ==
  ASSUME Inv, NEW v \in Vec, NEW w \in Vec, v # w, MoveAssignElements(v, w)
  PROVE  Abstract!MoveAssign(v, w)
<1> DEFINE r == vec[v]
           n == vec[w].finish
           Shown == /\ Others({v, w}) /\ vec'[v].alloc = r.alloc /\ vec'[w] = vec[w]
                    /\ \/ /\ Contents(v)' = Contents(w)
                          /\ Contents(w)' = Left(w, r.finish)
                          /\ Returns("move_assign", <<v, w>>)
                       \/ /\ \/ Partly(v, w)
                             \/ Contents(v)' = <<>> /\ Contents(w)' = Contents(w)
                          /\ SomeMoved(w)
                          /\ Abstract!Fails("move_assign", <<v, w>>)
<1>1. /\ r \in VectorRecord /\ Holds(r, heap) /\ heap \in Heap
      /\ r.finish \in 0 .. r.eos /\ r.eos \in 0 .. MaxSize /\ MaxSize \in Nat
      /\ n \in 0 .. MaxSize /\ r.alloc \in Personality
  BY InvFacts, TraitsAssumption
<1>2. ~(AlwaysTakes \/ Equal(r.alloc, vec[w].alloc))
  BY DEF MoveAssignElements
<1>3. ASSUME NEW new \in VectorRecord, NEW h \in Heap, Holds(new, h), NEW f, n <= new.eos,
             \A u \in Vec \ {v} : vec[u].start # Null =>
               vec[u].start # new.start /\ h[vec[u].start] = heap[vec[u].start],
             new.alloc = r.alloc, new.finish = r.finish, View(new, h) = Contents(v),
             Overwrite("move_assign", v, w, new, h, f, MoveIfNoexcept)
      PROVE  Shown
  <2>1. /\ \/ Overwritten("move_assign", v, w, new, MoveIfNoexcept)
           \/ PartlyOverwritten("move_assign", v, w, new, h)
        /\ vec'[v].alloc = new.alloc
        /\ SomeMoved(w)
        /\ Others({v, w}) /\ vec'[w] = vec[w]
    BY <1>3, OverwriteEffect
  <2>2. Throws("move_assign", <<v, w>>, "exception") =>
          Abstract!Fails("move_assign", <<v, w>>)
    BY SameTraits DEF Abstract!Fails
  <2>3. LeftBy(w, new.finish, MoveIfNoexcept) = Left(w, r.finish)
    BY <1>3 DEF LeftBy, Left
  <2>4. CASE PartlyOverwritten("move_assign", v, w, new, h)
    <3>1. new.finish \in Nat
      BY <1>1, <1>3
    <3>2. Partly(v, w)
      BY <1>3, <2>4, <3>1, PartlyFrom DEF PartlyOverwritten
    <3> QED
      BY <1>3, <2>1, <2>2, <2>4, <3>2 DEF PartlyOverwritten
  <2>5. CASE Overwritten("move_assign", v, w, new, MoveIfNoexcept)
    BY <1>3, <2>1, <2>3, <2>5 DEF Overwritten
  <2> QED
    BY <2>1, <2>4, <2>5
<1>4. ASSUME n <= r.eos, Overwrite("move_assign", v, w, r, heap, {}, MoveIfNoexcept)
      PROVE  Shown
  <2>1. \A u \in Vec \ {v} : vec[u].start # Null =>
          vec[u].start # r.start /\ heap[vec[u].start] = heap[vec[u].start]
    BY InvFacts
  <2>2. View(r, heap) = Contents(v)
    BY ContentsView
  <2> HIDE DEF Shown, r, n
  <2> QED
    BY <1>1, <1>3, <1>4, <2>1, <2>2
<1>5. ASSUME AllocationFails("move_assign", <<v, w>>, heap, r.finish, MoveIfNoexcept),
             vec' = IF last'.threw = "bad_alloc" THEN vec
                    ELSE [vec EXCEPT ![v] = Empty(@.alloc)],
             heap' = heap
      PROVE  Shown
  <2>1. Abstract!Fails("move_assign", <<v, w>>)
    BY <1>5, SpecFails
  <2>2. vec'[v].alloc = r.alloc /\ \A u \in Vec \ {v} : vec'[u] = vec[u]
    BY <1>5, InvFacts DEF Empty
  <2>3. Others({v, w})
    BY <1>5, <2>2, OthersKept
  <2>4. Contents(w)' = Contents(w)
    BY <1>5, <2>2 DEF Contents, Cells
  <2>5. Partly(v, w) \/ Contents(v)' = <<>>
    <3>1. CASE last'.threw = "bad_alloc"
      BY <1>5, <3>1 DEF Partly, Contents, Cells
    <3>2. CASE last'.threw # "bad_alloc"
      <4>1. vec'[v].finish = 0
        BY <1>5, <3>2, InvFacts DEF Empty
      <4> QED
        BY <4>1, ContentsView, ViewEmpty
    <3> QED
      BY <3>1, <3>2
  <2> QED
    BY <2>1, <2>2, <2>3, <2>4, <2>5 DEF SomeMoved
<1>6. ASSUME n > r.eos, NEW b \in FreeBlocks(heap),
             LET h == Allocated(heap, b, n, r.alloc, r.finish, Cells(r, heap))
             IN  Overwrite("move_assign", v, w, Owning(b, r.finish, n, r.alloc),
                           Released(h, r), OnRelease(heap, r), MoveIfNoexcept)
      PROVE  Shown
  <2> DEFINE h == Allocated(heap, b, n, r.alloc, r.finish, Cells(r, heap))
             new == Owning(b, r.finish, n, r.alloc)
  <2>1. n \in 1 .. MaxSize /\ r.finish \in 0 .. n
    BY <1>1, <1>6
  <2>2. Cells(r, heap) \in [Slot -> Cell] /\ \A j \in 0 .. (r.finish - 1) : Cells(r, heap)[j] # Raw
    BY <1>1, CellsType, CellsLive
  <2>3. b \in Block /\ \A u \in Vec : vec[u].start # b
    BY <1>6, InvFacts, FreeNotHeld
  <2>4. /\ h \in Heap /\ \A c \in Block \ {b} : h[c] = heap[c]
        /\ new \in VectorRecord /\ new.start = b /\ Holds(new, h)
    BY <1>1, <2>1, <2>2, <2>3, AllocatedBlock
  <2>5. new.eos = n /\ new.alloc = r.alloc /\ new.finish = r.finish
    BY DEF Owning
  <2>6. Overwrite("move_assign", v, w, new, Released(h, r), OnRelease(heap, r), MoveIfNoexcept)
    BY <1>6
  <2>0. \A s \in 0 .. (r.finish - 1) : h[b].cell[s] = Cells(r, heap)[s]
    <3>1. h[b].cell = [s \in Slot |-> IF s < r.finish THEN Cells(r, heap)[s] ELSE Raw]
      BY <1>1, <2>3 DEF Allocated, Heap
    <3> QED
      BY <1>1, <3>1 DEF Slot
  <2> HIDE DEF h, new
  <2>7. Released(h, r) \in Heap /\ \A c \in Block \ {r.start} : Released(h, r)[c] = h[c]
    BY <1>1, <2>4, ReleasedBlock
  <2>8. Holds(new, Released(h, r))
    BY <1>1, <2>3, <2>4, ReleasedElsewhere
  <2>9. \A u \in Vec \ {v} : vec[u].start # Null =>
          vec[u].start # new.start /\ Released(h, r)[vec[u].start] = heap[vec[u].start]
    <3> SUFFICES ASSUME NEW u \in Vec \ {v}, vec[u].start # Null
                 PROVE  /\ vec[u].start # new.start
                        /\ Released(h, r)[vec[u].start] = heap[vec[u].start]
      OBVIOUS
    <3>1. vec[u].start \in Block /\ vec[u].start # r.start /\ vec[u].start # b
      BY <2>3, InvFacts DEF VectorRecord
    <3> QED
      BY <2>4, <2>7, <3>1
  <2>10. n <= new.eos
    BY <1>1, <2>5
  <2>11. View(new, Released(h, r)) = Contents(v)
    <3>1. b # Null /\ b # r.start
      BY <2>3, TwoVectorsAssumption
    <3>2. Cells(new, Released(h, r)) = h[b].cell
      BY <2>3, <2>4, <2>7, <3>1 DEF Cells
    <3>3. new.finish \in Nat
      BY <1>1, <2>5
    <3> QED
      BY <1>1, <2>0, <2>5, <3>2, <3>3, ContentsView, ViewsEqual
  <2> HIDE DEF Shown, r, n
  <2> QED
    BY <1>3, <2>4, <2>5, <2>6, <2>7, <2>8, <2>9, <2>10, <2>11
<1>7. Shown
  <2> HIDE DEF Shown
  <2> QED  BY <1>4, <1>5, <1>6 DEF MoveAssignElements
<1>8. /\ Abstract!Only({v, w})
      /\ Abstract!Returns("move_assign", <<v, w>>) <=> Returns("move_assign", <<v, w>>)
      /\ ~(Abstract!AlwaysTakes \/ Abstract!Equal(r.alloc, vec[w].alloc))
      /\ ~traits.pocma
      /\ Partly(v, w) => Abstract!PartlyAssigned(v, w)
      /\ Abstract!LeftIn(w, r.finish) = Left(w, r.finish)
  BY <1>2, <1>7, SpecOnly, SpecPartly, SpecLeft, SameTraits DEF AlwaysTakes
<1>9. Len(Contents(v)) = r.finish
  BY <1>1, ContentsView, ViewSize
<1> QED
  BY <1>7, <1>8, <1>9 DEF SomeMoved, Abstract!MoveAssign

-----------------------------------------------------------------------------
(* std::remove_if: element t of those kept goes to the slot that has the   *)
(* number of kept elements before t.                                       *)

Kept(x, S, c) == {s \in 0 .. (c - 1) : x[s] \notin S}
Rank(x, S, c) == Cardinality(Kept(x, S, c))

LEMMA RankType ==
  ASSUME NEW x, NEW S, NEW c \in Nat
  PROVE  IsFiniteSet(Kept(x, S, c)) /\ Rank(x, S, c) \in 0 .. c
<1>1. Kept(x, S, c) \in SUBSET (0 .. (c - 1))
  BY DEF Kept
<1>2. IsFiniteSet(0 .. (c - 1))
  BY FS_Interval
<1> QED
  BY <1>1, <1>2, FS_Subset, RankBound DEF Rank

LEMMA RankGrows ==
  ASSUME NEW x, NEW S, NEW c \in Nat, NEW t \in Kept(x, S, c)
  PROVE  t \in Nat /\ Rank(x, S, t) < Rank(x, S, c)
<1>1. t \in Nat /\ t < c /\ t \in 0 .. (c - 1)
  BY DEF Kept
<1>2. Kept(x, S, t) \in SUBSET Kept(x, S, c) /\ t \notin Kept(x, S, t)
  BY <1>1 DEF Kept
<1>3. Rank(x, S, t) <= Rank(x, S, c) /\ Rank(x, S, t) # Rank(x, S, c)
  BY <1>2, RankType, FS_Subset DEF Rank
<1> QED
  BY <1>1, <1>3, RankType

(* Two kept elements go to different slots, in their order.                *)
LEMMA RankOrder ==
  ASSUME NEW x, NEW S, NEW c \in Nat, NEW t \in Kept(x, S, c), NEW u \in Kept(x, S, c)
  PROVE  Rank(x, S, t) < Rank(x, S, u) <=> t < u
<1>1. t \in Nat /\ u \in Nat
  BY RankGrows
<1>2. Rank(x, S, t) \in Nat /\ Rank(x, S, u) \in Nat
  BY <1>1, RankType
<1>3. t < u => t \in Kept(x, S, u)
  BY <1>1 DEF Kept
<1>4. u < t => u \in Kept(x, S, t)
  BY <1>1 DEF Kept
<1>5. t < u => Rank(x, S, t) < Rank(x, S, u)
  BY <1>1, <1>3, RankGrows
<1>6. u < t => Rank(x, S, u) < Rank(x, S, t)
  BY <1>1, <1>4, RankGrows
<1> QED
  BY <1>1, <1>2, <1>5, <1>6

(* No slot in front is left without one.                                   *)
LEMMA RankExact ==
  ASSUME NEW x, NEW S, NEW c \in Nat, NEW s \in 0 .. (Rank(x, S, c) - 1)
  PROVE  \E t \in Kept(x, S, c) : Rank(x, S, t) = s
<1> DEFINE K == Kept(x, S, c)
           m == Rank(x, S, c)
           T == 0 .. (m - 1)
           f == [t \in K |-> Rank(x, S, t)]
<1>1. m \in Nat /\ IsFiniteSet(K) /\ Cardinality(K) = m
  BY RankType DEF Rank
<1>2. IsFiniteSet(T) /\ Cardinality(T) = m
  BY <1>1, FS_Interval
<1>3. \A t \in K : Rank(x, S, t) \in T
  <2> TAKE t \in K
  <2>1. t \in Nat /\ Rank(x, S, t) < m
    BY RankGrows
  <2> QED
    BY <1>1, <2>1, RankType
<1>4. \A t, u \in K : t # u => Rank(x, S, t) # Rank(x, S, u)
  <2> TAKE t \in K, u \in K
  <2>1. t \in Nat /\ u \in Nat
    BY RankGrows
  <2>2. Rank(x, S, t) \in Nat /\ Rank(x, S, u) \in Nat
    BY <2>1, RankType
  <2>3. t < u => Rank(x, S, t) < Rank(x, S, u)
    BY RankOrder
  <2>4. u < t => Rank(x, S, u) < Rank(x, S, t)
    BY RankOrder
  <2> QED
    BY <2>1, <2>2, <2>3, <2>4
<1> HIDE DEF K, m, T
<1>5. f \in Injection(K, T)
  BY <1>3, <1>4 DEF Injection, IsInjective
<1> HIDE DEF f
<1>6. f \in Surjection(K, T)
  BY <1>1, <1>2, <1>5, FS_Injection
<1>7. s \in T
  BY DEF T, m
<1>8. PICK t \in K : f[t] = s
  BY <1>6, <1>7 DEF Surjection
<1> QED
  BY <1>8 DEF f, K

LEMMA EraseIfSpec ==
  ASSUME Inv, NEW v \in Vec, NEW S \in SUBSET Value, EraseIf(v, S)
  PROVE  Abstract!EraseIf(v, S)
<1> DEFINE r == vec[v]
           n == r.finish
           x == Cells(r, heap)
           Before(c) == [s \in Slot |->
             IF \E t \in Kept(x, S, c) : Rank(x, S, t) = s
             THEN x[CHOOSE t \in Kept(x, S, c) : Rank(x, S, t) = s]
             ELSE IF s \in Kept(x, S, c) THEN Moved ELSE x[s]]
           Cut(c) == [s \in Slot |-> IF Rank(x, S, c) <= s /\ s < c THEN Raw ELSE Before(c)[s]]
<1>1. /\ r \in VectorRecord /\ heap \in Heap
      /\ n \in Nat /\ n <= MaxSize /\ MaxSize \in Nat
  BY InvFacts, TraitsAssumption
<1>2. PICK c \in 0 .. n :
        IF c < n
        THEN /\ heap' = [heap EXCEPT ![r.start].cell = Before(c)]
             /\ UNCHANGED vec /\ Throws("erase_if", <<v, S>>, "exception")
        ELSE /\ heap' = [heap EXCEPT ![r.start].cell = Cut(c)]
             /\ vec' = [vec EXCEPT ![v].finish = Rank(x, S, c)]
             /\ Returns("erase_if", <<v, S>>)
  BY Zenon DEF EraseIf, Kept, Rank
<1>3. r.start # Null /\ r.start \in Block
  BY <1>1 DEF EraseIf, VectorRecord
<1> HIDE DEF Before, Cut
<1>4. /\ \A b \in Block \ {r.start} : heap'[b] = heap[b]
      /\ heap'[r.start].cell = IF c < n THEN Before(c) ELSE Cut(c)
  BY <1>1, <1>2, <1>3 DEF Heap
<1>5. \A u \in Vec \ {v} : vec[u].start # Null => heap'[vec[u].start] = heap[vec[u].start]
  <2> SUFFICES ASSUME NEW u \in Vec \ {v}, vec[u].start # Null
               PROVE  heap'[vec[u].start] = heap[vec[u].start]
    OBVIOUS
  <2>1. vec[u].start \in Block /\ vec[u].start # r.start
    BY <1>3, InvFacts DEF VectorRecord
  <2> QED
    BY <1>4, <2>1
<1>6. /\ \A u \in Vec \ {v} : vec'[u] = vec[u]
      /\ \A u \in Vec : vec'[u].alloc = vec[u].alloc
      /\ vec'[v].start = r.start
      /\ vec'[v].finish = IF c < n THEN n ELSE Rank(x, S, c)
  BY <1>1, <1>2, InvFacts DEF VectorRecord
<1>7. Others({v})
  BY <1>5, <1>6, OthersKept
<1>8. Abstract!Only({v}) /\ [u \in Vec |-> vec'[u].alloc] = [u \in Vec |-> vec[u].alloc]
  BY <1>6, <1>7, SpecOnly
<1>9. CASE c < n
  <2>1. Len(Contents(v)') = Len(Contents(v))
    BY <1>1, <1>6, <1>9, ContentsView, ViewSize
  <2>2. Abstract!Fails("erase_if", <<v, S>>)
    BY <1>2, <1>9, SameTraits DEF Abstract!Fails
  <2>3. /\ DOMAIN Contents(v) = 1 .. n /\ \A k \in 1 .. n : Contents(v)[k] = x[k - 1]
        /\ DOMAIN Contents(v)' = 1 .. n
        /\ \A k \in 1 .. n : Contents(v)'[k] = Before(c)[k - 1]
    BY <1>3, <1>4, <1>6, <1>9, ContentsView DEF View, Cells
  <2>4. ASSUME NEW k \in 1 .. n
        PROVE  \/ Before(c)[k - 1] = Moved
               \/ \E j \in 1 .. n : Before(c)[k - 1] = x[j - 1]
    <3> DEFINE s == k - 1
               t == CHOOSE u \in Kept(x, S, c) : Rank(x, S, u) = s
    <3>1. s \in Slot
      BY <1>1 DEF Slot
    <3>2. CASE \E u \in Kept(x, S, c) : Rank(x, S, u) = s
      <4>1. t \in Kept(x, S, c)
        BY <3>2
      <4>2. t + 1 \in 1 .. n /\ (t + 1) - 1 = t
        BY <1>1, <1>9, <4>1 DEF Kept
      <4>3. Before(c)[s] = x[t]
        BY <3>1, <3>2 DEF Before
      <4> QED
        BY <4>2, <4>3
    <3>3. CASE ~\E u \in Kept(x, S, c) : Rank(x, S, u) = s
      BY <3>1, <3>3 DEF Before
    <3> QED
      BY <3>2, <3>3
  <2>5. \A k \in DOMAIN Contents(v)' :
          \/ Contents(v)'[k] = Moved
          \/ \E j \in DOMAIN Contents(v) : Contents(v)'[k] = Contents(v)[j]
    BY <2>3, <2>4
  <2> QED
    BY <1>8, <2>1, <2>2, <2>5 DEF Abstract!EraseIf
<1>10. CASE c = n
  <2> DEFINE m == Rank(x, S, n)
             place(s) == CHOOSE t \in Kept(x, S, n) : Rank(x, S, t) = s
             from == [j \in 1 .. m |-> place(j - 1) + 1]
             old == Contents(v)
             new == Contents(v)'
             K == {k \in DOMAIN old : old[k] \notin S}
  <2>1. /\ m \in 0 .. n /\ m \in Nat /\ vec'[v].finish = m
        /\ Returns("erase_if", <<v, S>>)
        /\ Cells(vec'[v], heap') = Cut(n)
    BY <1>1, <1>2, <1>3, <1>4, <1>6, <1>10, RankType DEF Cells
  <2>2. \A s \in 0 .. (m - 1) : place(s) \in Kept(x, S, n) /\ Rank(x, S, place(s)) = s
    BY <1>1, RankExact
  <2>3. \A s \in 0 .. (m - 1) : Cut(n)[s] = x[place(s)]
    <3> TAKE s \in 0 .. (m - 1)
    <3>1. s \in Slot /\ s < m
      BY <1>1, <2>1 DEF Slot
    <3>2. Cut(n)[s] = Before(n)[s]
      BY <2>1, <3>1 DEF Cut
    <3> QED
      BY <2>2, <3>1, <3>2 DEF Before
  <2>4. /\ DOMAIN old = 1 .. n /\ \A k \in 1 .. n : old[k] = x[k - 1]
        /\ DOMAIN new = 1 .. m /\ \A j \in 1 .. m : new[j] = Cut(n)[j - 1]
    BY <2>1, ContentsView DEF View
  <2>5. \A k \in Nat : k \in K <=> k \in 1 .. n /\ k - 1 \in Kept(x, S, n)
    BY <1>1, <2>4 DEF Kept
  <2>6. \A t \in Kept(x, S, n) : t \in 0 .. (n - 1)
    BY DEF Kept
  <2> HIDE DEF m, place, old, new, K
  <2>7. \A j \in 1 .. m : /\ from[j] \in K /\ from[j] - 1 = place(j - 1)
                          /\ from[j] \in Nat /\ j - 1 \in 0 .. (m - 1)
    <3> TAKE j \in 1 .. m
    <3>1. j - 1 \in 0 .. (m - 1)
      BY <2>1
    <3>2. place(j - 1) \in Kept(x, S, n) /\ place(j - 1) \in 0 .. (n - 1)
      BY <2>2, <2>6, <3>1
    <3>3. /\ from[j] \in Nat /\ from[j] - 1 = place(j - 1) /\ from[j] \in 1 .. n
      BY <1>1, <3>2
    <3> QED
      BY <2>5, <3>1, <3>2, <3>3
  <2>8. \A j \in 1 .. m : new[j] = old[from[j]]
    <3> TAKE j \in 1 .. m
    <3>1. from[j] \in 1 .. n
      BY <2>5, <2>7
    <3> QED
      BY <2>3, <2>4, <2>7, <3>1
  <2>9. \A i, j \in 1 .. m : i < j => from[i] < from[j]
    <3> TAKE i, j \in 1 .. m
    <3>1. /\ place(i - 1) \in Kept(x, S, n) /\ Rank(x, S, place(i - 1)) = i - 1
          /\ place(j - 1) \in Kept(x, S, n) /\ Rank(x, S, place(j - 1)) = j - 1
      BY <2>2, <2>7
    <3>2. i - 1 < j - 1 => place(i - 1) < place(j - 1)
      BY <1>1, <3>1, RankOrder
    <3>3. place(i - 1) \in Nat /\ place(j - 1) \in Nat
      BY <2>6, <3>1
    <3> QED
      BY <2>1, <2>7, <3>2, <3>3
  <2>10. \A k \in K : \E j \in 1 .. m : from[j] = k
    <3> TAKE k \in K
    <3>1. k \in 1 .. n
      BY <2>4 DEF K
    <3>2. k - 1 \in Kept(x, S, n) /\ k - 1 \in Nat
      BY <1>1, <2>5, <3>1
    <3> DEFINE s == Rank(x, S, k - 1)
    <3>3. s < m /\ s \in Nat
      BY <1>1, <3>2, RankGrows, RankType DEF m
    <3>4. place(s) \in Kept(x, S, n) /\ Rank(x, S, place(s)) = s
      BY <2>1, <2>2, <3>3
    <3>5. place(s) \in Nat
      BY <2>6, <3>4
    <3>6. ~(place(s) < k - 1) /\ ~(k - 1 < place(s))
      BY <1>1, <3>2, <3>3, <3>4, RankOrder
    <3>7. s + 1 \in 1 .. m /\ from[s + 1] = place(s) + 1
      BY <2>1, <3>3
    <3>8. from[s + 1] = k
      BY <3>1, <3>2, <3>5, <3>6, <3>7
    <3> QED
      BY <3>7, <3>8
  <2>11. Abstract!Remaining(new, old, S)
    <3>1. from \in [DOMAIN new -> K]
      BY <2>4, <2>7
    <3> HIDE DEF from
    <3> QED
      BY <2>4, <2>8, <2>9, <2>10, <3>1 DEF Abstract!Remaining, K
  <2>12. Abstract!Returns("erase_if", <<v, S>>)
    BY <2>1, SameTraits
  <2> QED
    BY <1>8, <2>11, <2>12 DEF Abstract!EraseIf, new, old
<1> QED
  BY <1>1, <1>9, <1>10

-----------------------------------------------------------------------------

(* Every function is a step of the specification.                          *)
LEMMA NextSpec ==
  ASSUME Inv, AssignsMatch, [Next]_vars
  PROVE  [Abstract!Next]_(Abstract!vars)
<1>1. ASSUME Next PROVE Abstract!Next
  <2>1. UNCHANGED traits
    <3>1. \A v, w, p : CopyConstructWith(v, w, p) \/ CopyConstruct(v, w) => UNCHANGED traits
      BY DEF CopyConstructWith, CopyConstruct, CopyFrom
    <3>2. \A v, w, p : MoveConstructWith(v, w, p) \/ MoveConstruct(v, w) => UNCHANGED traits
      BY DEF MoveConstructWith, MoveConstruct
    <3>3. \A v, w : CopyAssign(v, w) => UNCHANGED traits
      BY Zenon DEF CopyAssign
    <3>4. \A v, w : MoveAssignElements(v, w) => UNCHANGED traits
      BY Zenon DEF MoveAssignElements
    <3>5. \A v, w : MoveAssignTakes(v, w) \/ Swap(v, w) => UNCHANGED traits
      BY DEF MoveAssignTakes, Swap
    <3>6. \A v, x, p : Destroy(v) \/ Construct(v, x, p) => UNCHANGED traits
      BY DEF Destroy, Construct
    <3>7. \A v, S : EraseIf(v, S) => UNCHANGED traits
      BY DEF EraseIf
    <3> QED
      BY <1>1, <3>1, <3>2, <3>3, <3>4, <3>5, <3>6, <3>7, Zenon DEF Next
  <2>2. ASSUME NEW v \in Vec,
               \/ Destroy(v)
               \/ \E x \in Source, p \in Personality : Construct(v, x, p)
               \/ \E S \in SUBSET Value : EraseIf(v, S)
        PROVE  \/ Abstract!Destroy(v)
               \/ \E x \in Source, p \in Personality : Abstract!Construct(v, x, p)
               \/ \E S \in SUBSET Value : Abstract!EraseIf(v, S)
    BY <2>2, DestroySpec, ConstructSpec, EraseIfSpec
  <2>3. ASSUME NEW v \in Vec, NEW w \in Vec, v # w, NEW p \in Personality,
               CopyConstructWith(v, w, p) \/ MoveConstructWith(v, w, p)
        PROVE  \/ Abstract!CopyConstruct(v, w, p, "copy_construct_with", <<v, w, p>>)
               \/ Abstract!MoveConstruct(v, w, p, "move_construct_with", <<v, w, p>>)
    BY <2>3, CopyConstructSpec, MoveConstructWithSpec DEF CopyConstructWith
  <2>4. ASSUME NEW v \in Vec, NEW w \in Vec, v # w, CopyConstruct(v, w)
        PROVE  Abstract!CopyConstruct(v, w, Abstract!Select(vec[w].alloc),
                                      "copy_construct", <<v, w>>)
    <3>1. Select(vec[w].alloc) \in Personality
      BY InvFacts, TraitsAssumption DEF Select
    <3>2. Abstract!Select(vec[w].alloc) = Select(vec[w].alloc)
      BY SameTraits
    <3>3. CopyFrom("copy_construct", <<v, w>>, v, w, Select(vec[w].alloc))
      BY <2>4 DEF CopyConstruct
    <3> QED
      BY <2>4, <3>1, <3>2, <3>3, CopyConstructSpec
  <2>5. ASSUME NEW v \in Vec, NEW w \in Vec, v # w,
               CopyAssign(v, w) \/ MoveAssignTakes(v, w) \/ MoveAssignElements(v, w)
               \/ Swap(v, w)
        PROVE  Abstract!CopyAssign(v, w) \/ Abstract!MoveAssign(v, w) \/ Abstract!Swap(v, w)
    BY <2>5, CopyAssignSpec, MoveAssignTakesSpec, MoveAssignElementsSpec, SwapSpec
  <2>6. \A w \in Vec : [u \in Vec |-> vec[u].alloc][w] = vec[w].alloc
    OBVIOUS
  <2> QED
    BY <1>1, <2>1, <2>2, <2>3, <2>4, <2>5, <2>6, MoveConstructSpec, Zenon
       DEF Next, Abstract!Next
<1>2. CASE UNCHANGED vars
  <2>1. \A u : Contents(u)' = Contents(u)
    BY <1>2 DEF vars, Contents, Cells
  <2> QED
    BY <1>2, <2>1 DEF vars, Abstract!vars
<1> QED
  BY <1>1, <1>2

LEMMA InitSpec == Init => Abstract!Init
<1> SUFFICES ASSUME Init PROVE Abstract!Init
  OBVIOUS
<1>1. PICK p \in [Vec -> Personality] : vec = [v \in Vec |-> Empty(p[v])]
  BY DEF Init
<1>2. \A v \in Vec : vec[v].finish = 0 /\ vec[v].alloc = p[v]
  BY <1>1 DEF Empty
<1>3. [v \in Vec |-> Contents(v)] = [v \in Vec |-> <<>>]
  BY <1>2, ContentsView, ViewEmpty
<1>4. [v \in Vec |-> vec[v].alloc] \in [Vec -> Personality]
  BY <1>2
<1> QED
  BY <1>3, <1>4, SameTraits DEF Init, Abstract!Init

(* For any number of vectors and any traits, every function that returns   *)
(* gives each vector exactly the elements and the allocator that the traits*)
(* say.  An exception leaves every vector but the function's own as it was;*)
(* of those, a constructor's as they were, an assignment's target partly   *)
(* assigned or empty, and the one moved from with some elements moved from.*)
THEOREM KeepsPromises == AssignsMatch => (Spec => ImplementsSpec)
<1> SUFFICES ASSUME AssignsMatch PROVE Spec => ImplementsSpec
  OBVIOUS
<1>1. Inv /\ [Next]_vars => Inv'
  BY NextInv, AssignsSound
<1>2. Inv /\ [Next]_vars => [Abstract!Next]_(Abstract!vars)
  BY NextSpec
<1> QED
  BY InitInv, InitSpec, <1>1, <1>2, PTL DEF Spec, ImplementsSpec, Abstract!Spec

=============================================================================
