----------------------------- MODULE TwoVectors -----------------------------
(***************************************************************************)
(* Vectors of one type that share memory and allocators: the copying and   *)
(* moving constructors of vector.h, its copy and move assignment, swap,    *)
(* and std::erase_if.  A block remembers the allocator it came from, as in *)
(* the map of uneq_allocator (testsuite_allocator.h), and only an equal    *)
(* one may release it.                                                     *)
(*                                                                         *)
(* One step is one function, with the element at which it throws, if any.  *)
(* Step by step these loops, and the other members, are in Vector.         *)
(***************************************************************************)
EXTENDS AllocatorTraits

CONSTANTS
  Block,        \* the storage blocks that exist (a bound)
  Null          \* nullptr

ASSUME TwoVectorsAssumption == Null \notin Block

VARIABLES
  vec,      \* vector -> its m_start, m_finish, m_end_of_storage, rebound_alloc
  heap,     \* block -> its size, the personality it came from, its objects
  faults    \* the wrong uses of memory made so far

vars == <<vec, heap, faults, traits, last>>

Slot == 0 .. (MaxSize - 1)
Cell == Value \cup {Raw, Moved}

Free == [size |-> 0, by |-> Fresh, cell |-> [s \in Slot |-> Raw]]

FreeBlocks(h) == {b \in Block : h[b].size = 0}

(* A vector without storage.                                               *)
Empty(p) == [start |-> Null, finish |-> 0, eos |-> 0, alloc |-> p]

(* Mutant of Owning: m_end_of_storage is one too far.                      *)
OwningOneMore(b, n, cap, p) ==
  [start |-> b, finish |-> n, eos |-> cap + 1, alloc |-> p]

(* A vector with n elements in block b of cap slots.                       *)
Owning(b, n, cap, p) == [start |-> b, finish |-> n, eos |-> cap, alloc |-> p]

(* The slots that vector record r has in heap h.                           *)
Cells(r, h) == IF r.start = Null THEN Free.cell ELSE h[r.start].cell

Contents(v) == [k \in 1 .. vec[v].finish |-> Cells(vec[v], heap)[k - 1]]

(* Block b of h allocated from p, with n of its cap slots constructed from *)
(* cell.                                                                   *)
Allocated(h, b, cap, p, n, cell) ==
  [h EXCEPT ![b] = [size |-> cap, by |-> p,
                    cell |-> [s \in Slot |-> IF s < n THEN cell[s] ELSE Raw]]]

(* Mutant of Released: without elements, nothing is deallocated.           *)
ReleasedElements(h, r) ==
  IF r.start = Null \/ r.finish = 0 THEN h ELSE [h EXCEPT ![r.start] = Free]

(* destroy_and_deallocate(m_start, m_finish, capacity()) of record r, and  *)
(* what is wrong with it.                                                  *)
Released(h, r) == IF r.start = Null THEN h ELSE [h EXCEPT ![r.start] = Free]

OnRelease(h, r) ==
  IF r.start = Null THEN {}
  ELSE (IF Equal(r.alloc, h[r.start].by) THEN {} ELSE {"wrong_allocator"})
       \cup (IF h[r.start].size = r.eos /\ r.eos > 0 THEN {} ELSE {"free_wrong"})
       \cup (IF \E s \in Slot : s < r.finish /\ h[r.start].cell[s] = Raw
             THEN {"destroy_raw"} ELSE {})
       \cup (IF \E s \in Slot : s >= r.finish /\ h[r.start].cell[s] # Raw
             THEN {"free_live"} ELSE {})

-----------------------------------------------------------------------------

Init ==
  /\ traits \in Traits
  /\ \E p \in [Vec -> Personality] : vec = [v \in Vec |-> Empty(p[v])]
  /\ heap = [b \in Block |-> Free]
  /\ faults = {}
  /\ last = NoneYet

(* A constructor can run where there is no vector, or one without storage, *)
(* whose destructor has nothing to do.                                     *)
Vacant(v) == vec[v].start = Null

(* allocate throws, or a constructor of one of n elements in a new block,  *)
(* whose handler has then released the block.                              *)
AllocationFails(op, args, h, n, how) ==
  \/ ("alloc" \in MayThrow \/ FreeBlocks(h) = {}) /\ Throws(op, args, "bad_alloc")
  \/ n > 0 /\ how \in MayThrow /\ Throws(op, args, "exception")

(* A constructor of v with room for cap elements, n of them from cell;     *)
(* nothing is allocated for cap = 0.  h is what it does to other blocks.   *)
Build(op, args, v, p, cap, n, cell, how, h) ==
  \/ cap > 0 /\ AllocationFails(op, args, heap, n, how) /\ UNCHANGED <<vec, heap>>
  \/ /\ cap = 0
     /\ vec' = [vec EXCEPT ![v] = Empty(p)] /\ UNCHANGED heap /\ Returns(op, args)
  \/ /\ cap > 0
     /\ \E b \in FreeBlocks(heap) :
          /\ vec' = [vec EXCEPT ![v] = Owning(b, n, cap, p)]
          /\ heap' = Allocated(h, b, cap, p, n, cell)
     /\ Returns(op, args)

(* vector(first, last, p) of the range x.                                  *)
Construct(v, x, p) ==
  /\ Vacant(v)
  /\ Build("construct", <<v, x, p>>, v, p, Len(x), Len(x),
           [s \in Slot |-> IF s < Len(x) THEN x[s + 1] ELSE Raw], "copy", heap)
  /\ UNCHANGED <<faults, traits>>

(* ~vector().                                                              *)
Destroy(v) ==
  /\ heap' = Released(heap, vec[v])
  /\ vec' = [vec EXCEPT ![v] = Empty(@.alloc)]
  /\ faults' = faults \cup OnRelease(heap, vec[v])
  /\ Returns("destroy", <<v>>) /\ UNCHANGED traits

(* v is built from the elements of w, with allocator p.                    *)
CopyFrom(op, args, v, w, p) ==
  /\ Vacant(v)
  /\ LET n == vec[w].finish
     IN  Build(op, args, v, p, n, n, Cells(vec[w], heap), "copy", heap)
  /\ UNCHANGED <<faults, traits>>

(* vector(const vector&, p).                                               *)
CopyConstructWith(v, w, p) ==
  CopyFrom("copy_construct_with", <<v, w, p>>, v, w, p)

(* Mutant of CopyConstruct: the allocator of the original is always copied.*)
CopyConstructSame(v, w) ==
  CopyFrom("copy_construct", <<v, w>>, v, w, vec[w].alloc)

(* vector(const vector&).                                                  *)
CopyConstruct(v, w) ==
  CopyFrom("copy_construct", <<v, w>>, v, w, Select(vec[w].alloc))

(* Mutant of Take: the pointers of w are not reset.                        *)
TakeAndShare(v, w, p) == vec' = [vec EXCEPT ![v] = [vec[w] EXCEPT !.alloc = p]]

(* v has the storage of w and allocator p, w none.                         *)
Take(v, w, p) ==
  vec' = [vec EXCEPT ![v] = [vec[w] EXCEPT !.alloc = p], ![w] = Empty(@.alloc)]

(* vector(vector&&).                                                       *)
MoveConstruct(v, w) ==
  /\ Vacant(v)
  /\ Take(v, w, vec[w].alloc)
  /\ Returns("move_construct", <<v, w>>) /\ UNCHANGED <<heap, faults, traits>>

(* The cells after the objects in S have been moved from.                  *)
MovedAway(cell, S) == [s \in Slot |-> IF s \in S THEN Moved ELSE cell[s]]

(* vector(vector&&, p): storage of an unequal allocator cannot be taken.   *)
MoveConstructWith(v, w, p) ==
  /\ Vacant(v)
  /\ \/ /\ Equal(p, vec[w].alloc)
        /\ Take(v, w, p) /\ UNCHANGED heap
        /\ Returns("move_construct_with", <<v, w, p>>)
     \/ /\ ~Equal(p, vec[w].alloc)
        /\ LET q == vec[w]
               gone == IF MoveIfNoexcept = "move" THEN 0 .. (q.finish - 1) ELSE {}
               h == [b \in Block |-> IF b = q.start
                       THEN [heap[b] EXCEPT !.cell = MovedAway(@, gone)] ELSE heap[b]]
           IN  Build("move_construct_with", <<v, w, p>>, v, p, q.eos, q.finish,
                     Cells(q, heap), MoveIfNoexcept, h)
  /\ UNCHANGED <<faults, traits>>

-----------------------------------------------------------------------------

(* The elements of w over those of r, which v is to be: assigned up to     *)
(* r.finish, constructed from there on, the surplus destroyed; m_finish    *)
(* moves last.  It stops after c elements when the next one throws.        *)
Overwrite(op, v, w, r, h, f, how) ==
  LET q == vec[w]
      n == q.finish
      x == Cells(q, h)
      y == Cells(r, h)
  IN  \E c \in 0 .. n :
        LET gone == IF op # "move_assign" THEN {}
                    ELSE {s \in 0 .. (c - 1) : s < r.finish \/ how = "move"}
            cell == [s \in Slot |-> IF s < c THEN x[s]
                                    ELSE IF c = n /\ s < r.finish THEN Raw ELSE y[s]]
        IN  /\ c < n => (IF c < r.finish THEN "assign" ELSE how) \in MayThrow
            /\ heap' = [b \in Block |->
                 IF b = r.start THEN [h[b] EXCEPT !.cell = cell]
                 ELSE IF b = q.start THEN [h[b] EXCEPT !.cell = MovedAway(x, gone)]
                 ELSE h[b]]
            /\ vec' = [vec EXCEPT ![v] = IF c = n THEN [r EXCEPT !.finish = n] ELSE r]
            /\ faults' = faults \cup f
                 \cup (IF \E s \in Slot : s < c /\ x[s] = Raw THEN {"read_raw"} ELSE {})
                 \cup (IF \E s \in Slot : s < r.finish /\ y[s] = Raw
                       THEN {"assign_raw"} ELSE {})
                 \cup (IF \E s \in Slot : s >= r.finish /\ s < c /\ y[s] # Raw
                       THEN {"construct_live"} ELSE {})
            /\ IF c = n THEN Returns(op, <<v, w>>)
               ELSE Throws(op, <<v, w>>, "exception")

(* Mutant of DropsStorage: storage that the new allocator cannot release   *)
(* is kept.                                                                *)
NeverDrops(v, w) == FALSE

(* The allocator is about to be replaced by an unequal one.                *)
DropsStorage(v, w) == traits.pocca /\ ~Equal(vec[v].alloc, vec[w].alloc)

(* operator=(const vector&).  A copy that does not fit is made in a        *)
(* temporary vector and swapped in: the temporary has the allocator that   *)
(* the copy constructor selects, and takes the old storage with it.        *)
CopyAssign(v, w) ==
  LET q == vec[w]
      p == IF traits.pocca THEN q.alloc ELSE vec[v].alloc
      r == IF DropsStorage(v, w) THEN Empty(p) ELSE [vec[v] EXCEPT !.alloc = p]
      h == IF DropsStorage(v, w) THEN Released(heap, vec[v]) ELSE heap
      f == IF DropsStorage(v, w) THEN OnRelease(heap, vec[v]) ELSE {}
  IN  /\ traits \in Assignable
      /\ \/ q.finish <= r.eos /\ Overwrite("copy_assign", v, w, r, h, f, "copy")
         \/ /\ q.finish > r.eos
            /\ AllocationFails("copy_assign", <<v, w>>, h, q.finish, "copy")
            /\ vec' = [vec EXCEPT ![v] = r] /\ heap' = h /\ faults' = faults \cup f
         \/ /\ q.finish > r.eos
            /\ \E b \in FreeBlocks(h) :
                 LET s == Select(q.alloc)
                     temp == [r EXCEPT !.alloc = IF traits.pocs THEN p ELSE s]
                     this == Owning(b, q.finish, q.finish, IF traits.pocs THEN s ELSE p)
                     k == Allocated(h, b, q.finish, s, q.finish, Cells(q, h))
                 IN  /\ vec' = [vec EXCEPT ![v] = this]
                     /\ heap' = Released(k, temp)
                     /\ faults' = faults \cup f \cup OnRelease(k, temp)
            /\ Returns("copy_assign", <<v, w>>)
      /\ UNCHANGED traits

(* operator=(vector&&) when it takes the storage.                          *)
MoveAssignTakes(v, w) ==
  /\ AlwaysTakes \/ Equal(vec[v].alloc, vec[w].alloc)
  /\ heap' = Released(heap, vec[v])
  /\ faults' = faults \cup OnRelease(heap, vec[v])
  /\ Take(v, w, IF traits.pocma THEN vec[w].alloc ELSE vec[v].alloc)
  /\ Returns("move_assign", <<v, w>>) /\ UNCHANGED traits

(* operator=(vector&&) when it must move the elements.  It reserves room   *)
(* for them first; an exception of a constructor in reserve costs v its    *)
(* elements and their block.                                               *)
MoveAssignElements(v, w) ==
  LET r == vec[v]
      n == vec[w].finish
  IN  /\ ~(AlwaysTakes \/ Equal(r.alloc, vec[w].alloc))
      /\ \/ /\ n <= r.eos
            /\ Overwrite("move_assign", v, w, r, heap, {}, MoveIfNoexcept)
         \/ /\ n > r.eos
            /\ AllocationFails("move_assign", <<v, w>>, heap, r.finish, MoveIfNoexcept)
            /\ vec' = IF last'.threw = "bad_alloc" THEN vec
                      ELSE [vec EXCEPT ![v] = Empty(@.alloc)]
            /\ UNCHANGED <<heap, faults>>
         \/ /\ n > r.eos
            /\ \E b \in FreeBlocks(heap) :
                 LET h == Allocated(heap, b, n, r.alloc, r.finish, Cells(r, heap))
                 IN  Overwrite("move_assign", v, w, Owning(b, r.finish, n, r.alloc),
                               Released(h, r), OnRelease(heap, r), MoveIfNoexcept)
      /\ UNCHANGED traits

Swap(v, w) ==
  /\ Swappable(vec[v].alloc, vec[w].alloc)
  /\ vec' = [vec EXCEPT
       ![v] = [vec[w] EXCEPT !.alloc = IF traits.pocs THEN @ ELSE vec[v].alloc],
       ![w] = [vec[v] EXCEPT !.alloc = IF traits.pocs THEN @ ELSE vec[w].alloc]]
  /\ Returns("swap", <<v, w>>) /\ UNCHANGED <<heap, faults, traits>>

(* std::erase_if and std::erase of the values in S: std::remove_if moves   *)
(* what is kept to the front, in order, and erase destroys the rest.  When *)
(* the assignment of element c throws, the elements before it have moved.  *)
EraseIf(v, S) ==
  LET r == vec[v]
      x == Cells(r, heap)
      Kept(c) == {s \in 0 .. (c - 1) : x[s] \notin S}
      Rank(s) == Cardinality(Kept(s))
      Before(c) == [s \in Slot |->
        IF \E t \in Kept(c) : Rank(t) = s THEN x[CHOOSE t \in Kept(c) : Rank(t) = s]
        ELSE IF s \in Kept(c) THEN Moved ELSE x[s]]
  IN  /\ r.start # Null
      /\ \A s \in 0 .. (r.finish - 1) : x[s] # Moved
      /\ \E c \in 0 .. r.finish :
           /\ c < r.finish => /\ "assign" \in MayThrow
                              /\ x[c] \notin S /\ Rank(c) < c
           /\ IF c < r.finish
              THEN /\ heap' = [heap EXCEPT ![r.start].cell = Before(c)]
                   /\ UNCHANGED vec /\ Throws("erase_if", <<v, S>>, "exception")
              ELSE /\ heap' = [heap EXCEPT ![r.start].cell = [s \in Slot |->
                        IF Rank(c) <= s /\ s < c THEN Raw ELSE Before(c)[s]]]
                   /\ vec' = [vec EXCEPT ![v].finish = Rank(c)]
                   /\ Returns("erase_if", <<v, S>>)
      /\ UNCHANGED <<faults, traits>>

-----------------------------------------------------------------------------

Next ==
  \/ \E v \in Vec : \/ Destroy(v)
                    \/ \E x \in Source, p \in Personality : Construct(v, x, p)
                    \/ \E S \in SUBSET Value : EraseIf(v, S)
  \/ \E v, w \in Vec :
       /\ v # w
       /\ \/ \E p \in Personality : \/ CopyConstructWith(v, w, p)
                                   \/ MoveConstructWith(v, w, p)
          \/ CopyConstruct(v, w) \/ MoveConstruct(v, w)
          \/ CopyAssign(v, w)
          \/ MoveAssignTakes(v, w) \/ MoveAssignElements(v, w)
          \/ Swap(v, w)

Spec == Init /\ [][Next]_vars

-----------------------------------------------------------------------------

VectorRecord == [start : Block \cup {Null}, finish : 0 .. MaxSize,
                 eos : 0 .. MaxSize, alloc : Personality]

Heap == [Block -> [size : 0 .. MaxSize, by : Personality, cell : [Slot -> Cell]]]

(* Of the state that functions read; last is history.                      *)
TypeOK ==
  /\ traits \in Traits
  /\ vec \in [Vec -> VectorRecord]
  /\ heap \in Heap
  /\ faults \subseteq {"wrong_allocator", "free_wrong", "destroy_raw", "free_live",
                       "read_raw", "assign_raw", "construct_live"}

(* Record r has in heap h the storage it takes itself to have.             *)
Holds(r, h) ==
  IF r.start = Null THEN r.finish = 0 /\ r.eos = 0
  ELSE /\ r.eos > 0 /\ h[r.start].size = r.eos /\ r.finish <= r.eos
       /\ Equal(r.alloc, h[r.start].by)
       /\ \A s \in 0 .. (r.finish - 1) : h[r.start].cell[s] # Raw

(* Whatever throws, the storage of every vector is a block of the size it  *)
(* takes it to be, which its own allocator may release, with an object in  *)
(* each of its element slots; and no two vectors share one.                *)
StorageOwned ==
  /\ \A v \in Vec : Holds(vec[v], heap)
  /\ \A v, w \in Vec : v # w /\ vec[v].start # Null => vec[w].start # vec[v].start

(* No function releases a block with an allocator other than the one it    *)
(* came from or with another size (the VERIFY in uneq_allocator and        *)
(* tracker_allocator), nor reads, assigns or destroys where no object is.  *)
NoMisuse == faults \subseteq {"construct_live", "free_live"}

(* Blocks that no vector owns.                                             *)
Leaked == {b \in Block : heap[b].size > 0 /\ \A v \in Vec : vec[v].start # b}

(* Only an exception thrown by an element may cost a block.                *)
OnlyElementsLoseBlocks ==
  [][Leaked' # Leaked => last'.threw = "exception"]_vars

(* The elements and the allocators that the callers see.                   *)
Abstract ==
  INSTANCE TwoVectorsSpec WITH contents <- [v \in Vec |-> Contents(v)],
                               alloc <- [v \in Vec |-> vec[v].alloc]

(* Every function does to elements and allocators what the traits say, or  *)
(* ends with an exception that has touched what it may touch.              *)
ImplementsSpec == Abstract!Spec

-----------------------------------------------------------------------------

(* testsuite_allocator.h:389: "Enforce requirements in Table 32 about      *)
(* deallocation vs allocator equality", VERIFY( it->second == personality )*)
DeallocatesOnlyItsOwn == "wrong_allocator" \notin faults

=============================================================================
