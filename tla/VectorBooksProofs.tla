-------------------------- MODULE VectorBooksProofs --------------------------
(***************************************************************************)
(* Where there are objects, of which IInv says only where they must be.    *)
(* When no element throws, the allocator's books balance after every call: *)
(* proof of NothingLost, by the invariant Books, which says exactly which  *)
(* slots of which blocks hold objects at each point of each loop.  And     *)
(* whatever throws, no use of memory is wrong: proof of                    *)
(* NoUndefinedBehaviour, by the invariant Tidy, which says outside the     *)
(* storage which slots may.                                                *)
(***************************************************************************)
EXTENDS VectorCallProofs

(* No element throws, and the call that destroys unused slots is not made. *)
Faultless == MayThrow \subseteq {"alloc"} /\ "assign_range" \notin Used

(* The slots of the storage with an object in the middle of a loop.        *)
AliveStorage(s) ==
  \/ s < m_finish
  \/ fn = "resize_in" /\ s < i
  \/ fn = "shift" /\ s > i /\ s < m_finish + call.n
  \/ fn = "place" /\ s < m_finish + call.n /\ (s < i \/ s >= gap)

Alive(b, s) ==
  \/ b = m_start /\ AliveStorage(s)
  \/ b = temp /\ s = 0
  \/ /\ b = new_start
     /\ \/ s \in lo .. (lo + built - 1)
        \/ \E j \in 0 .. (moved - 1) : s = Dest(j)

Clean(f) ==
  /\ "construct_live" \notin f /\ "construct_stray" \notin f
  /\ "free_live" \notin f /\ "free_stray" \notin f
  /\ "destroy_unused" \notin f

Books ==
  /\ Clean(faults) /\ outcome # "exception"
  /\ fn \notin ReallocFns => built = 0 /\ moved = 0
  /\ \A b \in Block, s \in Slot : mem[b][s] # Raw <=> Alive(b, s)

(* What the books say outside the loops that run ahead of m_finish.        *)
Plain == fn \notin {"temp", "resize_in", "shift", "place"} \cup ReallocFns

LEMMA ElementsDoNotThrow ==
  ASSUME Faultless
  PROVE  /\ ArgumentCopied \notin MayThrow /\ MoveIfNoexcept \notin MayThrow
         /\ ShiftConstructs \notin MayThrow /\ TempCopied \notin MayThrow
         /\ "assign" \notin MayThrow /\ "copy" \notin MayThrow
<1>1. \A x : x # "alloc" => x \notin MayThrow
  BY DEF Faultless
<1> QED
  BY <1>1 DEF ArgumentCopied, MoveIfNoexcept, ShiftConstructs, TempCopied

(* The three blocks a call holds are different ones.                       *)
LEMMA BlocksApart ==
  ASSUME IInv, NewBlockHeld
  PROVE  /\ temp # Null => temp \in Block /\ temp # m_start /\ temp # new_start
         /\ new_start # Null => new_start # m_start
         /\ Null \notin Block
  BY StateAssumption
     DEF IInv, TypeOK, TempValid, NewTempValid, ReallocValid, NewBlockHeld

LEMMA PlainBooks ==
  ASSUME IInv, NewBlockHeld, Books, Plain
  PROVE  /\ \A b \in Block, s \in Slot : mem[b][s] # Raw <=>
              (b = m_start /\ s < m_finish) \/ (b = temp /\ s = 0)
         /\ new_start = Null
  BY StateAssumption DEF Books, Plain, Alive, AliveStorage, NewBlockHeld

LEMMA EndBooks ==
  ASSUME IInv, NewBlockHeld, Books, NEW m \in MemoryType, NEW k, NEW f, NEW out,
         EndCall(m, k, f, out), out # "exception", Clean(f),
         \A b \in Block, s \in Slot : m[b][s] # Raw <=>
           (b = m_start' /\ s < m_finish') \/ (b = temp /\ s = 0),
         temp = Null \/ m_start' # temp
  PROVE  Books'
<1>1. /\ fn' = "idle" /\ temp' = Null /\ new_start' = Null /\ built' = 0 /\ moved' = 0
      /\ outcome' = out
      /\ mem' = IF temp = Null THEN m ELSE [m EXCEPT ![temp] = RawBlock]
  BY DEF EndCall
<1>2. Clean(faults')
  <2>1. temp # Null => Clean(OnRelease(temp, {0}, 1))
    <3>1. temp # Null => \A s \in Slot \ {0} : mem[temp][s] = Raw
      BY BlocksApart DEF Books, Alive
    <3> QED
      BY <3>1 DEF Clean, OnRelease, OnDestroy, Stray
  <2> QED
    BY <2>1 DEF EndCall, Books, Clean
<1>3. \A b \in Block, s \in Slot : mem'[b][s] # Raw <=> b = m_start' /\ s < m_finish'
  BY <1>1, BlocksApart DEF MemoryType, RawBlock
<1>4. \A b \in Block, s \in Slot : Alive(b, s)' <=> b = m_start' /\ s < m_finish'
  BY <1>1, BlocksApart DEF Alive, AliveStorage
<1> QED
  BY <1>1, <1>2, <1>3, <1>4 DEF Books, ReallocFns

LEMMA FinishBooks ==
  ASSUME IInv, NewBlockHeld, Books, Plain, NEW out, Finish(out), out # "exception"
  PROVE  Books'
<1>1. EndCall(mem, blk, {}, out) /\ UNCHANGED <<m_start, m_finish>>
  BY DEF Finish, vec
<1> QED
  BY <1>1, PlainBooks, BlocksApart, EndBooks, Stored DEF Clean

LEMMA ThrowBooks ==
  ASSUME IInv, NewBlockHeld, Books, Plain, NEW out, Throw(mem, blk, {}, out),
         UNCHANGED vec, out # "exception"
  PROVE  Books'
<1>1. CASE call.op \notin InputOps
  BY <1>1, FinishBooks DEF Throw, Finish
<1>2. CASE call.op \in InputOps
  <2>1. /\ mem' = mem /\ faults' = faults \cup {} /\ fn' = "rollback" /\ outcome' = out
        /\ new_start' = Null /\ built' = 0 /\ moved' = 0
        /\ UNCHANGED <<m_start, m_finish, temp>>
    BY <1>2 DEF Throw, vec
  <2>2. \A b \in Block, s \in Slot : Alive(b, s)' <=>
          (b = m_start /\ s < m_finish) \/ (b = temp /\ s = 0)
    BY <2>1, BlocksApart DEF Alive, AliveStorage
  <2> QED
    BY <2>1, <2>2, PlainBooks DEF Books, Clean, ReallocFns
<1> QED
  BY <1>1, <1>2

LEMMA TruncateBooks ==
  ASSUME IInv, NewBlockHeld, Books, Plain, NEW n \in 0 .. m_finish, TruncateAndEnd(n)
  PROVE  Books'
<1>1. m_finish' = n /\ m_start' = m_start
  BY DEF TruncateAndEnd
<1>2. CASE n = m_finish
  BY <1>1, <1>2, PlainBooks, BlocksApart, EndBooks, Stored DEF TruncateAndEnd, Clean
<1>3. CASE n # m_finish
  <2> DEFINE S == n .. (m_finish - 1)
             m == Destroyed(m_start, S)
             f == OnDestroy(m_start, S)
  <2>1. EndCall(m, blk, f, "ok") /\ Clean(f)
    BY <1>3 DEF TruncateAndEnd, OnDestroy, Clean
  <2>2. m_start \in Block /\ m_finish \in Nat /\ n \in Nat /\ n < m_finish
    BY <1>3, Stored, Sizes
  <2>3. m \in MemoryType
    BY <2>2, Stored DEF Destroyed, MemoryType, Cell
  <2>4. \A b \in Block, s \in Slot : m[b][s] # Raw <=>
          (b = m_start /\ s < n) \/ (b = temp /\ s = 0)
    <3> SUFFICES ASSUME NEW b \in Block, NEW s \in Slot
                 PROVE  m[b][s] # Raw <=> (b = m_start /\ s < n) \/ (b = temp /\ s = 0)
      OBVIOUS
    <3>1. m[b][s] = IF b = m_start /\ s \in S THEN Raw ELSE mem[b][s]
      BY <2>2, Stored DEF Destroyed, MemoryType
    <3>2. s \in Nat /\ (s \in S <=> n <= s /\ s < m_finish)
      BY <2>2, Sizes DEF Slot
    <3> QED
      BY <2>2, <3>1, <3>2, PlainBooks, BlocksApart
  <2> HIDE DEF m, f
  <2> QED
    BY <1>1, <2>1, <2>3, <2>4, BlocksApart, EndBooks
<1> QED
  BY <1>2, <1>3

LEMMA ReleasedStorage ==
  ASSUME IInv, NewBlockHeld, Books, Plain, m_start # Null
  PROVE  /\ [mem EXCEPT ![m_start] = RawBlock] \in MemoryType
         /\ \A b \in Block, s \in Slot :
              [mem EXCEPT ![m_start] = RawBlock][b][s] # Raw <=> b = temp /\ s = 0
         /\ Clean(OnRelease(m_start, 0 .. (m_finish - 1), m_eos))
<1>1. m_start \in Block /\ mem \in MemoryType /\ m_finish \in Nat
  BY Stored, Sizes
<1>2. RawBlock \in [Slot -> Cell]
  BY DEF RawBlock, Cell
<1>3. \A b \in Block, s \in Slot :
        [mem EXCEPT ![m_start] = RawBlock][b][s] = IF b = m_start THEN Raw ELSE mem[b][s]
  BY <1>1 DEF MemoryType, RawBlock
<1>4. \A s \in Slot \ (0 .. (m_finish - 1)) : mem[m_start][s] = Raw
  BY <1>1, PlainBooks, BlocksApart, Sizes DEF Slot
<1>5. [mem EXCEPT ![m_start] = RawBlock] \in MemoryType
  BY <1>1, <1>2 DEF MemoryType
<1>6. Clean(OnRelease(m_start, 0 .. (m_finish - 1), m_eos))
  BY <1>4 DEF OnRelease, OnDestroy, Stray, Clean
<1> QED
  BY <1>3, <1>5, <1>6, PlainBooks, BlocksApart

LEMMA DestroyStorageBooks ==
  ASSUME IInv, NewBlockHeld, Books, Plain, NEW out, DestroyStorageAndEnd(out),
         out # "exception"
  PROVE  Books'
<1>1. CASE m_start = Null
  BY <1>1, FinishBooks DEF DestroyStorageAndEnd
<1>2. CASE m_start # Null
  <2>1. m_start' = Null
    BY <1>2 DEF DestroyStorageAndEnd, PointersNull
  <2> QED
    BY <1>2, <2>1, ReleasedStorage, BlocksApart, EndBooks DEF DestroyStorageAndEnd
<1> QED
  BY <1>1, <1>2

LEMMA ReleaseBooks ==
  ASSUME IInv, NewBlockHeld, Books, Plain, ReleaseStorage(OnReleaseElements, "append")
  PROVE  Books'
<1>1. /\ fn' = "append" /\ m_start' = Null
      /\ mem' = IF m_start = Null THEN mem ELSE [mem EXCEPT ![m_start] = RawBlock]
      /\ faults' = IF m_start = Null THEN faults
                   ELSE faults \cup OnRelease(m_start, 0 .. (m_finish - 1), m_eos)
      /\ UNCHANGED <<outcome, temp, new_start, built, moved>>
  BY DEF ReleaseStorage, OnReleaseElements, PointersNull, frame, memory
<1>2. \A b \in Block, s \in Slot : mem'[b][s] # Raw <=> b = temp /\ s = 0
  BY <1>1, PlainBooks, ReleasedStorage, BlocksApart
<1>3. \A b \in Block, s \in Slot : Alive(b, s)' <=> b = temp /\ s = 0
  BY <1>1, PlainBooks, BlocksApart DEF Alive, AliveStorage
<1>4. Clean(faults')
  BY <1>1, ReleasedStorage DEF Books, Clean
<1> QED
  BY <1>1, <1>2, <1>3, <1>4 DEF Books, Plain, ReallocFns

(* A loop starts where nothing is ahead of m_finish yet.                   *)
LEMMA LoopBooks ==
  ASSUME IInv, NewBlockHeld, Books, Plain, fn # "idle", NEW f, NEW c, Loop(f, c),
         f \notin ReallocFns \cup {"temp", "place"},
         f = "resize_in" => c = m_finish,
         f = "shift" => c = m_finish + call.n - 1
  PROVE  Books'
<1>1. /\ fn' = f /\ i' = c
      /\ UNCHANGED <<mem, m_start, m_finish, faults, call, outcome, new_start, lo, hi,
                     built, moved, temp>>
  BY DEF Loop, memory, vec, frame
<1>2. \A b \in Block, s \in Slot : Alive(b, s)' <=>
        (b = m_start /\ s < m_finish) \/ (b = temp /\ s = 0)
  <2>1. \A s \in Slot : AliveStorage(s)' <=> s < m_finish
    BY <1>1, CallNumbers, Stored, Sizes DEF AliveStorage, Slot
  <2>2. new_start' = Null /\ built' = 0 /\ moved' = 0
    BY <1>1, PlainBooks DEF Books, Plain
  <2> QED
    BY <1>1, <2>1, <2>2, BlocksApart DEF Alive
<1> QED
  BY <1>1, <1>2, PlainBooks DEF Books, Plain

(* A new block is one that nobody uses, so there is nothing in it.         *)
LEMMA AllocateBooks ==
  ASSUME IInv, NewBlockHeld, Books, Plain, NEW b \in Block, NEW n, Allocate(b, n),
         new_start' = b, fn' \in ReallocFns \cup {"temp"}, built' = 0, moved' = 0,
         lo' \in Int, UNCHANGED <<mem, m_start, m_finish, faults, outcome, temp>>
  PROVE  Books'
<1>1. b # m_start /\ b # temp
  BY StateAssumption DEF Allocate, FreeBlocks, IInv, StorageValid, TempValid
<1>2. \A x \in Block, s \in Slot : Alive(x, s)' <=>
        (x = m_start /\ s < m_finish) \/ (x = temp /\ s = 0)
  <2>1. \A s : AliveStorage(s)' <=> s < m_finish
    BY DEF AliveStorage, ReallocFns
  <2>2. \A s : s \notin lo' .. (lo' + built' - 1) /\ s \notin 0 .. (moved' - 1)
    <3>1. lo' + built' - 1 = lo' - 1 /\ moved' - 1 = -1
      OBVIOUS
    <3>2. \A s : s \notin lo' .. (lo' - 1) /\ s \notin 0 .. -1
      OBVIOUS
    <3> QED
      BY <3>1, <3>2
  <2> QED
    BY <1>1, <2>1, <2>2 DEF Alive
<1> QED
  BY <1>2, PlainBooks DEF Books, Plain, ReallocFns

LEMMA StartReallocBooks ==
  ASSUME IInv, NewBlockHeld, Books, Plain, NEW f \in ReallocFns, NEW l \in Int, NEW h,
         NEW n, StartRealloc(f, l, h, n)
  PROVE  Books'
<1>1. CASE AllocationFails
  BY <1>1, ThrowBooks DEF AllocationFails
<1>2. ASSUME NEW b \in Block, Allocate(b, n), fn' = f, new_start' = b, lo' = l,
             built' = 0, moved' = 0, UNCHANGED <<mem, vec, faults, outcome, temp>>
      PROVE  Books'
  BY <1>2, AllocateBooks DEF vec
<1> QED
  BY <1>1, <1>2 DEF StartRealloc

LEMMA StartGrowingBooks ==
  ASSUME IInv, NewBlockHeld, Books, Plain, NEW f \in ReallocFns, NEW l \in Int, NEW h,
         NEW n, StartGrowing(f, l, h, n)
  PROVE  Books'
<1>1. CASE Throw(mem, blk, {}, "length_error") /\ UNCHANGED vec
  BY <1>1, ThrowBooks
<1>2. CASE StartRealloc(f, l, h, CalculateGrowth(size, n))
  BY <1>2, StartReallocBooks
<1> QED
  BY <1>1, <1>2 DEF StartGrowing

LEMMA AllocateTempBooks ==
  ASSUME IInv, NewBlockHeld, Books, Plain, AllocateTemp
  PROVE  Books'
<1>1. CASE AllocationFails
  BY <1>1, ThrowBooks DEF AllocationFails
<1>2. ASSUME NEW b \in Block, Allocate(b, 1), fn' = "temp", new_start' = b,
             UNCHANGED <<mem, vec, faults, outcome, lo, built, moved, temp>>
      PROVE  Books'
  <2>1. built' = 0 /\ moved' = 0 /\ lo' \in Int
    BY <1>2, Sizes DEF Books, Plain, IInv, TypeOK
  <2> QED
    BY <1>2, <2>1, AllocateBooks DEF vec
<1> QED
  BY <1>1, <1>2 DEF AllocateTemp

(* The storage has an object at slot x, and the call ends.                 *)
LEMMA ConstructAtEndBooks ==
  ASSUME Faultless, IInv, NewBlockHeld, Books, Plain, fn # "idle",
         call.op \notin RangeOps, size # capacity, ConstructAtEnd
  PROVE  Books'
<1> DEFINE v == OneElement
           m == [mem EXCEPT ![m_start][m_finish] = v]
           f == OnRead(v) \cup OnConstruct(m_start, m_finish)
<1>1. EndCall(m, blk, f, "ok") /\ m_finish' = m_finish + 1 /\ m_start' = m_start
  BY ElementsDoNotThrow DEF ConstructAtEnd
<1>2. v \in Object /\ v # Raw /\ v \in Cell
  BY OneElementIsObject, ObjectNotRaw DEF Cell
<1>3. m_start \in Block /\ m_finish \in Slot /\ m_finish \in Nat
  BY Stored, Sizes DEF Slot
<1>4. m \in MemoryType
  BY <1>2, <1>3, Stored DEF MemoryType
<1>5. Clean(f)
  BY <1>3, PlainBooks, BlocksApart DEF Clean, OnRead, OnConstruct
<1>6. \A b \in Block, s \in Slot : m[b][s] # Raw <=>
        (b = m_start /\ s < m_finish + 1) \/ (b = temp /\ s = 0)
  <2> SUFFICES ASSUME NEW b \in Block, NEW s \in Slot
               PROVE  m[b][s] # Raw <=>
                        (b = m_start /\ s < m_finish + 1) \/ (b = temp /\ s = 0)
    OBVIOUS
  <2>1. m[b][s] = IF b = m_start /\ s = m_finish THEN v ELSE mem[b][s]
    BY <1>3, Stored DEF MemoryType
  <2>2. s < m_finish + 1 <=> s < m_finish \/ s = m_finish
    BY <1>3 DEF Slot
  <2> QED
    BY <1>2, <2>1, <2>2, PlainBooks, BlocksApart
<1> HIDE DEF m, f
<1> QED
  BY <1>1, <1>3, <1>4, <1>5, <1>6, BlocksApart, EndBooks

-----------------------------------------------------------------------------
(* The loops.                                                              *)

(* A step of a loop inside the storage, which puts objects in the slots X. *)
LEMMA WriteBooks ==
  ASSUME IInv, NewBlockHeld, Books, m_start \in Block, fn \notin ReallocFns \cup {"temp"},
         NEW X,
         \A b \in Block, s \in Slot :
           mem'[b][s] # Raw <=> mem[b][s] # Raw \/ (b = m_start /\ s \in X),
         \A s \in Slot : AliveStorage(s)' <=> AliveStorage(s) \/ s \in X,
         NEW f, faults' = faults \cup f, Clean(f),
         UNCHANGED <<fn, m_start, outcome, new_start, built, moved, temp>>
  PROVE  Books'
<1>1. new_start = Null
  BY DEF NewBlockHeld
<1>2. \A b \in Block, s \in Slot :
        Alive(b, s)' <=> Alive(b, s) \/ (b = m_start /\ s \in X)
  BY <1>1, BlocksApart DEF Alive
<1> QED
  BY <1>2 DEF Books, Clean

(* The same where one slot is written.                                     *)
LEMMA WriteOneBooks ==
  ASSUME IInv, NewBlockHeld, Books, m_start \in Block, fn \notin ReallocFns \cup {"temp"},
         NEW x \in Slot, NEW v, v # Raw, mem' = [mem EXCEPT ![m_start][x] = v],
         \A s \in Slot : AliveStorage(s)' <=> AliveStorage(s) \/ s = x,
         NEW f, faults' = faults \cup OnRead(v) \cup f,
         f = OnAssign(m_start, x) \/ (f = OnConstruct(m_start, x) /\ ~AliveStorage(x)),
         UNCHANGED <<fn, m_start, outcome, new_start, built, moved, temp>>
  PROVE  Books'
<1>1. \A b \in Block, s \in Slot :
        mem'[b][s] # Raw <=> mem[b][s] # Raw \/ (b = m_start /\ s \in {x})
  BY Stored DEF MemoryType
<1>2. Clean(OnRead(v) \cup f)
  <2>1. ~AliveStorage(x) => mem[m_start][x] = Raw
    BY BlocksApart DEF Books, Alive, NewBlockHeld
  <2> QED
    BY <2>1 DEF Clean, OnRead, OnAssign, OnConstruct
<1>3. faults' = faults \cup (OnRead(v) \cup f)
  OBVIOUS
<1>4. \A s \in Slot : AliveStorage(s)' <=> AliveStorage(s) \/ s \in {x}
  OBVIOUS
<1> DEFINE g == OnRead(v) \cup f
<1> HIDE DEF g
<1>5. faults' = faults \cup g /\ Clean(g)
  BY <1>2, <1>3 DEF g
<1> QED
  BY <1>1, <1>4, <1>5, WriteBooks

LEMMA ConstructTempBooks ==
  ASSUME IInv, NewBlockHeld, Books, ConstructTemp
  PROVE  Books'
<1>1. /\ fn = "temp" /\ temp = Null /\ new_start \in Block /\ new_start # m_start
      /\ new_start # Null /\ call.op \notin RangeOps
  BY StateAssumption
     DEF ConstructTemp, IInv, NewTempValid, InsertOneOps, RangeOps, InputOps
<1>2. Argument \in Object /\ Argument # Raw /\ 0 \in Slot
  BY <1>1, ArgumentIsObject, ObjectNotRaw, Sizes DEF Slot
<1>3. /\ mem' = [mem EXCEPT ![new_start][0] = Argument]
      /\ faults' = faults \cup OnRead(Argument) \cup OnConstruct(new_start, 0)
      /\ temp' = new_start /\ new_start' = Null
      /\ fn' \in {"entry", "shift"}
      /\ fn' = "shift" => i' = LastShifted
      /\ UNCHANGED <<m_start, m_finish, call, outcome, built, moved>>
  BY DEF ConstructTemp, vec
<1>4. built = 0 /\ moved = 0 /\ lo \in Int
  BY <1>1, Sizes DEF Books, ReallocFns, IInv, TypeOK
<1>5. \A b \in Block, s \in Slot : mem[b][s] # Raw <=> b = m_start /\ s < m_finish
  <2>1. \A s : s \notin lo .. (lo + built - 1) /\ s \notin 0 .. (moved - 1)
    <3>1. lo + built - 1 = lo - 1 /\ moved - 1 = -1
      BY <1>4
    <3>2. \A s : s \notin lo .. (lo - 1) /\ s \notin 0 .. -1
      BY <1>4
    <3> QED
      BY <3>1, <3>2
  <2>2. \A s : AliveStorage(s) <=> s < m_finish
    BY <1>1 DEF AliveStorage
  <2> QED
    BY <1>1, <2>1, <2>2, BlocksApart DEF Books, Alive
<1>6. \A b \in Block, s \in Slot :
        mem'[b][s] # Raw <=> (b = m_start /\ s < m_finish) \/ (b = new_start /\ s = 0)
  BY <1>1, <1>2, <1>3, <1>5, Stored DEF MemoryType
<1>7. Clean(faults')
  <2>1. mem[new_start][0] = Raw
    BY <1>1, <1>2, <1>5
  <2> QED
    BY <1>2, <1>3, <2>1 DEF Books, Clean, OnRead, OnConstruct
<1>8. \A s \in Slot : AliveStorage(s)' <=> s < m_finish
  <2>1. CASE fn' = "entry"
    BY <1>3, <2>1 DEF AliveStorage
  <2>2. CASE fn' = "shift"
    <3>1. m_finish + call.n <= m_eos /\ call.n > 0 /\ call.n \in Nat /\ m_finish \in Nat
      <4>1. call.op # "insert_rv"
        BY <2>2 DEF ConstructTemp
      <4> QED
        BY <1>1, <4>1, CallNumbers, Stored, Sizes DEF IInv, NewTempValid, InsertOneOps
    <3>2. i' = m_finish + call.n - 1
      BY <1>3, <2>2, <3>1, LastShiftedExact, Stored, Sizes
    <3> QED
      BY <1>3, <2>2, <3>1, <3>2 DEF AliveStorage, Slot
  <2> QED
    BY <1>3, <2>1, <2>2
<1>9. \A b \in Block, s \in Slot :
        Alive(b, s)' <=> (b = m_start /\ s < m_finish) \/ (b = new_start /\ s = 0)
  BY <1>3, <1>8, BlocksApart DEF Alive
<1> QED
  BY <1>3, <1>4, <1>6, <1>7, <1>9 DEF Books, ReallocFns

LEMMA FillEndBooks ==
  ASSUME IInv, NewBlockHeld, Books, FillEnd PROVE Books'
<1>1. /\ fn = "fill_end" /\ i < call.n /\ m_finish + (call.n - i) <= m_eos
      /\ call.op \notin RangeOps /\ call.n \in Nat /\ i \in Nat
  BY CallNumbers, Sizes, GrowthAssumption
     DEF FillEnd, IInv, FillValid, TypeOK, SizeType, SizeTypeMod
<1>2. /\ m_finish \in Slot /\ m_finish \in Nat /\ m_start \in Block
  BY <1>1, Stored, Sizes DEF Slot
<1>3. Argument # Raw
  BY <1>1, ArgumentIsObject, ObjectNotRaw
<1>4. /\ \A s \in Slot : AliveStorage(s)' <=> AliveStorage(s) \/ s = m_finish
      /\ ~AliveStorage(m_finish)
  BY <1>1, <1>2 DEF FillEnd, AliveStorage, Slot
<1>5. /\ mem' = [mem EXCEPT ![m_start][m_finish] = Argument]
      /\ faults' = faults \cup OnRead(Argument) \cup OnConstruct(m_start, m_finish)
      /\ UNCHANGED <<fn, m_start, outcome, new_start, built, moved, temp>>
  BY DEF FillEnd, frame
<1> QED
  BY <1>1, <1>2, <1>3, <1>4, <1>5, WriteOneBooks DEF ReallocFns

LEMMA ResizeInBooks ==
  ASSUME IInv, NewBlockHeld, Books, ResizeIn PROVE Books'
<1>1. /\ fn = "resize_in" /\ m_finish <= i /\ i < call.n /\ call.n <= m_eos
      /\ call.op \notin RangeOps /\ call.n \in Nat /\ i \in Nat
  BY CallNumbers, Sizes, GrowthAssumption
     DEF ResizeIn, IInv, FillValid, TypeOK, SizeType, SizeTypeMod
<1>2. /\ i \in Slot /\ m_finish \in Nat /\ m_start \in Block
  BY <1>1, Stored, Sizes DEF Slot
<1>3. Argument # Raw
  BY <1>1, ArgumentIsObject, ObjectNotRaw
<1>4. /\ \A s \in Slot : AliveStorage(s)' <=> AliveStorage(s) \/ s = i
      /\ ~AliveStorage(i)
  BY <1>1, <1>2 DEF ResizeIn, AliveStorage, Slot, vec
<1>5. /\ mem' = [mem EXCEPT ![m_start][i] = Argument]
      /\ faults' = faults \cup OnRead(Argument) \cup OnConstruct(m_start, i)
      /\ UNCHANGED <<fn, m_start, outcome, new_start, built, moved, temp>>
  BY DEF ResizeIn, frame, vec
<1> QED
  BY <1>1, <1>2, <1>3, <1>4, <1>5, WriteOneBooks DEF ReallocFns

(* The elements built become elements of the vector, and the call ends.    *)
LEMMA ResizeInDoneBooks ==
  ASSUME IInv, NewBlockHeld, Books, ResizeInDone PROVE Books'
<1>1. /\ fn = "resize_in" /\ i = call.n /\ m_finish <= i /\ i \in Nat /\ m_finish \in Nat
      /\ EndCall(mem, blk, {}, "ok") /\ m_finish' = i /\ m_start' = m_start
  BY CallNumbers, Stored, Sizes DEF ResizeInDone, IInv, FillValid
<1>2. \A b \in Block, s \in Slot : mem[b][s] # Raw <=>
        (b = m_start /\ s < i) \/ (b = temp /\ s = 0)
  <2>1. \A s \in Slot : AliveStorage(s) <=> s < i
    BY <1>1 DEF AliveStorage, Slot
  <2>2. new_start = Null
    BY <1>1 DEF NewBlockHeld, ReallocFns
  <2> QED
    BY <2>1, <2>2, BlocksApart DEF Books, Alive
<1> QED
  BY <1>1, <1>2, BlocksApart, EndBooks, Stored DEF Clean

LEMMA ShiftBooks ==
  ASSUME IInv, NewBlockHeld, Books, Shift PROVE Books'
<1> DEFINE v == mem[m_start][i - call.n]
           w == Left(IF i < m_finish THEN "move" ELSE ShiftConstructs, v)
           f == OnRead(v) \cup (IF i < m_finish THEN OnAssign(m_start, i)
                                ELSE OnConstruct(m_start, i))
<1>1. fn = "shift" /\ gap <= i
  BY ShiftNumbers DEF Shift
<1>2. /\ i \in Slot /\ i - call.n \in Slot /\ i \in Nat
      /\ i - call.n \in 0 .. (m_finish - 1) /\ m_start \in Block
      /\ m_finish \in Nat /\ call.n \in Nat /\ i < m_finish + call.n
  BY <1>1, ShiftNumbers, Sizes DEF Slot
<1>3. v # Raw /\ w # Raw
  BY <1>2, StoredElement, ObjectNotRaw DEF Left
<1>4. /\ mem' = [mem EXCEPT ![m_start][i] = v, ![m_start][i - call.n] = w]
      /\ faults' = faults \cup f /\ i' = Wrap(i - 1) /\ m_finish' = m_finish
      /\ UNCHANGED <<fn, m_start, call, outcome, new_start, built, moved, temp>>
  BY DEF Shift, vec, frame
<1>5. i' = i - 1
  BY <1>1, <1>2, <1>4, ShiftNumbers, Sizes, GrowthAssumption DEF Wrap, SizeTypeMod
<1>6. \A s \in Slot : AliveStorage(s)' <=> AliveStorage(s) \/ s \in {i}
  BY <1>1, <1>2, <1>4, <1>5 DEF AliveStorage, Slot
<1>7. \A b \in Block, s \in Slot :
        mem'[b][s] # Raw <=> mem[b][s] # Raw \/ (b = m_start /\ s \in {i})
  <2> HIDE DEF w
  <2>1. mem[m_start][i - call.n] # Raw
    BY <1>3
  <2> QED
    BY <1>2, <1>3, <1>4, <2>1, Stored DEF MemoryType
<1>8. Clean(f)
  <2>1. ~(i < m_finish) => mem[m_start][i] = Raw
    BY <1>1, <1>2, BlocksApart DEF Books, Alive, AliveStorage, NewBlockHeld, ReallocFns
  <2> QED
    BY <2>1 DEF Clean, OnRead, OnAssign, OnConstruct
<1> HIDE DEF f
<1> QED
  BY <1>1, <1>2, <1>4, <1>6, <1>7, <1>8, WriteBooks DEF ReallocFns

LEMMA ShiftDoneBooks ==
  ASSUME IInv, NewBlockHeld, Books, ShiftDone PROVE Books'
<1>1. /\ fn = "shift" /\ fn' = "place" /\ i < gap /\ i' = call.pos
      /\ UNCHANGED <<mem, m_start, m_finish, faults, call, outcome, new_start, lo, hi,
                     built, moved, temp>>
  BY DEF ShiftDone, Loop, memory, vec, frame
<1>2. \A s \in Slot : AliveStorage(s)' <=> AliveStorage(s)
  <2>1. gap' = gap
    BY <1>1 DEF gap
  <2> QED
    BY <1>1, <2>1, ShiftNumbers DEF AliveStorage, Slot
<1>3. \A b \in Block, s \in Slot : Alive(b, s)' <=> Alive(b, s)
  <2>1. \A j : Dest(j)' = Dest(j)
    BY <1>1 DEF Dest
  <2> QED
    BY <1>1, <1>2, <2>1 DEF Alive
<1> QED
  BY <1>1, <1>3 DEF Books, ReallocFns

LEMMA PlaceBooks ==
  ASSUME IInv, NewBlockHeld, Books, Place PROVE Books'
<1> DEFINE f == IF i < m_finish THEN OnAssign(m_start, i) ELSE OnConstruct(m_start, i)
<1>1. /\ fn = "place" /\ i < gap /\ Placed # Raw
  BY PlacedIsObject, ObjectNotRaw DEF Place
<1>2. i \in Slot /\ m_start \in Block
  BY <1>1, ShiftNumbers, Sizes DEF Slot
<1>3. /\ mem' = [mem EXCEPT ![m_start][i] = Placed]
      /\ faults' = faults \cup OnRead(Placed) \cup f
      /\ m_finish' = m_finish /\ i' = i + 1
      /\ UNCHANGED <<fn, m_start, call, outcome, new_start, built, moved, temp>>
  BY DEF Place, vec, frame
<1>4. \A s \in Slot : AliveStorage(s)' <=> AliveStorage(s) \/ s = i
  <2>1. gap' = gap
    BY <1>3 DEF gap
  <2> QED
    BY <1>1, <1>3, <2>1, ShiftNumbers DEF AliveStorage, Slot
<1>5. f = OnAssign(m_start, i) \/ (f = OnConstruct(m_start, i) /\ ~AliveStorage(i))
  BY <1>1, ShiftNumbers DEF AliveStorage
<1> HIDE DEF f
<1> QED
  BY <1>1, <1>2, <1>3, <1>4, <1>5, WriteOneBooks DEF ReallocFns

LEMMA PlaceDoneBooks ==
  ASSUME IInv, NewBlockHeld, Books, PlaceDone PROVE Books'
<1>1. /\ fn = "place" /\ i = gap
      /\ EndCall(mem, blk, {}, "ok") /\ m_finish' = m_finish + call.n
      /\ m_start' = m_start
  BY DEF PlaceDone
<1>2. \A b \in Block, s \in Slot : mem[b][s] # Raw <=>
        (b = m_start /\ s < m_finish + call.n) \/ (b = temp /\ s = 0)
  <2>1. \A s \in Slot : AliveStorage(s) <=> s < m_finish + call.n
    BY <1>1, ShiftNumbers DEF AliveStorage, Slot
  <2>2. new_start = Null
    BY <1>1 DEF NewBlockHeld, ReallocFns
  <2> QED
    BY <2>1, <2>2, BlocksApart DEF Books, Alive
<1> QED
  BY <1>1, <1>2, BlocksApart, EndBooks, Stored DEF Clean

LEMMA EraseShiftBooks ==
  ASSUME IInv, NewBlockHeld, Books, EraseShift PROVE Books'
<1> DEFINE v == mem[m_start][i]
           to == i - call.n
           f == OnRead(v) \cup OnAssign(m_start, to)
           X == {}
<1>1. fn = "erase" /\ i < m_finish
  BY DEF EraseShift
<1>2. i \in 0 .. (m_finish - 1) /\ to \in 0 .. (m_finish - 1)
  BY <1>1, EraseNumbers, Sizes
<1>3. /\ i \in Slot /\ to \in Slot /\ m_start \in Block /\ v # Raw
      /\ mem[m_start][to] # Raw
  BY <1>2, StoredElement, ObjectNotRaw
<1>4. /\ mem' = [mem EXCEPT ![m_start][to] = v, ![m_start][i] = Moved]
      /\ faults' = faults \cup f /\ m_finish' = m_finish
      /\ UNCHANGED <<fn, m_start, outcome, new_start, built, moved, temp>>
  BY DEF EraseShift, vec, frame
<1>5. \A b \in Block, s \in Slot :
        mem'[b][s] # Raw <=> mem[b][s] # Raw \/ (b = m_start /\ s \in X)
  <2> HIDE DEF to
  <2> QED
    BY <1>3, <1>4, Stored, ObjectNotRaw DEF MemoryType
<1>6. \A s \in Slot : AliveStorage(s)' <=> AliveStorage(s) \/ s \in X
  BY <1>1, <1>4 DEF AliveStorage
<1>7. Clean(f)
  BY DEF Clean, OnRead, OnAssign
<1> HIDE DEF f, X
<1> QED
  BY <1>1, <1>3, <1>4, <1>5, <1>6, <1>7, WriteBooks DEF ReallocFns

LEMMA InPlaceBooks ==
  ASSUME Faultless, IInv, NewBlockHeld, Books, InPlaceStep PROVE Books'
<1>1. ~ConstructTempThrows /\ ~FillEndThrows /\ ~ResizeInThrows
  BY ElementsDoNotThrow DEF ConstructTempThrows, FillEndThrows, ResizeInThrows
<1>2. ~ShiftThrows /\ ~PlaceThrows /\ ~EraseThrows
  BY ElementsDoNotThrow DEF ShiftThrows, PlaceThrows, EraseThrows
<1>3. CASE FillEndDone
  BY <1>3, FinishBooks DEF FillEndDone, Plain, ReallocFns
<1>4. CASE EraseDone
  <2>1. fn = "erase" /\ Plain /\ m_finish - call.n \in 0 .. m_finish
    BY <1>4, EraseNumbers DEF EraseDone, Plain, ReallocFns
  <2> QED
    BY <1>4, <2>1, TruncateBooks DEF EraseDone
<1> QED
  BY <1>1, <1>2, <1>3, <1>4, ConstructTempBooks, FillEndBooks, ResizeInBooks,
     ResizeInDoneBooks, ShiftBooks, ShiftDoneBooks, PlaceBooks, PlaceDoneBooks,
     EraseShiftBooks
     DEF InPlaceStep

LEMMA AssignBooks ==
  ASSUME Faultless, IInv, NewBlockHeld, Books, AssignStep PROVE Books'
<1>1. fn \in {"assign", "append", "rollback"} /\ Plain /\ fn # "idle"
  BY DEF AssignStep, Assign, AssignThrows, AssignDone, AppendNext, AppendThrows,
         AppendGrows, AppendDone, Rollback, Appending, Plain, ReallocFns
<1>2. ~AssignThrows /\ ~AppendThrows
  BY ElementsDoNotThrow DEF AssignThrows, AppendThrows
<1>3. CASE Assign
  <2>1. fn = "assign" /\ i < Common
    BY <1>3 DEF Assign
  <2>2. /\ i \in 0 .. (m_finish - 1) /\ i \in Slot /\ m_start \in Block
        /\ Item(i) # Raw
    BY <2>1, AssignNumbers, StoredElement, ItemIsObject, ObjectNotRaw
  <2>3. \A s \in Slot : AliveStorage(s)' <=> AliveStorage(s) \/ s = i
    BY <1>3, <2>1, <2>2, Stored, Sizes DEF Assign, AliveStorage, vec
  <2> QED
    BY <1>1, <1>3, <2>2, <2>3, WriteOneBooks DEF Assign, Plain, frame, vec
<1>4. CASE AssignDone
  <2>1. CASE call.n <= m_finish /\ TruncateAndEnd(call.n)
    <3>1. call.n \in 0 .. m_finish
      BY <1>1, <2>1, CallNumbers, Stored, Sizes
    <3> QED
      BY <1>1, <2>1, <3>1, TruncateBooks
  <2>2. CASE Loop("append", 0)
    BY <1>1, <2>2, LoopBooks DEF ReallocFns
  <2> QED
    BY <1>4, <2>1, <2>2 DEF AssignDone
<1>5. CASE AppendNext
  <2>1. /\ fn = "append" /\ m_finish \in Slot /\ m_finish \in Nat /\ m_start \in Block
        /\ Item(m_finish) # Raw
    BY <1>5, AppendNumbers, ItemIsObject, ObjectNotRaw DEF AppendNext
  <2>2. /\ \A s \in Slot : AliveStorage(s)' <=> AliveStorage(s) \/ s = m_finish
        /\ ~AliveStorage(m_finish)
    BY <1>5, <2>1 DEF AppendNext, AliveStorage, Slot
  <2> QED
    BY <1>1, <1>5, <2>1, <2>2, WriteOneBooks DEF AppendNext, Plain, frame
<1>6. CASE AppendGrows
  BY <1>1, <1>6, StartGrowingBooks, Stored, Sizes DEF AppendGrows, ReallocFns
<1>7. CASE AppendDone
  BY <1>1, <1>7, FinishBooks DEF AppendDone
<1>8. CASE Rollback
  BY <1>1, <1>8, DestroyStorageBooks DEF Rollback, Books
<1> QED
  BY <1>2, <1>3, <1>4, <1>5, <1>6, <1>7, <1>8 DEF AssignStep

-----------------------------------------------------------------------------
(* The reallocations.                                                      *)

(* Where the new elements go nothing else has been put.                    *)
LEMMA DestApart ==
  ASSUME IInv, fn \in ReallocFns
  PROVE  /\ built < hi - lo =>
              \A j \in 0 .. (moved - 1) : Dest(j) # lo + built
         /\ moved < m_finish =>
              /\ Dest(moved) \notin lo .. (lo + built - 1)
              /\ \A j \in 0 .. (moved - 1) : Dest(j) # Dest(moved)
  BY InRealloc, Stored, Sizes DEF Dest

(* Alive while a new block is filled.                                      *)
LEMMA ReallocAlive ==
  ASSUME IInv, NewBlockHeld, fn \in ReallocFns
  PROVE  \A b, s :
           Alive(b, s) <=>
             \/ b = m_start /\ s < m_finish
             \/ b = temp /\ s = 0
             \/ b = new_start /\ (\/ s \in lo .. (lo + built - 1)
                                  \/ \E j \in 0 .. (moved - 1) : s = Dest(j))
  BY DEF Alive, AliveStorage, ReallocFns

LEMMA BuildBooks ==
  ASSUME IInv, NewBlockHeld, Books, Build PROVE Books'
<1> DEFINE v == Item(m_finish)
           x == lo + built
<1>1. /\ fn \in ReallocFns /\ built < hi - lo
      /\ call.op \in RangeOps => m_finish < call.n
  BY InRealloc, Sizes DEF Build, TimeToBuild, IInv, TypeOK
<1>2. v # Raw /\ x \in Slot /\ new_start \in Block
  BY <1>1, InRealloc, Stored, Sizes, ItemIsObject, ObjectNotRaw DEF Slot
<1>3. /\ mem' = [mem EXCEPT ![new_start][x] = v]
      /\ faults' = faults \cup OnRead(v) \cup OnConstruct(new_start, x)
      /\ built' = built + 1
      /\ UNCHANGED <<m_start, m_finish, outcome, fn, new_start, lo, hi, moved, temp>>
  BY DEF Build, vec
<1>4. lo + built' - 1 = x /\ x \in lo .. x
      /\ \A s \in Slot : s \in lo .. x <=> s \in lo .. (x - 1) \/ s = x
  BY <1>1, <1>3, InRealloc DEF Slot
<1>5. mem[new_start][x] = Raw
  <2>1. x \notin lo .. (lo + built - 1)
    BY <1>1, InRealloc
  <2> QED
    BY <1>1, <1>2, <2>1, BlocksApart, DestApart, ReallocAlive, StateAssumption DEF Books
<1> HIDE DEF v, x
<1>6. \A b \in Block, s \in Slot :
        mem'[b][s] # Raw <=> mem[b][s] # Raw \/ (b = new_start /\ s = x)
  BY <1>2, <1>3, Stored DEF MemoryType
<1>7. \A b \in Block, s \in Slot :
        Alive(b, s)' <=> Alive(b, s) \/ (b = new_start /\ s = x)
  <2>1. \A j : Dest(j)' = Dest(j)
    BY <1>3 DEF Dest
  <2>2. \A s : AliveStorage(s)' <=> AliveStorage(s)
    BY <1>1, <1>3 DEF AliveStorage, ReallocFns
  <2>3. x - 1 = lo + built - 1
    BY <1>1, InRealloc DEF x
  <2> QED
    BY <1>3, <1>4, <2>1, <2>2, <2>3 DEF Alive
<1>8. Clean(faults')
  BY <1>2, <1>3, <1>5 DEF Books, Clean, OnRead, OnConstruct
<1> QED
  BY <1>1, <1>3, <1>6, <1>7, <1>8 DEF Books

LEMMA RelocateBooks ==
  ASSUME IInv, NewBlockHeld, Books, Relocate PROVE Books'
<1> DEFINE v == mem[m_start][moved]
           w == Left(MoveIfNoexcept, v)
           x == Dest(moved)
<1>1. /\ fn \in ReallocFns /\ moved < m_finish /\ moved \in 0 .. (m_finish - 1)
      /\ new_start \in Block /\ new_start # m_start
  BY InRealloc, Stored, Sizes DEF Relocate, TimeToMove
<1>2. v # Raw /\ w # Raw /\ m_start \in Block /\ moved \in Slot /\ x \in Slot
  BY <1>1, StoredElement, ObjectNotRaw, DestSlot DEF Left
<1>3. /\ mem' = [mem EXCEPT ![new_start][x] = v, ![m_start][moved] = w]
      /\ faults' = faults \cup OnRead(v) \cup OnConstruct(new_start, x)
      /\ moved' = moved + 1
      /\ UNCHANGED <<m_start, m_finish, outcome, fn, new_start, lo, hi, built, temp>>
  BY DEF Relocate, vec
<1>4. mem[new_start][x] = Raw
  BY <1>1, <1>2, BlocksApart, DestApart, ReallocAlive DEF Books
<1>5. mem[m_start][moved] # Raw
  BY <1>2
<1> HIDE DEF v, w
<1>6. \A b \in Block, s \in Slot :
        mem'[b][s] # Raw <=> mem[b][s] # Raw \/ (b = new_start /\ s = x)
  <2> HIDE DEF x
  <2> QED
    BY <1>1, <1>2, <1>3, <1>5, Stored DEF MemoryType
<1>7. \A b \in Block, s \in Slot :
        Alive(b, s)' <=> Alive(b, s) \/ (b = new_start /\ s = x)
  <2>1. \A j : Dest(j)' = Dest(j)
    BY <1>3 DEF Dest
  <2>2. \A s : AliveStorage(s)' <=> AliveStorage(s)
    BY <1>1, <1>3 DEF AliveStorage, ReallocFns
  <2>3. moved' - 1 = moved /\ moved \in Nat
    BY <1>1, <1>3, InRealloc
  <2>4. \A j : j \in 0 .. moved <=> j \in 0 .. (moved - 1) \/ j = moved
    BY <2>3
  <2>5. \A s : (\E j \in 0 .. (moved' - 1) : s = Dest(j)') <=>
                 (\E j \in 0 .. (moved - 1) : s = Dest(j)) \/ s = x
    <3> HIDE DEF x
    <3>1. x = Dest(moved)
      BY DEF x
    <3> QED
      BY <2>1, <2>3, <2>4, <3>1
  <2> QED
    BY <1>3, <2>2, <2>5 DEF Alive
<1>8. Clean(faults')
  BY <1>2, <1>3, <1>4 DEF Books, Clean, OnRead, OnConstruct
<1> QED
  BY <1>1, <1>3, <1>6, <1>7, <1>8 DEF Books

(* When all is built and moved, the new block holds exactly the elements.  *)
LEMMA CommitBooks ==
  ASSUME IInv, NewBlockHeld, Books, Commit PROVE Books'
<1> DEFINE m == IF m_start = Null THEN mem ELSE [mem EXCEPT ![m_start] = RawBlock]
           k == IF m_start = Null THEN blk ELSE [blk EXCEPT ![m_start] = 0]
           f == IF m_start = Null THEN {}
                ELSE OnRelease(m_start, 0 .. (m_finish - 1), m_eos)
           n == m_finish + (hi - lo)
<1>1. /\ fn \in ReallocFns /\ built = hi - lo /\ moved = m_finish
      /\ m_start' = new_start /\ m_finish' = n
      /\ new_start \in Block /\ new_start # m_start /\ new_start # temp
      /\ lo \in Nat /\ hi \in Nat /\ m_finish \in Nat /\ lo <= hi /\ lo <= m_finish
  BY InRealloc, Stored, Sizes DEF Commit
<1>2. \A s \in Slot : Alive(new_start, s) <=> s < n
  <2>1. ASSUME NEW s \in Slot
        PROVE  /\ s \in lo .. (lo + built - 1) <=> lo <= s /\ s < hi
               /\ s < lo => Dest(s) = s
               /\ s >= hi /\ s < n =>
                    s - (hi - lo) \in 0 .. (moved - 1) /\ Dest(s - (hi - lo)) = s
               /\ s < lo => s \in 0 .. (moved - 1)
               /\ \A j \in 0 .. (moved - 1) : s = Dest(j) => s < n
               /\ hi <= n
    BY <1>1 DEF Slot, Dest
  <2>2. ASSUME NEW s \in Slot
        PROVE  Alive(new_start, s) <=>
                 \/ s \in lo .. (lo + built - 1)
                 \/ \E j \in 0 .. (moved - 1) : s = Dest(j)
    BY <1>1, ReallocAlive
  <2> SUFFICES ASSUME NEW s \in Slot PROVE Alive(new_start, s) <=> s < n
    OBVIOUS
  <2>3. s \in Nat /\ n \in Nat
    BY <1>1 DEF Slot
  <2>4. ASSUME Alive(new_start, s) PROVE s < n
    BY <1>1, <2>1, <2>2, <2>3, <2>4
  <2>5. ASSUME s < n PROVE Alive(new_start, s)
    <3>1. s < lo \/ (lo <= s /\ s < hi) \/ (s >= hi /\ s < n)
      BY <1>1, <2>3, <2>5
    <3> HIDE DEF n
    <3> QED
      BY <2>1, <2>2, <3>1
  <2> QED
    BY <2>4, <2>5
<1>3. \A s \in Slot : m_start # Null => (mem[m_start][s] # Raw <=> s < m_finish)
  BY <1>1, ReallocAlive, BlocksApart, Stored DEF Books
<1>4. m \in MemoryType /\ k \in BlockTable
  BY Stored, Sizes DEF MemoryType, BlockTable, RawBlock, Cell
<1>5. Clean(f)
  <2>1. m_start # Null => \A s \in Slot \ (0 .. (m_finish - 1)) : mem[m_start][s] = Raw
    BY <1>1, <1>3 DEF Slot
  <2> QED
    BY <2>1 DEF OnRelease, OnDestroy, Stray, Clean
<1>6. \A b \in Block, s \in Slot : m[b][s] # Raw <=>
        (b = new_start /\ s < n) \/ (b = temp /\ s = 0)
  <2> SUFFICES ASSUME NEW b \in Block, NEW s \in Slot
               PROVE  m[b][s] # Raw <=> (b = new_start /\ s < n) \/ (b = temp /\ s = 0)
    OBVIOUS
  <2>1. m[b][s] = IF b = m_start THEN Raw ELSE mem[b][s]
    BY Stored, BlocksApart DEF MemoryType, RawBlock
  <2>2. mem[b][s] # Raw <=> Alive(b, s)
    BY DEF Books
  <2>3. b \notin {m_start, new_start} => (Alive(b, s) <=> b = temp /\ s = 0)
    BY <1>1, ReallocAlive
  <2> HIDE DEF m, n
  <2> QED
    BY <1>1, <1>2, <2>1, <2>2, <2>3, BlocksApart
<1>7. CASE Afterwards = "idle"
  <2>1. EndCall(m, k, f, "ok")
    BY <1>7 DEF Commit
  <2> HIDE DEF m, k, f, n
  <2> QED
    BY <1>1, <1>4, <1>5, <1>6, <2>1, BlocksApart, EndBooks
<1>8. CASE Afterwards # "idle"
  <2>1. /\ mem' = m /\ faults' = faults \cup f
        /\ fn' \in {"entry", "shift", "assign", "append"}
        /\ new_start' = Null /\ built' = 0 /\ moved' = 0
        /\ fn' = "shift" => Afterwards = "shift" /\ i' = LastShifted
        /\ UNCHANGED <<outcome, temp, call>>
    BY <1>8 DEF Commit, Afterwards
  <2>2. \A s \in Slot : AliveStorage(s)' <=> s < n
    <3>1. CASE fn' # "shift"
      BY <1>1, <2>1, <3>1 DEF AliveStorage
    <3>2. CASE fn' = "shift"
      <4>1. /\ call.n > 0 /\ call.n \in Nat /\ lo = hi
            /\ m_finish + call.n <= max_size
        <5>1. /\ call.op = "insert_range" /\ call.op \in RangeOps \ InputOps
              /\ blk[new_start] \in 0 .. max_size
          BY <1>1, <2>1, <3>2, Stored DEF Afterwards, RangeOps, InputOps, BlockTable
        <5>2. lo = hi /\ call.n > 0 /\ m_finish + call.n <= blk[new_start]
          BY <1>1, <2>1, <3>2, <5>1 DEF IInv, ReallocValid
        <5>3. fn # "idle"
          BY <1>1 DEF ReallocFns
        <5> QED
          BY <1>1, <5>1, <5>2, <5>3, CallNumbers, Sizes
      <4>2. i' = n + call.n - 1
        BY <1>1, <2>1, <3>2, <4>1, LastShiftedExact
      <4> QED
        BY <1>1, <2>1, <3>2, <4>1, <4>2 DEF AliveStorage, Slot
    <3> QED
      BY <3>1, <3>2
  <2>3. \A b \in Block, s \in Slot : Alive(b, s)' <=>
          (b = new_start /\ s < n) \/ (b = temp /\ s = 0)
    BY <1>1, <2>1, <2>2, BlocksApart DEF Alive
  <2> HIDE DEF m, f, n
  <2> QED
    BY <1>5, <1>6, <2>1, <2>3 DEF Books, Clean, ReallocFns
<1> QED
  BY <1>7, <1>8

LEMMA ReallocBooks ==
  ASSUME Faultless, IInv, NewBlockHeld, Books, ReallocStep PROVE Books'
<1>1. ~BuildThrows /\ ~RelocateThrows
  BY ElementsDoNotThrow DEF BuildThrows, RelocateThrows
<1> QED
  BY <1>1, BuildBooks, RelocateBooks, CommitBooks DEF ReallocStep

-----------------------------------------------------------------------------
(* The heads of the methods.                                               *)

LEMMA EnterBooks ==
  ASSUME Faultless, IInv, NewBlockHeld, Books, Enter PROVE Books'
<1>1. /\ fn = "entry" /\ fn # "idle" /\ Plain
      /\ call.n \in Nat /\ call.pos \in Int /\ 0 \in Int
      /\ m_finish \in 0 .. max_size /\ size = m_finish /\ m_finish \in Int
  <2>1. fn = "entry"
    BY DEF Enter, Entered, Reserve, ShrinkToFit, Clear, PopBack, DestroyVector,
           PushBack, Resize, InsertOne, InsertRvalue, InsertFill, InsertRange, Erase,
           AssignEnter, ConstructVector, AssignFill, AssignRange, AssignInput
  <2> QED
    BY <2>1, CallNumbers, Stored, Sizes DEF Plain, ReallocFns
<1>2. ASSUME NEW out \in {"ok", "length_error", "out_of_range"}, Finish(out)
      PROVE  Books'
  BY <1>1, <1>2, FinishBooks
<1>3. ASSUME DestroyStorageAndEnd("ok") PROVE Books'
  BY <1>1, <1>3, DestroyStorageBooks
<1>4. ASSUME NEW n \in 0 .. m_finish, TruncateAndEnd(n) PROVE Books'
  BY <1>1, <1>4, TruncateBooks
<1>5. ASSUME NEW f \in {"fill_end", "erase", "assign", "append"}, NEW c, Loop(f, c)
      PROVE  Books'
  BY <1>1, <1>5, LoopBooks DEF ReallocFns
<1>6. ASSUME NEW f \in ReallocFns, NEW l \in Int, NEW h, NEW n,
             StartRealloc(f, l, h, n) \/ StartGrowing(f, l, h, n)
      PROVE  Books'
  BY <1>1, <1>6, StartReallocBooks, StartGrowingBooks
<1>7. ASSUME AllocateTemp PROVE Books'
  BY <1>1, <1>7, AllocateTempBooks
<1>8. ASSUME ConstructAtEnd, size # capacity, call.op \notin RangeOps PROVE Books'
  BY <1>1, <1>8, ConstructAtEndBooks
<1>9. ASSUME Loop("shift", LastShifted), m_finish + call.n <= m_eos, call.n > 0
      PROVE  Books'
  BY <1>1, <1>9, LastShiftedExact, LoopBooks, Stored, Sizes DEF ReallocFns
<1>10. CASE Reserve \/ ShrinkToFit \/ Clear \/ PopBack \/ DestroyVector
  <2>1. /\ 0 \in 0 .. m_finish
        /\ size > 0 => size - 1 \in 0 .. m_finish
    BY <1>1, Sizes
  <2> QED
    BY <1>1, <1>2, <1>3, <1>4, <1>6, <1>10, <2>1
       DEF Reserve, ShrinkToFit, Clear, PopBack, DestroyVector, ReallocFns
<1>11. CASE PushBack
  <2>1. call.op \notin RangeOps
    BY <1>11 DEF PushBack, Entered, AppendOps, RangeOps, InputOps
  <2> QED
    BY <1>1, <1>6, <1>8, <1>11, <2>1 DEF PushBack, ReallocFns
<1>12. CASE Resize
  <2>1. call.n < size => call.n \in 0 .. m_finish
    BY <1>1, Sizes
  <2>2. ASSUME Loop("resize_in", size) PROVE Books'
    BY <1>1, <2>2, LoopBooks DEF ReallocFns
  <2> QED
    BY <1>1, <1>2, <1>4, <1>6, <1>12, <2>1, <2>2 DEF Resize, ReallocFns
<1>13. CASE InsertOne
  <2>1. call.op \notin RangeOps
    BY <1>13 DEF InsertOne, Entered, RangeOps, InputOps
  <2> QED
    BY <1>1, <1>6, <1>7, <1>8, <1>13, <2>1 DEF InsertOne, ReallocFns
<1>14. CASE InsertRvalue
  <2>1. /\ call.op \notin RangeOps /\ call.n = 1
        /\ size # capacity => m_finish + call.n <= m_eos
    BY <1>14, Stored, Sizes
       DEF InsertRvalue, Entered, RangeOps, InputOps, IInv, EntryValid, InsertOneOps
  <2> QED
    BY <1>1, <1>6, <1>7, <1>8, <1>9, <1>14, <2>1 DEF InsertRvalue, ReallocFns
<1>15. CASE InsertFill
  BY <1>1, <1>2, <1>5, <1>6, <1>7, <1>15 DEF InsertFill, ReallocFns
<1>16. CASE InsertRange
  <2>1. ~NoRoom => m_finish + call.n <= m_eos
    BY <1>1, RoomExact, Stored, Sizes
  <2>2. call.n # 0 => call.n > 0
    BY <1>1
  <2> QED
    BY <1>1, <1>2, <1>6, <1>9, <1>16, <2>1, <2>2 DEF InsertRange, ReallocFns
<1>17. CASE Erase
  BY <1>2, <1>5, <1>17 DEF Erase
<1>18. CASE ConstructVector \/ AssignFill
  BY <1>1, <1>2, <1>5, <1>6, <1>18 DEF ConstructVector, AssignFill, ReallocFns
<1>19. ~AssignRange
  BY <1>1 DEF AssignRange, Faultless, IInv, CallValid
<1>20. CASE AssignInput
  BY <1>1, <1>20, ReleaseBooks DEF AssignInput
<1> QED
  BY <1>10, <1>11, <1>12, <1>13, <1>14, <1>15, <1>16, <1>17, <1>18, <1>19, <1>20
     DEF Enter, AssignEnter

LEMMA NextBooks ==
  Faultless /\ IInv /\ NewBlockHeld /\ Books /\ [Next]_vars => Books'
<1> SUFFICES ASSUME Faultless, IInv, NewBlockHeld, Books, [Next]_vars PROVE Books'
  OBVIOUS
<1>1. CASE Invoke
  <2>1. /\ fn = "idle" /\ fn' = "entry" /\ outcome' = "ok"
        /\ UNCHANGED <<mem, m_start, m_finish, faults, new_start, lo, hi, built, moved,
                       temp>>
    BY <1>1 DEF Invoke, memory, vec, frame, IInv, CallValid
  <2>2. \A b, s : Alive(b, s)' <=> Alive(b, s)
    <3>1. \A j : Dest(j)' = Dest(j)
      BY <2>1 DEF Dest
    <3>2. \A s : AliveStorage(s)' <=> AliveStorage(s)
      BY <2>1 DEF AliveStorage
    <3> QED
      BY <2>1, <3>1, <3>2 DEF Alive
  <2> QED
    BY <2>1, <2>2 DEF Books, ReallocFns
<1>2. CASE UNCHANGED vars
  <2>1. \A b, s : Alive(b, s)' <=> Alive(b, s)
    <3>1. \A j : Dest(j)' = Dest(j)
      BY <1>2 DEF Dest, vars
    <3>2. \A s : AliveStorage(s)' <=> AliveStorage(s)
      BY <1>2 DEF AliveStorage, gap, vars
    <3> QED
      BY <1>2, <3>1, <3>2 DEF Alive, vars
  <2> QED
    BY <1>2, <2>1 DEF Books, vars
<1> QED
  BY <1>1, <1>2, EnterBooks, ReallocBooks, InPlaceBooks, AssignBooks DEF Next, CodeStep

LEMMA InitBooks == Init => Books /\ Leaked = {}
<1> SUFFICES ASSUME Init PROVE Books /\ Leaked = {}
  OBVIOUS
<1>1. \A b \in Block, s \in Slot : mem[b][s] = Raw
  BY DEF Init, RawBlock
<1>2. \A b \in Block, s \in Slot : ~Alive(b, s)
  BY StateAssumption DEF Init, Alive, AliveStorage, Slot
<1>3. Leaked = {}
  BY DEF Init, Leaked
<1> QED
  BY <1>1, <1>2, <1>3 DEF Init, Books, Clean, ReallocFns

(* Between calls the books say what NothingLost says.                      *)
LEMMA BooksSayNothingLost ==
  Faultless /\ IInv /\ NewBlockHeld /\ Books /\ Leaked = {} => NothingLost
<1> SUFFICES ASSUME Faultless, IInv, NewBlockHeld, Books, Leaked = {}, call = NoCall
             PROVE  /\ faults = {}
                    /\ \A b \in Block : blk[b] = IF b = m_start THEN m_eos ELSE 0
                    /\ \A b \in Block, s \in Slot :
                         mem[b][s] # Raw <=> b = m_start /\ s < m_finish
  BY DEF NothingLost
<1>1. /\ fn = "idle" /\ temp = Null /\ new_start = Null /\ Plain
  BY DEF IInv, CallValid, TempValid, NewBlockHeld, Plain, ReallocFns
<1>2. faults = {}
  BY DEF Books, Clean, IInv, NothingAbsent, Harmless
<1>3. \A b \in Block : blk[b] = IF b = m_start THEN m_eos ELSE 0
  <2> SUFFICES ASSUME NEW b \in Block PROVE blk[b] = IF b = m_start THEN m_eos ELSE 0
    OBVIOUS
  <2>1. b = m_start => blk[b] = m_eos
    BY StateAssumption DEF IInv, StorageValid
  <2>2. blk[b] \in Nat
    BY Stored, Sizes DEF BlockTable
  <2>3. b # m_start => ~(blk[b] > 0)
    BY <1>1, StateAssumption DEF Leaked
  <2> QED
    BY <2>1, <2>2, <2>3
<1> QED
  BY <1>1, <1>2, <1>3, PlainBooks, StateAssumption

(* When no element throws, the allocator's books balance between calls.    *)
THEOREM BooksBalance == Faultless => (Spec => []NothingLost)
<1> SUFFICES ASSUME Faultless PROVE Spec => []NothingLost
  OBVIOUS
<1>1. Init => NewBlockHeld
  BY DEF Init, NewBlockHeld
<1>2. IInv /\ NewBlockHeld /\ Books /\ [Next]_vars => NewBlockHeld' /\ Books'
  BY NextBlocks, NextBooks DEF BlockStep
<1>3. IInv /\ NewBlockHeld /\ Books /\ Leaked = {} /\ [Next]_vars => (Leaked = {})'
  BY NextBlocks, NextBooks DEF BlockStep, Books
<1>4. IInv /\ NewBlockHeld /\ Books /\ Leaked = {} => NothingLost
  BY BooksSayNothingLost
<1> QED
  BY InitIInv, NextIInv, InitBooks, <1>1, <1>2, <1>3, <1>4, PTL DEF Spec

-----------------------------------------------------------------------------
(* Whatever throws, the objects that are not known of lie in the storage   *)
(* beyond m_finish: every other block holds those that the code put there, *)
(* and so none is constructed over or forgotten.                           *)

Known(f) == "construct_live" \notin f /\ "free_live" \notin f

Filled(s) ==
  s \in lo .. (lo + built - 1) \/ \E j \in 0 .. (moved - 1) : s = Dest(j)

(* What TimeToBuild and TimeToMove make of the order of the constructions. *)
BuildOrder ==
  fn \in ReallocFns =>
    IF fn = "realloc_insert"
    THEN hi = lo + 1 /\ (IF built = 0 THEN moved <= lo ELSE lo <= moved)
    ELSE moved > 0 => built = hi - lo

Tidy ==
  /\ Known(faults)
  /\ \A b \in Block, s \in Slot : blk[b] = 0 => mem[b][s] = Raw
  /\ temp # Null => \A s \in Slot \ {0} : mem[temp][s] = Raw
  /\ fn = "temp" => \A s \in Slot : mem[new_start][s] = Raw
  /\ fn \in ReallocFns => \A s \in Slot : mem[new_start][s] # Raw => Filled(s)
  /\ BuildOrder

(* Uses that forget nothing and construct over nothing.                    *)
LEMMA KnownUses ==
  /\ \A v : Known(OnRead(v))
  /\ \A b, s : Known(OnAssign(b, s))
  /\ \A b, S : Known(OnDestroy(b, S))
  BY DEF Known, OnRead, OnAssign, OnDestroy

LEMMA KnownTogether ==
  ASSUME NEW f, NEW g, Known(f), Known(g) PROVE Known(f \cup g)
  BY DEF Known

(* Beyond m_finish nothing is known of, below it all is destroyed.         *)
LEMMA StorageUses ==
  ASSUME IInv
  PROVE  /\ \A s \in Slot : s >= m_finish => Known(OnConstruct(m_start, s))
         /\ \A n : Known(OnRelease(m_start, 0 .. (m_finish - 1), n))
         /\ Known(OnReleaseCapacity)
<1>1. m_finish \in Nat /\ m_eos \in Nat /\ m_finish <= m_eos /\ Slot \subseteq Nat
  BY Stored, Sizes DEF Slot
<1>2. \A s \in Slot : s \notin 0 .. (m_finish - 1) => s >= m_finish
  BY <1>1
<1>3. ASSUME NEW n, NEW S, \A s \in Slot \ S : mem[m_start][s] # Raw => s >= m_finish
      PROVE  Known(OnRelease(m_start, S, n))
  BY <1>3 DEF Known, OnRelease, OnDestroy, Stray
<1>4. Known(OnReleaseCapacity)
  <2> DEFINE unused == {s \in m_finish .. (m_eos - 1) : mem[m_start][s] = Raw}
             S == (0 .. (m_eos - 1)) \ unused
  <2>1. \A s \in Slot \ S : mem[m_start][s] # Raw => s >= m_finish
    BY <1>1
  <2>2. Known(OnRelease(m_start, S, m_eos))
    BY <1>3, <2>1
  <2> QED
    BY <2>2 DEF OnReleaseCapacity, Known
<1> QED
  BY <1>2, <1>3, <1>4 DEF Known, OnConstruct, Stray

(* ~temp_value destroys the one object of its block.                       *)
LEMMA TempUses ==
  ASSUME IInv, Tidy, temp # Null PROVE Known(OnRelease(temp, {0}, 1))
  BY DEF Known, OnRelease, OnDestroy, Stray, Tidy

LEMMA EndTidy ==
  ASSUME IInv, Tidy, NEW m \in MemoryType, NEW k \in BlockTable, NEW f, NEW out,
         EndCall(m, k, f, out), Known(f),
         \A b \in Block, s \in Slot : k[b] = 0 => m[b][s] = Raw
  PROVE  Tidy'
<1>1. /\ fn' = "idle" /\ temp' = Null
      /\ mem' = IF temp = Null THEN m ELSE [m EXCEPT ![temp] = RawBlock]
      /\ blk' = IF temp = Null THEN k ELSE [k EXCEPT ![temp] = 0]
      /\ faults' = faults \cup f
           \cup IF temp = Null THEN {} ELSE OnRelease(temp, {0}, 1)
  BY DEF EndCall
<1>2. Known(faults')
  BY <1>1, TempUses DEF Tidy, Known
<1>3. \A b \in Block, s \in Slot : blk'[b] = 0 => mem'[b][s] = Raw
  BY <1>1 DEF MemoryType, BlockTable, RawBlock
<1> QED
  BY <1>1, <1>2, <1>3 DEF Tidy, BuildOrder, ReallocFns

LEMMA ThrowTidy ==
  ASSUME IInv, Tidy, NEW m \in MemoryType, NEW k \in BlockTable, NEW f, NEW out,
         Throw(m, k, f, out), Known(f),
         \A b \in Block, s \in Slot : k[b] = 0 => m[b][s] = Raw,
         temp # Null => m[temp] = mem[temp]
  PROVE  Tidy'
<1>1. CASE call.op \notin InputOps
  BY <1>1, EndTidy DEF Throw
<1>2. CASE call.op \in InputOps
  <2>1. /\ mem' = m /\ blk' = k /\ faults' = faults \cup f
        /\ fn' = "rollback" /\ temp' = temp
    BY <1>2 DEF Throw
  <2> QED
    BY <2>1 DEF Tidy, Known, BuildOrder, ReallocFns
<1> QED
  BY <1>1, <1>2

LEMMA LeaveTidy ==
  ASSUME IInv, Tidy, NEW out, Finish(out) \/ Throw(mem, blk, {}, out)
  PROVE  Tidy'
<1>1. mem \in MemoryType /\ blk \in BlockTable /\ Known({})
  BY Stored DEF Known
<1>2. \A b \in Block, s \in Slot : blk[b] = 0 => mem[b][s] = Raw
  BY DEF Tidy
<1> QED
  BY <1>1, <1>2, EndTidy, ThrowTidy DEF Finish

(* A step of a loop inside the storage, and the way into such a loop.      *)
LEMMA StorageTidy ==
  ASSUME IInv, Tidy, NEW f, Known(f), faults' = faults \cup f,
         fn' \notin ReallocFns \cup {"temp"}, UNCHANGED <<blk, temp>>,
         \A b \in Block, s \in Slot :
           mem'[b][s] # mem[b][s] => b = m_start /\ blk[m_start] # 0
  PROVE  Tidy'
<1>1. temp # Null => temp \in Block /\ temp # m_start
  BY DEF IInv, TypeOK, TempValid
<1>2. temp # Null => \A s \in Slot \ {0} : mem'[temp][s] = Raw
  BY <1>1 DEF Tidy
<1>3. \A b \in Block, s \in Slot : blk[b] = 0 => mem'[b][s] = Raw
  BY DEF Tidy
<1>4. Known(faults')
  BY DEF Tidy, Known
<1> QED
  BY <1>2, <1>3, <1>4 DEF Tidy, BuildOrder

(* The same where one slot is assigned to, or constructed beyond m_finish. *)
LEMMA SlotTidy ==
  ASSUME IInv, Tidy, m_start \in Block, NEW x \in Slot, NEW v, NEW f, NEW g,
         mem' = [mem EXCEPT ![m_start][x] = v], faults' = faults \cup f \cup g, Known(f),
         g = OnAssign(m_start, x) \/ (g = OnConstruct(m_start, x) /\ x >= m_finish),
         fn' \notin ReallocFns \cup {"temp"}, UNCHANGED <<blk, temp>>
  PROVE  Tidy'
<1>1. Known(g)
  BY KnownUses, StorageUses
<1> DEFINE h == f \cup g
<1>2. Known(h) /\ faults' = faults \cup h
  BY <1>1 DEF Known
<1>3. \A b \in Block, s \in Slot :
        mem'[b][s] # mem[b][s] => b = m_start /\ blk[m_start] # 0
  BY Stored, StateAssumption DEF MemoryType, IInv, StorageValid
<1> HIDE DEF h
<1> QED
  BY <1>2, <1>3, StorageTidy

LEMMA LoopTidy ==
  ASSUME IInv, Tidy, NEW f, f \notin ReallocFns \cup {"temp"}, NEW c, Loop(f, c)
  PROVE  Tidy'
<1>1. fn' = f /\ faults' = faults \cup {} /\ UNCHANGED <<mem, blk, temp>> /\ Known({})
  BY DEF Loop, memory, Known
<1> QED
  BY <1>1, StorageTidy

LEMMA AllocateTidy ==
  ASSUME IInv, Tidy, NEW b \in Block, NEW n \in 1 .. max_size, Allocate(b, n),
         new_start' = b, fn' \in ReallocFns \cup {"temp"},
         fn' \in ReallocFns =>
           lo' \in Nat /\ built' = 0 /\ moved' = 0
           /\ (fn' = "realloc_insert" => hi' = lo' + 1),
         UNCHANGED <<mem, faults, temp>>
  PROVE  Tidy'
<1>1. \A s \in Slot : mem[b][s] = Raw
  BY DEF Allocate, FreeBlocks, Tidy
<1>2. \A x \in Block, s \in Slot : blk'[x] = 0 => mem[x][s] = Raw
  BY <1>1 DEF Allocate, Tidy
<1>3. BuildOrder'
  BY DEF BuildOrder, ReallocFns
<1> QED
  BY <1>1, <1>2, <1>3 DEF Tidy

LEMMA StartReallocTidy ==
  ASSUME IInv, Tidy, NEW f \in ReallocFns, NEW l \in Nat, NEW h, NEW n \in 1 .. max_size,
         f = "realloc_insert" => h = l + 1, StartRealloc(f, l, h, n)
  PROVE  Tidy'
<1>1. CASE AllocationFails
  BY <1>1, LeaveTidy DEF AllocationFails
<1>2. ASSUME NEW b \in Block, Allocate(b, n), fn' = f, new_start' = b, lo' = l, hi' = h,
             built' = 0, moved' = 0, UNCHANGED <<mem, faults, temp>>
      PROVE  Tidy'
  BY <1>2, AllocateTidy
<1> QED
  BY <1>1, <1>2 DEF StartRealloc

LEMMA StartGrowingTidy ==
  ASSUME IInv, Tidy, NEW f \in ReallocFns, NEW l \in Nat, NEW h, NEW n \in SizeType, n > 0,
         f = "realloc_insert" => h = l + 1, StartGrowing(f, l, h, n)
  PROVE  Tidy'
<1>1. CASE Throw(mem, blk, {}, "length_error")
  BY <1>1, LeaveTidy
<1>2. CASE ~TooLong(size, n) /\ StartRealloc(f, l, h, CalculateGrowth(size, n))
  <2>1. size \in 0 .. max_size /\ size \in Nat /\ n \in Nat
    BY Stored, Sizes DEF SizeType
  <2>2. CalculateGrowth(size, n) \in (size + n) .. max_size
    BY <1>2, <2>1, GrowthBounds
  <2>3. CalculateGrowth(size, n) \in 1 .. max_size
    BY <2>1, <2>2, Sizes
  <2> QED
    BY <1>2, <2>3, StartReallocTidy
<1> QED
  BY <1>1, <1>2 DEF StartGrowing

LEMMA AllocateTempTidy == ASSUME IInv, Tidy, AllocateTemp PROVE Tidy'
<1>1. CASE AllocationFails
  BY <1>1, LeaveTidy DEF AllocationFails
<1>2. ASSUME NEW b \in Block, Allocate(b, 1), fn' = "temp", new_start' = b,
             UNCHANGED <<mem, faults, temp>>
      PROVE  Tidy'
  BY <1>2, AllocateTidy, Sizes DEF ReallocFns
<1> QED
  BY <1>1, <1>2 DEF AllocateTemp

(* What the three ends of a call that touch the storage leave.             *)
LEMMA DestroyedTidy ==
  ASSUME IInv, Tidy, m_start \in Block, NEW S, NEW out,
         EndCall(Destroyed(m_start, S), blk, OnDestroy(m_start, S), out)
  PROVE  Tidy'
<1> DEFINE m == Destroyed(m_start, S)
<1>1. m \in MemoryType /\ blk \in BlockTable
  BY Stored DEF Destroyed, MemoryType, Cell
<1>2. \A b \in Block, s \in Slot : blk[b] = 0 => m[b][s] = Raw
  BY Stored DEF Tidy, Destroyed, MemoryType
<1> HIDE DEF m
<1> QED
  BY <1>1, <1>2, EndTidy, KnownUses DEF m

LEMMA TruncateTidy ==
  ASSUME IInv, Tidy, NEW n \in 0 .. m_finish, TruncateAndEnd(n)
  PROVE  Tidy'
<1>1. CASE n = m_finish
  BY <1>1, LeaveTidy, EndTidy, Stored DEF TruncateAndEnd, Known, Tidy
<1>2. CASE n # m_finish
  <2>1. m_start \in Block
    BY <1>2, Stored, Sizes
  <2> QED
    BY <1>2, <2>1, DestroyedTidy DEF TruncateAndEnd
<1> QED
  BY <1>1, <1>2

LEMMA GivenUp ==
  ASSUME IInv, Tidy, m_start # Null
  PROVE  /\ [mem EXCEPT ![m_start] = RawBlock] \in MemoryType
         /\ [blk EXCEPT ![m_start] = 0] \in BlockTable
         /\ \A b \in Block, s \in Slot :
              [blk EXCEPT ![m_start] = 0][b] = 0 =>
                [mem EXCEPT ![m_start] = RawBlock][b][s] = Raw
  BY Stored, Sizes DEF Tidy, MemoryType, BlockTable, RawBlock, Cell

LEMMA DestroyStorageTidy ==
  ASSUME IInv, Tidy, NEW out, DestroyStorageAndEnd(out)
  PROVE  Tidy'
<1>1. CASE m_start = Null
  BY <1>1, LeaveTidy DEF DestroyStorageAndEnd
<1>2. CASE m_start # Null
  BY <1>2, GivenUp, StorageUses, EndTidy DEF DestroyStorageAndEnd
<1> QED
  BY <1>1, <1>2

LEMMA ReleaseTidy ==
  ASSUME IInv, Tidy, NEW wrong, Known(wrong), NEW f, f \notin ReallocFns \cup {"temp"},
         ReleaseStorage(wrong, f)
  PROVE  Tidy'
<1>1. CASE m_start = Null
  <2>1. fn' = f /\ faults' = faults \cup {} /\ UNCHANGED <<mem, blk, temp>> /\ Known({})
    BY <1>1 DEF ReleaseStorage, memory, Known
  <2> QED
    BY <2>1, StorageTidy
<1>2. CASE m_start # Null
  <2>1. /\ mem' = [mem EXCEPT ![m_start] = RawBlock]
        /\ blk' = [blk EXCEPT ![m_start] = 0]
        /\ faults' = faults \cup wrong /\ fn' = f /\ temp' = temp
    BY <1>2 DEF ReleaseStorage
  <2>2. temp # Null => \A s \in Slot \ {0} : mem'[temp][s] = Raw
    BY <2>1 DEF Tidy, IInv, TypeOK, TempValid
  <2> QED
    BY <1>2, <2>1, <2>2, GivenUp DEF Tidy, Known, BuildOrder
<1> QED
  BY <1>1, <1>2

LEMMA ConstructAtEndTidy ==
  ASSUME IInv, Tidy, fn # "idle", call.op \notin RangeOps, size # capacity,
         ConstructAtEnd
  PROVE  Tidy'
<1> DEFINE v == OneElement
           m == [mem EXCEPT ![m_start][m_finish] = v]
           f == OnRead(v) \cup OnConstruct(m_start, m_finish)
<1>1. CASE Finish("exception")
  BY <1>1, LeaveTidy
<1>2. CASE EndCall(m, blk, f, "ok")
  <2>1. m_start \in Block /\ m_finish \in Slot /\ blk[m_start] # 0 /\ blk \in BlockTable
    BY Stored, Sizes, StateAssumption DEF Slot, IInv, StorageValid
  <2>2. m \in MemoryType
    BY <2>1, OneElementIsObject, Stored DEF MemoryType, Cell
  <2>3. Known(f)
    BY <2>1, KnownUses, StorageUses, KnownTogether, Stored
  <2>4. \A b \in Block, s \in Slot : blk[b] = 0 => m[b][s] = Raw
    BY <2>1, Stored DEF Tidy, MemoryType
  <2> HIDE DEF m, f
  <2> QED
    BY <1>2, <2>1, <2>2, <2>3, <2>4, EndTidy
<1> QED
  BY <1>1, <1>2 DEF ConstructAtEnd

(* What lies in the new block when a handler releases it, it destroys.     *)
LEMMA NewBlockUses ==
  ASSUME IInv, Tidy, fn \in ReallocFns, NEW S, NEW n,
         \A s \in Slot : Filled(s) => s \in S
  PROVE  Known(OnRelease(new_start, S, n))
<1>1. new_start # m_start /\ \A s \in Slot \ S : mem[new_start][s] = Raw
  BY InRealloc DEF Tidy
<1> QED
  BY <1>1 DEF Known, OnRelease, OnDestroy, Stray

LEMMA NewBlockGivenUp ==
  ASSUME IInv, Tidy, fn \in ReallocFns, NEW S, NEW out,
         \A s \in Slot : Filled(s) => s \in S,
         Throw([mem EXCEPT ![new_start] = RawBlock], [blk EXCEPT ![new_start] = 0],
               OnRelease(new_start, S, blk[new_start]), out)
  PROVE  Tidy'
<1> DEFINE m == [mem EXCEPT ![new_start] = RawBlock]
           k == [blk EXCEPT ![new_start] = 0]
           f == OnRelease(new_start, S, blk[new_start])
<1>1. m \in MemoryType /\ k \in BlockTable /\ Known(f)
  BY NewBlockUses, Stored, Sizes, InRealloc DEF MemoryType, BlockTable, RawBlock, Cell
<1>2. \A b \in Block, s \in Slot : k[b] = 0 => m[b][s] = Raw
  BY Stored, InRealloc DEF Tidy, MemoryType, BlockTable, RawBlock
<1>3. temp # Null => m[temp] = mem[temp]
  BY Stored, InRealloc DEF MemoryType, IInv, TypeOK
<1> HIDE DEF m, k, f
<1> QED
  BY <1>1, <1>2, <1>3, ThrowTidy DEF m, k, f

LEMMA BuildTidy == ASSUME IInv, Tidy, Build PROVE Tidy'
<1> DEFINE v == Item(m_finish)
           x == lo + built
<1>1. /\ fn \in ReallocFns /\ built < hi - lo /\ x \in Slot /\ new_start \in Block
      /\ fn = "realloc_insert" => moved = lo
  BY InRealloc, Stored, Sizes DEF Build, TimeToBuild, Slot
<1>2. /\ mem' = [mem EXCEPT ![new_start][x] = v]
      /\ faults' = faults \cup OnRead(v) \cup OnConstruct(new_start, x)
      /\ built' = built + 1
      /\ UNCHANGED <<blk, fn, new_start, lo, hi, moved, temp>>
  BY DEF Build
<1>3. ~Filled(x)
  BY <1>1, InRealloc, DestApart DEF Filled
<1>4. mem[new_start][x] = Raw
  BY <1>1, <1>3 DEF Tidy
<1>5. \A s \in Slot : Filled(s) \/ s = x => Filled(s)'
  <2>1. /\ \A j : Dest(j)' = Dest(j)
        /\ \A s \in Slot : s \in lo .. (lo + built - 1) \/ s = x => s \in lo .. (lo + built' - 1)
    BY <1>1, <1>2, InRealloc DEF Dest, Slot
  <2> QED
    BY <1>2, <2>1 DEF Filled
<1> HIDE DEF v, x
<1>6. \A s \in Slot : mem'[new_start][s] # Raw => Filled(s)'
  BY <1>1, <1>2, <1>5, Stored DEF Tidy, MemoryType
<1>7. /\ temp # Null => \A s \in Slot \ {0} : mem'[temp][s] = Raw
      /\ \A b \in Block, s \in Slot : blk[b] = 0 => mem'[b][s] = Raw
  BY <1>1, <1>2, InRealloc, Stored DEF Tidy, MemoryType, IInv, TypeOK
<1>8. Known(faults')
  BY <1>2, <1>4 DEF Tidy, Known, OnRead, OnConstruct
<1>9. BuildOrder'
  BY <1>1, <1>2, InRealloc DEF Tidy, BuildOrder
<1> QED
  BY <1>1, <1>2, <1>6, <1>7, <1>8, <1>9 DEF Tidy, ReallocFns

LEMMA BuildThrowsTidy == ASSUME IInv, Tidy, BuildThrows PROVE Tidy'
<1> DEFINE S == IF fn = "realloc_insert" THEN 0 .. (moved - 1) ELSE lo .. (lo + built - 1)
<1>1. /\ fn \in ReallocFns /\ built < hi - lo /\ built \in Nat /\ moved \in Nat
      /\ lo \in Nat /\ hi \in Nat
      /\ IF fn = "realloc_insert" THEN built = 0 /\ moved = lo ELSE moved = 0
  BY InRealloc DEF BuildThrows, TimeToBuild, Tidy, BuildOrder
<1>2. \A s \in Slot : Filled(s) => s \in S
  BY <1>1 DEF Filled, Dest
<1>3. Throw([mem EXCEPT ![new_start] = RawBlock], [blk EXCEPT ![new_start] = 0],
            OnRelease(new_start, S, blk[new_start]), "exception")
  BY DEF BuildThrows
<1> HIDE DEF S
<1> QED
  BY <1>1, <1>2, <1>3, NewBlockGivenUp

LEMMA RelocateTidy == ASSUME IInv, Tidy, Relocate PROVE Tidy'
<1> DEFINE v == mem[m_start][moved]
           w == Left(MoveIfNoexcept, v)
           x == Dest(moved)
<1>1. /\ fn \in ReallocFns /\ moved < m_finish /\ moved \in 0 .. (m_finish - 1)
      /\ new_start \in Block /\ new_start # m_start
      /\ built = hi - lo \/ (fn = "realloc_insert" /\ moved < lo)
  BY InRealloc, Stored, Sizes DEF Relocate, TimeToMove
<1>2. m_start \in Block /\ moved \in Slot /\ x \in Slot /\ blk[m_start] # 0
  BY <1>1, StoredElement, DestSlot, StateAssumption DEF IInv, StorageValid
<1>3. /\ mem' = [mem EXCEPT ![new_start][x] = v, ![m_start][moved] = w]
      /\ faults' = faults \cup OnRead(v) \cup OnConstruct(new_start, x)
      /\ moved' = moved + 1
      /\ UNCHANGED <<blk, fn, new_start, lo, hi, built, temp>>
  BY DEF Relocate
<1>4. ~Filled(x)
  BY <1>1, DestApart DEF Filled
<1>5. mem[new_start][x] = Raw
  BY <1>1, <1>2, <1>4 DEF Tidy
<1>6. \A s \in Slot : Filled(s) \/ s = x => Filled(s)'
  <2>1. /\ \A j : Dest(j)' = Dest(j)
        /\ moved \in 0 .. (moved' - 1) /\ 0 .. (moved - 1) \subseteq 0 .. (moved' - 1)
    BY <1>1, <1>3, InRealloc DEF Dest
  <2> QED
    BY <1>3, <2>1 DEF Filled
<1> HIDE DEF v, w, x
<1>7. \A s \in Slot : mem'[new_start][s] # Raw => Filled(s)'
  BY <1>1, <1>2, <1>3, <1>6, Stored DEF Tidy, MemoryType
<1>8. temp # Null => temp \in Block /\ temp # new_start /\ temp # m_start
  BY <1>1, InRealloc DEF IInv, TypeOK, TempValid
<1>9. /\ temp # Null => \A s \in Slot \ {0} : mem'[temp][s] = Raw
      /\ \A b \in Block, s \in Slot : blk[b] = 0 => mem'[b][s] = Raw
  BY <1>1, <1>2, <1>3, <1>8, InRealloc, Stored DEF Tidy, MemoryType
<1>10. Known(faults')
  BY <1>3, <1>5 DEF Tidy, Known, OnRead, OnConstruct
<1>11. BuildOrder'
  BY <1>1, <1>3, InRealloc DEF Tidy, BuildOrder
<1> QED
  BY <1>1, <1>3, <1>7, <1>9, <1>10, <1>11 DEF Tidy, ReallocFns

LEMMA RelocateThrowsTidy == ASSUME IInv, Tidy, RelocateThrows PROVE Tidy'
<1>1. /\ fn \in ReallocFns /\ moved < m_finish
      /\ built = hi - lo \/ (fn = "realloc_insert" /\ moved < lo)
      /\ Throw([mem EXCEPT ![new_start] = RawBlock], [blk EXCEPT ![new_start] = 0],
               OnRelease(new_start, Undone, blk[new_start]), "exception")
  BY DEF RelocateThrows, TimeToMove
<1>2. /\ lo \in Nat /\ hi \in Nat /\ lo <= hi /\ moved \in Nat /\ built \in Nat
      /\ built <= hi - lo
      /\ fn = "realloc_insert" => IF built = 0 THEN moved <= lo ELSE lo <= moved
      /\ fn = "realloc_insert" => hi = lo + 1
  BY <1>1, InRealloc DEF Tidy, BuildOrder
<1>3. ASSUME NEW j \in 0 .. (moved - 1) PROVE Dest(j) \in 0 .. (Dest(moved) - 1)
  BY <1>2 DEF Dest
<1>4. ASSUME NEW s \in lo .. (lo + built - 1) PROVE s \in Undone
  <2>1. CASE fn = "realloc_insert"
    BY <1>1, <1>2, <1>4, <2>1 DEF Undone, Dest
  <2>2. CASE fn # "realloc_insert"
    BY <1>1, <1>2, <1>4, <2>2 DEF Undone
  <2> QED
    BY <2>1, <2>2
<1>5. \A s \in Slot : Filled(s) => s \in Undone
  BY <1>3, <1>4 DEF Filled, Undone
<1> QED
  BY <1>1, <1>5, NewBlockGivenUp

LEMMA CommitTidy == ASSUME IInv, Tidy, Commit PROVE Tidy'
<1> DEFINE m == IF m_start = Null THEN mem ELSE [mem EXCEPT ![m_start] = RawBlock]
           k == IF m_start = Null THEN blk ELSE [blk EXCEPT ![m_start] = 0]
           f == IF m_start = Null THEN {}
                ELSE OnRelease(m_start, 0 .. (m_finish - 1), m_eos)
<1>1. m \in MemoryType /\ k \in BlockTable
      /\ \A b \in Block, s \in Slot : k[b] = 0 => m[b][s] = Raw
  BY GivenUp, Stored DEF Tidy
<1>2. Known(f)
  BY StorageUses DEF Known
<1>3. temp # Null => m[temp] = mem[temp]
  BY Stored DEF MemoryType, IInv, TypeOK, TempValid
<1>4. CASE Afterwards = "idle"
  <2>1. EndCall(m, k, f, "ok")
    BY <1>4 DEF Commit
  <2> HIDE DEF m, k, f
  <2> QED
    BY <1>1, <1>2, <2>1, EndTidy
<1>5. CASE Afterwards # "idle"
  <2>1. /\ mem' = m /\ blk' = k /\ faults' = faults \cup f /\ temp' = temp
        /\ fn' \notin ReallocFns \cup {"temp"}
    BY <1>5 DEF Commit, Afterwards, ReallocFns
  <2> HIDE DEF m, k, f
  <2> QED
    BY <1>1, <1>2, <1>3, <2>1 DEF Tidy, Known, BuildOrder
<1> QED
  BY <1>4, <1>5

LEMMA ReallocTidy == ASSUME IInv, Tidy, ReallocStep PROVE Tidy'
  BY BuildTidy, BuildThrowsTidy, RelocateTidy, RelocateThrowsTidy, CommitTidy
     DEF ReallocStep

LEMMA ConstructTempTidy == ASSUME IInv, Tidy, ConstructTemp PROVE Tidy'
<1>1. /\ fn = "temp" /\ temp = Null /\ new_start \in Block /\ blk[new_start] = 1
      /\ 0 \in Slot
  BY Sizes DEF ConstructTemp, IInv, NewTempValid, Slot
<1>2. /\ mem' = [mem EXCEPT ![new_start][0] = Argument]
      /\ faults' = faults \cup OnRead(Argument) \cup OnConstruct(new_start, 0)
      /\ temp' = new_start /\ blk' = blk /\ fn' \in {"entry", "shift"}
  BY DEF ConstructTemp
<1>3. /\ \A s \in Slot \ {0} : mem'[new_start][s] = Raw
      /\ \A b \in Block, s \in Slot : blk[b] = 0 => mem'[b][s] = Raw
  BY <1>1, <1>2, Stored DEF Tidy, MemoryType
<1>4. Known(faults')
  BY <1>1, <1>2 DEF Tidy, Known, OnRead, OnConstruct
<1> QED
  BY <1>2, <1>3, <1>4 DEF Tidy, BuildOrder, ReallocFns

(* The loops of shift and of place assign below m_finish.                  *)
LEMMA BeyondFinish ==
  ASSUME IInv, NEW x \in Slot, NEW g,
         g = IF x < m_finish THEN OnAssign(m_start, x) ELSE OnConstruct(m_start, x)
  PROVE  g = OnAssign(m_start, x) \/ (g = OnConstruct(m_start, x) /\ x >= m_finish)
  BY Stored, Sizes DEF Slot

LEMMA ShiftTidy == ASSUME IInv, Tidy, Shift PROVE Tidy'
<1> DEFINE v == mem[m_start][i - call.n]
           g == IF i < m_finish THEN OnAssign(m_start, i) ELSE OnConstruct(m_start, i)
           f == OnRead(v) \cup g
<1>1. fn = "shift" /\ gap <= i
  BY ShiftNumbers DEF Shift
<1>2. i \in Slot /\ m_start \in Block /\ i - call.n \in Slot /\ blk[m_start] # 0
  BY <1>1, ShiftNumbers, Stored, Sizes, StateAssumption DEF Slot, IInv, StorageValid
<1>3. Known(f)
  BY <1>2, BeyondFinish, StorageUses, KnownUses, KnownTogether
<1>4. faults' = faults \cup f /\ fn' = "shift" /\ UNCHANGED <<blk, temp>>
  BY <1>1 DEF Shift
<1>5. \A b \in Block, s \in Slot : mem'[b][s] # mem[b][s] => b = m_start
  BY <1>2, Stored DEF Shift, MemoryType
<1> HIDE DEF f
<1> QED
  BY <1>2, <1>3, <1>4, <1>5, StorageTidy DEF ReallocFns

LEMMA EraseShiftTidy == ASSUME IInv, Tidy, EraseShift PROVE Tidy'
<1> DEFINE v == mem[m_start][i]
           to == i - call.n
           f == OnRead(v) \cup OnAssign(m_start, to)
<1>1. fn = "erase" /\ i < m_finish
  BY DEF EraseShift
<1>2. i \in 0 .. (m_finish - 1) /\ to \in 0 .. (m_finish - 1)
  BY <1>1, EraseNumbers, Sizes
<1>3. i \in Slot /\ to \in Slot /\ m_start \in Block /\ blk[m_start] # 0
  BY <1>2, StoredElement, StateAssumption, Stored DEF IInv, StorageValid
<1>4. Known(f)
  BY KnownUses, KnownTogether
<1>5. faults' = faults \cup f /\ fn' = "erase" /\ UNCHANGED <<blk, temp>>
  BY <1>1 DEF EraseShift
<1>6. \A b \in Block, s \in Slot : mem'[b][s] # mem[b][s] => b = m_start
  <2> HIDE DEF to
  <2> QED
    BY <1>3, Stored DEF EraseShift, MemoryType, to
<1> HIDE DEF f
<1> QED
  BY <1>3, <1>4, <1>5, <1>6, StorageTidy DEF ReallocFns

LEMMA InPlaceTidy == ASSUME IInv, Tidy, InPlaceStep PROVE Tidy'
<1>1. CASE ConstructTempThrows \/ FillEndDone \/ ShiftThrows \/ PlaceThrows \/ EraseThrows
  BY <1>1, LeaveTidy
     DEF ConstructTempThrows, FillEndDone, ShiftThrows, PlaceThrows, EraseThrows
<1>2. CASE FillEnd
  <2>1. /\ fn = "fill_end" /\ i < call.n /\ m_finish + (call.n - i) <= m_eos
        /\ call.n \in Nat /\ i \in Nat
    BY <1>2, CallNumbers, Sizes, GrowthAssumption
       DEF FillEnd, IInv, FillValid, TypeOK, SizeType, SizeTypeMod
  <2>2. m_finish \in Slot /\ m_finish >= m_finish /\ m_start \in Block
    BY <2>1, Stored, Sizes DEF Slot
  <2> QED
    BY <1>2, <2>1, <2>2, SlotTidy, KnownUses DEF FillEnd, ReallocFns
<1>3. CASE FillEndThrows
  BY <1>3, DestroyStorageTidy DEF FillEndThrows
<1>4. CASE ResizeIn
  <2>1. /\ fn = "resize_in" /\ m_finish <= i /\ i < call.n /\ call.n <= m_eos
        /\ call.n \in Nat /\ i \in Nat
    BY <1>4, CallNumbers, Sizes, GrowthAssumption
       DEF ResizeIn, IInv, FillValid, TypeOK, SizeType, SizeTypeMod
  <2>2. i \in Slot /\ i >= m_finish /\ m_start \in Block
    BY <2>1, Stored, Sizes DEF Slot
  <2> QED
    BY <1>4, <2>1, <2>2, SlotTidy, KnownUses DEF ResizeIn, ReallocFns
<1>5. CASE ResizeInThrows
  <2>1. fn = "resize_in" /\ 0 < call.n /\ call.n <= m_eos
    BY <1>5 DEF ResizeInThrows, IInv, FillValid
  <2>2. m_start \in Block
    BY <2>1, CallNumbers, Stored, Sizes
  <2> QED
    BY <1>5, <2>2, DestroyedTidy DEF ResizeInThrows
<1>6. CASE ResizeInDone \/ PlaceDone
  BY <1>6, EndTidy, Stored DEF ResizeInDone, PlaceDone, Known, Tidy
<1>7. CASE ShiftDone
  BY <1>7, LoopTidy DEF ShiftDone, ReallocFns
<1>8. CASE Place
  <2>1. fn = "place" /\ i < gap
    BY <1>8 DEF Place
  <2>2. i \in Slot /\ m_start \in Block
    BY <2>1, ShiftNumbers, Sizes DEF Slot
  <2> QED
    BY <1>8, <2>1, <2>2, BeyondFinish, SlotTidy, KnownUses DEF Place, ReallocFns
<1>9. CASE EraseDone
  BY <1>9, EraseNumbers, TruncateTidy DEF EraseDone
<1> QED
  BY <1>1, <1>2, <1>3, <1>4, <1>5, <1>6, <1>7, <1>8, <1>9, ConstructTempTidy, ShiftTidy,
     EraseShiftTidy
     DEF InPlaceStep

LEMMA AssignTidy == ASSUME IInv, Tidy, AssignStep PROVE Tidy'
<1>1. fn \in {"assign", "append", "rollback"} /\ fn # "idle"
  BY DEF AssignStep, Assign, AssignThrows, AssignDone, AppendNext, AppendThrows,
         AppendGrows, AppendDone, Rollback, Appending
<1>2. CASE Assign
  <2>1. i \in Slot /\ m_start \in Block /\ fn = "assign" /\ i < Common
    <3>1. fn = "assign" /\ i < Common
      BY <1>2 DEF Assign
    <3> QED
      BY <3>1, AssignNumbers, StoredElement
  <2> QED
    BY <1>2, <2>1, SlotTidy, KnownUses DEF Assign, ReallocFns
<1>3. CASE AssignDone
  <2>1. call.n <= m_finish => call.n \in 0 .. m_finish
    BY <1>1, CallNumbers, Stored, Sizes
  <2> QED
    BY <1>3, <2>1, TruncateTidy, LoopTidy DEF AssignDone, ReallocFns
<1>4. CASE AppendNext
  <2>1. m_finish \in Slot /\ m_finish >= m_finish /\ m_start \in Block
    BY <1>4, AppendNumbers, Stored, Sizes DEF AppendNext
  <2> QED
    BY <1>1, <1>4, <2>1, SlotTidy, KnownUses DEF AppendNext, ReallocFns
<1>5. CASE AppendGrows
  <2>1. 1 \in SizeType /\ m_finish \in Nat /\ size = m_finish
    BY Stored, Sizes, GrowthAssumption DEF SizeType, SizeTypeMod
  <2> QED
    BY <1>5, <2>1, StartGrowingTidy DEF AppendGrows, ReallocFns
<1>6. CASE AssignThrows \/ AppendDone
  BY <1>6, LeaveTidy DEF AssignThrows, AppendDone
<1>7. CASE AppendThrows \/ Rollback
  BY <1>7, LeaveTidy, DestroyStorageTidy DEF AppendThrows, Rollback
<1> QED
  BY <1>2, <1>3, <1>4, <1>5, <1>6, <1>7 DEF AssignStep

LEMMA EnterTidy == ASSUME IInv, Tidy, Enter PROVE Tidy'
<1>1. /\ fn = "entry" /\ fn # "idle"
      /\ call.n \in Nat /\ call.n \in SizeType /\ call.pos \in Nat /\ 0 \in Nat
      /\ m_finish \in 0 .. max_size /\ size = m_finish /\ m_finish \in Nat
      /\ 1 \in SizeType /\ gap = call.pos + call.n
  <2>1. fn = "entry"
    BY DEF Enter, Entered, Reserve, ShrinkToFit, Clear, PopBack, DestroyVector,
           PushBack, Resize, InsertOne, InsertRvalue, InsertFill, InsertRange, Erase,
           AssignEnter, ConstructVector, AssignFill, AssignRange, AssignInput
  <2> QED
    BY <2>1, CallNumbers, Stored, Sizes, GrowthAssumption DEF SizeType, SizeTypeMod
<1>2. ASSUME NEW out, Finish(out) PROVE Tidy'
  BY <1>2, LeaveTidy
<1>3. ASSUME DestroyStorageAndEnd("ok") PROVE Tidy'
  BY <1>3, DestroyStorageTidy
<1>4. ASSUME NEW n \in 0 .. m_finish, TruncateAndEnd(n) PROVE Tidy'
  BY <1>4, TruncateTidy
<1>5. ASSUME NEW f \in {"fill_end", "resize_in", "shift", "erase", "assign", "append"},
             NEW c, Loop(f, c)
      PROVE  Tidy'
  BY <1>5, LoopTidy DEF ReallocFns
<1>6. ASSUME NEW f \in ReallocFns, NEW l \in Nat, NEW h, NEW n \in 1 .. max_size,
             f = "realloc_insert" => h = l + 1, StartRealloc(f, l, h, n)
      PROVE  Tidy'
  BY <1>6, StartReallocTidy
<1>7. ASSUME NEW f \in ReallocFns, NEW l \in Nat, NEW h, NEW n \in SizeType, n > 0,
             f = "realloc_insert" => h = l + 1, StartGrowing(f, l, h, n)
      PROVE  Tidy'
  BY <1>7, StartGrowingTidy
<1>8. ASSUME AllocateTemp PROVE Tidy'
  BY <1>8, AllocateTempTidy
<1>9. ASSUME ConstructAtEnd, size # capacity, call.op \notin RangeOps PROVE Tidy'
  BY <1>1, <1>9, ConstructAtEndTidy
<1>10. CASE Reserve \/ ShrinkToFit \/ Clear \/ PopBack \/ DestroyVector
  <2>1. /\ 0 \in 0 .. m_finish
        /\ size > 0 => size - 1 \in 0 .. m_finish
        /\ m_eos \in 0 .. max_size /\ capacity = m_eos
    BY <1>1, Stored, Sizes
  <2> QED
    BY <1>1, <1>2, <1>3, <1>4, <1>6, <1>10, <2>1, Stored, Sizes
       DEF Reserve, ShrinkToFit, Clear, PopBack, DestroyVector, ReallocFns
<1>11. CASE PushBack
  <2>1. call.op \notin RangeOps
    BY <1>11 DEF PushBack, Entered, AppendOps, RangeOps, InputOps
  <2> QED
    BY <1>1, <1>7, <1>9, <1>11, <2>1 DEF PushBack, ReallocFns
<1>12. CASE Resize
  <2>1. /\ call.n < size => call.n \in 0 .. m_finish
        /\ call.n > size => call.n - size \in SizeType /\ call.n - size > 0
        /\ call.n > capacity => call.n > size
    BY <1>1, Stored, Sizes, GrowthAssumption DEF SizeType, SizeTypeMod
  <2> QED
    BY <1>1, <1>2, <1>4, <1>5, <1>7, <1>12, <2>1 DEF Resize, ReallocFns
<1>13. CASE InsertOne
  <2>1. call.op \notin RangeOps
    BY <1>13 DEF InsertOne, Entered, RangeOps, InputOps
  <2> QED
    BY <1>1, <1>7, <1>8, <1>9, <1>13, <2>1 DEF InsertOne, ReallocFns
<1>14. CASE InsertRvalue
  <2>1. call.op \notin RangeOps
    BY <1>14 DEF InsertRvalue, Entered, RangeOps, InputOps
  <2> QED
    BY <1>1, <1>5, <1>7, <1>8, <1>9, <1>14, <2>1 DEF InsertRvalue, ReallocFns
<1>15. CASE InsertFill
  BY <1>1, <1>2, <1>5, <1>7, <1>8, <1>15 DEF InsertFill, ReallocFns
<1>16. CASE InsertRange
  BY <1>1, <1>2, <1>5, <1>7, <1>16 DEF InsertRange, ReallocFns
<1>17. CASE Erase
  BY <1>2, <1>5, <1>17 DEF Erase
<1>18. CASE ConstructVector
  BY <1>1, <1>2, <1>5, <1>6, <1>18, Sizes DEF ConstructVector, ReallocFns
<1>19. CASE AssignFill
  <2>1. call.n > capacity => call.n > 0
    BY <1>1, Stored, Sizes
  <2> QED
    BY <1>1, <1>2, <1>5, <1>6, <1>19, <2>1, Sizes DEF AssignFill, ReallocFns
<1>20. CASE AssignRange
  <2>1. call.n > capacity => call.n > 0
    BY <1>1, Stored, Sizes
  <2>2. ASSUME ReleaseStorage(OnReleaseCapacity, "entry") PROVE Tidy'
    BY <2>2, ReleaseTidy, StorageUses DEF ReallocFns
  <2> QED
    BY <1>1, <1>2, <1>5, <1>6, <1>20, <2>1, <2>2, Sizes DEF AssignRange, ReallocFns
<1>21. CASE AssignInput
  BY <1>21, ReleaseTidy, StorageUses DEF AssignInput, OnReleaseElements, ReallocFns
<1> QED
  BY <1>10, <1>11, <1>12, <1>13, <1>14, <1>15, <1>16, <1>17, <1>18, <1>19, <1>20, <1>21
     DEF Enter, AssignEnter

LEMMA NextTidy == IInv /\ Tidy /\ [Next]_vars => Tidy'
<1> SUFFICES ASSUME IInv, Tidy, [Next]_vars PROVE Tidy'
  OBVIOUS
<1>1. CASE Invoke
  <2>1. fn' = "entry" /\ faults' = faults \cup {} /\ UNCHANGED <<mem, blk, temp>>
    BY <1>1 DEF Invoke, memory
  <2>2. Known({})
    BY DEF Known
  <2> QED
    BY <2>1, <2>2, StorageTidy DEF ReallocFns
<1>2. CASE UNCHANGED vars
  <2>1. \A s : Filled(s)' <=> Filled(s)
    BY <1>2 DEF vars, Filled, Dest
  <2> QED
    BY <1>2, <2>1 DEF vars, Tidy, Known, BuildOrder
<1> QED
  BY <1>1, <1>2, EnterTidy, ReallocTidy, InPlaceTidy, AssignTidy DEF Next, CodeStep

LEMMA InitTidy == Init => Tidy
  BY StateAssumption DEF Init, Tidy, Known, BuildOrder, ReallocFns, RawBlock

(* Whatever throws, no slot without an object is assigned to, read or      *)
(* destroyed, no object in use constructed over or forgotten, and no block *)
(* deallocated twice or with another size, but by line 1120.               *)
THEOREM NothingUndefined == Spec => []NoUndefinedBehaviour
<1>1. IInv /\ Tidy => NoUndefinedBehaviour
  BY DEF IInv, NothingAbsent, Harmless, Tidy, Known, NoUndefinedBehaviour
<1> QED
  BY InitIInv, NextIInv, InitTidy, NextTidy, <1>1, PTL DEF Spec

=============================================================================
