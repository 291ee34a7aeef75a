---------------------------- MODULE VectorProofs ----------------------------
(***************************************************************************)
(* Proof that IInv (module VectorInvariant) is an invariant of one vector, *)
(* for every element type, allocator and width of size_type: whatever      *)
(* throws, and whatever earlier exceptions have left behind. First comes   *)
(* what all the proofs about Vector share: the types of its state, what    *)
(* IInv says of the elements, and that every way of ending a call keeps    *)
(* it. Then the functions that move the elements to a new block            *)
(* (VectorRealloc), the loops inside the storage (VectorShift), the        *)
(* filling constructors and assign (VectorAssign), and the calls.          *)
(***************************************************************************)
EXTENDS VectorInvariant, GrowthProofs, TLAPS

MemoryType == [Block -> [Slot -> Cell]]
BlockTable == [Block -> 0 .. max_size]

LEMMA Sizes ==
  /\ max_size \in Nat /\ max_size >= 1
  /\ DiffMax \in Nat /\ max_size <= DiffMax
  BY MaxSizeRange, GrowthAssumption

LEMMA SizeTypeHolds == 0 .. (2 * max_size) \subseteq SizeType
  BY Sizes, GrowthAssumption DEF SizeType, SizeTypeMod

LEMMA BelowCount ==
  ASSUME NEW n \in SizeType, NEW k \in Nat, k <= n
  PROVE  k \in SizeType
  BY GrowthAssumption DEF SizeType, SizeTypeMod

LEMMA Initial ==
  ASSUME NEW a \in Nat, NEW b \in Nat, a <= b
  PROVE  0 .. (a - 1) \subseteq 0 .. (b - 1)
  OBVIOUS

(* A call that ends in memory m and block table k leaves the invariant     *)
(* true when m and k hold what the vector then owns.                       *)
LEMMA EndCallIInv ==
  ASSUME IInv, NEW m \in MemoryType, NEW k \in BlockTable, NEW f, NEW out,
         EndCall(m, k, f, out), f \subseteq Harmless,
         m_start' \in Block \cup {Null},
         m_finish' \in 0 .. max_size, m_eos' \in 0 .. max_size,
         temp = Null \/ m_start' # temp,
         IF m_start' = Null THEN m_finish' = 0 /\ m_eos' = 0
         ELSE /\ m_eos' > 0 /\ k[m_start'] = m_eos' /\ m_finish' <= m_eos'
              /\ \A s \in 0 .. (m_finish' - 1) : m[m_start'][s] # Raw
  PROVE  IInv'
<1>1. /\ fn' = "idle" /\ call' = NoCall /\ temp' = Null /\ new_start' = Null
      /\ lo' = 0 /\ hi' = 0 /\ built' = 0 /\ moved' = 0 /\ i' = 0
  BY DEF EndCall
<1>2. mem' \in MemoryType
  BY DEF EndCall, MemoryType, RawBlock, Cell, IInv, TypeOK
<1>3. blk' \in BlockTable
  BY Sizes DEF EndCall, BlockTable, IInv, TypeOK
<1>4. faults' \subseteq Harmless
  <2>1. temp # Null => OnRelease(temp, {0}, 1) \subseteq Harmless
    BY DEF IInv, TempValid, OnRelease, OnDestroy, Harmless
  <2>2. faults \subseteq Harmless
    BY DEF IInv, NothingAbsent, Harmless
  <2> QED
    BY <2>1, <2>2 DEF EndCall
<1>5. m_start' # Null => mem'[m_start'] = m[m_start'] /\ blk'[m_start'] = k[m_start']
  BY DEF EndCall, MemoryType, BlockTable, IInv, TypeOK
<1>6. TypeOK'
  BY <1>1, <1>2, <1>3, <1>4, Sizes, GrowthAssumption
     DEF TypeOK, MemoryType, BlockTable, Harmless, SizeType,
         SizeTypeMod
<1>7. StorageValid'
  BY <1>5 DEF StorageValid
<1>8. NothingAbsent'
  BY <1>4 DEF NothingAbsent, Harmless
<1>9. /\ CallValid' /\ EntryValid' /\ TempValid' /\ NewTempValid'
      /\ ReallocValid' /\ FillValid' /\ ShiftValid' /\ EraseValid'
  BY <1>1 DEF CallValid, EntryValid, TempValid, NewTempValid, ReallocValid,
              FillValid, ShiftValid, EraseValid, ReallocFns, InPlaceFns
<1> QED
  BY <1>6, <1>7, <1>8, <1>9 DEF IInv

(* An exception leaves the function that runs: the call ends, or the catch *)
(* block of a single-pass loop is entered.                                 *)
LEMMA ThrowIInv ==
  ASSUME IInv, fn # "idle",
         NEW m \in MemoryType, NEW k \in BlockTable, NEW f, NEW out,
         Throw(m, k, f, out), f \subseteq Harmless,
         m_start' \in Block \cup {Null},
         m_finish' \in 0 .. max_size, m_eos' \in 0 .. max_size,
         temp = Null \/ m_start' # temp,
         IF m_start' = Null THEN m_finish' = 0 /\ m_eos' = 0
         ELSE /\ m_eos' > 0 /\ k[m_start'] = m_eos' /\ m_finish' <= m_eos'
              /\ \A s \in 0 .. (m_finish' - 1) : m[m_start'][s] # Raw
  PROVE  IInv'
<1>1. CASE call.op \notin InputOps
  BY <1>1, EndCallIInv DEF Throw
<1>2. CASE call.op \in InputOps
  <2>1. /\ mem' = m /\ blk' = k /\ faults' = faults \cup f
        /\ fn' = "rollback" /\ new_start' = Null
        /\ lo' = 0 /\ hi' = 0 /\ built' = 0 /\ moved' = 0
        /\ call' = call /\ temp' = temp /\ i' = i
    BY <1>2 DEF Throw
  <2>2. temp = Null
    BY <1>2 DEF IInv, TempValid, InputOps, InsertOneOps
  <2>3. faults' \subseteq Harmless
    BY <2>1 DEF IInv, NothingAbsent, Harmless
  <2>4. TypeOK'
    BY <2>1, <2>2, <2>3, Sizes
       DEF IInv, TypeOK, MemoryType, BlockTable, Harmless
  <2>5. StorageValid' /\ NothingAbsent' /\ TempValid'
    BY <2>1, <2>2, <2>3 DEF StorageValid, NothingAbsent, TempValid, Harmless
  <2>6. CallValid'
    BY <1>2, <2>1 DEF IInv, CallValid, InPlaceFns, RangeOps
  <2>7. /\ EntryValid' /\ NewTempValid' /\ ReallocValid' /\ FillValid'
        /\ ShiftValid' /\ EraseValid'
    BY <2>1 DEF EntryValid, NewTempValid, ReallocValid, FillValid, ShiftValid,
                EraseValid, ReallocFns
  <2> QED
    BY <2>4, <2>5, <2>6, <2>7 DEF IInv
<1> QED
  BY <1>1, <1>2

(* The same when it leaves memory and vector as they are.                  *)
LEMMA ThrowUnchangedIInv ==
  ASSUME IInv, fn # "idle", NEW out, Throw(mem, blk, {}, out), UNCHANGED vec
  PROVE  IInv'
<1>1. mem \in MemoryType /\ blk \in BlockTable
  BY DEF IInv, TypeOK, MemoryType, BlockTable
<1>2. m_start' = m_start /\ m_finish' = m_finish /\ m_eos' = m_eos
  BY DEF vec
<1>3. temp = Null \/ m_start # temp
  BY DEF IInv, TempValid
<1> QED
  BY <1>1, <1>2, <1>3, ThrowIInv DEF IInv, TypeOK, StorageValid

(* A call that ends and leaves memory and vector as they are.              *)
LEMMA FinishIInv ==
  ASSUME IInv, NEW out, Finish(out)
  PROVE  IInv'
<1>1. mem \in MemoryType /\ blk \in BlockTable
  BY DEF IInv, TypeOK, MemoryType, BlockTable
<1>2. m_start' = m_start /\ m_finish' = m_finish /\ m_eos' = m_eos
      /\ EndCall(mem, blk, {}, out)
  BY DEF Finish, vec
<1>3. temp = Null \/ m_start # temp
  BY DEF IInv, TempValid
<1> QED
  BY <1>1, <1>2, <1>3, EndCallIInv DEF IInv, TypeOK, StorageValid

(* The vector gives up its storage and the call ends.                      *)
LEMMA DestroyStorageIInv ==
  ASSUME IInv, NEW out, DestroyStorageAndEnd(out)
  PROVE  IInv'
<1>1. CASE m_start = Null
  BY <1>1, FinishIInv DEF DestroyStorageAndEnd
<1>2. CASE m_start # Null
  <2> DEFINE m == [mem EXCEPT ![m_start] = RawBlock]
             k == [blk EXCEPT ![m_start] = 0]
             f == OnRelease(m_start, 0 .. (m_finish - 1), m_eos)
  <2>1. m \in MemoryType /\ k \in BlockTable
    <3>1. mem \in MemoryType /\ blk \in BlockTable
      BY DEF IInv, TypeOK, MemoryType, BlockTable
    <3>2. RawBlock \in [Slot -> Cell]
      BY DEF RawBlock, Cell
    <3>3. m \in MemoryType
      BY <3>1, <3>2 DEF MemoryType
    <3>4. 0 \in 0 .. max_size
      BY Sizes
    <3>5. k \in BlockTable
      BY <3>1, <3>4 DEF BlockTable
    <3> QED
      BY <3>3, <3>5
  <2>2. f \subseteq Harmless
    BY <1>2 DEF OnRelease, OnDestroy, Harmless, IInv, StorageValid
  <2>3. EndCall(m, k, f, out) /\ m_start' = Null /\ m_finish' = 0 /\ m_eos' = 0
    BY <1>2 DEF DestroyStorageAndEnd, PointersNull
  <2>4. temp = Null \/ m_start' # temp
    BY <2>3
  <2> HIDE DEF m, k, f
  <2> QED
    BY <2>1, <2>2, <2>3, <2>4, Sizes, EndCallIInv
<1> QED
  BY <1>1, <1>2

(* Elements are destroyed at the end of the vector and the call ends.      *)
LEMMA TruncateIInv ==
  ASSUME IInv, NEW n \in 0 .. m_finish, TruncateAndEnd(n)
  PROVE  IInv'
<1>1. /\ m_finish' = n /\ m_start' = m_start /\ m_eos' = m_eos
      /\ temp = Null \/ m_start' # temp
  BY DEF TruncateAndEnd, IInv, TempValid
<1>2. mem \in MemoryType /\ blk \in BlockTable
  BY DEF IInv, TypeOK, MemoryType, BlockTable
<1>3. CASE n = m_finish
  BY <1>1, <1>2, <1>3, EndCallIInv
     DEF TruncateAndEnd, IInv, TypeOK, StorageValid
<1>4. CASE n # m_finish
  <2> DEFINE S == n .. (m_finish - 1)
             m == Destroyed(m_start, S)
             f == OnDestroy(m_start, S)
  <2>1. m_start \in Block /\ m_finish \in 0 .. max_size /\ n \in Nat /\ n < m_finish
    BY <1>4, Sizes DEF IInv, TypeOK, StorageValid
  <2>2. m \in MemoryType
    BY <1>2, <2>1 DEF Destroyed, MemoryType, Cell
  <2>3. f \subseteq Harmless
    BY <2>1, Sizes DEF OnDestroy, Harmless, IInv, StorageValid, TypeOK
  <2>4. \A s \in 0 .. (n - 1) : m[m_start][s] # Raw
    BY <1>2, <2>1, Sizes
       DEF Destroyed, MemoryType, IInv, StorageValid, TypeOK, Slot
  <2>5. EndCall(m, blk, f, "ok")
    BY <1>4 DEF TruncateAndEnd
  <2>6. m_start # Null /\ m_eos > 0 /\ blk[m_start] = m_eos /\ n <= m_eos
        /\ n \in 0 .. max_size /\ m_eos \in 0 .. max_size
    BY <2>1, Sizes, StateAssumption DEF IInv, StorageValid, TypeOK
  <2> HIDE DEF m, f
  <2> QED
    BY <1>1, <1>2, <2>1, <2>2, <2>3, <2>4, <2>5, <2>6, EndCallIInv
<1> QED
  BY <1>3, <1>4

LEMMA Stored ==
  ASSUME IInv
  PROVE  /\ mem \in MemoryType /\ blk \in BlockTable
         /\ m_start \in Block \cup {Null}
         /\ m_finish \in 0 .. max_size /\ m_eos \in 0 .. max_size
         /\ m_finish <= m_eos /\ size = m_finish /\ capacity = m_eos
         /\ m_eos > 0 => m_start \in Block /\ blk[m_start] = m_eos
         /\ faults \subseteq Harmless
  BY Sizes DEF IInv, TypeOK, StorageValid, NothingAbsent, MemoryType,
         BlockTable, Harmless, size, capacity

LEMMA StoredElement ==
  ASSUME IInv, NEW s \in 0 .. (m_finish - 1)
  PROVE  m_start \in Block /\ s \in Slot /\ mem[m_start][s] \in Object
  BY Stored, Sizes DEF IInv, StorageValid, MemoryType, Slot, Cell

LEMMA ArgumentIsObject ==
  ASSUME IInv, fn # "idle", call.op \notin RangeOps
  PROVE  Argument \in Object
<1>1. call.arg \in Value \cup 0 .. (m_finish - 1)
  BY DEF IInv, CallValid
<1>2. CASE call.arg \in Slot
  BY <1>1, <1>2, StoredElement, ValueAssumption, Sizes DEF Argument, Slot
<1>3. CASE call.arg \notin Slot
  BY <1>1, <1>3, Stored, Sizes DEF Argument, Slot, Object
<1> QED
  BY <1>2, <1>3

LEMMA OneElementIsObject ==
  ASSUME IInv, fn # "idle", call.op \notin RangeOps
  PROVE  OneElement \in Object
<1>1. CASE temp = Null
  BY <1>1, ArgumentIsObject DEF OneElement
<1>2. CASE temp # Null
  BY <1>2, Sizes DEF OneElement, TempValue, IInv, TypeOK, TempValid, Cell, Slot
<1> QED
  BY <1>1, <1>2

(* What the call provides for a position of its source.                    *)
LEMMA ItemIsObject ==
  ASSUME IInv, fn # "idle", NEW k \in Nat, call.op \in RangeOps => k < call.n
  PROVE  Item(k) \in Object
<1>1. CASE call.op \in RangeOps
  BY <1>1, Sizes DEF Item, IInv, CallValid, Count, Object
<1>2. CASE call.op \notin RangeOps
  BY <1>2, ArgumentIsObject DEF Item
<1> QED
  BY <1>1, <1>2

LEMMA ObjectNotRaw == Raw \notin Object /\ Moved \in Object /\ Object \subseteq Cell
  BY ValueAssumption DEF Object, Cell

LEMMA CallNumbers ==
  ASSUME IInv, fn # "idle"
  PROVE  /\ call.n \in Nat /\ call.n \in SizeType /\ call.pos \in 0 .. max_size
         /\ gap = call.pos + call.n /\ gap \in Nat
  BY Sizes, GrowthAssumption DEF IInv, CallValid, Count, gap, SizeType, SizeTypeMod

LEMMA WriteOne ==
  ASSUME IInv, m_start \in Block, NEW x \in Slot, NEW v \in Object,
         mem' = [mem EXCEPT ![m_start][x] = v]
  PROVE  /\ mem' \in MemoryType
         /\ \A b \in Block, s \in Slot :
              mem'[b][s] = IF b = m_start /\ s = x THEN v ELSE mem[b][s]
  BY Stored, ObjectNotRaw DEF MemoryType

-----------------------------------------------------------------------------
(* VectorRealloc.                                                          *)

LEMMA AllocationFailsIInv ==
  ASSUME IInv, fn # "idle", AllocationFails
  PROVE  IInv'
  BY ThrowUnchangedIInv DEF AllocationFails

(* What a function finds when it decides to reallocate: at its head, or in *)
(* the loop over single-pass iterators.                                    *)
Ready ==
  /\ fn \in {"entry", "append"}
  /\ call.pos <= m_finish
  /\ call.op \in InsertOneOps => call.n = 1
  /\ call.op # "insert_rv" => temp = Null

LEMMA EntryIsReady == ASSUME IInv, fn = "entry" PROVE Ready
  BY DEF IInv, EntryValid, Ready

(* A reallocating function starts with an empty block that is large enough.*)
LEMMA StartReallocIInv ==
  ASSUME IInv, Ready, NEW f \in ReallocFns,
         NEW l \in 0 .. m_finish, NEW h \in Nat, l <= h,
         NEW c \in 1 .. max_size, m_finish + (h - l) <= c,
         call.op \in RangeOps \ InputOps => l = h,
         call.op \in BuildOps \cup {"assign_range", "assign_input"} =>
           IF call.op \in InputOps THEN h - l = 1 /\ m_finish < call.n
           ELSE l = h /\ m_finish = 0 /\ call.n <= c,
         f = "grow" => m_eos < c,
         call.op = "insert_range" => call.n > 0 /\ m_finish + call.n <= c,
         call.op = "assign_n" => l = h /\ call.n <= c,
         StartRealloc(f, l, h, c)
  PROVE  IInv'
<1>1. CASE AllocationFails
  BY <1>1, AllocationFailsIInv DEF Ready
<1>2. ASSUME NEW b \in Block, Allocate(b, c),
             fn' = f, new_start' = b, lo' = l, hi' = h, built' = 0, moved' = 0,
             UNCHANGED <<mem, vec, faults, call, outcome, before, temp, i>>
      PROVE  IInv'
  <2> USE DEF vec
  <2>1. blk[b] = 0 /\ blk' = [blk EXCEPT ![b] = c]
    BY <1>2 DEF Allocate, FreeBlocks
  <2>2. b # m_start /\ b # temp /\ b # Null
    BY <2>1, StateAssumption DEF IInv, TypeOK, StorageValid, TempValid
  <2>3. m_finish \in 0 .. max_size /\ h <= max_size
    BY Sizes DEF IInv, TypeOK
  <2>4. TypeOK'
    BY <1>2, <2>1, <2>3, Sizes DEF IInv, TypeOK
  <2>5. StorageValid' /\ TempValid' /\ NothingAbsent'
    BY <1>2, <2>1, <2>2
       DEF IInv, TypeOK, StorageValid, TempValid, NothingAbsent, ReallocFns
  <2>6. CallValid'
    BY <1>2 DEF Ready, IInv, CallValid, NoCall, ReallocFns
  <2>7. ReallocValid'
    <3>1. /\ new_start' = b /\ blk'[b] = c /\ moved' = 0 /\ built' = 0
          /\ lo' = l /\ hi' = h /\ call' = call /\ temp' = temp
          /\ m_start' = m_start /\ m_finish' = m_finish
      BY <1>2, <2>1 DEF IInv, TypeOK
    <3>2. /\ Live(new_start, lo .. (lo + built - 1))'
          /\ Live(new_start, {Dest(j) : j \in 0 .. (moved - 1)})'
      BY <3>1, <2>3, Sizes DEF Live
    <3>3. /\ Afterwards' = "append" =>
               call.op \in BuildOps \cup {"assign_range", "assign_input"}
          /\ Afterwards' = "shift" => call.op = "insert_range"
          /\ Afterwards' = "assign" => call.op = "assign_n"
      BY <3>1 DEF Afterwards
    <3>4. m_eos' = m_eos /\ fn' = f
      BY <1>2
    <3> QED
      BY <2>2, <2>3, <3>1, <3>2, <3>3, <3>4, Sizes DEF Ready, ReallocValid
  <2>8. EntryValid' /\ NewTempValid' /\ FillValid' /\ ShiftValid' /\ EraseValid'
    BY <1>2 DEF EntryValid, NewTempValid, FillValid, ShiftValid, EraseValid,
                ReallocFns
  <2> QED
    BY <2>4, <2>5, <2>6, <2>7, <2>8 DEF IInv
<1> QED
  BY <1>1, <1>2 DEF StartRealloc

(* The same for a block sized by calculate_growth.                         *)
LEMMA StartGrowingIInv ==
  ASSUME IInv, Ready, NEW f \in ReallocFns,
         NEW l \in 0 .. m_finish, NEW h \in Nat, l <= h,
         NEW n \in SizeType, n > 0, h - l <= n,
         call.op \in RangeOps \ InputOps => l = h,
         call.op \in BuildOps \cup {"assign_range", "assign_input"} =>
           call.op \in InputOps /\ h - l = 1 /\ m_finish < call.n,
         f = "grow" => m_eos < m_finish + n,
         call.op = "insert_range" => n = call.n,
         call.op # "assign_n",
         StartGrowing(f, l, h, n)
  PROVE  IInv'
<1>1. CASE Throw(mem, blk, {}, "length_error") /\ UNCHANGED vec
  BY <1>1, ThrowUnchangedIInv DEF Ready
<1>2. CASE ~TooLong(size, n) /\ StartRealloc(f, l, h, CalculateGrowth(size, n))
  <2>1. size \in 0 .. max_size /\ size = m_finish
    BY DEF IInv, TypeOK, size
  <2>2. CalculateGrowth(size, n) \in (m_finish + n) .. max_size
    BY <1>2, <2>1, GrowthBounds
  <2> DEFINE c == CalculateGrowth(size, n)
  <2>3. c \in 1 .. max_size /\ m_finish + (h - l) <= c /\ m_finish + n <= c
    BY <2>1, <2>2, Sizes DEF SizeType
  <2>4. /\ f = "grow" => m_eos < c
        /\ call.op = "insert_range" => call.n > 0 /\ m_finish + call.n <= c
    <3>1. m_eos \in Nat /\ m_finish \in Nat /\ n \in Nat /\ c \in Nat
      BY <2>3, Stored, Sizes DEF SizeType
    <3> QED
      BY <2>3, <3>1
  <2> HIDE DEF c
  <2> QED
    BY <1>2, <2>3, <2>4, StartReallocIInv DEF c
<1> QED
  BY <1>1, <1>2 DEF StartGrowing

LEMMA InRealloc ==
  ASSUME IInv, fn \in ReallocFns
  PROVE  /\ fn # "idle"
         /\ new_start \in Block /\ new_start # m_start /\ new_start # temp
         /\ lo \in Nat /\ hi \in Nat /\ built \in Nat /\ moved \in Nat
         /\ lo <= hi /\ lo <= m_finish /\ moved <= m_finish /\ built <= hi - lo
         /\ m_finish + (hi - lo) <= blk[new_start]
         /\ blk[new_start] \in 1 .. max_size
         /\ \A s \in lo .. (lo + built - 1) : mem[new_start][s] # Raw
         /\ \A j \in 0 .. (moved - 1) : mem[new_start][Dest(j)] # Raw
         /\ call.op \in RangeOps \ InputOps => lo = hi
         /\ call.op \in InputOps => hi - lo = 1 /\ m_finish < call.n
  BY Sizes, StateAssumption
     DEF IInv, TypeOK, ReallocValid, Live, ReallocFns, Afterwards, InputOps,
         BuildOps

LEMMA DestSlot ==
  ASSUME IInv, fn \in ReallocFns, NEW j \in 0 .. (m_finish - 1)
  PROVE  Dest(j) \in Slot /\ Dest(j) \in Nat
  BY InRealloc, Stored, Sizes DEF Dest, Slot

LEMMA BuildIInv == ASSUME IInv, Build PROVE IInv'
<1> DEFINE v == Item(m_finish)
<1>1. /\ fn \in ReallocFns /\ built < hi - lo
      /\ call.op \in RangeOps => m_finish < call.n
  BY InRealloc, Sizes DEF Build, TimeToBuild, IInv, TypeOK
<1>2. v \in Object
  BY <1>1, InRealloc, Stored, Sizes, ItemIsObject
<1>3. lo + built \in Slot
  BY <1>1, InRealloc, Stored, Sizes DEF Slot
<1>4. /\ mem' = [mem EXCEPT ![new_start][lo + built] = v]
      /\ built' = built + 1
      /\ faults' = faults \cup OnRead(v) \cup OnConstruct(new_start, lo + built)
      /\ UNCHANGED <<blk, m_start, m_finish, m_eos, call, fn, new_start, lo, hi,
                     moved, temp, i>>
  BY DEF Build, vec
<1> HIDE DEF v
<1>5. mem' \in MemoryType
  BY <1>2, <1>3, <1>4, InRealloc, <1>1, Stored, ObjectNotRaw DEF MemoryType
<1>6. \A b \in Block, s \in Slot :
        mem'[b][s] = IF b = new_start /\ s = lo + built THEN v ELSE mem[b][s]
  BY <1>1, <1>3, <1>4, InRealloc, Stored DEF MemoryType
<1>7. faults' \subseteq Harmless
  BY <1>2, <1>4, Stored, ObjectNotRaw DEF OnRead, OnConstruct, Harmless
<1>8. TypeOK'
  <2>1. built' \in 0 .. max_size
    BY <1>1, <1>4, InRealloc, Stored, Sizes
  <2> QED
    BY <1>4, <1>5, <1>7, <2>1 DEF IInv, TypeOK, MemoryType, Harmless
<1>9. StorageValid'
  <2>1. m_start # Null => \A s \in 0 .. (m_finish - 1) : mem'[m_start][s] # Raw
    BY <1>1, <1>6, InRealloc, Stored, StoredElement, ObjectNotRaw
  <2> QED
    BY <1>4, <2>1 DEF IInv, StorageValid
<1>10. NothingAbsent'
  BY <1>7 DEF NothingAbsent, Harmless
<1>11. TempValid'
  BY <1>1, <1>4, <1>6, InRealloc, Sizes DEF IInv, TypeOK, TempValid, Slot
<1>12. ReallocValid'
  <2>1. \A s \in lo .. (lo + built) : mem'[new_start][s] # Raw
    BY <1>1, <1>2, <1>3, <1>6, InRealloc, Stored, ObjectNotRaw, Sizes DEF Slot
  <2>2. \A j \in 0 .. (moved - 1) : mem'[new_start][Dest(j)] # Raw
    BY <1>1, <1>2, <1>6, InRealloc, DestSlot, Stored, ObjectNotRaw, Sizes
  <2>3. \A j : Dest(j)' = Dest(j)
    BY <1>4 DEF Dest
  <2>4. lo + built' - 1 = lo + built
    BY <1>1, <1>4, InRealloc
  <2>5. Afterwards' = Afterwards
    BY <1>4 DEF Afterwards
  <2> QED
    BY <1>1, <1>4, <2>1, <2>2, <2>3, <2>4, <2>5, InRealloc, Sizes
       DEF IInv, ReallocValid, Live
<1>13. /\ CallValid' /\ EntryValid' /\ NewTempValid' /\ FillValid' /\ ShiftValid'
       /\ EraseValid'
  BY <1>1, <1>4 DEF IInv, CallValid, EntryValid, NewTempValid, FillValid,
                    ShiftValid, EraseValid, ReallocFns
<1> QED
  BY <1>8, <1>9, <1>10, <1>11, <1>12, <1>13 DEF IInv

LEMMA RelocateIInv == ASSUME IInv, Relocate PROVE IInv'
<1> DEFINE v == mem[m_start][moved]
           w == Left(MoveIfNoexcept, v)
<1>1. fn \in ReallocFns /\ moved < m_finish /\ moved \in 0 .. (m_finish - 1)
  BY InRealloc, Stored, Sizes DEF Relocate, TimeToMove
<1>2. v \in Object /\ w \in Object /\ m_start \in Block /\ moved \in Slot
  BY <1>1, StoredElement, ObjectNotRaw DEF Left
<1>3. Dest(moved) \in Slot
  BY <1>1, DestSlot
<1> HIDE DEF v, w
<1>4. /\ mem' = [mem EXCEPT ![new_start][Dest(moved)] = v, ![m_start][moved] = w]
      /\ moved' = moved + 1
      /\ faults' = faults \cup OnRead(v) \cup OnConstruct(new_start, Dest(moved))
      /\ UNCHANGED <<blk, m_start, m_finish, m_eos, call, fn, new_start, lo, hi,
                     built, temp, i>>
  BY DEF Relocate, vec, v, w
<1>5. mem' \in MemoryType
  BY <1>2, <1>3, <1>4, <1>1, InRealloc, Stored, ObjectNotRaw DEF MemoryType
<1>6. \A b \in Block, s \in Slot :
        mem'[b][s] = IF b = new_start /\ s = Dest(moved) THEN v
                     ELSE IF b = m_start /\ s = moved THEN w ELSE mem[b][s]
  BY <1>1, <1>2, <1>3, <1>4, InRealloc, Stored DEF MemoryType
<1>7. faults' \subseteq Harmless
  BY <1>2, <1>4, Stored, ObjectNotRaw DEF OnRead, OnConstruct, Harmless
<1>8. TypeOK'
  <2>1. moved' \in 0 .. max_size
    BY <1>1, <1>4, Stored, Sizes
  <2> QED
    BY <1>4, <1>5, <1>7, <2>1 DEF IInv, TypeOK, MemoryType, Harmless
<1>9. StorageValid'
  <2>1. \A s \in 0 .. (m_finish - 1) : mem'[m_start][s] # Raw
    BY <1>1, <1>2, <1>6, InRealloc, StoredElement, ObjectNotRaw
  <2> QED
    BY <1>4, <2>1 DEF IInv, StorageValid
<1>10. NothingAbsent'
  BY <1>7 DEF NothingAbsent, Harmless
<1>11. TempValid'
  <2>1. temp # Null => temp \in Block /\ temp # m_start /\ temp # new_start
    BY <1>1, InRealloc DEF IInv, TypeOK, TempValid
  <2>2. temp # Null => mem'[temp][0] = mem[temp][0]
    BY <1>6, <2>1, Sizes DEF Slot
  <2> QED
    BY <1>4, <2>1, <2>2 DEF IInv, TempValid
<1>12. ReallocValid'
  <2>1. \A s \in lo .. (lo + built - 1) : s \in Slot
    BY <1>1, InRealloc, Stored, Sizes DEF Slot
  <2>2. \A s \in lo .. (lo + built - 1) : mem'[new_start][s] # Raw
    BY <1>1, <1>2, <1>6, <2>1, InRealloc, ObjectNotRaw
  <2>3. \A j \in 0 .. moved : mem'[new_start][Dest(j)] # Raw
    <3> SUFFICES ASSUME NEW j \in 0 .. moved
                 PROVE  mem'[new_start][Dest(j)] # Raw
      OBVIOUS
    <3>1. j \in 0 .. (m_finish - 1) /\ Dest(j) \in Slot
      BY <1>1, DestSlot, InRealloc, Stored, Sizes
    <3>2. CASE j = moved
      BY <1>1, <1>2, <1>6, <3>1, <3>2, InRealloc, ObjectNotRaw
    <3>3. CASE j # moved
      <4>1. mem[new_start][Dest(j)] # Raw
        BY <1>1, <3>3, InRealloc
      <4> QED
        BY <1>1, <1>2, <1>6, <3>1, <4>1, InRealloc, ObjectNotRaw
    <3> QED
      BY <3>2, <3>3
  <2>4. \A j : Dest(j)' = Dest(j)
    BY <1>4 DEF Dest
  <2>5. moved' - 1 = moved /\ moved' <= m_finish
    BY <1>1, <1>4, InRealloc, Stored, Sizes
  <2>6. Live(new_start, lo .. (lo + built - 1))'
    BY <1>4, <2>2 DEF Live
  <2>7. Live(new_start, {Dest(j) : j \in 0 .. (moved - 1)})'
    BY <1>4, <2>3, <2>4, <2>5 DEF Live
  <2>8. Afterwards' = Afterwards
    BY <1>4 DEF Afterwards
  <2> QED
    BY <1>1, <1>4, <2>5, <2>6, <2>7, <2>8 DEF IInv, ReallocValid
<1>13. /\ CallValid' /\ EntryValid' /\ NewTempValid' /\ FillValid' /\ ShiftValid'
       /\ EraseValid'
  BY <1>1, <1>4 DEF IInv, CallValid, EntryValid, NewTempValid, FillValid,
                    ShiftValid, EraseValid, ReallocFns
<1> QED
  BY <1>8, <1>9, <1>10, <1>11, <1>12, <1>13 DEF IInv

(* The new block is given up: every object to be destroyed is there, the   *)
(* block is deallocated with its own size, and the vector is as it was or  *)
(* empty.                                                                  *)
LEMMA AbandonIInv ==
  ASSUME IInv, fn \in ReallocFns, NEW S, \A s \in S : mem[new_start][s] # Raw,
         Throw([mem EXCEPT ![new_start] = RawBlock],
               [blk EXCEPT ![new_start] = 0],
               OnRelease(new_start, S, blk[new_start]), "exception"),
         UNCHANGED vec \/ PointersNull
  PROVE  IInv'
<1> DEFINE m == [mem EXCEPT ![new_start] = RawBlock]
           k == [blk EXCEPT ![new_start] = 0]
           f == OnRelease(new_start, S, blk[new_start])
<1>1. 0 \in 0 .. max_size /\ RawBlock \in [Slot -> Cell]
  BY Sizes DEF RawBlock, Cell
<1>2. m \in MemoryType
  BY <1>1, Stored DEF MemoryType
<1>3. k \in BlockTable
  BY <1>1, Stored DEF BlockTable
<1>4. f \subseteq Harmless
  BY InRealloc, Sizes DEF OnRelease, OnDestroy, Harmless
<1>5. m_start # Null => m[m_start] = mem[m_start] /\ k[m_start] = blk[m_start]
  BY InRealloc, Stored DEF MemoryType, BlockTable
<1>6. Throw(m, k, f, "exception") /\ fn # "idle"
  BY InRealloc
<1> HIDE DEF m, k, f
<1>7. CASE UNCHANGED vec
  <2>1. m_start' = m_start /\ m_finish' = m_finish /\ m_eos' = m_eos
    BY <1>7 DEF vec
  <2>2. temp = Null \/ m_start # temp
    BY DEF IInv, TempValid
  <2>3. IF m_start = Null THEN m_finish = 0 /\ m_eos = 0
        ELSE /\ m_eos > 0 /\ k[m_start] = m_eos /\ m_finish <= m_eos
             /\ \A s \in 0 .. (m_finish - 1) : m[m_start][s] # Raw
    BY <1>5 DEF IInv, StorageValid
  <2> QED
    BY <1>2, <1>3, <1>4, <1>6, <2>1, <2>2, <2>3, Stored, ThrowIInv
<1>8. CASE PointersNull
  <2>1. m_start' = Null /\ m_finish' = 0 /\ m_eos' = 0 /\ (temp = Null \/ m_start' # temp)
    BY <1>8 DEF PointersNull
  <2> QED
    BY <1>1, <1>2, <1>3, <1>4, <1>6, <2>1, ThrowIInv
<1> QED
  BY <1>7, <1>8

LEMMA BuildThrowsIInv == ASSUME IInv, BuildThrows PROVE IInv'
<1> DEFINE undone == IF fn = "realloc_insert" THEN 0 .. (moved - 1)
                     ELSE lo .. (lo + built - 1)
<1>1. fn \in ReallocFns /\ (fn = "realloc_insert" => moved = lo)
  BY DEF BuildThrows, TimeToBuild
<1>2. \A s \in undone : mem[new_start][s] # Raw
  <2>1. CASE fn = "realloc_insert"
    <3>1. \A s \in 0 .. (moved - 1) : Dest(s) = s
      BY <1>1, <2>1, InRealloc DEF Dest
    <3> QED
      BY <1>1, <2>1, <3>1, InRealloc
  <2>2. CASE fn # "realloc_insert"
    BY <1>1, <2>2, InRealloc
  <2> QED
    BY <2>1, <2>2
<1>3. /\ Throw([mem EXCEPT ![new_start] = RawBlock],
               [blk EXCEPT ![new_start] = 0],
               OnRelease(new_start, undone, blk[new_start]), "exception")
      /\ UNCHANGED vec
  BY DEF BuildThrows
<1> HIDE DEF undone
<1> QED
  BY <1>1, <1>2, <1>3, AbandonIInv

LEMMA RelocateThrowsIInv == ASSUME IInv, RelocateThrows PROVE IInv'
<1>1. /\ fn \in ReallocFns /\ moved < m_finish
      /\ built = hi - lo \/ (fn = "realloc_insert" /\ moved < lo)
  BY DEF RelocateThrows, TimeToMove
<1>2. \A s \in Undone : mem[new_start][s] # Raw
  <2> SUFFICES ASSUME NEW s \in Undone PROVE mem[new_start][s] # Raw
    OBVIOUS
  <2>1. CASE built = hi - lo /\ s \in lo .. (hi - 1)
    BY <1>1, <2>1, InRealloc
  <2>2. CASE s \in 0 .. (Dest(moved) - 1) /\ s < lo
    <3>1. s \in 0 .. (moved - 1) /\ Dest(s) = s
      BY <1>1, <2>2, InRealloc DEF Dest
    <3> QED
      BY <1>1, <3>1, InRealloc
  <2>3. CASE s \in 0 .. (Dest(moved) - 1) /\ s >= hi /\ s >= lo
    <3>1. /\ s - (hi - lo) \in 0 .. (moved - 1)
          /\ Dest(s - (hi - lo)) = s
      BY <1>1, <2>3, InRealloc DEF Dest
    <3> QED
      BY <1>1, <3>1, InRealloc
  <2>4. CASE fn = "realloc_insert" /\ moved < lo /\ s >= lo
    BY <1>1, <2>4, InRealloc DEF Dest, Undone
  <2>5. s \in 0 .. (Dest(moved) - 1) \/ (fn # "realloc_insert" /\ s \in lo .. (hi - 1))
    BY DEF Undone
  <2>6. lo \in Nat /\ hi \in Nat /\ moved \in Nat /\ lo <= hi
    BY <1>1, InRealloc
  <2>7. CASE fn # "realloc_insert"
    BY <1>1, <2>1, <2>2, <2>3, <2>5, <2>6, <2>7 DEF Dest
  <2>8. CASE fn = "realloc_insert"
    BY <1>1, <2>1, <2>2, <2>3, <2>4, <2>5, <2>6, <2>8 DEF Dest
  <2> QED
    BY <2>7, <2>8
<1>3. /\ Throw([mem EXCEPT ![new_start] = RawBlock],
               [blk EXCEPT ![new_start] = 0],
               OnRelease(new_start, Undone, blk[new_start]), "exception")
      /\ UNCHANGED vec \/ PointersNull
  BY DEF RelocateThrows
<1> QED
  BY <1>1, <1>2, <1>3, AbandonIInv

(* When both loops are through, the new block holds every element.         *)
LEMMA NewBlockFull ==
  ASSUME IInv, fn \in ReallocFns, built = hi - lo, moved = m_finish,
         NEW s \in 0 .. (m_finish + (hi - lo) - 1)
  PROVE  mem[new_start][s] # Raw
<1>1. CASE s < lo
  BY <1>1, InRealloc, Stored, Sizes DEF Dest
<1>2. CASE lo <= s /\ s < hi
  BY <1>2, InRealloc
<1>3. CASE hi <= s
  <2>1. s - (hi - lo) \in 0 .. (moved - 1) /\ Dest(s - (hi - lo)) = s
    BY <1>3, InRealloc, Stored, Sizes DEF Dest
  <2> QED
    BY <2>1, InRealloc
<1> QED
  BY <1>1, <1>2, <1>3, InRealloc, Stored, Sizes

(* The last slot to be shifted into: the unsigned sum does not wrap, even  *)
(* for an empty vector, where size - 1 does.                               *)
LEMMA LastShiftedExact ==
  ASSUME IInv, call.n \in Nat, call.n > 0, m_finish + call.n <= max_size
  PROVE  LastShifted = m_finish + call.n - 1
  BY Stored, Sizes DEF LastShifted, Wrap, SizeTypeMod

LEMMA CommitIInv == ASSUME IInv, Commit PROVE IInv'
<1> DEFINE m == IF m_start = Null THEN mem ELSE [mem EXCEPT ![m_start] = RawBlock]
           k == IF m_start = Null THEN blk ELSE [blk EXCEPT ![m_start] = 0]
           f == IF m_start = Null THEN {}
                ELSE OnRelease(m_start, 0 .. (m_finish - 1), m_eos)
<1>1. /\ fn \in ReallocFns /\ built = hi - lo /\ moved = m_finish
      /\ m_start' = new_start /\ m_finish' = m_finish + (hi - lo)
      /\ m_eos' = blk[new_start]
  BY DEF Commit
<1>2. 0 \in 0 .. max_size /\ RawBlock \in [Slot -> Cell]
  BY Sizes DEF RawBlock, Cell
<1>3. m \in MemoryType
  BY <1>2, Stored DEF MemoryType
<1>4. k \in BlockTable
  BY <1>2, Stored DEF BlockTable
<1>5. f \subseteq Harmless
  BY Stored DEF OnRelease, OnDestroy, Harmless, IInv, StorageValid
<1>6. /\ m[new_start] = mem[new_start] /\ k[new_start] = blk[new_start]
      /\ temp # Null => m[temp] = mem[temp] /\ k[temp] = blk[temp]
  BY <1>1, InRealloc, Stored DEF MemoryType, BlockTable, IInv, TypeOK, TempValid
<1>7. /\ new_start \in Block /\ new_start # Null /\ new_start # temp
      /\ m_finish' \in 0 .. max_size /\ m_eos' \in 1 .. max_size /\ m_finish' <= m_eos'
      /\ m_finish <= m_finish'
  BY <1>1, InRealloc, Stored, Sizes, StateAssumption
<1>8. \A s \in 0 .. (m_finish' - 1) : m[new_start][s] # Raw
  <2>1. ASSUME NEW s \in 0 .. (m_finish + (hi - lo) - 1)
        PROVE  mem[new_start][s] # Raw
    <3>1. IInv /\ fn \in ReallocFns /\ built = hi - lo /\ moved = m_finish
      BY <1>1
    <3> QED
      BY <3>1, NewBlockFull
  <2>2. m_finish' - 1 = m_finish + (hi - lo) - 1
    BY <1>1, InRealloc, Stored, Sizes
  <2> HIDE DEF m
  <2>3. m[new_start] = mem[new_start]
    BY <1>6
  <2> QED
    BY <2>1, <2>2, <2>3
<1>9. CASE Afterwards # "idle"
  <2>1. /\ mem' = m /\ blk' = k /\ faults' = faults \cup f
        /\ fn' = Afterwards /\ new_start' = Null /\ lo' = 0 /\ hi' = 0
        /\ built' = 0 /\ moved' = 0 /\ UNCHANGED <<call, temp>>
        /\ i' = IF Afterwards = "shift" THEN LastShifted ELSE 0
    BY <1>9 DEF Commit
  <2>0. fn' \in {"entry", "append", "shift", "assign"} /\ fn' # "idle"
    BY <1>9, <2>1 DEF Afterwards
  <2>10. /\ fn' = "shift" => /\ call.op = "insert_range" /\ call.n > 0
                             /\ m_finish' = m_finish /\ m_finish + call.n <= m_eos'
                             /\ i' = m_finish + call.n - 1
         /\ fn' = "assign" => /\ call.op = "assign_n" /\ m_finish' = m_finish
                              /\ call.n <= m_eos' /\ i' = 0
    <3>1. /\ fn' = "shift" => call.op = "insert_range"
          /\ fn' = "assign" => call.op = "assign_n"
      BY <2>1 DEF Afterwards
    <3>2. ASSUME fn' = "shift"
          PROVE  /\ call.n > 0 /\ m_finish + call.n <= blk[new_start] /\ lo = hi
                 /\ i' = LastShifted
      BY <1>1, <2>1, <3>1, <3>2, InRealloc
         DEF IInv, ReallocValid, RangeOps, InputOps
    <3>3. ASSUME fn' = "assign" PROVE lo = hi /\ call.n <= blk[new_start] /\ i' = 0
      BY <1>1, <2>1, <3>3 DEF IInv, ReallocValid
    <3>4. lo = hi => m_finish' = m_finish
      BY <1>1, InRealloc, Stored, Sizes
    <3>5. fn' = "shift" => LastShifted = m_finish + call.n - 1
      <4> SUFFICES ASSUME fn' = "shift" PROVE LastShifted = m_finish + call.n - 1
        OBVIOUS
      <4>1. fn # "idle" /\ blk[new_start] \in 1 .. max_size
        BY <1>1, InRealloc
      <4>2. call.n \in Nat /\ call.n > 0 /\ m_finish + call.n <= max_size
        BY <3>2, <4>1, CallNumbers, Stored, Sizes
      <4> QED
        BY <4>2, LastShiftedExact
    <3>6. m_eos' = blk[new_start]
      BY <1>1
    <3>7. fn' = "shift" => /\ call.op = "insert_range" /\ call.n > 0
                           /\ m_finish' = m_finish /\ m_finish + call.n <= m_eos'
                           /\ i' = m_finish + call.n - 1
      BY <3>1, <3>2, <3>4, <3>5, <3>6
    <3>8. fn' = "assign" => /\ call.op = "assign_n" /\ m_finish' = m_finish
                            /\ call.n <= m_eos' /\ i' = 0
      BY <3>1, <3>3, <3>4, <3>6
    <3> QED
      BY <3>7, <3>8
  <2>11. i' \in SizeType
    <3>1. CASE fn' = "shift"
      <4>1. /\ call.n \in Nat /\ m_finish \in Nat /\ m_eos' \in 1 .. max_size
            /\ call.n > 0 /\ m_finish + call.n <= m_eos' /\ i' = m_finish + call.n - 1
        BY <1>1, <1>7, <2>10, <3>1, InRealloc, CallNumbers, Stored, Sizes
      <4>2. i' \in 0 .. (2 * max_size)
        BY <4>1, Sizes
      <4> QED
        BY <4>2, SizeTypeHolds
    <3>2. CASE fn' # "shift"
      BY <2>1, <3>2, Sizes, SizeTypeHolds
    <3> QED
      BY <3>1, <3>2
  <2> HIDE DEF m, k, f
  <2>2. TypeOK'
    BY <1>1, <1>2, <1>3, <1>4, <1>5, <1>7, <2>1, <2>11, Stored
       DEF IInv, TypeOK, MemoryType, BlockTable, Harmless
  <2>3. StorageValid'
    BY <1>1, <1>6, <1>7, <1>8, <2>1 DEF StorageValid
  <2>4. NothingAbsent'
    BY <1>5, <2>1, Stored DEF NothingAbsent, Harmless
  <2>5. TempValid'
    BY <1>1, <1>6, <1>7, <2>0, <2>1 DEF IInv, TempValid
  <2>6. CallValid'
    <3>1. 0 .. (m_finish - 1) \subseteq 0 .. (m_finish' - 1)
      BY <1>7, Stored, Sizes
    <3> QED
      BY <1>1, <2>0, <2>1, <3>1, InRealloc DEF IInv, CallValid, InPlaceFns
  <2>7. EntryValid'
    <3>0. call.pos <= m_finish
      BY <1>1 DEF IInv, ReallocValid
    <3>1. call.pos <= m_finish'
      BY <1>1, <1>7, <3>0, InRealloc, CallNumbers, Stored, Sizes
    <3> QED
      BY <1>1, <1>9, <2>1, <3>1
         DEF IInv, ReallocValid, EntryValid, Afterwards, BuildOps, InsertOneOps
  <2>8. FillValid'
    <3>1. ASSUME fn' = "append"
          PROVE  /\ call.op \in BuildOps \cup AssignOps /\ m_finish' <= call.n
                 /\ call.op \notin InputOps => call.n <= m_eos'
      <4>1. /\ call.op \in BuildOps \cup {"assign_range", "assign_input"}
            /\ call.n \in Nat
        BY <2>1, <3>1, <1>1, InRealloc, CallNumbers DEF Afterwards
      <4>2. IF call.op \in InputOps THEN hi - lo = 1 /\ m_finish < call.n
            ELSE lo = hi /\ m_finish = 0 /\ call.n <= blk[new_start]
        BY <1>1, <2>1, <3>1 DEF IInv, ReallocValid
      <4>3. m_finish' <= call.n /\ (call.op \notin InputOps => call.n <= m_eos')
        <5>1. lo \in Nat /\ hi \in Nat /\ m_finish \in Nat /\ call.n \in Nat
          BY <1>1, <4>1, InRealloc, Stored, Sizes
        <5>2. m_finish' = m_finish + (hi - lo) /\ m_eos' = blk[new_start]
          BY <1>1
        <5>3. CASE call.op \in InputOps
          BY <4>2, <5>1, <5>2, <5>3
        <5>4. CASE call.op \notin InputOps
          BY <4>2, <5>1, <5>2, <5>4
        <5> QED
          BY <5>3, <5>4
      <4> QED
        BY <4>1, <4>3 DEF AssignOps
    <3>2. ASSUME fn' = "assign"
          PROVE  call.op \in AssignOps \ InputOps /\ i' <= Common' /\ call.n <= m_eos'
      <4>1. m_finish' \in Nat /\ call'.n = call.n /\ call.n \in Nat
        BY <1>1, <1>7, <2>1, InRealloc, CallNumbers, Sizes
      <4> QED
        BY <2>10, <3>2, <4>1 DEF AssignOps, InputOps, Common
    <3> QED
      BY <2>0, <2>1, <3>1, <3>2 DEF FillValid
  <2>12. ShiftValid'
    <3>1. SUFFICES ASSUME fn' = "shift" PROVE ShiftValid'
      BY <2>0 DEF ShiftValid
    <3>2. /\ call.op = "insert_range" /\ call.n > 0
          /\ m_finish' = m_finish /\ m_finish + call.n <= m_eos'
          /\ i' = m_finish + call.n - 1
      BY <2>10, <3>1
    <3>3. /\ call' = call /\ gap' = call.pos + call.n
          /\ call.pos \in Nat /\ call.n \in Nat /\ m_finish \in Nat
          /\ call.pos <= m_finish
      <4>1. fn # "idle" /\ call' = call
        BY <1>1, <2>1, InRealloc
      <4>2. call.pos <= m_finish
        BY <1>1 DEF IInv, ReallocValid
      <4> QED
        BY <4>1, <4>2, CallNumbers, Stored, Sizes DEF gap
    <3>4. gap' - 1 <= i' /\ i' < m_finish' + call.n
      BY <3>2, <3>3
    <3>5. \A s \in m_finish' .. (m_finish' + call.n - 1) : ~(s > i')
      BY <3>2, <3>3
    <3> QED
      BY <3>1, <3>2, <3>3, <3>4, <3>5 DEF ShiftValid
  <2>9. NewTempValid' /\ ReallocValid' /\ EraseValid'
    BY <2>0 DEF NewTempValid, ReallocValid, EraseValid, ReallocFns
  <2> QED
    BY <2>2, <2>3, <2>4, <2>5, <2>6, <2>7, <2>8, <2>9, <2>12 DEF IInv
<1>10. CASE Afterwards = "idle"
  <2>1. EndCall(m, k, f, "ok")
    BY <1>10 DEF Commit
  <2> HIDE DEF m, k, f
  <2>2. /\ m_start' \in Block \cup {Null} /\ m_start' # Null
        /\ temp = Null \/ m_start' # temp
        /\ m_eos' \in 0 .. max_size /\ m_eos' > 0 /\ k[m_start'] = m_eos'
        /\ \A s \in 0 .. (m_finish' - 1) : m[m_start'][s] # Raw
    BY <1>1, <1>6, <1>7, <1>8, Sizes
  <2> QED
    BY <1>3, <1>4, <1>5, <1>7, <2>1, <2>2, EndCallIInv
<1> QED
  BY <1>9, <1>10

LEMMA ReallocStepIInv == ASSUME IInv, ReallocStep PROVE IInv'
  BY BuildIInv, BuildThrowsIInv, RelocateIInv, RelocateThrowsIInv, CommitIInv
     DEF ReallocStep

-----------------------------------------------------------------------------
(* The loops inside the storage.                                           *)

LoopFns == {"fill_end", "resize_in", "shift", "place", "erase", "assign",
            "append"}

(* One step of a loop that only writes objects into the storage, and may   *)
(* let m_finish follow them, keeps all but what it says of its own loop.   *)
LEMMA LoopStep ==
  ASSUME IInv, fn \in LoopFns, fn' \in LoopFns, m_start \in Block,
         mem' \in MemoryType,
         \A b \in Block, s \in Slot :
           mem'[b][s] = mem[b][s] \/ (b = m_start /\ mem'[b][s] \in Object),
         m_finish' \in m_finish .. m_eos,
         \A s \in m_finish .. (m_finish' - 1) : mem'[m_start][s] # Raw,
         faults' \subseteq Harmless, i' \in SizeType,
         UNCHANGED <<blk, m_start, m_eos, call, frame, temp>>,
         FillValid' /\ ShiftValid' /\ EraseValid'
  PROVE  IInv'
<1> USE DEF frame
<1>1. /\ m_finish' \in 0 .. max_size /\ m_finish \in 0 .. max_size
      /\ m_finish' <= m_eos /\ m_finish <= m_finish'
  BY Stored, Sizes
<1>2. TypeOK' /\ NothingAbsent'
  BY <1>1 DEF IInv, TypeOK, NothingAbsent, MemoryType, Harmless
<1>3. StorageValid'
  <2>1. \A s \in 0 .. (m_finish' - 1) : mem'[m_start][s] # Raw
    <3> SUFFICES ASSUME NEW s \in 0 .. (m_finish' - 1)
                 PROVE  mem'[m_start][s] # Raw
      OBVIOUS
    <3>1. CASE s \in 0 .. (m_finish - 1)
      BY <3>1, StoredElement, ObjectNotRaw
    <3>2. CASE s \in m_finish .. (m_finish' - 1)
      BY <3>2
    <3> QED
      BY <1>1, <3>1, <3>2, Sizes
  <2> QED
    BY <1>1, <2>1, StateAssumption DEF IInv, StorageValid
<1>4. TempValid'
  <2>1. temp # Null => temp \in Block /\ mem'[temp][0] = mem[temp][0]
    BY Sizes DEF IInv, TypeOK, TempValid, Slot
  <2> QED
    BY <2>1 DEF IInv, TempValid, LoopFns
<1>5. CallValid'
  <2>1. 0 .. (m_finish - 1) \subseteq 0 .. (m_finish' - 1)
    <3>1. m_finish \in Nat /\ m_finish' \in Nat /\ m_finish <= m_finish'
      BY <1>1
    <3> QED
      BY <3>1, Initial
  <2>2. fn # "idle" /\ fn' # "idle" /\ call' = call
        /\ fn' \in {"idle", "entry"} \cup ReallocFns \cup InPlaceFns
    BY DEF LoopFns, InPlaceFns
  <2>3. /\ call # NoCall
        /\ call.op \in Ops /\ call.op \in Used
        /\ call.n \in Count /\ call.pos \in 0 .. max_size
        /\ call.op \in BuildOps \cup AssignOps => call.pos = 0
        /\ IF call.op \in RangeOps THEN call.arg \in [1 .. call.n -> Value]
           ELSE call.arg \in Value \cup 0 .. (m_finish' - 1)
    BY <2>1, <2>2 DEF IInv, CallValid
  <2> QED
    BY <2>2, <2>3 DEF CallValid
<1>6. EntryValid' /\ NewTempValid' /\ ReallocValid'
  BY DEF EntryValid, NewTempValid, ReallocValid, LoopFns, ReallocFns
<1> QED
  BY <1>2, <1>3, <1>4, <1>5, <1>6 DEF IInv

(* A method enters one of the loops.                                       *)
LEMMA LoopIInv ==
  ASSUME IInv, fn = "entry", NEW f \in LoopFns \ {"place"},
         NEW c \in SizeType, Loop(f, c),
         f \notin {"assign", "append"} => call.n > 0,
         f \in {"fill_end", "resize_in"} => call.op \notin RangeOps,
         f = "fill_end" => c = 0 /\ m_finish + call.n <= m_eos,
         f = "resize_in" => c = m_finish /\ m_finish < call.n /\ call.n <= m_eos,
         f = "shift" => /\ m_finish + call.n <= m_eos /\ c = m_finish + call.n - 1
                        /\ call.op \in InsertOneOps \cup {"insert_n", "insert_range"},
         f = "erase" => c = gap /\ gap <= m_finish,
         f = "assign" => call.op \in AssignOps \ InputOps /\ c = 0 /\ call.n <= m_eos,
         f = "append" => call.op = "build_input"
  PROVE  IInv'
<1> USE DEF Loop, vec, memory, frame
<1>1. TypeOK' /\ StorageValid' /\ NothingAbsent'
  BY DEF IInv, TypeOK, StorageValid, NothingAbsent
<1>2. CallValid' /\ TempValid'
  BY DEF IInv, CallValid, TempValid, NoCall, InPlaceFns, LoopFns
<1>3. call.n \in Nat /\ call.pos \in Nat /\ call.pos <= m_finish /\ m_finish \in Nat
  BY Stored, Sizes DEF IInv, CallValid, EntryValid, Count
<1>4. FillValid'
  <2>1. f = "append" => m_finish = 0 /\ call.op \in BuildOps \cap InputOps
    BY DEF IInv, EntryValid, BuildOps, InputOps
  <2>2. 0 <= Common
    BY <1>3 DEF Common
  <2> QED
    BY <1>3, <2>1, <2>2, Stored DEF FillValid, Live, Common
<1>5. ShiftValid'
  BY <1>3, Stored DEF ShiftValid, gap
<1>6. EntryValid' /\ NewTempValid' /\ ReallocValid' /\ EraseValid'
  BY <1>3 DEF EntryValid, NewTempValid, ReallocValid, EraseValid, ReallocFns, gap,
              LoopFns
<1> QED
  BY <1>1, <1>2, <1>4, <1>5, <1>6 DEF IInv

LEMMA ConstructTempIInv == ASSUME IInv, ConstructTemp PROVE IInv'
<1>1. /\ fn = "temp" /\ temp = Null /\ new_start \in Block /\ new_start # m_start
      /\ new_start # Null /\ blk[new_start] = 1 /\ call.n > 0 /\ call.pos <= m_finish
      /\ call.op \in InsertOneOps \cup {"insert_n"} /\ call.op \notin RangeOps
  BY StateAssumption
     DEF ConstructTemp, IInv, NewTempValid, InsertOneOps, RangeOps, InputOps
<1>2. Argument \in Object /\ 0 \in Slot
  BY <1>1, ArgumentIsObject, Sizes DEF Slot
<1>3. /\ mem' = [mem EXCEPT ![new_start][0] = Argument]
      /\ faults' = faults \cup OnRead(Argument) \cup OnConstruct(new_start, 0)
      /\ temp' = new_start /\ new_start' = Null
      /\ UNCHANGED <<blk, m_start, m_finish, m_eos, call, lo, hi, built, moved>>
  BY DEF ConstructTemp, vec
<1>4. mem' \in MemoryType
  BY <1>1, <1>2, <1>3, Stored, ObjectNotRaw DEF MemoryType
<1>5. \A b \in Block, s \in Slot :
        mem'[b][s] = IF b = new_start /\ s = 0 THEN Argument ELSE mem[b][s]
  BY <1>1, <1>2, <1>3, Stored DEF MemoryType
<1>6. faults' \subseteq Harmless
  BY <1>2, <1>3, Stored, ObjectNotRaw DEF OnRead, OnConstruct, Harmless
<1>7. StorageValid' /\ NothingAbsent'
  <2>1. m_start # Null => \A s \in 0 .. (m_finish - 1) : mem'[m_start][s] # Raw
    BY <1>1, <1>5, Stored, StoredElement, ObjectNotRaw
  <2> QED
    BY <1>3, <1>6, <2>1 DEF IInv, StorageValid, NothingAbsent, Harmless
<1>8. CASE call.op = "insert_rv" /\ fn' = "entry" /\ i' = i
  <2>1. TypeOK'
    BY <1>1, <1>3, <1>4, <1>6, <1>8 DEF IInv, TypeOK, MemoryType, Harmless
  <2>2. TempValid'
    BY <1>1, <1>2, <1>3, <1>5, <1>8, ObjectNotRaw DEF TempValid
  <2>3. CallValid'
    BY <1>1, <1>3, <1>8 DEF IInv, CallValid
  <2>4. EntryValid'
    BY <1>1, <1>3, <1>8 DEF IInv, NewTempValid, EntryValid, BuildOps
  <2>5. NewTempValid' /\ ReallocValid' /\ FillValid' /\ ShiftValid' /\ EraseValid'
    BY <1>8 DEF NewTempValid, ReallocValid, FillValid, ShiftValid, EraseValid,
                ReallocFns
  <2> QED
    BY <1>7, <2>1, <2>2, <2>3, <2>4, <2>5 DEF IInv
<1>9. CASE call.op # "insert_rv" /\ fn' = "shift" /\ i' = LastShifted
  <2>1. m_finish + call.n <= m_eos
    BY <1>1, <1>9 DEF IInv, NewTempValid, InsertOneOps
  <2>2. /\ i' = m_finish + call.n - 1 /\ i' \in SizeType
        /\ call.n \in Nat /\ call.pos \in Nat /\ m_finish \in Nat
    BY <1>1, <1>9, <2>1, LastShiftedExact, CallNumbers, Stored, Sizes, SizeTypeHolds
  <2>3. TypeOK'
    BY <1>1, <1>3, <1>4, <1>6, <2>2 DEF IInv, TypeOK, MemoryType, Harmless
  <2>4. TempValid'
    BY <1>1, <1>2, <1>3, <1>5, <1>9, ObjectNotRaw DEF TempValid
  <2>5. CallValid'
    BY <1>1, <1>3, <1>9 DEF IInv, CallValid, InPlaceFns
  <2>6. ShiftValid'
    BY <1>1, <1>3, <1>9, <2>1, <2>2 DEF ShiftValid, gap
  <2>7. EntryValid' /\ NewTempValid' /\ ReallocValid' /\ FillValid' /\ EraseValid'
    BY <1>9 DEF EntryValid, NewTempValid, ReallocValid, FillValid, EraseValid,
                ReallocFns
  <2> QED
    BY <1>7, <2>3, <2>4, <2>5, <2>6, <2>7 DEF IInv
<1> QED
  BY <1>8, <1>9 DEF ConstructTemp

LEMMA ConstructTempThrowsIInv ==
  ASSUME IInv, ConstructTempThrows PROVE IInv'
  BY FinishIInv DEF ConstructTempThrows

LEMMA FillEndIInv == ASSUME IInv, FillEnd PROVE IInv'
<1>1. /\ fn = "fill_end" /\ i < call.n /\ m_finish + (call.n - i) <= m_eos
      /\ call.op \notin RangeOps /\ call.n \in Nat /\ i \in Nat
      /\ call.n <= DiffMax + DiffMax + 1
  BY CallNumbers, Sizes, GrowthAssumption
     DEF FillEnd, IInv, FillValid, TypeOK, SizeType, SizeTypeMod
<1>2. /\ m_finish \in Nat /\ m_finish < m_eos /\ m_finish \in Slot
      /\ m_start \in Block
  BY <1>1, Stored, Sizes DEF Slot
<1>3. Argument \in Object
  BY <1>1, ArgumentIsObject
<1>4. /\ mem' = [mem EXCEPT ![m_start][m_finish] = Argument]
      /\ faults' = faults \cup OnRead(Argument) \cup OnConstruct(m_start, m_finish)
      /\ m_finish' = m_finish + 1 /\ i' = i + 1 /\ fn' = "fill_end"
      /\ UNCHANGED <<blk, m_start, m_eos, call, frame, temp>>
  BY <1>1 DEF FillEnd
<1>5. /\ mem' \in MemoryType
      /\ \A b \in Block, s \in Slot :
           mem'[b][s] = IF b = m_start /\ s = m_finish THEN Argument ELSE mem[b][s]
  BY <1>2, <1>3, <1>4, WriteOne
<1>6. faults' \subseteq Harmless
  BY <1>3, <1>4, Stored, ObjectNotRaw DEF OnRead, OnConstruct, Harmless
<1>7. FillValid' /\ ShiftValid' /\ EraseValid'
  BY <1>1, <1>2, <1>4, Stored DEF FillValid, ShiftValid, EraseValid
<1>8. i' \in SizeType
  BY <1>1, <1>4, CallNumbers, BelowCount
<1>9. /\ m_finish' \in m_finish .. m_eos
      /\ \A s \in m_finish .. (m_finish' - 1) : mem'[m_start][s] # Raw
  BY <1>2, <1>3, <1>4, <1>5, Stored, Sizes, ObjectNotRaw
<1>10. \A b \in Block, s \in Slot :
         mem'[b][s] = mem[b][s] \/ (b = m_start /\ mem'[b][s] \in Object)
  BY <1>3, <1>5
<1> QED
  BY <1>1, <1>2, <1>4, <1>5, <1>6, <1>7, <1>8, <1>9, <1>10, LoopStep DEF LoopFns

LEMMA FillEndThrowsIInv == ASSUME IInv, FillEndThrows PROVE IInv'
  BY DestroyStorageIInv DEF FillEndThrows

LEMMA ResizeInIInv == ASSUME IInv, ResizeIn PROVE IInv'
<1>1. /\ fn = "resize_in" /\ m_finish <= i /\ i < call.n /\ call.n <= m_eos
      /\ call.op \notin RangeOps /\ call.n \in Nat /\ i \in Nat /\ 0 < call.n
      /\ \A s \in m_finish .. (i - 1) : mem[m_start][s] # Raw
  BY CallNumbers, Sizes, GrowthAssumption
     DEF ResizeIn, IInv, FillValid, TypeOK, SizeType, SizeTypeMod, Live
<1>2. /\ m_finish \in Nat /\ i \in Slot /\ m_start \in Block
  BY <1>1, Stored, Sizes DEF Slot
<1>3. Argument \in Object
  BY <1>1, ArgumentIsObject
<1>4. /\ mem' = [mem EXCEPT ![m_start][i] = Argument]
      /\ faults' = faults \cup OnRead(Argument) \cup OnConstruct(m_start, i)
      /\ m_finish' = m_finish /\ i' = i + 1 /\ fn' = "resize_in"
      /\ UNCHANGED <<blk, m_start, m_eos, call, frame, temp>>
  BY <1>1 DEF ResizeIn, vec
<1>5. /\ mem' \in MemoryType
      /\ \A b \in Block, s \in Slot :
           mem'[b][s] = IF b = m_start /\ s = i THEN Argument ELSE mem[b][s]
  BY <1>2, <1>3, <1>4, WriteOne
<1>6. faults' \subseteq Harmless
  BY <1>3, <1>4, Stored, ObjectNotRaw DEF OnRead, OnConstruct, Harmless
<1>7. \A s \in m_finish .. (i' - 1) : mem'[m_start][s] # Raw
  <2> SUFFICES ASSUME NEW s \in m_finish .. (i' - 1)
               PROVE  mem'[m_start][s] # Raw
    OBVIOUS
  <2>1. s \in Slot /\ (s = i \/ s \in m_finish .. (i - 1))
    BY <1>1, <1>2, <1>4, Stored, Sizes DEF Slot
  <2> QED
    BY <1>1, <1>2, <1>3, <1>5, <2>1, ObjectNotRaw
<1>8. FillValid' /\ ShiftValid' /\ EraseValid'
  BY <1>1, <1>2, <1>4, <1>7, Stored DEF FillValid, ShiftValid, EraseValid, Live
<1>9. i' \in SizeType
  BY <1>1, <1>4, CallNumbers, BelowCount
<1>10. /\ m_finish' \in m_finish .. m_eos
       /\ \A s \in m_finish .. (m_finish' - 1) : mem'[m_start][s] # Raw
  BY <1>2, <1>4, Stored, Sizes
<1>11. \A b \in Block, s \in Slot :
         mem'[b][s] = mem[b][s] \/ (b = m_start /\ mem'[b][s] \in Object)
  BY <1>3, <1>5
<1> QED
  BY <1>1, <1>2, <1>4, <1>5, <1>6, <1>8, <1>9, <1>10, <1>11, LoopStep DEF LoopFns

LEMMA ResizeInThrowsIInv == ASSUME IInv, ResizeInThrows PROVE IInv'
<1> DEFINE S == m_finish .. (i - 1)
           m == Destroyed(m_start, S)
           f == OnDestroy(m_start, S)
<1>1. /\ m_finish <= i /\ i < call.n /\ call.n <= m_eos
      /\ call.n \in Nat /\ i \in Nat
      /\ \A s \in S : mem[m_start][s] # Raw
      /\ fn = "resize_in"
  BY CallNumbers, Sizes, GrowthAssumption
     DEF ResizeInThrows, IInv, FillValid, TypeOK, SizeType, SizeTypeMod, Live
<1>2. m_start \in Block /\ m_eos > 0 /\ m_start # Null
  BY <1>1, Stored, Sizes, StateAssumption
<1>3. m \in MemoryType
  BY <1>2, Stored DEF Destroyed, MemoryType, Cell
<1>4. f \subseteq Harmless
  BY <1>1 DEF OnDestroy
<1>5. \A s \in 0 .. (m_finish - 1) : m[m_start][s] # Raw
  <2> SUFFICES ASSUME NEW s \in 0 .. (m_finish - 1) PROVE m[m_start][s] # Raw
    OBVIOUS
  <2>1. s \in Slot /\ s \notin S /\ mem[m_start][s] # Raw
    BY StoredElement, ObjectNotRaw, Stored, Sizes
  <2> HIDE DEF S
  <2> QED
    BY <1>2, <2>1, Stored DEF Destroyed, MemoryType
<1>6. EndCall(m, blk, f, "exception") /\ UNCHANGED vec
  BY DEF ResizeInThrows
<1>7. temp = Null \/ m_start' # temp
  BY <1>6 DEF IInv, TempValid, vec
<1> HIDE DEF m, f
<1> QED
  BY <1>2, <1>3, <1>4, <1>5, <1>6, <1>7, Stored, EndCallIInv DEF vec

LEMMA ResizeInDoneIInv == ASSUME IInv, ResizeInDone PROVE IInv'
<1>1. /\ fn = "resize_in" /\ i = call.n /\ m_finish <= i /\ 0 < call.n /\ call.n <= m_eos
      /\ call.n \in Nat /\ \A s \in m_finish .. (i - 1) : mem[m_start][s] # Raw
  BY CallNumbers DEF ResizeInDone, IInv, FillValid, Live
<1>2. /\ m_start \in Block /\ m_start # Null /\ m_finish \in Nat
      /\ call.n \in 0 .. max_size
  BY <1>1, Stored, Sizes, StateAssumption
<1>3. \A s \in 0 .. (call.n - 1) : mem[m_start][s] # Raw
  <2> SUFFICES ASSUME NEW s \in 0 .. (call.n - 1) PROVE mem[m_start][s] # Raw
    OBVIOUS
  <2>1. CASE s \in 0 .. (m_finish - 1)
    BY <2>1, StoredElement, ObjectNotRaw
  <2>2. CASE s \in m_finish .. (i - 1)
    BY <1>1, <2>2
  <2> QED
    BY <1>1, <1>2, <2>1, <2>2
<1>4. /\ EndCall(mem, blk, {}, "ok")
      /\ m_finish' = call.n /\ m_start' = m_start /\ m_eos' = m_eos
      /\ temp = Null \/ m_start' # temp
  BY DEF ResizeInDone, IInv, TempValid
<1> QED
  BY <1>1, <1>2, <1>3, <1>4, Stored, EndCallIInv

(* The loop counters of the shift, as plain numbers.                       *)
LEMMA ShiftNumbers ==
  ASSUME IInv, fn \in {"shift", "place"}
  PROVE  /\ m_start \in Block /\ m_start # Null /\ i \in Nat
         /\ call.n \in Nat /\ call.n > 0 /\ call.pos \in Nat /\ gap = call.pos + call.n
         /\ call.pos <= m_finish /\ m_finish \in Nat /\ m_finish + call.n <= m_eos
         /\ m_eos \in 0 .. max_size
         /\ fn = "shift" => gap - 1 <= i /\ i < m_finish + call.n
         /\ fn = "place" => call.pos <= i /\ i <= gap
         /\ call.op \in InsertOneOps \cup {"insert_n", "insert_range"}
<1>1. /\ call.n \in Nat /\ call.pos \in Nat /\ gap = call.pos + call.n
  BY CallNumbers, Sizes
<1>2. /\ call.n > 0 /\ call.pos <= m_finish /\ m_finish + call.n <= m_eos
      /\ fn = "shift" => gap - 1 <= i /\ i < m_finish + call.n
      /\ fn = "place" => call.pos <= i /\ i <= gap
      /\ call.op \in InsertOneOps \cup {"insert_n", "insert_range"}
  BY DEF IInv, ShiftValid
<1>3. m_finish \in Nat /\ m_eos \in 0 .. max_size /\ i \in Nat
  BY Stored, Sizes, GrowthAssumption DEF IInv, TypeOK, SizeType, SizeTypeMod
<1>4. m_start \in Block /\ m_start # Null
  BY <1>1, <1>2, <1>3, Stored, StateAssumption
<1> QED
  BY <1>1, <1>2, <1>3, <1>4

LEMMA ShiftIInv == ASSUME IInv, Shift PROVE IInv'
<1> DEFINE v == mem[m_start][i - call.n]
           how == IF i < m_finish THEN "move" ELSE ShiftConstructs
           w == Left(how, v)
<1>1. /\ fn = "shift" /\ gap <= i
  BY ShiftNumbers DEF Shift
<1>2. /\ i \in Slot /\ i - call.n \in Slot /\ i # i - call.n
      /\ i - call.n \in 0 .. (m_finish - 1)
      /\ i - 1 \in Nat /\ i - 1 <= 2 * max_size
  BY <1>1, ShiftNumbers, Sizes DEF Slot
<1>3. v \in Object /\ w \in Object
  BY <1>2, StoredElement, ObjectNotRaw DEF Left
<1>4. /\ mem' = [mem EXCEPT ![m_start][i] = v, ![m_start][i - call.n] = w]
      /\ faults' = faults \cup OnRead(v)
           \cup (IF i < m_finish THEN OnAssign(m_start, i)
                 ELSE OnConstruct(m_start, i))
      /\ m_finish' = m_finish /\ fn' = "shift" /\ i' = Wrap(i - 1)
      /\ UNCHANGED <<blk, m_start, m_eos, call, frame, temp>>
  BY <1>1 DEF Shift, vec
<1>5. i' = i - 1 /\ i' \in SizeType
  <2>1. Wrap(i - 1) = i - 1
    BY <1>2, Sizes, GrowthAssumption DEF Wrap, SizeTypeMod
  <2> QED
    BY <1>2, <1>4, <2>1, Sizes, SizeTypeHolds
<1>6. faults' \subseteq Harmless
  <2>1. OnRead(v) = {} /\ OnConstruct(m_start, i) \subseteq Harmless
    BY <1>3, ObjectNotRaw DEF OnRead, OnConstruct, Harmless
  <2>2. i < m_finish => OnAssign(m_start, i) = {}
    BY <1>2, StoredElement, ObjectNotRaw, ShiftNumbers, <1>1 DEF OnAssign
  <2> QED
    BY <1>4, <2>1, <2>2, Stored
<1> HIDE DEF v, w
<1>7. /\ mem' \in MemoryType
      /\ \A b \in Block, s \in Slot :
           mem'[b][s] = IF b = m_start /\ s = i THEN v
                        ELSE IF b = m_start /\ s = i - call.n THEN w ELSE mem[b][s]
  <2>1. m_start \in Block
    BY <1>1, ShiftNumbers
  <2>2. mem' = [mem EXCEPT ![m_start][i] = v, ![m_start][i - call.n] = w]
    BY <1>4
  <2> QED
    BY <1>2, <1>3, <2>1, <2>2, Stored, ObjectNotRaw DEF MemoryType
<1>8. \A s \in m_finish .. (m_finish + call.n - 1) : s > i - 1 => mem'[m_start][s] # Raw
  <2> SUFFICES ASSUME NEW s \in m_finish .. (m_finish + call.n - 1), s > i - 1
               PROVE  mem'[m_start][s] # Raw
    OBVIOUS
  <2>1. s \in Slot /\ (s = i \/ s > i)
    BY <1>1, <1>2, ShiftNumbers, Sizes DEF Slot
  <2>2. s > i => mem[m_start][s] # Raw
    BY <1>1 DEF IInv, ShiftValid
  <2> QED
    BY <1>1, <1>3, <1>7, <2>1, <2>2, ShiftNumbers, ObjectNotRaw
<1>9. ShiftValid'
  <2>1. /\ call' = call /\ m_start' = m_start /\ m_finish' = m_finish
        /\ m_eos' = m_eos /\ fn' = "shift" /\ i' = i - 1
    BY <1>4, <1>5
  <2>2. gap - 1 <= i - 1 /\ i - 1 < m_finish + call.n
    BY <1>1, ShiftNumbers
  <2> QED
    BY <1>1, <1>8, <2>1, <2>2, ShiftNumbers DEF ShiftValid, gap
<1>10. FillValid' /\ EraseValid'
  BY <1>4 DEF FillValid, EraseValid
<1>11. /\ m_finish' \in m_finish .. m_eos
       /\ \A s \in m_finish .. (m_finish' - 1) : mem'[m_start][s] # Raw
  BY <1>1, <1>4, ShiftNumbers
<1>12. \A b \in Block, s \in Slot :
         mem'[b][s] = mem[b][s] \/ (b = m_start /\ mem'[b][s] \in Object)
  BY <1>3, <1>7
<1> QED
  BY <1>1, <1>4, <1>5, <1>6, <1>7, <1>9, <1>10, <1>11, <1>12, ShiftNumbers, LoopStep
     DEF LoopFns

LEMMA ShiftDoneIInv == ASSUME IInv, ShiftDone PROVE IInv'
<1>1. /\ fn = "shift" /\ i < gap /\ fn' = "place" /\ i' = call.pos
      /\ mem' = mem /\ m_finish' = m_finish /\ faults' = faults
      /\ UNCHANGED <<blk, m_start, m_eos, call, frame, temp>>
  BY DEF ShiftDone, Loop, memory, vec
<1>2. ShiftValid'
  <2>1. \A s \in m_finish .. (m_finish + call.n - 1) :
          s < call.pos \/ s >= gap => mem[m_start][s] # Raw
    BY <1>1, ShiftNumbers DEF IInv, ShiftValid
  <2> QED
    BY <1>1, <2>1, ShiftNumbers DEF ShiftValid, gap
<1>3. FillValid' /\ EraseValid' /\ i' \in SizeType
  BY <1>1, ShiftNumbers, Stored, Sizes, SizeTypeHolds DEF FillValid, EraseValid
<1>4. /\ m_finish' \in m_finish .. m_eos
      /\ \A s \in m_finish .. (m_finish' - 1) : mem'[m_start][s] # Raw
  BY <1>1, ShiftNumbers
<1>5. mem' \in MemoryType /\ faults' \subseteq Harmless
  BY <1>1, Stored
<1> QED
  BY <1>1, <1>2, <1>3, <1>4, <1>5, ShiftNumbers, LoopStep DEF LoopFns

LEMMA ShiftThrowsIInv == ASSUME IInv, ShiftThrows PROVE IInv'
  BY FinishIInv DEF ShiftThrows

LEMMA PlacedIsObject == ASSUME IInv, Place PROVE Placed \in Object
<1>1. fn = "place" /\ i < gap
  BY DEF Place
<1>2. CASE call.op = "insert_range"
  <2>1. i - call.pos \in Nat /\ i - call.pos < call.n
    BY <1>1, ShiftNumbers
  <2> QED
    BY <1>1, <1>2, <2>1, ItemIsObject DEF Placed
<1>3. CASE call.op # "insert_range"
  <2>1. call.op \notin RangeOps
    BY <1>1, <1>3 DEF IInv, ShiftValid, InsertOneOps, RangeOps, InputOps
  <2> QED
    BY <1>1, <1>3, <2>1, ArgumentIsObject, OneElementIsObject DEF Placed
<1> QED
  BY <1>2, <1>3

LEMMA PlaceIInv == ASSUME IInv, Place PROVE IInv'
<1>1. /\ fn = "place" /\ i < gap /\ Placed \in Object
  BY PlacedIsObject DEF Place
<1>2. /\ i \in Slot /\ m_start \in Block /\ i + 1 \in Nat /\ i + 1 <= 2 * max_size
  BY <1>1, ShiftNumbers, Sizes DEF Slot
<1>3. /\ mem' = [mem EXCEPT ![m_start][i] = Placed]
      /\ faults' = faults \cup OnRead(Placed)
           \cup (IF i < m_finish THEN OnAssign(m_start, i)
                 ELSE OnConstruct(m_start, i))
      /\ m_finish' = m_finish /\ fn' = "place" /\ i' = i + 1
      /\ UNCHANGED <<blk, m_start, m_eos, call, frame, temp>>
  BY <1>1 DEF Place, vec
<1>4. /\ mem' \in MemoryType
      /\ \A b \in Block, s \in Slot :
           mem'[b][s] = IF b = m_start /\ s = i THEN Placed ELSE mem[b][s]
  BY <1>1, <1>2, <1>3, WriteOne
<1>5. faults' \subseteq Harmless
  <2>1. OnRead(Placed) = {} /\ OnConstruct(m_start, i) \subseteq Harmless
    BY <1>1, ObjectNotRaw DEF OnRead, OnConstruct, Harmless
  <2>2. i < m_finish => OnAssign(m_start, i) = {}
    BY <1>1, ShiftNumbers, StoredElement, ObjectNotRaw DEF OnAssign
  <2> QED
    BY <1>3, <2>1, <2>2, Stored
<1>6. \A s \in m_finish .. (m_finish + call.n - 1) :
        s < i + 1 \/ s >= gap => mem'[m_start][s] # Raw
  <2> SUFFICES ASSUME NEW s \in m_finish .. (m_finish + call.n - 1),
                      s < i + 1 \/ s >= gap
               PROVE  mem'[m_start][s] # Raw
    OBVIOUS
  <2>1. s \in Slot /\ (s = i \/ s < i \/ s >= gap)
    BY <1>1, <1>2, ShiftNumbers, Sizes DEF Slot
  <2>2. s < i \/ s >= gap => mem[m_start][s] # Raw
    BY <1>1 DEF IInv, ShiftValid
  <2> QED
    BY <1>1, <1>2, <1>4, <2>1, <2>2, ObjectNotRaw
<1>7. ShiftValid'
  <2>1. /\ call' = call /\ m_start' = m_start /\ m_finish' = m_finish
        /\ m_eos' = m_eos /\ fn' = "place" /\ i' = i + 1
    BY <1>3
  <2>2. call.pos <= i + 1 /\ i + 1 <= gap
    BY <1>1, ShiftNumbers
  <2> QED
    BY <1>1, <1>6, <2>1, <2>2, ShiftNumbers DEF ShiftValid, gap
<1>8. FillValid' /\ EraseValid' /\ i' \in SizeType
  BY <1>2, <1>3, Sizes, SizeTypeHolds DEF FillValid, EraseValid
<1>9. /\ m_finish' \in m_finish .. m_eos
      /\ \A s \in m_finish .. (m_finish' - 1) : mem'[m_start][s] # Raw
  BY <1>1, <1>3, ShiftNumbers
<1>10. \A b \in Block, s \in Slot :
         mem'[b][s] = mem[b][s] \/ (b = m_start /\ mem'[b][s] \in Object)
  BY <1>1, <1>4
<1> QED
  BY <1>1, <1>2, <1>3, <1>4, <1>5, <1>7, <1>8, <1>9, <1>10, LoopStep DEF LoopFns

LEMMA PlaceThrowsIInv == ASSUME IInv, PlaceThrows PROVE IInv'
  BY FinishIInv DEF PlaceThrows

LEMMA PlaceDoneIInv == ASSUME IInv, PlaceDone PROVE IInv'
<1>1. fn = "place" /\ i = gap
  BY DEF PlaceDone
<1>2. \A s \in 0 .. (m_finish + call.n - 1) : mem[m_start][s] # Raw
  <2> SUFFICES ASSUME NEW s \in 0 .. (m_finish + call.n - 1)
               PROVE  mem[m_start][s] # Raw
    OBVIOUS
  <2>1. CASE s \in 0 .. (m_finish - 1)
    BY <2>1, StoredElement, ObjectNotRaw
  <2>2. CASE s \in m_finish .. (m_finish + call.n - 1)
    <3>1. s < i \/ s >= gap
      BY <1>1, <2>2, ShiftNumbers
    <3> QED
      BY <1>1, <2>2, <3>1 DEF IInv, ShiftValid
  <2> QED
    BY <1>1, <2>1, <2>2, ShiftNumbers
<1>3. /\ EndCall(mem, blk, {}, "ok")
      /\ m_finish' = m_finish + call.n /\ m_start' = m_start /\ m_eos' = m_eos
      /\ temp = Null \/ m_start' # temp
  BY DEF PlaceDone, IInv, TempValid
<1>4. /\ m_finish + call.n \in 0 .. max_size /\ m_finish + call.n <= m_eos
      /\ m_eos > 0 /\ m_start \in Block /\ m_start # Null
  BY <1>1, ShiftNumbers, Sizes
<1>5. /\ m_finish' \in 0 .. max_size /\ m_finish' <= m_eos'
      /\ m_start' \in Block /\ m_start' # Null
      /\ m_eos' \in 0 .. max_size /\ m_eos' > 0 /\ blk[m_start'] = m_eos'
  BY <1>3, <1>4, Stored
<1>6. \A s \in 0 .. (m_finish' - 1) : mem[m_start'][s] # Raw
  <2>1. /\ m_finish' = m_finish + call.n /\ m_finish \in Nat /\ call.n \in Nat
        /\ m_start' = m_start
    BY <1>1, <1>3, ShiftNumbers
  <2>2. ASSUME NEW s \in 0 .. (m_finish' - 1)
        PROVE  s \in 0 .. (m_finish + call.n - 1)
    BY <2>1
  <2> QED
    BY <1>2, <2>1, <2>2
<1>7. mem \in MemoryType /\ blk \in BlockTable
  BY Stored
<1> QED
  BY <1>3, <1>5, <1>6, <1>7, EndCallIInv

LEMMA EraseNumbers ==
  ASSUME IInv, fn = "erase"
  PROVE  /\ i \in Nat /\ call.n \in Nat /\ call.n > 0 /\ call.pos \in Nat
         /\ gap = call.pos + call.n /\ gap <= i /\ i <= m_finish
         /\ m_finish \in 0 .. max_size
  BY CallNumbers, Stored, Sizes, GrowthAssumption
     DEF IInv, EraseValid, TypeOK, SizeType, SizeTypeMod

LEMMA EraseShiftIInv == ASSUME IInv, EraseShift PROVE IInv'
<1> DEFINE v == mem[m_start][i]
           to == i - call.n
<1>1. fn = "erase" /\ i < m_finish
  BY DEF EraseShift
<1>2. /\ i \in 0 .. (m_finish - 1) /\ to \in 0 .. (m_finish - 1) /\ i # to
  BY <1>1, EraseNumbers, Sizes
<1>3. /\ i \in Slot /\ to \in Slot /\ m_start \in Block /\ v \in Object
      /\ mem[m_start][to] # Raw
  BY <1>2, StoredElement, ObjectNotRaw
<1>4. /\ mem' = [mem EXCEPT ![m_start][to] = v, ![m_start][i] = Moved]
      /\ faults' = faults \cup OnRead(v) \cup OnAssign(m_start, to)
      /\ m_finish' = m_finish /\ fn' = "erase" /\ i' = i + 1
      /\ UNCHANGED <<blk, m_start, m_eos, call, frame, temp>>
  BY <1>1 DEF EraseShift, vec
<1>5. faults' \subseteq Harmless
  BY <1>3, <1>4, Stored, ObjectNotRaw DEF OnRead, OnAssign
<1> HIDE DEF v, to
<1>6. /\ mem' \in MemoryType
      /\ \A b \in Block, s \in Slot :
           mem'[b][s] = IF b = m_start /\ s = to THEN v
                        ELSE IF b = m_start /\ s = i THEN Moved ELSE mem[b][s]
  <2>1. mem' = [mem EXCEPT ![m_start][to] = v, ![m_start][i] = Moved]
    BY <1>4
  <2> QED
    BY <1>2, <1>3, <2>1, Stored, ObjectNotRaw DEF MemoryType
<1>7. \A b \in Block, s \in Slot :
        mem'[b][s] = mem[b][s] \/ (b = m_start /\ mem'[b][s] \in Object)
  BY <1>3, <1>6, ObjectNotRaw
<1>8. FillValid' /\ ShiftValid' /\ EraseValid'
  BY <1>1, <1>4, EraseNumbers DEF FillValid, ShiftValid, EraseValid, gap
<1>9. i' \in SizeType
  BY <1>1, <1>4, EraseNumbers, Sizes, SizeTypeHolds
<1>10. /\ m_finish' \in m_finish .. m_eos
       /\ \A s \in m_finish .. (m_finish' - 1) : mem'[m_start][s] # Raw
  BY <1>4, Stored, Sizes
<1> QED
  BY <1>1, <1>3, <1>4, <1>5, <1>6, <1>7, <1>8, <1>9, <1>10, LoopStep DEF LoopFns

LEMMA EraseThrowsIInv == ASSUME IInv, EraseThrows PROVE IInv'
  BY FinishIInv DEF EraseThrows

LEMMA EraseDoneIInv == ASSUME IInv, EraseDone PROVE IInv'
<1>1. fn = "erase" /\ i = m_finish /\ TruncateAndEnd(m_finish - call.n)
  BY DEF EraseDone
<1>2. m_finish - call.n \in 0 .. m_finish
  BY <1>1, EraseNumbers
<1> QED
  BY <1>1, <1>2, TruncateIInv

LEMMA InPlaceStepIInv == ASSUME IInv, InPlaceStep PROVE IInv'
  BY ConstructTempIInv, ConstructTempThrowsIInv,
     FillEndIInv, FillEndThrowsIInv, FinishIInv,
     ResizeInIInv, ResizeInThrowsIInv, ResizeInDoneIInv,
     ShiftIInv, ShiftThrowsIInv, ShiftDoneIInv,
     PlaceIInv, PlaceThrowsIInv, PlaceDoneIInv,
     EraseShiftIInv, EraseThrowsIInv, EraseDoneIInv
     DEF InPlaceStep, FillEndDone

-----------------------------------------------------------------------------
(* VectorAssign.                                                           *)

(* What the two forms of range_assign do wrong to the storage they give up.*)
LEMMA OnReleaseHarmless ==
  ASSUME IInv, m_start # Null
  PROVE  OnReleaseCapacity \subseteq Harmless /\ OnReleaseElements \subseteq Harmless
<1>1. blk[m_start] = m_eos /\ m_eos > 0 /\ m_start \in Block
      /\ m_finish \in 0 .. max_size /\ m_eos \in 0 .. max_size /\ m_finish <= m_eos
      /\ \A s \in 0 .. (m_finish - 1) : mem[m_start][s] # Raw
  BY Stored DEF IInv, StorageValid
<1>2. OnReleaseElements \subseteq Harmless
  BY <1>1 DEF OnReleaseElements, OnRelease, OnDestroy, Harmless
<1> DEFINE unused == {s \in m_finish .. (m_eos - 1) : mem[m_start][s] = Raw}
<1>3. \A s \in (0 .. (m_eos - 1)) \ unused : mem[m_start][s] # Raw
  BY <1>1, Sizes
<1>4. OnReleaseCapacity = OnRelease(m_start, (0 .. (m_eos - 1)) \ unused, m_eos)
                          \cup (IF unused = {} THEN {} ELSE {"destroy_unused"})
  BY DEF OnReleaseCapacity
<1> HIDE DEF unused
<1> QED
  BY <1>1, <1>2, <1>3, <1>4 DEF OnRelease, OnDestroy, Harmless

(* The storage is given up at the head of assign.                          *)
LEMMA ReleaseStorageIInv ==
  ASSUME IInv, fn = "entry", NEW w, NEW f, ReleaseStorage(w, f),
         m_start # Null => w \subseteq Harmless,
         \/ call.op = "assign_range" /\ f = "entry"
         \/ call.op = "assign_input" /\ f = "append"
  PROVE  IInv'
<1>1. /\ call.op \in AssignOps /\ call.op \notin BuildOps /\ temp = Null
      /\ call.op \notin InsertOneOps /\ call.op \in RangeOps
      /\ f = "append" => call.op \in InputOps
      /\ fn' = f /\ m_start' = Null /\ m_finish' = 0 /\ m_eos' = 0
      /\ call' = call /\ temp' = temp /\ new_start' = new_start /\ i' = i
      /\ lo' = lo /\ hi' = hi /\ built' = built /\ moved' = moved
  BY DEF ReleaseStorage, PointersNull, frame, AssignOps, BuildOps, InsertOneOps,
         RangeOps, InputOps, IInv, TempValid
<1>2. mem' \in MemoryType /\ blk' \in BlockTable
  <2>1. 0 \in 0 .. max_size /\ RawBlock \in [Slot -> Cell]
    BY Sizes DEF RawBlock, Cell
  <2>2. CASE m_start = Null
    BY <2>2, Stored DEF ReleaseStorage, memory
  <2>3. CASE m_start # Null
    BY <2>1, <2>3, Stored DEF ReleaseStorage, MemoryType, BlockTable
  <2> QED
    BY <2>2, <2>3
<1>3. faults' \subseteq Harmless
  <2>1. CASE m_start = Null
    BY <2>1, Stored DEF ReleaseStorage
  <2>2. CASE m_start # Null
    BY <2>2, Stored DEF ReleaseStorage
  <2> QED
    BY <2>1, <2>2
<1>4. TypeOK'
  BY <1>1, <1>2, <1>3, Sizes
     DEF IInv, TypeOK, MemoryType, BlockTable, Harmless
<1>5. StorageValid' /\ NothingAbsent' /\ TempValid'
  BY <1>1, <1>3
     DEF IInv, CallValid, StorageValid, NothingAbsent, TempValid, Harmless
<1>6. CallValid'
  BY <1>1 DEF IInv, CallValid, InPlaceFns
<1>7. EntryValid' /\ FillValid'
  <2>1. call.pos = 0 /\ call.n \in Nat
    BY <1>1, CallNumbers DEF IInv, CallValid
  <2> QED
    BY <1>1, <2>1 DEF EntryValid, FillValid
<1>8. NewTempValid' /\ ReallocValid' /\ ShiftValid' /\ EraseValid'
  BY <1>1 DEF NewTempValid, ReallocValid, ShiftValid, EraseValid, ReallocFns
<1> QED
  BY <1>4, <1>5, <1>6, <1>7, <1>8 DEF IInv

-----------------------------------------------------------------------------
(* The heads of the functions.                                             *)

LEMMA ConstructVectorIInv == ASSUME IInv, ConstructVector PROVE IInv'
<1>1. /\ fn = "entry" /\ fn # "idle" /\ call.op \in BuildOps
      /\ m_finish = 0 /\ m_eos = 0 /\ Ready
  BY EntryIsReady DEF ConstructVector, IInv, EntryValid, StorageValid
<1>2. CASE call.op = "build_input" /\ Loop("append", 0)
  <2>1. 0 \in SizeType
    BY Sizes, SizeTypeHolds
  <2> QED
    BY <1>1, <1>2, <2>1, LoopIInv DEF LoopFns
<1>3. CASE Finish("ok") \/ Finish("length_error")
  BY <1>3, FinishIInv
<1>4. CASE /\ call.op # "build_input" /\ call.n \in 1 .. max_size
           /\ StartRealloc("grow", 0, 0, call.n)
  <2>1. call.op \notin InputOps
    BY <1>1, <1>4 DEF BuildOps, InputOps
  <2>2. 0 \in 0 .. m_finish /\ 0 \in Nat /\ m_finish + (0 - 0) <= call.n
    BY <1>1, <1>4, Sizes
  <2>3. call.n <= call.n /\ m_eos < call.n
    BY <1>1, <1>4, Sizes
  <2>4. call.op \notin {"insert_range", "assign_n"}
    BY <1>1 DEF BuildOps
  <2> QED
    BY <1>1, <1>4, <2>1, <2>2, <2>3, <2>4, StartReallocIInv DEF ReallocFns
<1> QED
  BY <1>2, <1>3, <1>4 DEF ConstructVector

LEMMA AssignFillIInv == ASSUME IInv, AssignFill PROVE IInv'
<1>1. /\ fn = "entry" /\ fn # "idle" /\ call.op = "assign_n" /\ Ready
      /\ call.op \in AssignOps \ InputOps
  BY EntryIsReady DEF AssignFill, AssignOps, InputOps
<1>2. CASE Finish("length_error")
  BY <1>2, FinishIInv
<1>3. CASE /\ call.n > capacity /\ call.n <= max_size
           /\ StartRealloc("grow", size, size, call.n)
  <2>1. /\ m_finish \in 0 .. m_finish /\ m_finish \in Nat /\ m_finish <= m_finish
        /\ call.n \in 1 .. max_size /\ m_finish + (m_finish - m_finish) <= call.n
        /\ m_eos < call.n /\ call.n <= call.n
    BY <1>1, <1>3, CallNumbers, Stored, Sizes
  <2>2. StartRealloc("grow", m_finish, m_finish, call.n)
    BY <1>3, Stored
  <2>3. call.op \notin BuildOps
    BY <1>1 DEF BuildOps
  <2> QED
    BY <1>1, <2>1, <2>2, <2>3, StartReallocIInv DEF ReallocFns
<1>4. CASE call.n <= capacity /\ Loop("assign", 0)
  <2>1. 0 \in SizeType /\ call.n <= m_eos
    BY <1>4, Stored, Sizes, SizeTypeHolds
  <2> QED
    BY <1>1, <1>4, <2>1, LoopIInv DEF LoopFns
<1> QED
  BY <1>2, <1>3, <1>4 DEF AssignFill

LEMMA AssignRangeIInv == ASSUME IInv, AssignRange PROVE IInv'
<1>1. /\ fn = "entry" /\ fn # "idle" /\ call.op = "assign_range" /\ Ready
      /\ call.op \in AssignOps \ InputOps
  BY EntryIsReady DEF AssignRange, AssignOps, InputOps
<1>2. CASE Finish("length_error")
  BY <1>2, FinishIInv
<1>3. CASE /\ call.n > capacity /\ call.n <= max_size /\ m_start = Null
           /\ StartRealloc("grow", 0, 0, call.n)
  <2>1. m_finish = 0 /\ m_eos = 0
    BY <1>3 DEF IInv, StorageValid
  <2>2. /\ 0 \in 0 .. m_finish /\ 0 \in Nat /\ call.n \in 1 .. max_size
        /\ m_finish + (0 - 0) <= call.n /\ call.n <= call.n /\ m_eos < call.n
    BY <1>1, <1>3, <2>1, CallNumbers, Stored, Sizes
  <2> QED
    BY <1>1, <1>3, <2>1, <2>2, StartReallocIInv DEF ReallocFns
<1>4. CASE ReleaseStorage(OnReleaseCapacity, "entry")
  BY <1>1, <1>4, OnReleaseHarmless, ReleaseStorageIInv
<1>5. CASE call.n <= capacity /\ Loop("assign", 0)
  <2>1. 0 \in SizeType /\ call.n <= m_eos
    BY <1>5, Stored, Sizes, SizeTypeHolds
  <2> QED
    BY <1>1, <1>5, <2>1, LoopIInv DEF LoopFns
<1> QED
  BY <1>2, <1>3, <1>4, <1>5 DEF AssignRange

LEMMA AssignEnterIInv == ASSUME IInv, AssignEnter PROVE IInv'
<1>1. ASSUME AssignInput PROVE IInv'
  BY <1>1, OnReleaseHarmless, ReleaseStorageIInv DEF AssignInput
<1> QED
  BY <1>1, ConstructVectorIInv, AssignFillIInv, AssignRangeIInv DEF AssignEnter

-----------------------------------------------------------------------------
(* The loop that assigns to existing elements.                             *)

LEMMA AssignNumbers ==
  ASSUME IInv, fn = "assign"
  PROVE  /\ call.op \in AssignOps \ InputOps
         /\ i \in Nat /\ call.n \in Nat /\ m_finish \in 0 .. max_size
         /\ Common \in Nat /\ Common <= m_finish /\ Common <= call.n
         /\ Common = call.n \/ Common = m_finish
         /\ i <= Common /\ call.n <= m_eos
  BY CallNumbers, Stored, Sizes, GrowthAssumption
     DEF IInv, FillValid, Common, TypeOK, SizeType, SizeTypeMod

LEMMA AssignIInv == ASSUME IInv, Assign PROVE IInv'
<1> DEFINE v == Item(i)
<1>1. fn = "assign" /\ i < Common
  BY DEF Assign
<1>2. v \in Object
  BY <1>1, AssignNumbers, ItemIsObject
<1>3. /\ i \in 0 .. (m_finish - 1) /\ i \in Slot /\ m_start \in Block
      /\ mem[m_start][i] # Raw
  BY <1>1, AssignNumbers, StoredElement, ObjectNotRaw
<1>4. /\ mem' = [mem EXCEPT ![m_start][i] = v]
      /\ faults' = faults \cup OnRead(v) \cup OnAssign(m_start, i)
      /\ m_finish' = m_finish /\ i' = i + 1 /\ fn' = "assign"
      /\ UNCHANGED <<blk, m_start, m_eos, call, frame, temp>>
  BY <1>1 DEF Assign, vec
<1> HIDE DEF v
<1>5. /\ mem' \in MemoryType
      /\ \A b \in Block, s \in Slot :
           mem'[b][s] = IF b = m_start /\ s = i THEN v ELSE mem[b][s]
  BY <1>2, <1>3, <1>4, WriteOne
<1>6. faults' \subseteq Harmless
  BY <1>2, <1>3, <1>4, Stored, ObjectNotRaw DEF OnRead, OnAssign
<1>7. FillValid'
  <2>1. Common' = Common
    BY <1>4 DEF Common
  <2> QED
    BY <1>1, <1>4, <2>1, AssignNumbers DEF FillValid
<1>8. ShiftValid' /\ EraseValid'
  BY <1>4 DEF ShiftValid, EraseValid
<1>9. i' \in SizeType
  BY <1>1, <1>4, AssignNumbers, Sizes, SizeTypeHolds
<1>10. /\ m_finish' \in m_finish .. m_eos
       /\ \A s \in m_finish .. (m_finish' - 1) : mem'[m_start][s] # Raw
  BY <1>4, Stored, Sizes
<1>11. \A b \in Block, s \in Slot :
         mem'[b][s] = mem[b][s] \/ (b = m_start /\ mem'[b][s] \in Object)
  BY <1>2, <1>5
<1> QED
  BY <1>1, <1>3, <1>4, <1>5, <1>6, <1>7, <1>8, <1>9, <1>10, <1>11, LoopStep
     DEF LoopFns

LEMMA AssignDoneIInv == ASSUME IInv, AssignDone PROVE IInv'
<1>1. fn = "assign"
  BY DEF AssignDone
<1>2. CASE call.n <= m_finish /\ TruncateAndEnd(call.n)
  <2>1. call.n \in 0 .. m_finish
    BY <1>1, <1>2, AssignNumbers
  <2> QED
    BY <1>2, <2>1, TruncateIInv
<1>3. CASE call.n > m_finish /\ Loop("append", 0)
  <2>1. /\ fn' = "append" /\ i' = 0 /\ mem' = mem /\ m_finish' = m_finish
        /\ faults' = faults /\ UNCHANGED <<blk, m_start, m_eos, call, frame, temp>>
    BY <1>3 DEF Loop, memory, vec
  <2>2. m_start \in Block /\ 0 \in SizeType /\ m_finish \in m_finish .. m_eos
    BY <1>1, <1>3, AssignNumbers, Stored, Sizes, SizeTypeHolds
  <2>3. FillValid' /\ ShiftValid' /\ EraseValid'
    BY <1>1, <1>3, <2>1, AssignNumbers DEF FillValid, ShiftValid, EraseValid
  <2>4. m_finish .. (m_finish - 1) = {}
    BY Stored, Sizes
  <2> QED
    BY <1>1, <2>1, <2>2, <2>3, <2>4, Stored, LoopStep DEF LoopFns
<1> QED
  BY <1>2, <1>3 DEF AssignDone

-----------------------------------------------------------------------------
(* The loop that constructs at m_finish.                                   *)

LEMMA AppendNumbers ==
  ASSUME IInv, Appending
  PROVE  /\ fn = "append" /\ call.op \in BuildOps \cup AssignOps
         /\ call.n \in Nat /\ m_finish \in Nat /\ m_finish < call.n
         /\ ~MustGrow => m_finish < m_eos /\ m_start \in Block /\ m_finish \in Slot
         /\ MustGrow => call.op \in InputOps
<1>1. /\ fn = "append" /\ fn # "idle" /\ m_finish < call.n
      /\ call.op \in BuildOps \cup AssignOps
      /\ call.op \notin InputOps => call.n <= m_eos
  BY DEF IInv, FillValid, Appending
<1>2. call.n \in Nat /\ m_finish \in Nat /\ m_eos \in 0 .. max_size /\ m_finish <= m_eos
  BY <1>1, CallNumbers, Stored, Sizes
<1>3. ~MustGrow => m_finish < m_eos
  BY <1>1, <1>2, Sizes DEF MustGrow
<1> QED
  BY <1>1, <1>2, <1>3, Stored, Sizes DEF MustGrow, Slot

LEMMA AppendNextIInv == ASSUME IInv, AppendNext PROVE IInv'
<1> DEFINE v == Item(m_finish)
<1>1. /\ fn = "append" /\ call.op \in BuildOps \cup AssignOps
      /\ call.n \in Nat /\ m_finish \in Nat /\ m_finish < call.n
      /\ m_finish < m_eos /\ m_start \in Block /\ m_finish \in Slot
  BY AppendNumbers DEF AppendNext
<1>2. v \in Object
  BY <1>1, ItemIsObject
<1>3. /\ mem' = [mem EXCEPT ![m_start][m_finish] = v]
      /\ faults' = faults \cup OnRead(v) \cup OnConstruct(m_start, m_finish)
      /\ m_finish' = m_finish + 1 /\ i' = i /\ fn' = "append"
      /\ UNCHANGED <<blk, m_start, m_eos, call, frame, temp>>
  BY <1>1 DEF AppendNext
<1> HIDE DEF v
<1>4. /\ mem' \in MemoryType
      /\ \A b \in Block, s \in Slot :
           mem'[b][s] = IF b = m_start /\ s = m_finish THEN v ELSE mem[b][s]
  BY <1>1, <1>2, <1>3, WriteOne
<1>5. faults' \subseteq Harmless
  BY <1>2, <1>3, Stored, ObjectNotRaw DEF OnRead, OnConstruct, Harmless
<1>6. FillValid' /\ ShiftValid' /\ EraseValid'
  BY <1>1, <1>3 DEF IInv, FillValid, ShiftValid, EraseValid
<1>7. i' \in SizeType
  BY <1>3 DEF IInv, TypeOK
<1>8. /\ m_finish' \in m_finish .. m_eos
      /\ \A s \in m_finish .. (m_finish' - 1) : mem'[m_start][s] # Raw
  BY <1>1, <1>2, <1>3, <1>4, Stored, Sizes, ObjectNotRaw
<1>9. \A b \in Block, s \in Slot :
        mem'[b][s] = mem[b][s] \/ (b = m_start /\ mem'[b][s] \in Object)
  BY <1>2, <1>4
<1> QED
  BY <1>1, <1>3, <1>4, <1>5, <1>6, <1>7, <1>8, <1>9, LoopStep DEF LoopFns

LEMMA AppendThrowsIInv == ASSUME IInv, AppendThrows PROVE IInv'
  BY FinishIInv, DestroyStorageIInv DEF AppendThrows

LEMMA AppendGrowsIInv == ASSUME IInv, AppendGrows PROVE IInv'
<1>1. /\ fn = "append" /\ call.op \in InputOps /\ m_finish < call.n
      /\ call.op \in BuildOps \cup AssignOps
  BY AppendNumbers DEF AppendGrows
<1>2. call.op \notin InsertOneOps \cup {"insert_n", "insert_range", "assign_n"}
  BY <1>1 DEF InputOps, InsertOneOps
<1>3. Ready
  <2>1. call.pos = 0
    BY <1>1 DEF IInv, CallValid
  <2> QED
    BY <1>1, <1>2, <2>1, Stored, Sizes DEF Ready, IInv, TempValid
<1>4. /\ m_finish \in 0 .. m_finish /\ m_finish + 1 \in Nat
      /\ m_finish <= m_finish + 1 /\ (m_finish + 1) - m_finish = 1
      /\ 1 \in SizeType /\ 1 > 0
  BY Stored, Sizes, SizeTypeHolds
<1>5. StartGrowing("realloc_append", m_finish, m_finish + 1, 1)
  BY Stored DEF AppendGrows
<1> QED
  BY <1>1, <1>2, <1>3, <1>4, <1>5, StartGrowingIInv DEF ReallocFns

LEMMA AssignStepIInv == ASSUME IInv, AssignStep PROVE IInv'
  BY AssignIInv, AssignDoneIInv, AppendNextIInv, AppendThrowsIInv, AppendGrowsIInv,
     FinishIInv, DestroyStorageIInv
     DEF AssignStep, AssignThrows, AppendDone, Rollback

-----------------------------------------------------------------------------
(* The calls.                                                              *)

(* What the program may pass.                                              *)
LEMMA LegalCall ==
  ASSUME NEW s \in 0 .. max_size, NEW c \in LegalCalls(s)
  PROVE  /\ c.op \in Ops /\ c.op \in Used /\ c.n \in Count /\ c.pos \in 0 .. s
         /\ c.op \in BuildOps => s = 0
         /\ c.op \in BuildOps \cup AssignOps => c.pos = 0
         /\ IF c.op \in RangeOps THEN c.arg \in [1 .. c.n -> Value]
            ELSE c.arg \in Value \cup 0 .. (s - 1)
         /\ c.op = "erase" => c.pos + c.n <= s
         /\ c.op \in InsertOneOps => c.n = 1
<1>1. \/ c \in PlainCalls(s) \/ c \in CountCalls(s) \/ c \in ResizeCalls(s)
      \/ c \in AppendCalls(s) \/ c \in InsertOneCalls(s)
      \/ c \in InsertFillCalls(s) \/ c \in InsertRangeCalls(s)
      \/ c \in EraseCalls(s) \/ c \in CountedCalls \/ c \in SourceCalls
  BY DEF LegalCalls, AllCalls
<1>0. c.op \in Used /\ (c.op \in BuildOps => s = 0)
  BY DEF LegalCalls
<1>2. ASSUME NEW op \in Ops, NEW a \in Args(op, s)
      PROVE  a \in Value \cup 0 .. (s - 1)
  BY DEF Args
<1> USE <1>0, ValueAssumption, Sizes
        DEF CallRecord, Ops, ElementOps, BuildOps, AssignOps, InputOps, RangeOps, Count
<1>3. CASE c \in PlainCalls(s)
  BY <1>3 DEF PlainCalls, InsertOneOps
<1>4. CASE c \in CountCalls(s)
  BY <1>4 DEF CountCalls, InsertOneOps
<1>5. CASE c \in AppendCalls(s)
  <2>1. PICK op \in AppendOps : c \in {CallRecord(op, s, 1, a) : a \in Args(op, s)}
    BY <1>5 DEF AppendCalls
  <2>2. PICK a \in Args(op, s) : c = CallRecord(op, s, 1, a)
    BY <2>1
  <2> QED
    BY <1>2, <2>2 DEF AppendOps, InsertOneOps
<1>6. CASE c \in ResizeCalls(s)
  BY <1>2, <1>6 DEF ResizeCalls, InsertOneOps
<1>7. CASE c \in InsertOneCalls(s)
  <2>1. PICK op \in InsertOneOps :
          c \in {CallRecord(op, pos, 1, a) : pos \in 0 .. s, a \in Args(op, s)}
    BY <1>7 DEF InsertOneCalls
  <2>2. PICK pos \in 0 .. s, a \in Args(op, s) : c = CallRecord(op, pos, 1, a)
    BY <2>1
  <2> QED
    BY <1>2, <2>2 DEF InsertOneOps
<1>8. CASE c \in InsertFillCalls(s)
  BY <1>2, <1>8 DEF InsertFillCalls, InsertOneOps
<1>11. ASSUME NEW r \in Ranges
       PROVE  Len(r) \in Count /\ r \in [1 .. Len(r) -> Value]
  <2>1. PICK n \in 0 .. MaxRange : r \in [1 .. n -> Value]
    BY DEF Ranges
  <2>2. Len(r) = n /\ n \in Count
    BY <2>1, RangeAssumption
  <2> QED
    BY <2>1, <2>2
<1>9. CASE c \in InsertRangeCalls(s)
  <2>1. PICK pos \in 0 .. s, r \in Ranges :
          c = CallRecord("insert_range", pos, Len(r), r)
    BY <1>9 DEF InsertRangeCalls
  <2>2. Len(r) \in Count /\ r \in [1 .. Len(r) -> Value]
    BY <1>11
  <2> QED
    BY <2>1, <2>2 DEF InsertOneOps
<1>10. CASE c \in EraseCalls(s)
  <2>1. PICK pos \in 0 .. s :
          c \in {CallRecord("erase", pos, n, Default) : n \in 0 .. (s - pos)}
    BY <1>10 DEF EraseCalls
  <2>2. PICK n \in 0 .. (s - pos) : c = CallRecord("erase", pos, n, Default)
    BY <2>1
  <2> QED
    BY <2>2 DEF InsertOneOps
<1>12. CASE c \in CountedCalls
  BY <1>12 DEF CountedCalls, InsertOneOps
<1>13. CASE c \in SourceCalls
  <2>1. PICK op \in RangeOps \ {"insert_range"}, r \in Ranges :
          c = CallRecord(op, 0, Len(r), r)
    BY <1>13 DEF SourceCalls
  <2>2. Len(r) \in Count /\ r \in [1 .. Len(r) -> Value]
    BY <1>11
  <2> QED
    BY <2>1, <2>2 DEF InsertOneOps
<1> QED
  BY <1>1, <1>3, <1>4, <1>5, <1>6, <1>7, <1>8, <1>9, <1>10, <1>12, <1>13

(* The program makes a call.                                               *)
LEMMA InvokeIInv ==
  ASSUME IInv, Invoke
  PROVE  IInv'
<1>1. size \in 0 .. max_size /\ size = m_finish
  BY DEF IInv, TypeOK, size
<1>2. /\ call'.op \in Ops /\ call'.op \in Used
      /\ call'.n \in Count /\ call'.pos \in 0 .. m_finish
      /\ call'.op \in BuildOps => m_start = Null /\ m_finish = 0
      /\ call'.op \in BuildOps \cup AssignOps => call'.pos = 0
      /\ IF call'.op \in RangeOps THEN call'.arg \in [1 .. call'.n -> Value]
         ELSE call'.arg \in Value \cup 0 .. (m_finish - 1)
      /\ call'.op = "erase" => call'.pos + call'.n <= m_finish
      /\ call'.op \in InsertOneOps => call'.n = 1
  BY <1>1, LegalCall DEF Invoke
<1>3. fn' = "entry" /\ UNCHANGED <<memory, vec, faults, frame, temp, i>>
  BY DEF Invoke
<1>4. call' # NoCall
  BY <1>2 DEF NoCall, CallRecord, Ops, ElementOps, BuildOps, AssignOps
<1> USE DEF memory, vec, frame
<1>5. TypeOK' /\ StorageValid' /\ NothingAbsent' /\ TempValid'
  <2>1. temp = Null
    BY DEF Invoke, IInv, CallValid, TempValid
  <2> QED
    BY <1>3, <2>1 DEF IInv, TypeOK, StorageValid, NothingAbsent, TempValid
<1>6. CallValid' /\ EntryValid'
  <2>1. temp' = Null
    BY <1>3 DEF Invoke, IInv, CallValid, TempValid
  <2> QED
    BY <1>1, <1>2, <1>3, <1>4, <2>1, Sizes DEF CallValid, EntryValid
<1>7. NewTempValid' /\ ReallocValid' /\ FillValid' /\ ShiftValid' /\ EraseValid'
  BY <1>3 DEF NewTempValid, ReallocValid, FillValid, ShiftValid, EraseValid,
              ReallocFns
<1> QED
  BY <1>5, <1>6, <1>7 DEF IInv

-----------------------------------------------------------------------------
(* What the methods do first.                                              *)

LEMMA ConstructAtEndIInv ==
  ASSUME IInv, fn = "entry", call.op \notin RangeOps, size # capacity,
         ConstructAtEnd
  PROVE  IInv'
<1>1. CASE Finish("exception")
  BY <1>1, FinishIInv
<1>2. CASE /\ EndCall([mem EXCEPT ![m_start][m_finish] = OneElement], blk,
                  OnRead(OneElement) \cup OnConstruct(m_start, m_finish), "ok")
           /\ m_finish' = m_finish + 1
           /\ UNCHANGED <<m_start, m_eos>>
  <2> DEFINE m == [mem EXCEPT ![m_start][m_finish] = OneElement]
             f == OnRead(OneElement) \cup OnConstruct(m_start, m_finish)
  <2>1. OneElement \in Object
    BY OneElementIsObject
  <2>2. m_finish < m_eos /\ m_start \in Block /\ m_finish \in Slot
    BY Stored, Sizes DEF Slot
  <2>3. m \in MemoryType
    BY <2>1, <2>2, Stored, ObjectNotRaw DEF MemoryType
  <2>4. f \subseteq Harmless
    BY <2>1, ObjectNotRaw DEF OnRead, OnConstruct, Harmless
  <2>5. \A s \in 0 .. m_finish : m[m_start][s] # Raw
    BY <2>1, <2>2, Stored, StoredElement, ObjectNotRaw, Sizes DEF MemoryType, Slot
  <2>6. m_finish + 1 \in 0 .. max_size /\ m_finish + 1 <= m_eos
        /\ (m_finish + 1) - 1 = m_finish /\ m_eos > 0
    BY <2>2, Stored, Sizes
  <2>7. m_start # Null /\ (temp = Null \/ m_start # temp)
    BY <2>2, StateAssumption DEF IInv, TempValid
  <2> HIDE DEF m, f
  <2>8. EndCall(m, blk, f, "ok") /\ m_finish' = m_finish + 1
        /\ m_start' = m_start /\ m_eos' = m_eos
    BY <1>2 DEF m, f
  <2> QED
    BY <2>2, <2>3, <2>4, <2>5, <2>6, <2>7, <2>8, Stored, EndCallIInv
<1> QED
  BY <1>1, <1>2 DEF ConstructAtEnd

LEMMA AllocateTempIInv ==
  ASSUME IInv, fn = "entry", temp = Null,
         call.op \in InsertOneOps \cup {"insert_n"}, call.n > 0,
         call.op # "insert_rv" => m_finish + call.n <= m_eos,
         AllocateTemp
  PROVE  IInv'
<1>1. CASE AllocationFails
  BY <1>1, AllocationFailsIInv
<1>2. ASSUME NEW b \in Block, Allocate(b, 1), fn' = "temp", new_start' = b,
             UNCHANGED <<mem, vec, faults, call, outcome, before,
                         lo, hi, built, moved, temp, i>>
      PROVE  IInv'
  <2> USE DEF vec
  <2>1. blk[b] = 0 /\ blk' = [blk EXCEPT ![b] = 1]
    BY <1>2 DEF Allocate, FreeBlocks
  <2>2. b # m_start /\ b # Null
    BY <2>1, StateAssumption DEF IInv, TypeOK, StorageValid
  <2>3. TypeOK'
    BY <1>2, <2>1, Sizes DEF IInv, TypeOK
  <2>4. StorageValid' /\ TempValid' /\ NothingAbsent'
    BY <1>2, <2>1, <2>2
       DEF IInv, TypeOK, StorageValid, TempValid, NothingAbsent
  <2>5. CallValid'
    BY <1>2 DEF IInv, CallValid, NoCall, InPlaceFns
  <2>6. NewTempValid'
    BY <1>2, <2>1, <2>2, Stored
       DEF IInv, EntryValid, NewTempValid, InsertOneOps, BlockTable
  <2>7. EntryValid' /\ ReallocValid' /\ FillValid' /\ ShiftValid' /\ EraseValid'
    BY <1>2 DEF EntryValid, ReallocValid, FillValid, ShiftValid, EraseValid,
                ReallocFns
  <2> QED
    BY <2>3, <2>4, <2>5, <2>6, <2>7 DEF IInv
<1> QED
  BY <1>1, <1>2 DEF AllocateTemp

-----------------------------------------------------------------------------
(* The methods.                                                            *)

LEMMA ReserveIInv == ASSUME IInv, Reserve PROVE IInv'
<1>1. fn = "entry" /\ fn # "idle" /\ call.op = "reserve"
  BY DEF Reserve, Entered
<1>2. CASE Finish("ok") \/ Finish("length_error")
  BY <1>2, FinishIInv
<1>3. CASE /\ call.n > capacity /\ call.n <= max_size
           /\ StartRealloc("grow", size, size, call.n)
  <2>1. /\ call.n \in 1 .. max_size /\ m_finish <= call.n /\ m_eos < call.n
        /\ m_finish \in 0 .. m_finish /\ m_finish \in Nat
    BY <1>1, <1>3, CallNumbers, Stored, Sizes
  <2>2. StartRealloc("grow", m_finish, m_finish, call.n)
    BY <1>3, Stored
  <2> QED
    BY <1>1, <2>1, <2>2, StartReallocIInv, EntryIsReady
       DEF ReallocFns, RangeOps, InputOps, BuildOps
<1> QED
  BY <1>2, <1>3 DEF Reserve

LEMMA ShrinkToFitIInv == ASSUME IInv, ShrinkToFit PROVE IInv'
<1>1. fn = "entry" /\ call.op = "shrink_to_fit"
  BY DEF ShrinkToFit, Entered
<1>2. CASE Finish("ok")
  BY <1>2, FinishIInv
<1>3. CASE DestroyStorageAndEnd("ok")
  BY <1>3, DestroyStorageIInv
<1>4. CASE size > 0 /\ StartRealloc("shrink_to_fit", size, size, size)
  <2>1. /\ m_finish \in 1 .. max_size /\ m_finish \in 0 .. m_finish
        /\ m_finish \in Nat /\ m_finish + (m_finish - m_finish) <= m_finish
    BY <1>4, Stored, Sizes
  <2>2. StartRealloc("shrink_to_fit", m_finish, m_finish, m_finish)
    BY <1>4, Stored
  <2> QED
    BY <1>1, <2>1, <2>2, StartReallocIInv, EntryIsReady
       DEF ReallocFns, RangeOps, InputOps, BuildOps
<1> QED
  BY <1>2, <1>3, <1>4 DEF ShrinkToFit

LEMMA ClearIInv == ASSUME IInv, Clear PROVE IInv'
  BY Stored, Sizes, TruncateIInv DEF Clear

LEMMA PopBackIInv == ASSUME IInv, PopBack PROVE IInv'
<1>1. CASE Finish("out_of_range")
  BY <1>1, FinishIInv
<1>2. CASE size > 0 /\ TruncateAndEnd(size - 1)
  BY <1>2, Stored, Sizes, TruncateIInv
<1> QED
  BY <1>1, <1>2 DEF PopBack

LEMMA DestroyVectorIInv == ASSUME IInv, DestroyVector PROVE IInv'
  BY DestroyStorageIInv DEF DestroyVector

LEMMA PushBackIInv == ASSUME IInv, PushBack PROVE IInv'
<1>1. /\ fn = "entry" /\ call.op \in AppendOps /\ call.op \notin RangeOps
      /\ call.op \notin BuildOps
                      \cup {"assign_n", "assign_range", "assign_input", "insert_range"}
  BY DEF PushBack, Entered, AppendOps, RangeOps, InputOps, BuildOps
<1>2. CASE size # capacity /\ ConstructAtEnd
  BY <1>1, <1>2, ConstructAtEndIInv
<1>3. CASE StartGrowing("realloc_append", size, size + 1, 1)
  <2>1. /\ m_finish \in 0 .. m_finish /\ m_finish + 1 \in Nat
        /\ m_finish <= m_finish + 1 /\ (m_finish + 1) - m_finish <= 1
        /\ 1 \in SizeType /\ 1 > 0
    BY Stored, Sizes, SizeTypeHolds
  <2>2. StartGrowing("realloc_append", m_finish, m_finish + 1, 1)
    BY <1>3, Stored
  <2> QED
    BY <1>1, <2>1, <2>2, StartGrowingIInv, EntryIsReady
       DEF ReallocFns, RangeOps, InputOps, BuildOps
<1> QED
  BY <1>2, <1>3 DEF PushBack

LEMMA ResizeIInv == ASSUME IInv, Resize PROVE IInv'
<1>1. /\ fn = "entry" /\ fn # "idle" /\ call.op \notin RangeOps
      /\ call.op \notin BuildOps
                      \cup {"assign_n", "assign_range", "assign_input", "insert_range"}
  BY DEF Resize, Entered, RangeOps, InputOps, BuildOps
<1>2. CASE Finish("length_error") \/ Finish("ok")
  BY <1>2, FinishIInv
<1>3. CASE call.n < size /\ TruncateAndEnd(call.n)
  BY <1>1, <1>3, CallNumbers, Stored, Sizes, TruncateIInv
<1>4. CASE call.n > size /\ call.n <= capacity /\ Loop("resize_in", size)
  <2>1. /\ m_finish \in SizeType /\ m_finish < call.n /\ call.n <= m_eos
        /\ call.n > 0 /\ Loop("resize_in", m_finish)
    BY <1>1, <1>4, CallNumbers, Stored, Sizes, SizeTypeHolds
  <2> QED
    BY <1>1, <2>1, LoopIInv DEF LoopFns, RangeOps, InputOps, InsertOneOps
<1>5. CASE /\ call.n > capacity /\ call.n <= max_size
           /\ StartGrowing("realloc_resize", size, call.n, call.n - size)
  <2>1. /\ m_finish \in 0 .. m_finish /\ call.n \in Nat /\ m_finish <= call.n
        /\ call.n - m_finish \in SizeType /\ call.n - m_finish > 0
        /\ call.n - m_finish <= call.n - m_finish
    BY <1>1, <1>5, CallNumbers, Stored, Sizes, SizeTypeHolds
  <2>2. StartGrowing("realloc_resize", m_finish, call.n, call.n - m_finish)
    BY <1>5, Stored
  <2> QED
    BY <1>1, <2>1, <2>2, StartGrowingIInv, EntryIsReady
       DEF ReallocFns, RangeOps, InputOps, BuildOps
<1> QED
  BY <1>2, <1>3, <1>4, <1>5 DEF Resize

LEMMA InsertOneIInv == ASSUME IInv, InsertOne PROVE IInv'
<1>1. /\ fn = "entry" /\ call.op \in {"insert", "emplace"}
      /\ call.op \notin RangeOps /\ call.n = 1 /\ call.pos \in 0 .. m_finish
  BY CallNumbers
     DEF InsertOne, Entered, IInv, EntryValid, InsertOneOps, RangeOps, InputOps
<1>3. CASE StartGrowing("realloc_insert", call.pos, call.pos + 1, 1)
  <2>1. /\ call.pos + 1 \in Nat /\ call.pos <= call.pos + 1
        /\ (call.pos + 1) - call.pos <= 1 /\ 1 \in SizeType /\ 1 > 0
    BY <1>1, Stored, Sizes, SizeTypeHolds
  <2> QED
    BY <1>1, <1>3, <2>1, StartGrowingIInv, EntryIsReady
       DEF ReallocFns, RangeOps, InputOps, BuildOps
<1>4. CASE size # capacity /\ AllocateTemp
  <2>1. m_finish + call.n <= m_eos /\ call.n > 0
    BY <1>1, <1>4, Stored, Sizes
  <2>2. call.op \in InsertOneOps \cup {"insert_n"}
    BY <1>1 DEF InsertOneOps
  <2>3. temp = Null
    BY <1>1 DEF IInv, EntryValid
  <2> QED
    BY <1>1, <1>4, <2>1, <2>2, <2>3, AllocateTempIInv
<1>5. CASE size # capacity /\ ConstructAtEnd
  BY <1>1, <1>5, ConstructAtEndIInv
<1> QED
  BY <1>3, <1>4, <1>5 DEF InsertOne

LEMMA InsertRvalueIInv == ASSUME IInv, InsertRvalue PROVE IInv'
<1>1. /\ fn = "entry" /\ fn # "idle" /\ call.op = "insert_rv" /\ call.n = 1
      /\ call.op \in InsertOneOps
  BY DEF InsertRvalue, Entered, IInv, EntryValid, InsertOneOps
<1>2. CASE temp = Null /\ AllocateTemp
  BY <1>1, <1>2, AllocateTempIInv
<1>3. CASE size = capacity /\ StartGrowing("grow", size, size, 1)
  <2>1. /\ m_finish \in 0 .. m_finish /\ m_finish \in Nat /\ m_finish <= m_finish
        /\ m_finish - m_finish <= 1 /\ 1 \in SizeType /\ 1 > 0
    BY Stored, Sizes, SizeTypeHolds
  <2>2. StartGrowing("grow", m_finish, m_finish, 1)
    BY <1>3, Stored
  <2>3. m_eos < m_finish + 1
    BY <1>3, Stored, Sizes
  <2> QED
    BY <1>1, <2>1, <2>2, <2>3, StartGrowingIInv, EntryIsReady
       DEF ReallocFns, RangeOps, InputOps, BuildOps
<1>4. CASE size # capacity /\ Loop("shift", LastShifted)
  <2>1. m_finish + call.n <= m_eos /\ call.n > 0
    BY <1>1, <1>4, Stored, Sizes
  <2>2. LastShifted = m_finish + call.n - 1 /\ LastShifted \in SizeType
    BY <1>1, <2>1, LastShiftedExact, Stored, Sizes, SizeTypeHolds
  <2> QED
    BY <1>1, <1>4, <2>1, <2>2, LoopIInv DEF LoopFns, RangeOps, InputOps, InsertOneOps
<1>5. CASE size # capacity /\ ConstructAtEnd
  BY <1>1, <1>5, ConstructAtEndIInv DEF RangeOps, InputOps
<1> QED
  BY <1>2, <1>3, <1>4, <1>5 DEF InsertRvalue

LEMMA RoomExact ==
  ASSUME IInv, fn # "idle"
  PROVE  NoRoom <=> m_finish + call.n > m_eos
  BY Stored, Sizes, CallNumbers DEF NoRoom, Wrap, SizeTypeMod

LEMMA InsertFillIInv == ASSUME IInv, InsertFill PROVE IInv'
<1>1. /\ fn = "entry" /\ fn # "idle" /\ call.op = "insert_n"
      /\ call.op \in InsertOneOps \cup {"insert_n"} /\ call.pos \in 0 .. m_finish
  BY CallNumbers, Stored, Sizes DEF InsertFill, Entered, IInv, EntryValid
<1>2. CASE Finish("ok") \/ Finish("length_error")
  BY <1>2, FinishIInv
<1>3. CASE /\ call.n \in 1 .. max_size
           /\ StartGrowing("insert_n", call.pos, gap, call.n)
  <2>1. /\ gap \in Nat /\ call.pos <= gap /\ gap - call.pos <= call.n
        /\ call.n \in SizeType /\ call.n > 0
    BY <1>1, <1>3, CallNumbers, Sizes
  <2> QED
    BY <1>1, <1>3, <2>1, StartGrowingIInv, EntryIsReady
       DEF ReallocFns, RangeOps, InputOps, BuildOps
<1>4. CASE call.n \in 1 .. max_size /\ ~NoRoom /\ Loop("fill_end", 0)
  <2>1. call.n > 0 /\ m_finish + call.n <= m_eos /\ 0 \in SizeType
    BY <1>1, <1>4, RoomExact, CallNumbers, Stored, Sizes, SizeTypeHolds
  <2> QED
    BY <1>1, <1>4, <2>1, LoopIInv DEF LoopFns, RangeOps, InputOps, InsertOneOps
<1>5. CASE call.n \in 1 .. max_size /\ ~NoRoom /\ AllocateTemp
  <2>1. call.n > 0 /\ m_finish + call.n <= m_eos
    BY <1>1, <1>5, RoomExact, CallNumbers, Stored, Sizes
  <2>2. temp = Null
    BY <1>1 DEF IInv, EntryValid
  <2> QED
    BY <1>1, <1>5, <2>1, <2>2, AllocateTempIInv
<1> QED
  BY <1>2, <1>3, <1>4, <1>5 DEF InsertFill

LEMMA InsertRangeIInv == ASSUME IInv, InsertRange PROVE IInv'
<1>1. fn = "entry" /\ fn # "idle" /\ call.op = "insert_range"
  BY DEF InsertRange, Entered
<1>2. CASE Finish("ok")
  BY <1>2, FinishIInv
<1>3. CASE call.n # 0 /\ NoRoom /\ StartGrowing("grow", size, size, call.n)
  <2>1. /\ m_finish \in 0 .. m_finish /\ m_finish \in Nat /\ m_finish <= m_finish
        /\ m_finish - m_finish <= call.n /\ call.n \in SizeType /\ call.n > 0
    BY <1>1, <1>3, CallNumbers, Stored, Sizes
  <2>2. StartGrowing("grow", m_finish, m_finish, call.n)
    BY <1>3, Stored
  <2>3. m_eos < m_finish + call.n
    BY <1>1, <1>3, RoomExact, CallNumbers, Stored, Sizes
  <2> QED
    BY <1>1, <2>1, <2>2, <2>3, StartGrowingIInv, EntryIsReady
       DEF ReallocFns, RangeOps, InputOps, BuildOps
<1>4. CASE call.n # 0 /\ ~NoRoom /\ Loop("shift", LastShifted)
  <2>1. m_finish + call.n <= m_eos /\ call.n > 0
    BY <1>1, <1>4, RoomExact, CallNumbers, Stored, Sizes
  <2>2. LastShifted = m_finish + call.n - 1 /\ LastShifted \in SizeType
    BY <1>1, <2>1, LastShiftedExact, CallNumbers, Stored, Sizes, SizeTypeHolds
  <2> QED
    BY <1>1, <1>4, <2>1, <2>2, LoopIInv DEF LoopFns, RangeOps, InputOps, InsertOneOps
<1> QED
  BY <1>2, <1>3, <1>4 DEF InsertRange

LEMMA EraseIInv == ASSUME IInv, Erase PROVE IInv'
<1>1. fn = "entry" /\ fn # "idle" /\ call.op = "erase"
  BY DEF Erase, Entered
<1>2. CASE Finish("ok")
  BY <1>2, FinishIInv
<1>3. CASE call.n # 0 /\ Loop("erase", gap)
  <2>1. gap <= m_finish /\ call.n > 0 /\ gap \in SizeType
    BY <1>1, <1>3, CallNumbers, Stored, Sizes, SizeTypeHolds DEF IInv, EntryValid
  <2> QED
    BY <1>1, <1>3, <2>1, LoopIInv DEF LoopFns, RangeOps, InputOps, InsertOneOps
<1> QED
  BY <1>2, <1>3 DEF Erase

LEMMA EnterIInv == ASSUME IInv, Enter PROVE IInv'
  BY ReserveIInv, ShrinkToFitIInv, ClearIInv, PopBackIInv, DestroyVectorIInv,
     PushBackIInv, ResizeIInv, InsertOneIInv, InsertRvalueIInv, InsertFillIInv,
     InsertRangeIInv, EraseIInv, AssignEnterIInv
     DEF Enter

-----------------------------------------------------------------------------
(* The specification.                                                      *)

LEMMA InitIInv == Init => IInv
<1> SUFFICES ASSUME Init PROVE IInv
  OBVIOUS
<1>1. 0 \in 0 .. max_size /\ 0 \in SizeType
  BY Sizes, SizeTypeHolds
<1>2. mem \in MemoryType /\ blk \in BlockTable
  BY <1>1 DEF Init, MemoryType, BlockTable, RawBlock, Cell
<1>3. TypeOK
  BY <1>1, <1>2 DEF Init, TypeOK, MemoryType, BlockTable
<1> QED
  BY <1>3 DEF Init, IInv, StorageValid, NothingAbsent, CallValid, EntryValid,
              TempValid, NewTempValid, ReallocValid, FillValid, ShiftValid,
              EraseValid, ReallocFns, InPlaceFns

LEMMA NextIInv == IInv /\ [Next]_vars => IInv'
<1> SUFFICES ASSUME IInv, [Next]_vars PROVE IInv'
  OBVIOUS
<1>1. CASE Invoke
  BY <1>1, InvokeIInv
<1>2. CASE Enter
  BY <1>2, EnterIInv
<1>3. CASE ReallocStep
  BY <1>3, ReallocStepIInv
<1>4. CASE InPlaceStep
  BY <1>4, InPlaceStepIInv
<1>5. CASE AssignStep
  BY <1>5, AssignStepIInv
<1>6. CASE UNCHANGED vars
  BY <1>6 DEF vars, IInv, TypeOK, StorageValid, NothingAbsent, CallValid,
              EntryValid, TempValid, NewTempValid, ReallocValid, FillValid,
              ShiftValid, EraseValid, Live, Dest, gap, Common, Afterwards
<1> QED
  BY <1>1, <1>2, <1>3, <1>4, <1>5, <1>6 DEF Next, CodeStep

(* Type correctness, at every width of size_type.                          *)
THEOREM TypesHold == Spec => []TypeOK
<1>1. IInv => TypeOK
  BY DEF IInv
<1> QED
  BY InitIInv, NextIInv, <1>1, PTL DEF Spec

(* The basic exception guarantee: whatever the constructors, assignments   *)
(* and the allocator throw, at every moment of every call the pointers     *)
(* describe the allocated block and [m_start, m_finish) holds objects.     *)
THEOREM BasicGuarantee == Spec => []StorageValid
<1>1. IInv => StorageValid
  BY DEF IInv
<1> QED
  BY InitIInv, NextIInv, <1>1, PTL DEF Spec

=============================================================================
