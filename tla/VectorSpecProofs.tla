-------------------------- MODULE VectorSpecProofs --------------------------
(***************************************************************************)
(* Vector implements its contract (VectorSpec): proof of ImplementsSpec.   *)
(* Every step of the code either does not show in the contract or is the   *)
(* end of the call as the contract describes it.  The steps of the         *)
(* reallocating functions are in VectorEffectProofs; here are those inside *)
(* the storage, of the filling constructors and of assign, and the calls.  *)
(***************************************************************************)
EXTENDS VectorEffectProofs

(* VectorShift.                                                            *)

(* What can throw in this call does it no harm, by ContractKept.           *)
LEMMA NotSpoiled ==
  ASSUME ContractKept, IInv, fn # "idle", NEW what \in MayThrow
  PROVE  call.op \notin Spoiled(what)
         /\ (what # "alloc" => MayEndWith("exception"))
  BY DEF ContractKept, IInv, CallValid, MayEndWith

LEMMA LoopSpec ==
  ASSUME IInv, CallSpec, TempSpec, fn # "idle", NEW f, NEW c, Loop(f, c),
         f \notin {"entry", "temp"} \cup ReallocFns,
         FillSpec', ShiftSpec', EraseSpec'
  PROVE  Good
<1>1. fn' = f /\ UNCHANGED <<mem, call, before, temp>>
  BY DEF Loop, memory
<1>2. Running
  BY <1>1, CallFacts DEF Running
<1> QED
  BY <1>1, <1>2, Elsewhere, GoesOn

LEMMA ConstructTempSpec ==
  ASSUME ContractKept, IInv, SpecInv, ConstructTemp PROVE Good
<1>1. /\ fn = "temp" /\ fn # "idle" /\ CallSpec /\ Shows(before)
      /\ call.op \in InsertOneOps \cup {"insert_n"}
      /\ call.op \in {"insert", "emplace"} => call.pos < m_finish
  BY DEF ConstructTemp, SpecInv, EntrySpec, IInv, NewTempValid
<1>2. /\ new_start \in Block /\ new_start # m_start /\ new_start # Null
      /\ m_finish \in Nat /\ call.n \in Nat /\ call.n > 0 /\ call.pos \in Nat
      /\ call.pos <= m_finish
      /\ call.op \in {"insert", "emplace", "insert_n"} => m_finish + call.n <= m_eos
  BY <1>1, CallNumbers, Stored, Sizes, StateAssumption DEF IInv, NewTempValid
<1>3. /\ mem' = [mem EXCEPT ![new_start][0] = Argument]
      /\ temp' = new_start
      /\ IF call.op = "insert_rv" THEN fn' = "entry"
         ELSE fn' = "shift" /\ i' = LastShifted
      /\ UNCHANGED <<m_start, m_finish, call, before>>
  BY DEF ConstructTemp, vec
<1>4. Running
  BY <1>1, <1>3, CallFacts DEF Running
<1>5. Argument = Given
  <2>1. call.op \notin RangeOps
    BY <1>1 DEF InsertOneOps, RangeOps, InputOps
  <2>2. \A j \in 0 .. (Len(before) - 1) : mem[m_start][j] = before[j + 1]
    BY <1>1 DEF Shows
  <2> QED
    BY <1>1, <2>1, <2>2, ArgumentIsGiven
<1>6. TempSpec'
  <2>1. mem'[temp'][0] = Given
    BY <1>2, <1>3, <1>5, Stored, Sizes DEF MemoryType, Slot
  <2> QED
    BY <1>4, <2>1, SameCall DEF TempSpec
<1>7. \A s \in 0 .. (m_finish - 1) : mem'[m_start][s] = before[s + 1]
  BY <1>1, <1>2, <1>3, Stored, StoredElement DEF Shows, MemoryType
<1>8. Shows(before)'
  BY <1>1, <1>3, <1>7 DEF Shows
<1>9. CASE call.op = "insert_rv"
  <2>1. EntrySpec'
    BY <1>3, <1>8, <1>9 DEF EntrySpec
  <2> QED
    BY <1>1, <1>3, <1>4, <1>6, <1>9, <2>1, Elsewhere, SameCall
       DEF Good, SpecInv, ReallocFns
<1>10. CASE call.op # "insert_rv"
  <2>1. i' = m_finish + call.n - 1 /\ fn' = "shift"
    BY <1>1, <1>2, <1>3, <1>10, LastShiftedExact, Stored, Sizes DEF InsertOneOps
  <2>2. ASSUME NEW s \in call.pos .. (m_finish - 1)
        PROVE  mem'[m_start][IF s + call.n > i' THEN s + call.n ELSE s] = before[s + 1]
    BY <1>2, <1>7, <2>1
  <2>3. \A s \in 0 .. (call.pos - 1) : mem'[m_start][s] = before[s + 1]
    BY <1>2, <1>7
  <2>4. m_finish = Len(before)
    BY <1>1 DEF Shows
  <2>5. ShiftSpec'
    BY <1>1, <1>2, <1>3, <1>10, <2>1, <2>2, <2>3, <2>4 DEF ShiftSpec, InsertOneOps
  <2> QED
    BY <1>1, <1>3, <1>4, <1>6, <2>1, <2>5, Elsewhere, SameCall
       DEF Good, SpecInv, ReallocFns
<1> QED
  BY <1>9, <1>10

LEMMA ConstructTempThrowsSpec ==
  ASSUME ContractKept, IInv, SpecInv, ConstructTempThrows PROVE Good
<1>1. /\ fn = "temp" /\ fn # "idle" /\ TempCopied \in MayThrow /\ Finish("exception")
  BY DEF ConstructTempThrows
<1>2. CallSpec /\ Shows(before)
  BY <1>1 DEF SpecInv, EntrySpec
<1>3. MayEndWith("exception")
  BY <1>1, NotSpoiled DEF TempCopied
<1> QED
  BY <1>1, <1>2, <1>3, FinishFails

(* One element is written where none of those that matter is.              *)
LEMMA Written ==
  ASSUME IInv, m_start \in Block, NEW x \in Slot, NEW v,
         mem' = [mem EXCEPT ![m_start][x] = v]
  PROVE  /\ \A s \in Slot : mem'[m_start][s] = IF s = x THEN v ELSE mem[m_start][s]
         /\ temp # Null => mem'[temp][0] = mem[temp][0]
<1>1. temp # Null => temp \in Block /\ temp # m_start
  BY DEF IInv, TypeOK, TempValid
<1> QED
  BY <1>1, Stored DEF MemoryType

LEMMA FillEndSpec ==
  ASSUME ContractKept, IInv, SpecInv, FillEnd PROVE Good
<1>1. /\ fn = "fill_end" /\ i < call.n /\ fn # "idle"
      /\ mem' = [mem EXCEPT ![m_start][m_finish] = Argument]
      /\ m_finish' = m_finish + 1 /\ i' = i + 1 /\ fn' = "fill_end"
      /\ UNCHANGED <<m_start, call, before, temp>>
  BY DEF FillEnd
<1>2. /\ CallSpec /\ TempSpec /\ call.op = "insert_n" /\ call.pos = Len(before)
      /\ m_finish = Len(before) + i
      /\ \A s \in 0 .. (Len(before) - 1) : mem[m_start][s] = before[s + 1]
      /\ \A s \in Len(before) .. (m_finish - 1) : mem[m_start][s] = Given
  BY <1>1 DEF SpecInv, FillSpec
<1>3. /\ call.n \in Nat /\ i \in Nat /\ Len(before) \in Nat /\ m_finish < m_eos
      /\ m_eos <= max_size /\ max_size \in Nat /\ m_start \in Block
      /\ m_finish \in Nat /\ m_finish \in Slot
  <2>1. /\ i \in Nat /\ call.n \in Nat /\ Len(before) \in Nat
        /\ m_finish + (call.n - i) <= m_eos
    BY <1>1, <1>2, CallFacts, CallNumbers
       DEF IInv, FillValid, TypeOK, SizeType, SizeTypeMod
  <2>2. m_finish \in Nat /\ m_eos \in Nat /\ m_eos <= max_size /\ max_size \in Nat
    BY Stored, Sizes
  <2>3. i < call.n
    BY <1>1
  <2>4. m_finish < m_eos
    BY <2>1, <2>2, <2>3
  <2> QED
    BY <2>1, <2>2, <2>4, Stored DEF Slot
<1>4. Argument = Given
  BY <1>1, <1>2, ArgumentIsGiven DEF RangeOps, InputOps
<1>5. Running
  BY <1>1, <1>2, CallFacts DEF Running
<1>6. /\ \A s \in Slot :
           mem'[m_start][s] = IF s = m_finish THEN Given ELSE mem[m_start][s]
      /\ temp # Null => mem'[temp][0] = mem[temp][0]
  BY <1>1, <1>3, <1>4, Written
<1>7. \A s \in 0 .. (Len(before) - 1) : mem'[m_start][s] = before[s + 1]
  BY <1>2, <1>3, <1>6 DEF Slot
<1>8. \A s \in Len(before) .. (m_finish' - 1) : mem'[m_start][s] = Given
  BY <1>1, <1>2, <1>3, <1>6 DEF Slot
<1>9. FillSpec'
  BY <1>1, <1>2, <1>3, <1>5, <1>7, <1>8, SameCall DEF FillSpec
<1> QED
  BY <1>1, <1>2, <1>5, <1>6, <1>9, Elsewhere, GoesOn DEF ReallocFns

LEMMA FillEndThrowsSpec ==
  ASSUME ContractKept, IInv, SpecInv, FillEndThrows PROVE Good
<1>1. fn = "fill_end" /\ fn # "idle" /\ ArgumentCopied \in MayThrow
  BY DEF FillEndThrows
<1>2. call.op = "insert_n" /\ ArgumentCopied = "copy"
  BY <1>1 DEF SpecInv, FillSpec, ArgumentCopied
<1> QED
  BY <1>1, <1>2, NotSpoiled DEF Spoiled

LEMMA FillEndDoneSpec ==
  ASSUME ContractKept, IInv, SpecInv, FillEndDone PROVE Good
<1>1. fn = "fill_end" /\ i = call.n /\ fn # "idle" /\ Finish("ok")
  BY DEF FillEndDone
<1>2. /\ CallSpec /\ call.op = "insert_n" /\ call.pos = Len(before)
      /\ m_finish = Len(before) + call.n
      /\ \A s \in 0 .. (Len(before) - 1) : mem[m_start][s] = before[s + 1]
      /\ \A s \in Len(before) .. (m_finish - 1) : mem[m_start][s] = Given
  BY <1>1 DEF SpecInv, FillSpec
<1>3. /\ call.n \in Nat /\ Len(before) \in Nat /\ m_finish <= max_size
      /\ max_size \in Nat
  BY <1>1, <1>2, CallFacts, Stored, Sizes
<1>4. ~TooMuch
  BY <1>2, <1>3 DEF TooMuch, SizedOps, BuildOps, AssignOps
<1>5. /\ Listed(Abstract!Effect, m_finish)
      /\ \A x \in 1 .. m_finish :
           Abstract!Effect[x] = IF x <= Len(before) THEN before[x] ELSE Given
  <2>1. call.op \in Insertions \cup AppendOps /\ \A k : Wanted(k) = Given
    BY <1>2 DEF Insertions, Wanted, RangeOps, InputOps
  <2> QED
    BY <1>1, <1>2, <1>3, <2>1, InsertEffect
<1>6. ASSUME NEW x \in 1 .. m_finish PROVE Abstract!Effect[x] = mem[m_start][x - 1]
  <2>1. /\ x - 1 \in 0 .. (m_finish - 1) /\ (x - 1) + 1 = x
        /\ x <= Len(before) => x - 1 \in 0 .. (Len(before) - 1)
        /\ ~(x <= Len(before)) => x - 1 \in Len(before) .. (m_finish - 1)
    BY <1>2, <1>3
  <2> QED
    BY <1>2, <1>5, <2>1
<1> QED
  BY <1>1, <1>2, <1>4, <1>5, <1>6, FinishReturns

LEMMA ResizeNumbers ==
  ASSUME IInv, SpecInv, fn = "resize_in"
  PROVE  /\ fn # "idle" /\ CallSpec /\ TempSpec
         /\ call.op \in {"resize", "resize_v"} /\ Shows(before)
         /\ \A s \in m_finish .. (i - 1) : mem[m_start][s] = Given
         /\ m_finish = Len(before) /\ Argument = Given
         /\ m_finish \in Nat /\ i \in Nat /\ call.n \in Nat /\ max_size \in Nat
         /\ m_finish <= i /\ i <= call.n /\ call.n <= max_size
         /\ m_start \in Block /\ m_start # Null
<1>1. /\ fn # "idle" /\ CallSpec /\ TempSpec
      /\ call.op \in {"resize", "resize_v"} /\ Shows(before)
      /\ \A s \in m_finish .. (i - 1) : mem[m_start][s] = Given
  BY DEF SpecInv, FillSpec
<1>2. i \in Nat /\ m_finish <= i /\ i <= call.n /\ 0 < call.n /\ call.n <= m_eos
  BY DEF IInv, FillValid, TypeOK, SizeType, SizeTypeMod
<1>3. m_finish \in Nat /\ call.n \in Nat /\ max_size \in Nat /\ m_eos <= max_size
      /\ m_eos \in Nat
  BY <1>1, Stored, Sizes, CallNumbers
<1>4. m_start \in Block /\ m_start # Null /\ call.n <= max_size
  BY <1>2, <1>3, Stored, StateAssumption
<1>5. Argument = Given
  <2>1. \A j \in 0 .. (Len(before) - 1) : mem[m_start][j] = before[j + 1]
    BY <1>1 DEF Shows
  <2> QED
    BY <1>1, <2>1, ArgumentIsGiven DEF RangeOps, InputOps
<1> QED
  BY <1>1, <1>2, <1>3, <1>4, <1>5 DEF Shows

LEMMA ResizeInSpec ==
  ASSUME ContractKept, IInv, SpecInv, ResizeIn PROVE Good
<1>1. /\ fn = "resize_in" /\ i < call.n
      /\ mem' = [mem EXCEPT ![m_start][i] = Argument]
      /\ i' = i + 1 /\ fn' = "resize_in"
      /\ UNCHANGED <<m_start, m_finish, call, before, temp>>
  BY DEF ResizeIn, vec
<1>2. /\ fn # "idle" /\ CallSpec /\ TempSpec
      /\ call.op \in {"resize", "resize_v"} /\ Shows(before)
      /\ \A s \in m_finish .. (i - 1) : mem[m_start][s] = Given
      /\ Argument = Given /\ m_finish <= i
      /\ m_finish \in Nat /\ i \in Nat /\ m_start \in Block
  BY <1>1, ResizeNumbers
<1>3. i \in Slot
  BY <1>1, ResizeNumbers DEF Slot
<1>4. Running
  BY <1>1, <1>2, CallFacts DEF Running
<1>5. /\ \A s \in Slot : mem'[m_start][s] = IF s = i THEN Given ELSE mem[m_start][s]
      /\ temp # Null => mem'[temp][0] = mem[temp][0]
  BY <1>1, <1>2, <1>3, Written
<1>6. \A s \in 0 .. i : s \in Slot
  BY <1>2, <1>3, Sizes DEF Slot
<1>7. ASSUME NEW s \in m_finish .. i PROVE mem'[m_start][s] = Given
  <2>1. s \in 0 .. i /\ (s = i \/ s \in m_finish .. (i - 1))
    BY <1>2
  <2> QED
    BY <1>2, <1>5, <1>6, <2>1
<1>8. Shows(before)'
  <2>1. \A s \in 0 .. (m_finish - 1) : s \in 0 .. i /\ s # i
    BY <1>2
  <2>2. \A s \in 0 .. (m_finish - 1) : mem'[m_start][s] = mem[m_start][s]
    BY <1>5, <1>6, <2>1
  <2> QED
    BY <1>1, <1>2, <2>2 DEF Shows
<1>9. FillSpec'
  <2>1. i' - 1 = i
    BY <1>1, <1>2
  <2> QED
    BY <1>1, <1>2, <1>4, <1>7, <1>8, <2>1, SameCall DEF FillSpec
<1> QED
  BY <1>1, <1>2, <1>4, <1>5, <1>9, Elsewhere, GoesOn DEF ReallocFns

LEMMA ResizeInThrowsSpec ==
  ASSUME ContractKept, IInv, SpecInv, ResizeInThrows PROVE Good
<1> DEFINE m == Destroyed(m_start, m_finish .. (i - 1))
<1>1. fn = "resize_in" /\ ArgumentCopied \in MayThrow
      /\ m_start' = m_start /\ m_finish' = m_finish
  BY DEF ResizeInThrows, vec
<1>2. PICK f : EndCall(m, blk, f, "exception")
  BY DEF ResizeInThrows
<1>3. /\ fn # "idle" /\ CallSpec /\ Shows(before) /\ m_finish = Len(before)
      /\ m_start \in Block /\ m_start # Null /\ m_finish \in Nat
  BY <1>1, ResizeNumbers
<1>4. m \in MemoryType /\ \A x \in 1 .. m_finish : m[m_start][x - 1] = mem[m_start][x - 1]
  <2>1. \A x \in 1 .. m_finish : x - 1 \in Slot /\ x - 1 \notin m_finish .. (i - 1)
    BY <1>1, ResizeNumbers DEF Slot
  <2> QED
    BY <1>3, <2>1, Stored DEF Destroyed, MemoryType, Cell
<1> HIDE DEF m
<1>5. MayEndWith("exception")
  BY <1>1, <1>3, NotSpoiled DEF ArgumentCopied
<1>6. \A x \in 1 .. m_finish : before[x] = m[m_start][x - 1]
  BY <1>3, <1>4, ShowsBefore
<1> QED
  BY <1>1, <1>2, <1>3, <1>4, <1>5, <1>6, TempApart, Fails

LEMMA ResizeInDoneSpec ==
  ASSUME ContractKept, IInv, SpecInv, ResizeInDone PROVE Good
<1>1. /\ fn = "resize_in" /\ i = call.n /\ EndCall(mem, blk, {}, "ok")
      /\ m_finish' = call.n /\ m_start' = m_start
  BY DEF ResizeInDone
<1>2. /\ fn # "idle" /\ CallSpec /\ call.op \in {"resize", "resize_v"}
      /\ Shows(before) /\ m_finish = Len(before)
      /\ \A s \in m_finish .. (call.n - 1) : mem[m_start][s] = Given
      /\ m_finish \in Nat /\ call.n \in Nat /\ max_size \in Nat /\ call.n <= max_size
      /\ m_finish <= call.n /\ m_start \in Block /\ m_start # Null
  BY <1>1, ResizeNumbers
<1>3. ~TooMuch
  BY <1>2 DEF TooMuch, Insertions, InsertOneOps, AppendOps
<1>4. ASSUME NEW x \in 1 .. call.n PROVE Abstract!Effect[x] = mem[m_start][x - 1]
  <2>1. Abstract!Effect[x] = IF x <= Len(before) THEN before[x] ELSE Given
    BY <1>2, ResizeEffect
  <2>2. /\ (x - 1) + 1 = x
        /\ x <= Len(before) => x \in 1 .. m_finish
        /\ ~(x <= Len(before)) => x - 1 \in m_finish .. (call.n - 1)
    BY <1>2
  <2> QED
    BY <1>2, <2>1, <2>2, ShowsBefore
<1>5. Listed(Abstract!Effect, call.n)
  BY <1>2, ResizeEffect
<1> QED
  BY <1>1, <1>2, <1>3, <1>4, <1>5, TempApart, Stored, Returns

LEMMA ShiftFacts ==
  ASSUME IInv, SpecInv, fn \in {"shift", "place"}
  PROVE  /\ fn # "idle" /\ CallSpec /\ TempSpec /\ ShiftSpec
         /\ m_finish = Len(before) /\ max_size \in Nat /\ m_eos <= max_size
         /\ m_eos \in Nat
         /\ \A s \in 0 .. (call.pos - 1) : mem[m_start][s] = before[s + 1]
  BY Sizes, ShiftNumbers DEF SpecInv, ShiftSpec

LEMMA ShiftStepSpec ==
  ASSUME ContractKept, IInv, SpecInv, Shift PROVE Good
<1> DEFINE v == mem[m_start][i - call.n]
           how == IF i < m_finish THEN "move" ELSE ShiftConstructs
           w == Left(how, v)
<1>1. fn = "shift" /\ gap <= i
  BY CallNumbers DEF Shift, IInv, TypeOK, SizeType, SizeTypeMod
<1>2. /\ m_start \in Block /\ i \in Nat /\ call.n \in Nat /\ call.n > 0
      /\ call.pos \in Nat /\ gap = call.pos + call.n /\ m_finish \in Nat
      /\ call.pos <= m_finish
      /\ i < m_finish + call.n /\ m_finish + call.n <= max_size /\ max_size \in Nat
  BY <1>1, ShiftNumbers, ShiftFacts
<1>3. /\ fn # "idle" /\ CallSpec /\ TempSpec /\ ShiftSpec /\ m_finish = Len(before)
      /\ \A s \in 0 .. (call.pos - 1) : mem[m_start][s] = before[s + 1]
      /\ \A s \in call.pos .. (m_finish - 1) :
           mem[m_start][IF s + call.n > i THEN s + call.n ELSE s] = before[s + 1]
  BY <1>1, ShiftFacts DEF ShiftSpec
<1>4. /\ i \in Slot /\ i - call.n \in Slot /\ i # i - call.n
      /\ i - call.n \in call.pos .. (m_finish - 1) /\ (i - call.n) + call.n = i
      /\ i - 1 \in Nat /\ i - 1 <= 2 * max_size
  <2>1. call.pos + call.n <= i /\ i <= max_size - 1
    BY <1>1, <1>2
  <2> QED
    BY <1>2, <2>1 DEF Slot
<1>5. v = before[(i - call.n) + 1]
  <2>1. ~((i - call.n) + call.n > i)
    BY <1>2, <1>4
  <2>2. mem[m_start][IF (i - call.n) + call.n > i THEN (i - call.n) + call.n
                     ELSE i - call.n] = before[(i - call.n) + 1]
    BY <1>3, <1>4, Zenon
  <2> QED
    BY <2>1, <2>2, Zenon
<1> HIDE DEF v, w
<1>6. /\ mem' = [mem EXCEPT ![m_start][i] = v, ![m_start][i - call.n] = w]
      /\ fn' = "shift" /\ i' = Wrap(i - 1)
      /\ UNCHANGED <<m_start, m_finish, call, before, temp>>
  BY <1>1 DEF Shift, vec, v, w, how
<1>7. i' = i - 1
  BY <1>4, <1>6, Sizes DEF Wrap, SizeTypeMod
<1>8. \A s \in Slot : mem'[m_start][s] = IF s = i THEN v
                                         ELSE IF s = i - call.n THEN w
                                         ELSE mem[m_start][s]
  BY <1>2, <1>4, <1>6, Stored DEF MemoryType
<1>9. temp # Null => mem'[temp][0] = mem[temp][0]
  <2>1. temp # Null => temp \in Block /\ temp # m_start
    BY DEF IInv, TypeOK, TempValid
  <2> QED
    BY <1>2, <1>6, <2>1, Stored DEF MemoryType
<1>10. Running
  BY <1>3, <1>6, CallFacts DEF Running
<1>11. \A s \in 0 .. (call.pos - 1) : mem'[m_start][s] = before[s + 1]
  <2> SUFFICES ASSUME NEW s \in 0 .. (call.pos - 1)
               PROVE  mem'[m_start][s] = before[s + 1]
    OBVIOUS
  <2>1. s \in Slot /\ s # i /\ s # i - call.n
    BY <1>1, <1>2 DEF Slot
  <2> QED
    BY <1>3, <1>8, <2>1
<1>12. ASSUME NEW s \in call.pos .. (m_finish - 1)
       PROVE  mem'[m_start][IF s + call.n > i' THEN s + call.n ELSE s] = before[s + 1]
  <2>1. CASE s = i - call.n
    <3>1. s + call.n = i /\ s + call.n > i'
      BY <1>2, <1>4, <1>7, <2>1
    <3> QED
      BY <1>4, <1>5, <1>8, <2>1, <3>1
  <2>2. CASE s + call.n > i
    <3>1. /\ s + call.n > i' /\ s + call.n \in Slot
          /\ s + call.n # i /\ s + call.n # i - call.n
      BY <1>2, <1>7, <2>2 DEF Slot
    <3> QED
      BY <1>3, <1>8, <2>2, <3>1
  <2>3. CASE s + call.n < i
    <3>1. ~(s + call.n > i') /\ ~(s + call.n > i) /\ s \in Slot
          /\ s # i /\ s # i - call.n
      BY <1>2, <1>7, <2>3 DEF Slot
    <3> QED
      BY <1>3, <1>8, <3>1
  <2>4. s = i - call.n \/ s + call.n > i \/ s + call.n < i
    BY <1>2
  <2> QED
    BY <2>1, <2>2, <2>3, <2>4
<1>13. ShiftSpec'
  <2>1. /\ m_finish = Len(before)
        /\ call.op \in InsertOneOps => call.pos < m_finish
        /\ call.op \in {"insert", "emplace"} => temp # Null
    BY <1>1, <1>3 DEF ShiftSpec
  <2> QED
    BY <1>6, <1>11, <1>12, <2>1 DEF ShiftSpec
<1> QED
  BY <1>3, <1>6, <1>9, <1>10, <1>13, Elsewhere, GoesOn DEF ReallocFns

LEMMA ShiftThrowsSpec ==
  ASSUME ContractKept, IInv, SpecInv, ShiftThrows PROVE Good
<1>1. /\ fn = "shift" /\ fn # "idle"
      /\ (IF i < m_finish THEN "assign" ELSE ShiftConstructs) \in MayThrow
  BY DEF ShiftThrows
<1>2. call.op \in InsertOneOps \cup {"insert_n", "insert_range"}
  BY <1>1, ShiftNumbers
<1>3. call.op \notin Spoiled(IF i < m_finish THEN "assign" ELSE ShiftConstructs)
  BY <1>1, NotSpoiled
<1>4. NothrowMove => "move" \notin MayThrow
  BY StateAssumption
<1>5. CASE i < m_finish
  BY <1>2, <1>3, <1>5 DEF Spoiled
<1>6. CASE ~(i < m_finish) /\ call.op \in {"emplace", "insert_range"}
  <2>1. ~NothrowMove /\ ShiftConstructs = "copy"
    BY <1>1, <1>4, <1>6 DEF ShiftConstructs, MoveIfNoexcept
  <2> QED
    BY <1>3, <1>6, <2>1 DEF Spoiled
<1>7. CASE ~(i < m_finish) /\ call.op \notin {"emplace", "insert_range"}
  <2>1. ShiftConstructs = "move" /\ call.op \in {"insert", "insert_rv", "insert_n"}
    BY <1>2, <1>7 DEF ShiftConstructs, InsertOneOps
  <2> QED
    BY <1>3, <1>7, <2>1 DEF Spoiled
<1> QED
  BY <1>5, <1>6, <1>7

LEMMA ShiftDoneSpec ==
  ASSUME ContractKept, IInv, SpecInv, ShiftDone PROVE Good
<1>1. fn = "shift" /\ i < gap /\ Loop("place", call.pos)
  BY DEF ShiftDone
<1>2. /\ i \in Nat /\ call.n \in Nat /\ call.pos \in Nat /\ gap = call.pos + call.n
      /\ m_finish \in Nat
  BY <1>1, ShiftNumbers
<1>3. /\ fn # "idle" /\ CallSpec /\ TempSpec /\ ShiftSpec
      /\ \A s \in call.pos .. (m_finish - 1) :
           mem[m_start][IF s + call.n > i THEN s + call.n ELSE s] = before[s + 1]
  BY <1>1, ShiftFacts DEF ShiftSpec
<1>4. fn' = "place" /\ i' = call.pos
      /\ UNCHANGED <<mem, m_start, m_finish, call, before, temp>>
  BY <1>1 DEF Loop, memory, vec
<1>5. \A s \in call.pos .. (m_finish - 1) : mem[m_start][s + call.n] = before[s + 1]
  BY <1>1, <1>2, <1>3
<1>6. \A s \in call.pos .. (call.pos - 1) : FALSE
  BY <1>2
<1>7. ShiftSpec'
  BY <1>1, <1>3, <1>4, <1>5, <1>6 DEF ShiftSpec
<1> QED
  BY <1>1, <1>3, <1>4, <1>7, Elsewhere, LoopSpec DEF ReallocFns

LEMMA PlacedIsWanted ==
  ASSUME ContractKept, IInv, SpecInv, Place PROVE Placed = Wanted(i - call.pos)
<1>1. fn \in {"shift", "place"}
  BY DEF Place
<1>2. /\ fn # "idle" /\ CallSpec /\ TempSpec /\ ShiftSpec
      /\ call.op \in InsertOneOps \cup {"insert_n", "insert_range"}
  BY <1>1, ShiftFacts, ShiftNumbers
<1>3. CASE call.op = "insert_range"
  BY <1>3 DEF Placed, Item, Wanted, RangeOps
<1>4. CASE call.op # "insert_range"
  <2>1. call.op \notin RangeOps /\ \A k : Wanted(k) = Given
    BY <1>2, <1>4 DEF Wanted, RangeOps, InputOps, InsertOneOps
  <2>2. call.op \in {"insert", "emplace"} => temp # Null
    BY <1>1, <1>2 DEF ShiftSpec
  <2>3. call.op \in {"insert_n", "insert_rv"} => Argument = Given
    <3>1. call.op \in {"insert_n", "insert_rv"} => call.op \notin SelfArg
      BY SelfArgAssumption DEF ContractKept, SelfSpoiled
    <3> QED
      BY <1>2, <2>1, <3>1, GivenIsArgument DEF Argument
  <2>4. temp # Null => TempValue = Given
    BY <1>2 DEF TempSpec, TempValue
  <2> QED
    BY <1>2, <1>4, <2>1, <2>2, <2>3, <2>4 DEF Placed, OneElement, InsertOneOps
<1> QED
  BY <1>3, <1>4

LEMMA PlaceSpec ==
  ASSUME ContractKept, IInv, SpecInv, Place PROVE Good
<1> DEFINE v == Placed
<1>1. fn = "place" /\ i < gap /\ v = Wanted(i - call.pos)
  BY PlacedIsWanted DEF Place
<1> HIDE DEF v
<1>2. /\ mem' = [mem EXCEPT ![m_start][i] = v]
      /\ fn' = "place" /\ i' = i + 1
      /\ UNCHANGED <<m_start, m_finish, call, before, temp>>
  BY DEF Place, vec, v
<1>3. /\ m_start \in Block /\ i \in Nat /\ call.n \in Nat /\ call.n > 0
      /\ call.pos \in Nat /\ gap = call.pos + call.n /\ m_finish \in Nat
      /\ call.pos <= m_finish /\ call.pos <= i
      /\ m_finish + call.n <= max_size /\ max_size \in Nat
  BY <1>1, ShiftNumbers, ShiftFacts
<1>4. /\ fn # "idle" /\ CallSpec /\ TempSpec /\ ShiftSpec /\ m_finish = Len(before)
      /\ \A s \in 0 .. (call.pos - 1) : mem[m_start][s] = before[s + 1]
      /\ \A s \in call.pos .. (m_finish - 1) : mem[m_start][s + call.n] = before[s + 1]
      /\ \A s \in call.pos .. (i - 1) : mem[m_start][s] = Wanted(s - call.pos)
  BY <1>1, ShiftFacts DEF ShiftSpec
<1>5. i \in Slot
  BY <1>1, <1>3 DEF Slot
<1>6. /\ \A s \in Slot : mem'[m_start][s] = IF s = i THEN v ELSE mem[m_start][s]
      /\ temp # Null => mem'[temp][0] = mem[temp][0]
  BY <1>2, <1>3, <1>5, Written
<1>7. Running
  BY <1>2, <1>4, CallFacts DEF Running
<1>8. \A s \in 0 .. (call.pos - 1) : mem'[m_start][s] = before[s + 1]
  BY <1>3, <1>4, <1>5, <1>6 DEF Slot
<1>9. ASSUME NEW s \in call.pos .. (m_finish - 1)
      PROVE  mem'[m_start][s + call.n] = before[s + 1]
  <2>1. s + call.n \in Slot /\ s + call.n # i
    BY <1>1, <1>3 DEF Slot
  <2> QED
    BY <1>4, <1>6, <2>1
<1>10. ASSUME NEW s \in call.pos .. (i' - 1)
       PROVE  mem'[m_start][s] = Wanted(s - call.pos)
  <2>1. s \in Slot /\ (s = i \/ (s \in call.pos .. (i - 1) /\ s # i))
    <3>1. s \in Int /\ call.pos <= s /\ s <= i
      BY <1>2, <1>3
    <3>2. i <= max_size - 1
      BY <1>3, <1>5 DEF Slot
    <3>3. s \in Slot
      BY <1>3, <3>1, <3>2 DEF Slot
    <3> QED
      BY <1>3, <3>1, <3>3
  <2> QED
    BY <1>1, <1>4, <1>6, <2>1
<1>11. ShiftSpec'
  <2>1. \A k : Wanted(k)' = Wanted(k)
    BY <1>7, SameCall
  <2> QED
    BY <1>1, <1>2, <1>4, <1>8, <1>9, <1>10, <2>1 DEF ShiftSpec
<1> QED
  BY <1>2, <1>4, <1>6, <1>7, <1>11, Elsewhere, GoesOn DEF ReallocFns

LEMMA PlaceThrowsSpec ==
  ASSUME ContractKept, IInv, SpecInv, PlaceThrows PROVE Good
<1>1. /\ fn = "place" /\ fn # "idle" /\ i < gap
      /\ (IF i < m_finish THEN "assign" ELSE "copy") \in MayThrow
  BY DEF PlaceThrows
<1>2. /\ call.op \in InsertOneOps \cup {"insert_n", "insert_range"}
      /\ i \in Nat /\ call.pos \in Nat /\ gap = call.pos + call.n /\ call.pos <= i
  BY <1>1, ShiftNumbers
<1>3. call.op \notin Spoiled(IF i < m_finish THEN "assign" ELSE "copy")
  BY <1>1, NotSpoiled
<1>4. call.op \in InsertOneOps => i < m_finish
  <2>1. call.op \in InsertOneOps => call.n = 1 /\ call.pos < m_finish
    BY <1>1, ShiftFacts, CallFacts DEF CallSpec, ShiftSpec
  <2> QED
    BY <1>1, <1>2, <2>1
<1> QED
  BY <1>2, <1>3, <1>4 DEF Spoiled

LEMMA PlaceDoneSpec ==
  ASSUME ContractKept, IInv, SpecInv, PlaceDone PROVE Good
<1>1. /\ fn = "place" /\ i = gap /\ EndCall(mem, blk, {}, "ok")
      /\ m_finish' = m_finish + call.n /\ m_start' = m_start
  BY DEF PlaceDone
<1>2. /\ m_start \in Block /\ m_start # Null /\ call.n \in Nat
      /\ call.pos \in Nat /\ gap = call.pos + call.n /\ m_finish \in Nat
      /\ call.pos <= m_finish
      /\ m_finish + call.n <= max_size /\ max_size \in Nat
      /\ call.op \in InsertOneOps \cup {"insert_n", "insert_range"}
  BY <1>1, ShiftNumbers, ShiftFacts
<1>3. /\ fn # "idle" /\ CallSpec /\ m_finish = Len(before)
      /\ \A s \in 0 .. (call.pos - 1) : mem[m_start][s] = before[s + 1]
      /\ \A s \in call.pos .. (m_finish - 1) : mem[m_start][s + call.n] = before[s + 1]
      /\ \A s \in call.pos .. (gap - 1) : mem[m_start][s] = Wanted(s - call.pos)
  BY <1>1, ShiftFacts DEF ShiftSpec
<1>4. call.op \in Insertions \cup AppendOps
  BY <1>2 DEF Insertions
<1>5. ~TooMuch
  BY <1>2, <1>3 DEF TooMuch, SizedOps, BuildOps, AssignOps, InsertOneOps
<1>6. ASSUME NEW x \in 1 .. (m_finish + call.n)
      PROVE  Abstract!Effect[x] = mem[m_start][x - 1]
  <2>1. Abstract!Effect[x] = IF x <= call.pos THEN before[x]
                             ELSE IF x <= call.pos + call.n THEN Wanted(x - call.pos - 1)
                             ELSE before[x - call.n]
    BY <1>3, <1>4, InsertEffect
  <2>2. CASE x <= call.pos
    <3>1. x - 1 \in 0 .. (call.pos - 1) /\ (x - 1) + 1 = x
      BY <1>2, <2>2
    <3> QED
      BY <1>3, <2>1, <2>2, <3>1
  <2>3. CASE x > call.pos /\ x <= call.pos + call.n
    <3>1. /\ x - 1 \in call.pos .. (gap - 1) /\ x - 1 - call.pos = x - call.pos - 1
          /\ ~(x <= call.pos)
      BY <1>2, <2>3
    <3> QED
      BY <1>3, <2>1, <2>3, <3>1
  <2>4. CASE x > call.pos + call.n
    <3>1. /\ x - call.n - 1 \in call.pos .. (m_finish - 1)
          /\ (x - call.n - 1) + call.n = x - 1
          /\ (x - call.n - 1) + 1 = x - call.n
          /\ ~(x <= call.pos) /\ ~(x <= call.pos + call.n)
      BY <1>2, <2>4
    <3> QED
      BY <1>3, <2>1, <3>1
  <2> QED
    BY <1>2, <2>2, <2>3, <2>4
<1>7. Listed(Abstract!Effect, m_finish + call.n)
  BY <1>3, <1>4, InsertEffect
<1> QED
  BY <1>1, <1>2, <1>3, <1>5, <1>6, <1>7, TempApart, Stored, Returns

LEMMA EraseFacts ==
  ASSUME IInv, SpecInv, fn = "erase"
  PROVE  /\ fn # "idle" /\ CallSpec /\ TempSpec
         /\ call.op = "erase" /\ m_finish = Len(before)
         /\ \A s \in 0 .. (call.pos - 1) : mem[m_start][s] = before[s + 1]
         /\ \A s \in gap .. (m_finish - 1) :
              mem[m_start][IF s < i THEN s - call.n ELSE s] = before[s + 1]
  BY DEF SpecInv, EraseSpec

LEMMA EraseShiftSpec ==
  ASSUME ContractKept, IInv, SpecInv, EraseShift PROVE Good
<1> DEFINE v == mem[m_start][i]
           to == i - call.n
<1>1. fn = "erase" /\ i < m_finish
  BY DEF EraseShift
<1>2. /\ i \in Nat /\ call.n \in Nat /\ call.n > 0 /\ call.pos \in Nat
      /\ gap = call.pos + call.n /\ gap <= i /\ m_finish \in Nat
      /\ m_finish <= max_size /\ max_size \in Nat
  BY <1>1, EraseNumbers, Stored, Sizes
<1>3. /\ fn # "idle" /\ CallSpec /\ TempSpec
      /\ call.op = "erase" /\ m_finish = Len(before)
      /\ \A s \in 0 .. (call.pos - 1) : mem[m_start][s] = before[s + 1]
      /\ \A s \in gap .. (m_finish - 1) :
           mem[m_start][IF s < i THEN s - call.n ELSE s] = before[s + 1]
  BY <1>1, EraseFacts
<1>4. /\ i \in gap .. (m_finish - 1) /\ i \in Slot /\ to \in Slot /\ i # to
      /\ call.pos <= to /\ m_start \in Block
  <2>1. i \in 0 .. (m_finish - 1)
    BY <1>1, <1>2
  <2> QED
    BY <1>1, <1>2, <2>1, StoredElement DEF Slot
<1>5. v = before[i + 1]
  <2>1. mem[m_start][IF i < i THEN i - call.n ELSE i] = before[i + 1]
    BY <1>3, <1>4, Zenon
  <2>2. ~(i < i)
    BY <1>2
  <2> QED
    BY <2>1, <2>2, Zenon
<1> HIDE DEF v
<1>6. /\ mem' = [mem EXCEPT ![m_start][to] = v, ![m_start][i] = Moved]
      /\ fn' = "erase" /\ i' = i + 1
      /\ UNCHANGED <<m_start, m_finish, call, before, temp>>
  BY DEF EraseShift, vec, v
<1>7. \A s \in Slot : mem'[m_start][s] = IF s = i THEN Moved
                                         ELSE IF s = to THEN v ELSE mem[m_start][s]
  BY <1>4, <1>6, Stored DEF MemoryType
<1>8. temp # Null => mem'[temp][0] = mem[temp][0]
  <2>1. temp # Null => temp \in Block /\ temp # m_start
    BY DEF IInv, TypeOK, TempValid
  <2> QED
    BY <1>4, <1>6, <2>1, Stored DEF MemoryType
<1>9. Running
  BY <1>3, <1>6, CallFacts DEF Running
<1>10. ASSUME NEW s \in 0 .. (call.pos - 1)
       PROVE  mem'[m_start][s] = before[s + 1]
  <2>1. s \in Slot /\ s # i /\ s # to
    BY <1>2, <1>4 DEF Slot
  <2> QED
    BY <1>3, <1>7, <2>1
<1>11. ASSUME NEW s \in gap .. (m_finish - 1)
       PROVE  mem'[m_start][IF s < i' THEN s - call.n ELSE s] = before[s + 1]
  <2>0. s \in Int /\ i' = i + 1
    BY <1>2, <1>6
  <2>1. CASE s = i
    <3>1. s < i' /\ s - call.n = to
      BY <1>2, <2>0, <2>1
    <3> QED
      BY <1>4, <1>5, <1>7, <2>1, <3>1
  <2>2. CASE s < i
    <3>1. s < i' /\ s - call.n # to /\ s - call.n # i /\ s - call.n \in Slot
      BY <1>1, <1>2, <2>0, <2>2 DEF Slot
    <3>2. mem[m_start][s - call.n] = before[s + 1]
      BY <1>3, <2>2
    <3> QED
      BY <1>7, <3>1, <3>2
  <2>3. CASE s > i
    <3>1. ~(s < i') /\ ~(s < i) /\ s # to /\ s # i /\ s \in Slot
      BY <1>1, <1>2, <2>0, <2>3 DEF Slot
    <3>2. mem[m_start][s] = before[s + 1]
      BY <1>3, <3>1
    <3> QED
      BY <1>7, <3>1, <3>2
  <2> QED
    BY <1>2, <2>0, <2>1, <2>2, <2>3
<1>12. EraseSpec'
  <2>1. gap' = gap
    BY <1>6 DEF gap
  <2> QED
    BY <1>3, <1>6, <1>10, <1>11, <2>1 DEF EraseSpec
<1> QED
  BY <1>3, <1>6, <1>8, <1>9, <1>12, Elsewhere, GoesOn DEF ReallocFns

LEMMA EraseThrowsSpec ==
  ASSUME ContractKept, IInv, SpecInv, EraseThrows PROVE Good
<1>1. fn = "erase" /\ fn # "idle" /\ "assign" \in MayThrow
  BY DEF EraseThrows
<1> QED
  BY <1>1, EraseFacts, NotSpoiled DEF Spoiled

LEMMA EraseDoneSpec ==
  ASSUME ContractKept, IInv, SpecInv, EraseDone PROVE Good
<1> DEFINE n == m_finish - call.n
<1>1. fn = "erase" /\ i = m_finish /\ TruncateAndEnd(n)
  BY DEF EraseDone
<1>2. /\ call.n \in Nat /\ call.pos \in Nat /\ m_finish \in Nat
      /\ gap = call.pos + call.n /\ gap <= m_finish /\ n \in 0 .. m_finish
  BY <1>1, EraseNumbers
<1>3. /\ fn # "idle" /\ CallSpec /\ call.op = "erase" /\ m_finish = Len(before)
      /\ \A s \in 0 .. (call.pos - 1) : mem[m_start][s] = before[s + 1]
      /\ \A s \in gap .. (m_finish - 1) :
           mem[m_start][IF s < m_finish THEN s - call.n ELSE s] = before[s + 1]
  BY <1>1, EraseFacts
<1>4. ~TooMuch
  BY <1>3 DEF TooMuch, SizedOps, BuildOps, AssignOps, Insertions, InsertOneOps,
              AppendOps
<1>5. ASSUME NEW x \in 1 .. n PROVE Abstract!Effect[x] = mem[m_start][x - 1]
  <2>1. Abstract!Effect[x] = IF x <= call.pos THEN before[x] ELSE before[x + call.n]
    BY <1>3, EraseEffect
  <2>2. CASE x <= call.pos
    <3>1. x - 1 \in 0 .. (call.pos - 1) /\ (x - 1) + 1 = x
      BY <1>2, <2>2
    <3> QED
      BY <1>3, <2>1, <2>2, <3>1
  <2>3. CASE x > call.pos
    <3> DEFINE s == x + call.n - 1
    <3>1. /\ s \in gap .. (m_finish - 1) /\ s < m_finish /\ s - call.n = x - 1
          /\ s + 1 = x + call.n /\ ~(x <= call.pos)
      BY <1>2, <2>3
    <3> HIDE DEF s
    <3> QED
      BY <1>3, <2>1, <3>1
  <2> QED
    BY <1>2, <2>2, <2>3
<1>6. Listed(Abstract!Effect, n)
  BY <1>3, EraseEffect
<1> HIDE DEF n
<1> QED
  BY <1>1, <1>2, <1>3, <1>4, <1>5, <1>6, TruncateSpec

LEMMA InPlaceStepSpec ==
  ASSUME ContractKept, IInv, SpecInv, InPlaceStep PROVE Good
  BY ConstructTempSpec, ConstructTempThrowsSpec,
     FillEndSpec, FillEndThrowsSpec, FillEndDoneSpec,
     ResizeInSpec, ResizeInThrowsSpec, ResizeInDoneSpec,
     ShiftStepSpec, ShiftThrowsSpec, ShiftDoneSpec,
     PlaceSpec, PlaceThrowsSpec, PlaceDoneSpec,
     EraseShiftSpec, EraseThrowsSpec, EraseDoneSpec
     DEF InPlaceStep

-----------------------------------------------------------------------------
(* VectorAssign.                                                           *)

LEMMA EntryMovable ==
  ASSUME IInv, CallSpec, fn = "entry", call.op \notin InputOps,
         IF call.op = "assign_range" THEN m_finish = 0 ELSE Shows(before)
  PROVE  Movable
<1>1. m_finish \in Nat
  BY TempApart
<1>2. CASE call.op = "assign_range"
  BY <1>1, <1>2 DEF Movable, InputOps
<1>3. CASE call.op # "assign_range"
  BY <1>3 DEF Movable, Shows, Old
<1> QED
  BY <1>2, <1>3

(* Elements that come from outside are given the values wanted.            *)
LEMMA ItemIsWanted ==
  ASSUME IInv, CallSpec, fn # "idle", call.op \in BuildOps \cup AssignOps, NEW k
  PROVE  Item(k) = Wanted(k)
<1>1. CASE call.op \in RangeOps
  BY <1>1 DEF Item, Wanted
<1>2. CASE call.op \notin RangeOps
  <2>1. call.op \notin SelfArg
    BY SelfArgAssumption DEF BuildOps, AssignOps
  <2>2. Argument = Given
    BY <1>2, <2>1, GivenIsArgument DEF Argument
  <2> QED
    BY <1>2, <2>2 DEF Item, Wanted
<1> QED
  BY <1>1, <1>2

LEMMA SourceTooMuch ==
  ASSUME IInv, CallSpec, fn # "idle", call.op \in BuildOps \cup AssignOps
  PROVE  TooMuch <=> call.n > max_size
  BY DEF TooMuch, BuildOps, AssignOps, Insertions, InsertOneOps, AppendOps, SizedOps

LEMMA ConstructVectorSpec ==
  ASSUME ContractKept, IInv, SpecInv, ConstructVector PROVE Good
<1>1. fn = "entry" /\ fn # "idle" /\ call.op \in BuildOps /\ CallSpec /\ TempSpec
  BY DEF ConstructVector, SpecInv
<1>2. /\ m_finish = 0 /\ Shows(before) /\ call.op # "assign_range"
      /\ call.op # "reserve"
  BY <1>1 DEF IInv, EntryValid, SpecInv, EntrySpec, BuildOps
<1>3. call.n \in Nat /\ max_size \in Nat
  BY <1>1, CallFacts
<1>4. CASE call.op = "build_input"
  <2>1. Loop("append", 0)
    BY <1>1, <1>4 DEF ConstructVector
  <2>2. fn' = "append" /\ m_finish' = 0 /\ call' = call
    BY <1>2, <2>1 DEF Loop, vec
  <2>3. FillSpec'
    BY <1>1, <2>2 DEF FillSpec
  <2> QED
    BY <1>1, <2>1, <2>2, <2>3, Elsewhere, LoopSpec DEF ReallocFns
<1>5. CASE call.n = 0 /\ Finish("ok")
  <2>1. ~TooMuch
    BY <1>1, <1>3, <1>5, SourceTooMuch
  <2>2. Listed(Abstract!Effect, m_finish) /\ \A x \in 1 .. m_finish : FALSE
    BY <1>1, <1>2, <1>5, SourceEffect
  <2> QED
    BY <1>1, <1>5, <2>1, <2>2, FinishReturns
<1>6. CASE call.n > max_size /\ Finish("length_error")
  <2>1. MayEndWith("length_error")
    BY <1>1, <1>6, SourceTooMuch DEF MayEndWith, BuildOps
  <2> QED
    BY <1>1, <1>2, <1>6, <2>1, FinishFails
<1>7. CASE call.op # "build_input" /\ StartRealloc("grow", 0, 0, call.n)
  <2>1. call.op \notin InputOps
    BY <1>1, <1>7 DEF BuildOps, InputOps
  <2>2. call.op \in ReallocOps("grow") /\ Gap("grow", 0, 0)
    BY <1>1, <1>2, <2>1 DEF ReallocOps, Gap
  <2>3. Movable
    BY <1>1, <1>2, <2>1, EntryMovable
  <2> QED
    BY <1>1, <1>2, <1>7, <2>2, <2>3, StartReallocSpec DEF ReallocFns
<1> QED
  BY <1>4, <1>5, <1>6, <1>7 DEF ConstructVector

LEMMA AssignLoopSpec ==
  ASSUME IInv, CallSpec, TempSpec, fn # "idle",
         call.op \in {"assign_n", "assign_range"}, Loop("assign", 0)
  PROVE  Good
<1>1. fn' = "assign" /\ i' = 0 /\ call' = call
  BY DEF Loop
<1>2. FillSpec'
  BY <1>1 DEF FillSpec
<1> QED
  BY <1>1, <1>2, Elsewhere, LoopSpec DEF ReallocFns

LEMMA AssignFillSpec ==
  ASSUME ContractKept, IInv, SpecInv, AssignFill PROVE Good
<1>1. fn = "entry" /\ fn # "idle" /\ call.op = "assign_n" /\ CallSpec /\ TempSpec
  BY DEF AssignFill, SpecInv
<1>2. Shows(before) /\ size = m_finish
  BY <1>1, Stored DEF SpecInv, EntrySpec
<1>3. call.op \in AssignOps
  BY <1>1 DEF AssignOps
<1>4. CASE call.n > max_size /\ Finish("length_error")
  <2>1. MayEndWith("length_error")
    BY <1>1, <1>3, <1>4, SourceTooMuch DEF MayEndWith
  <2> QED
    BY <1>1, <1>2, <1>4, <2>1, FinishFails
<1>5. CASE StartRealloc("grow", size, size, call.n)
  <2>1. call.op \in ReallocOps("grow") /\ Gap("grow", size, size)
    BY <1>1, <1>2 DEF ReallocOps, Gap
  <2>2. Movable
    BY <1>1, <1>2, EntryMovable DEF InputOps
  <2> QED
    BY <1>1, <1>5, <2>1, <2>2, StartReallocSpec DEF ReallocFns
<1>6. CASE Loop("assign", 0)
  BY <1>1, <1>6, AssignLoopSpec
<1> QED
  BY <1>4, <1>5, <1>6 DEF AssignFill

(* The storage is given up at the head of assign.                          *)
LEMMA ReleaseStorageSpec ==
  ASSUME IInv, SpecInv, fn = "entry", NEW wrong, NEW f, ReleaseStorage(wrong, f),
         \/ call.op = "assign_range" /\ f = "entry"
         \/ call.op = "assign_input" /\ f = "append"
  PROVE  Good
<1>1. fn' = f /\ m_finish' = 0 /\ UNCHANGED <<call, before, temp>>
  BY DEF ReleaseStorage, PointersNull
<1>2. CallSpec /\ TempSpec /\ temp = Null
  BY DEF SpecInv, IInv, TempValid, InsertOneOps
<1>3. Running
  BY <1>1, <1>2, CallFacts DEF Running
<1>4. EntrySpec' /\ FillSpec'
  BY <1>1 DEF EntrySpec, FillSpec, AssignOps, BuildOps
<1> QED
  BY <1>1, <1>2, <1>3, <1>4, Elsewhere, GoesOn DEF ReallocFns

LEMMA AssignRangeSpec ==
  ASSUME ContractKept, IInv, SpecInv, AssignRange PROVE Good
<1>1. /\ fn = "entry" /\ fn # "idle" /\ call.op = "assign_range" /\ CallSpec
      /\ TempSpec
  BY DEF AssignRange, SpecInv
<1>2. (Shows(before) \/ m_finish = 0) /\ call.op \in AssignOps
      /\ call.op \notin InputOps
  BY <1>1 DEF SpecInv, EntrySpec, AssignOps, InputOps
<1>3. CASE call.n > max_size /\ Finish("length_error")
  <2>1. MayEndWith("length_error")
    BY <1>1, <1>2, <1>3, SourceTooMuch DEF MayEndWith
  <2>2. Throw(mem, blk, {}, "length_error") /\ UNCHANGED vec /\ Kept
    BY <1>1, <1>2, <1>3 DEF Throw, Finish, Kept
  <2> QED
    BY <1>1, <2>1, <2>2, KeptThrow
<1>4. CASE m_start = Null /\ StartRealloc("grow", 0, 0, call.n)
  <2>1. m_finish = 0
    BY <1>4, TempApart
  <2>2. call.op \in ReallocOps("grow") /\ Gap("grow", 0, 0)
    BY <1>1, <2>1 DEF ReallocOps, Gap
  <2>3. Movable
    BY <1>1, <1>2, <2>1, EntryMovable
  <2> QED
    BY <1>1, <1>4, <2>2, <2>3, StartReallocSpec DEF ReallocFns
<1>5. CASE ReleaseStorage(OnReleaseCapacity, "entry")
  BY <1>1, <1>5, ReleaseStorageSpec
<1>6. CASE Loop("assign", 0)
  BY <1>1, <1>6, AssignLoopSpec
<1> QED
  BY <1>3, <1>4, <1>5, <1>6 DEF AssignRange

LEMMA AssignInputSpec ==
  ASSUME ContractKept, IInv, SpecInv, AssignInput PROVE Good
  BY ReleaseStorageSpec DEF AssignInput

LEMMA AssignFacts ==
  ASSUME IInv, SpecInv, fn = "assign"
  PROVE  /\ fn # "idle" /\ CallSpec /\ TempSpec
         /\ call.op \in {"assign_n", "assign_range"} /\ call.op \in AssignOps
         /\ \A s \in 0 .. (i - 1) : mem[m_start][s] = Wanted(s)
         /\ i \in Nat /\ i <= Common /\ call.n \in Nat /\ m_finish \in Nat
         /\ m_finish <= max_size /\ max_size \in Nat
<1>1. /\ fn # "idle" /\ CallSpec /\ TempSpec
      /\ call.op \in {"assign_n", "assign_range"}
      /\ \A s \in 0 .. (i - 1) : mem[m_start][s] = Wanted(s)
  BY DEF SpecInv, FillSpec
<1>2. i \in Nat /\ i <= Common
  BY DEF IInv, TypeOK, SizeType, SizeTypeMod, FillValid
<1> QED
  BY <1>1, <1>2, CallFacts, Stored, Sizes DEF AssignOps

LEMMA AssignSpec ==
  ASSUME ContractKept, IInv, SpecInv, Assign PROVE Good
<1> DEFINE v == Item(i)
<1>1. /\ fn = "assign" /\ i < Common
      /\ mem' = [mem EXCEPT ![m_start][i] = v]
      /\ fn' = "assign" /\ i' = i + 1
      /\ UNCHANGED <<m_start, m_finish, call, before, temp>>
  BY DEF Assign, vec
<1>2. /\ fn # "idle" /\ CallSpec /\ TempSpec
      /\ call.op \in {"assign_n", "assign_range"} /\ call.op \in AssignOps
      /\ \A s \in 0 .. (i - 1) : mem[m_start][s] = Wanted(s)
      /\ i \in Nat
  BY <1>1, AssignFacts
<1>3. v = Wanted(i)
  BY <1>2, ItemIsWanted
<1> HIDE DEF v
<1>4. i \in 0 .. (m_finish - 1)
  BY <1>1, AssignFacts DEF Common
<1>5. m_start \in Block /\ \A s \in 0 .. i : s \in Slot
  <2>1. i \in Slot
    BY <1>4, StoredElement
  <2> QED
    BY <1>2, <1>4, <2>1, StoredElement, Sizes DEF Slot
<1>6. /\ \A s \in Slot : mem'[m_start][s] = IF s = i THEN v ELSE mem[m_start][s]
      /\ temp # Null => mem'[temp][0] = mem[temp][0]
  <2>1. i \in Slot
    BY <1>4, StoredElement
  <2> QED
    BY <1>1, <1>5, <2>1, Written
<1>7. Running
  BY <1>1, <1>2, CallFacts DEF Running
<1>8. ASSUME NEW s \in 0 .. i PROVE mem'[m_start][s] = Wanted(s)
  <2>1. s = i \/ s \in 0 .. (i - 1)
    BY <1>2
  <2> QED
    BY <1>2, <1>3, <1>5, <1>6, <2>1
<1>9. FillSpec'
  <2>1. i' - 1 = i /\ \A k : Wanted(k)' = Wanted(k)
    BY <1>1, <1>2, <1>7, SameCall
  <2> QED
    BY <1>1, <1>2, <1>8, <2>1 DEF FillSpec
<1> QED
  BY <1>1, <1>2, <1>6, <1>7, <1>9, Elsewhere, GoesOn DEF ReallocFns

LEMMA AssignThrowsSpec ==
  ASSUME ContractKept, IInv, SpecInv, AssignThrows PROVE Good
<1>1. fn = "assign" /\ fn # "idle" /\ "assign" \in MayThrow
  BY DEF AssignThrows
<1> QED
  BY <1>1, AssignFacts, NotSpoiled DEF Spoiled

LEMMA AssignDoneSpec ==
  ASSUME ContractKept, IInv, SpecInv, AssignDone PROVE Good
<1>1. fn = "assign" /\ i = Common
  BY DEF AssignDone
<1>2. /\ fn # "idle" /\ CallSpec /\ TempSpec /\ call.op \in AssignOps
      /\ \A s \in 0 .. (Common - 1) : mem[m_start][s] = Wanted(s)
      /\ call.n \in Nat /\ m_finish \in Nat /\ m_finish <= max_size /\ max_size \in Nat
  BY <1>1, AssignFacts
<1>3. CASE call.n <= m_finish /\ TruncateAndEnd(call.n)
  <2>1. ~TooMuch
    BY <1>2, <1>3, SourceTooMuch
  <2>2. ASSUME NEW x \in 1 .. call.n PROVE Abstract!Effect[x] = mem[m_start][x - 1]
    <3>1. x - 1 \in 0 .. (Common - 1)
      BY <1>2, <1>3 DEF Common
    <3> QED
      BY <1>2, <3>1, SourceEffect
  <2>3. Listed(Abstract!Effect, call.n) /\ call.n \in 0 .. m_finish
    BY <1>2, <1>3, SourceEffect
  <2> QED
    BY <1>2, <1>3, <2>1, <2>2, <2>3, TruncateSpec
<1>4. CASE call.n > m_finish /\ Loop("append", 0)
  <2>1. fn' = "append" /\ UNCHANGED <<mem, m_start, m_finish, call, before>>
    BY <1>4 DEF Loop, memory, vec
  <2>2. Running
    BY <1>2, <2>1, CallFacts DEF Running
  <2>3. Common = m_finish
    BY <1>2, <1>4 DEF Common
  <2>4. FillSpec'
    <3>1. \A k : Wanted(k)' = Wanted(k)
      BY <2>2, SameCall
    <3> QED
      BY <1>2, <2>1, <2>3, <3>1 DEF FillSpec
  <2> QED
    BY <1>2, <1>4, <2>1, <2>4, Elsewhere, LoopSpec DEF ReallocFns
<1> QED
  BY <1>3, <1>4 DEF AssignDone

LEMMA AppendFacts ==
  ASSUME IInv, SpecInv, fn = "append"
  PROVE  /\ fn # "idle" /\ CallSpec /\ TempSpec
         /\ call.op \in BuildOps \cup AssignOps
         /\ \A s \in 0 .. (m_finish - 1) : mem[m_start][s] = Wanted(s)
         /\ m_finish <= call.n /\ call.n \in Nat /\ m_finish \in Nat
         /\ m_finish <= max_size /\ max_size \in Nat
<1>1. /\ fn # "idle" /\ CallSpec /\ TempSpec
      /\ call.op \in BuildOps \cup AssignOps
      /\ \A s \in 0 .. (m_finish - 1) : mem[m_start][s] = Wanted(s)
  BY DEF SpecInv, FillSpec
<1>2. m_finish <= call.n
  BY DEF IInv, FillValid
<1> QED
  BY <1>1, <1>2, CallFacts, Stored, Sizes

LEMMA AppendNextSpec ==
  ASSUME ContractKept, IInv, SpecInv, AppendNext PROVE Good
<1> DEFINE v == Item(m_finish)
<1>1. /\ fn = "append" /\ m_finish < call.n /\ ~MustGrow
      /\ mem' = [mem EXCEPT ![m_start][m_finish] = v]
      /\ fn' = "append" /\ m_finish' = m_finish + 1
      /\ UNCHANGED <<m_start, call, before, temp>>
  BY DEF AppendNext, Appending
<1>2. /\ fn # "idle" /\ CallSpec /\ TempSpec
      /\ call.op \in BuildOps \cup AssignOps
      /\ \A s \in 0 .. (m_finish - 1) : mem[m_start][s] = Wanted(s)
      /\ m_finish \in Nat
  BY <1>1, AppendFacts
<1>3. v = Wanted(m_finish)
  BY <1>2, ItemIsWanted
<1> HIDE DEF v
<1>4. m_start \in Block /\ m_finish \in Slot /\ \A s \in 0 .. m_finish : s \in Slot
  <2>1. m_finish < m_eos
    <3>1. CASE call.op \in InputOps
      BY <1>1, <3>1, Stored, Sizes DEF MustGrow
    <3>2. CASE call.op \notin InputOps
      BY <1>1, <3>2, AppendFacts, Stored, Sizes DEF IInv, FillValid
    <3> QED
      BY <3>1, <3>2
  <2>2. m_eos \in Nat /\ m_eos <= max_size /\ max_size \in Nat
    BY Stored, Sizes
  <2> QED
    BY <1>2, <2>1, <2>2, Stored DEF Slot
<1>5. /\ \A s \in Slot :
           mem'[m_start][s] = IF s = m_finish THEN v ELSE mem[m_start][s]
      /\ temp # Null => mem'[temp][0] = mem[temp][0]
  BY <1>1, <1>4, Written
<1>6. Running
  BY <1>1, <1>2, CallFacts DEF Running
<1>7. ASSUME NEW s \in 0 .. m_finish PROVE mem'[m_start][s] = Wanted(s)
  <2>1. s = m_finish \/ s \in 0 .. (m_finish - 1)
    BY <1>2
  <2> QED
    BY <1>2, <1>3, <1>4, <1>5, <2>1
<1>8. FillSpec'
  <2>1. m_finish' - 1 = m_finish /\ \A k : Wanted(k)' = Wanted(k)
    BY <1>1, <1>2, <1>6, SameCall
  <2> QED
    BY <1>1, <1>2, <1>7, <2>1 DEF FillSpec
<1> QED
  BY <1>1, <1>2, <1>5, <1>6, <1>8, Elsewhere, GoesOn DEF ReallocFns

LEMMA AppendThrowsSpec ==
  ASSUME ContractKept, IInv, SpecInv, AppendThrows PROVE Good
<1>1. fn = "append" /\ fn # "idle" /\ ArgumentCopied \in MayThrow
  BY DEF AppendThrows, Appending
<1>2. CallSpec /\ call.op \in BuildOps \cup AssignOps
  BY <1>1, AppendFacts
<1>3. call.op # "assign_n"
  <2>1. call.op = "assign_n" => ArgumentCopied = "copy"
    BY DEF ArgumentCopied
  <2> QED
    BY <1>1, <2>1, NotSpoiled DEF Spoiled
<1>4. MayEndWith("exception")
  BY <1>1, NotSpoiled DEF ArgumentCopied
<1>5. call.op \in Abstract!WeakOps \/ before = <<>>
  BY <1>1, <1>2, <1>3, CallFacts DEF CallSpec, Abstract!WeakOps, AssignOps
<1> QED
  BY <1>1, <1>2, <1>3, <1>4, <1>5, DestroySpec DEF AppendThrows

LEMMA AppendGrowsSpec ==
  ASSUME ContractKept, IInv, SpecInv, AppendGrows PROVE Good
<1>1. /\ fn = "append" /\ m_finish < call.n /\ call.op \in InputOps
      /\ StartGrowing("realloc_append", size, size + 1, 1) /\ size = m_finish
  BY Stored DEF AppendGrows, Appending, MustGrow
<1>2. /\ fn # "idle" /\ CallSpec /\ TempSpec
      /\ call.op \in BuildOps \cup AssignOps
      /\ \A s \in 0 .. (m_finish - 1) : mem[m_start][s] = Wanted(s)
      /\ m_finish \in Nat /\ call.n \in Nat /\ max_size \in Nat
  BY <1>1, AppendFacts
<1>3. Movable
  BY <1>1, <1>2 DEF Movable, Old, Wanted, RangeOps, InputOps
<1>4. /\ call.op \in ReallocOps("realloc_append")
      /\ Gap("realloc_append", size, size + 1)
  BY <1>1 DEF ReallocOps, Gap
<1>5. m_finish + 1 > max_size => TooMuch
  BY <1>1, <1>2, SourceTooMuch
<1>6. 1 \in SizeType
  BY Sizes DEF SizeType, SizeTypeMod
<1>7. call.op # "reserve" /\ call.op # "pop_back"
  BY <1>1 DEF InputOps
<1> QED
  BY <1>1, <1>2, <1>3, <1>4, <1>5, <1>6, <1>7, StartGrowingSpec DEF ReallocFns

LEMMA AppendDoneSpec ==
  ASSUME ContractKept, IInv, SpecInv, AppendDone PROVE Good
<1>1. fn = "append" /\ m_finish = call.n /\ Finish("ok")
  BY DEF AppendDone
<1>2. /\ fn # "idle" /\ CallSpec /\ call.op \in BuildOps \cup AssignOps
      /\ \A s \in 0 .. (m_finish - 1) : mem[m_start][s] = Wanted(s)
      /\ m_finish \in Nat /\ m_finish <= max_size /\ max_size \in Nat
  BY <1>1, AppendFacts
<1>3. ~TooMuch
  BY <1>1, <1>2, SourceTooMuch
<1>4. ASSUME NEW x \in 1 .. m_finish PROVE Abstract!Effect[x] = mem[m_start][x - 1]
  <2>1. x - 1 \in 0 .. (m_finish - 1)
    BY <1>2
  <2> QED
    BY <1>1, <1>2, <2>1, SourceEffect
<1>5. Listed(Abstract!Effect, m_finish)
  BY <1>1, <1>2, SourceEffect
<1> QED
  BY <1>1, <1>2, <1>3, <1>4, <1>5, FinishReturns

LEMMA RollbackSpec ==
  ASSUME ContractKept, IInv, SpecInv, Rollback PROVE Good
<1>1. /\ fn = "rollback" /\ fn # "idle" /\ call.op \in InputOps
      /\ MayEndWith(outcome) /\ CallSpec
  BY DEF Rollback, SpecInv, FillSpec
<1>2. call.op \in Abstract!WeakOps \/ before = <<>>
  BY <1>1, CallFacts DEF CallSpec, Abstract!WeakOps, InputOps, BuildOps
<1> QED
  BY <1>1, <1>2, DestroySpec DEF Rollback

LEMMA AssignStepSpec ==
  ASSUME ContractKept, IInv, SpecInv, AssignStep PROVE Good
  BY AssignSpec, AssignThrowsSpec, AssignDoneSpec, AppendNextSpec,
     AppendThrowsSpec, AppendGrowsSpec, AppendDoneSpec, RollbackSpec
     DEF AssignStep

-----------------------------------------------------------------------------
(* The heads of the functions.                                             *)

LEMMA EntryFacts ==
  ASSUME IInv, SpecInv, fn = "entry", call.op # "assign_range"
  PROVE  /\ fn # "idle" /\ CallSpec /\ TempSpec /\ Shows(before)
         /\ m_finish = Len(before) /\ size = m_finish /\ capacity = m_eos
         /\ call.n \in Nat /\ call.pos \in 0 .. m_finish /\ call.pos \in Nat
         /\ m_finish \in Nat /\ m_eos \in Nat /\ max_size \in Nat
         /\ m_finish <= m_eos /\ m_eos <= max_size
         /\ \A x \in 1 .. m_finish : before[x] = mem[m_start][x - 1]
         /\ \A s \in 0 .. (m_finish - 1) : mem[m_start][s] = before[s + 1]
         /\ call.op \notin InputOps => Movable
<1>1. fn # "idle" /\ CallSpec /\ TempSpec /\ Shows(before)
  BY DEF SpecInv, EntrySpec
<1>2. /\ m_finish = Len(before)
      /\ \A x \in 1 .. m_finish : before[x] = mem[m_start][x - 1]
  BY <1>1, ShowsBefore
<1>3. \A s \in 0 .. (m_finish - 1) : mem[m_start][s] = before[s + 1]
  BY <1>1 DEF Shows
<1>4. /\ size = m_finish /\ capacity = m_eos
      /\ m_finish \in Nat /\ m_eos \in Nat /\ max_size \in Nat
      /\ m_finish <= m_eos /\ m_eos <= max_size
  BY Stored, Sizes
<1>5. call.n \in Nat /\ call.pos \in 0 .. m_finish /\ call.pos \in Nat
  BY <1>1, <1>2, CallFacts
<1> QED
  BY <1>1, <1>2, <1>3, <1>4, <1>5, EntryMovable

(* Nothing is left to do.                                                  *)
LEMMA NothingToDo ==
  ASSUME IInv, SpecInv, fn = "entry", call.op # "assign_range", Finish("ok"),
         ~TooMuch, Listed(Abstract!Effect, m_finish),
         \A x \in 1 .. m_finish : Abstract!Effect[x] = before[x]
  PROVE  Good
  BY EntryFacts, FinishReturns

LEMMA ReserveSpec == ASSUME ContractKept, IInv, SpecInv, Reserve PROVE Good
<1>1. fn = "entry" /\ call.op = "reserve"
  BY DEF Reserve, Entered
<1>2. /\ fn # "idle" /\ CallSpec /\ TempSpec /\ Shows(before)
      /\ m_finish = Len(before) /\ size = m_finish /\ capacity = m_eos /\ Movable
      /\ call.n \in Nat /\ m_eos \in Nat /\ max_size \in Nat /\ m_eos <= max_size
  BY <1>1, EntryFacts DEF InputOps
<1>3. TooMuch <=> call.n > max_size
  BY <1>1 DEF TooMuch, Insertions, InsertOneOps, AppendOps, SizedOps
<1>4. CASE call.n <= capacity /\ Finish("ok")
  BY <1>1, <1>2, <1>3, <1>4, PlainEffect, NothingToDo
<1>5. CASE call.n > max_size /\ Finish("length_error")
  <2>1. MayEndWith("length_error")
    BY <1>1, <1>3, <1>5 DEF MayEndWith
  <2> QED
    BY <1>2, <1>5, <2>1, FinishFails
<1>6. CASE call.n <= max_size /\ StartRealloc("grow", size, size, call.n)
  <2>1. call.op \in ReallocOps("grow") /\ Gap("grow", size, size)
    BY <1>1, <1>2 DEF ReallocOps, Gap
  <2> QED
    BY <1>1, <1>2, <1>6, <2>1, StartReallocSpec DEF ReallocFns
<1> QED
  BY <1>4, <1>5, <1>6 DEF Reserve

LEMMA ShrinkToFitSpec == ASSUME ContractKept, IInv, SpecInv, ShrinkToFit PROVE Good
<1>1. fn = "entry" /\ call.op = "shrink_to_fit"
  BY DEF ShrinkToFit, Entered
<1>2. /\ fn # "idle" /\ CallSpec /\ TempSpec /\ Shows(before)
      /\ m_finish = Len(before) /\ size = m_finish /\ Movable
      /\ before \in Seq(Object)
  BY <1>1, EntryFacts, CallFacts DEF InputOps
<1>3. ~TooMuch
  BY <1>1 DEF TooMuch, Insertions, InsertOneOps, AppendOps, SizedOps, BuildOps,
              AssignOps
<1>4. CASE Finish("ok")
  BY <1>1, <1>2, <1>3, <1>4, PlainEffect, NothingToDo
<1>5. CASE size = 0 /\ DestroyStorageAndEnd("ok")
  <2>1. Abstract!Effect = <<>>
    <3>1. Len(before) = 0
      BY <1>2, <1>5
    <3>2. before = <<>>
      BY <1>2, <3>1, EmptySeq
    <3> QED
      BY <1>1, <1>2, <3>2, PlainEffect
  <2> QED
    BY <1>2, <1>3, <1>5, <2>1, DestroySpec
<1>6. CASE StartRealloc("shrink_to_fit", size, size, size)
  <2>1. call.op \in ReallocOps("shrink_to_fit") /\ Gap("shrink_to_fit", size, size)
    BY <1>1, <1>2 DEF ReallocOps, Gap
  <2> QED
    BY <1>1, <1>2, <1>6, <2>1, StartReallocSpec DEF ReallocFns
<1> QED
  BY <1>4, <1>5, <1>6 DEF ShrinkToFit

LEMMA ClearSpec == ASSUME ContractKept, IInv, SpecInv, Clear PROVE Good
<1>1. fn = "entry" /\ call.op = "clear" /\ TruncateAndEnd(0)
  BY DEF Clear, Entered
<1>2. fn # "idle" /\ CallSpec /\ m_finish \in Nat
  BY <1>1, EntryFacts
<1>3. ~TooMuch
  BY <1>1 DEF TooMuch, Insertions, InsertOneOps, AppendOps, SizedOps, BuildOps,
              AssignOps
<1>4. Listed(Abstract!Effect, 0) /\ \A x \in 1 .. 0 : FALSE
  BY <1>1, <1>2, PlainEffect
<1> QED
  BY <1>1, <1>2, <1>3, <1>4, TruncateSpec

LEMMA PopBackSpec == ASSUME ContractKept, IInv, SpecInv, PopBack PROVE Good
<1>1. fn = "entry" /\ call.op = "pop_back"
  BY DEF PopBack, Entered
<1>2. /\ fn # "idle" /\ CallSpec /\ Shows(before) /\ m_finish \in Nat
      /\ m_finish = Len(before) /\ size = m_finish /\ before \in Seq(Object)
      /\ \A x \in 1 .. m_finish : before[x] = mem[m_start][x - 1]
  BY <1>1, EntryFacts, CallFacts
<1>3. TooMuch <=> m_finish = 0
  <2>1. before = <<>> <=> m_finish = 0
    BY <1>2
  <2> QED
    BY <1>1, <2>1 DEF TooMuch, Insertions, InsertOneOps, AppendOps, SizedOps,
                      BuildOps, AssignOps
<1>4. CASE size = 0 /\ Finish("out_of_range")
  <2>1. MayEndWith("out_of_range")
    BY <1>1, <1>2, <1>3, <1>4 DEF MayEndWith
  <2> QED
    BY <1>2, <1>4, <2>1, FinishFails
<1>5. CASE size > 0 /\ TruncateAndEnd(size - 1)
  <2>1. /\ Listed(Abstract!Effect, m_finish - 1)
        /\ \A x \in 1 .. (m_finish - 1) : Abstract!Effect[x] = before[x]
    BY <1>1, <1>2, <1>5, PopBackEffect
  <2>2. \A x \in 1 .. (m_finish - 1) : Abstract!Effect[x] = mem[m_start][x - 1]
    BY <1>2, <2>1
  <2>3. m_finish - 1 \in 0 .. m_finish /\ ~TooMuch /\ TruncateAndEnd(m_finish - 1)
    BY <1>2, <1>3, <1>5
  <2> QED
    BY <1>2, <2>1, <2>2, <2>3, TruncateSpec
<1> QED
  BY <1>4, <1>5 DEF PopBack

LEMMA DestroyVectorSpec ==
  ASSUME ContractKept, IInv, SpecInv, DestroyVector PROVE Good
<1>1. fn = "entry" /\ call.op = "destroy" /\ DestroyStorageAndEnd("ok")
  BY DEF DestroyVector, Entered
<1>2. fn # "idle" /\ CallSpec
  BY <1>1, EntryFacts
<1>3. ~TooMuch
  BY <1>1 DEF TooMuch, Insertions, InsertOneOps, AppendOps, SizedOps, BuildOps,
              AssignOps
<1>4. Abstract!Effect = <<>>
  BY <1>1, <1>2, PlainEffect
<1> QED
  BY <1>1, <1>2, <1>3, <1>4, DestroySpec

(* The sizes that insertions and push_back refuse.                         *)
LEMMA GrowthTooMuch ==
  ASSUME IInv, CallSpec, fn # "idle", call.op \in Insertions \cup AppendOps
  PROVE  /\ TooMuch <=> Len(before) + call.n > max_size
         /\ call.op # "reserve" /\ call.op # "pop_back"
  BY DEF TooMuch, BuildOps, AssignOps, Insertions, InsertOneOps, AppendOps, SizedOps

(* One element is constructed at the end, within the capacity.             *)
LEMMA ConstructAtEndSpec ==
  ASSUME ContractKept, IInv, SpecInv, fn = "entry", ConstructAtEnd, m_finish # m_eos,
         call.op \in AppendOps \cup InsertOneOps, call.pos = m_finish
  PROVE  Good
<1>1. call.op # "assign_range" /\ call.op \notin RangeOps
      /\ call.op \in Insertions \cup AppendOps
  BY DEF AppendOps, InsertOneOps, Insertions, RangeOps, InputOps
<1>2. /\ fn # "idle" /\ CallSpec /\ TempSpec /\ Shows(before)
      /\ m_finish = Len(before) /\ call.n = 1
      /\ m_finish \in Nat /\ m_eos \in Nat /\ max_size \in Nat
      /\ m_finish < m_eos /\ m_eos <= max_size
      /\ \A x \in 1 .. m_finish : before[x] = mem[m_start][x - 1]
      /\ \A s \in 0 .. (m_finish - 1) : mem[m_start][s] = before[s + 1]
  BY <1>1, EntryFacts, CallFacts DEF CallSpec
<1>3. m_start \in Block /\ m_start # Null /\ m_finish \in Slot
  BY <1>2, Stored, StateAssumption DEF Slot
<1>4. CASE ArgumentCopied \in MayThrow /\ Finish("exception")
  <2>1. MayEndWith("exception")
    BY <1>2, <1>4, NotSpoiled DEF ArgumentCopied
  <2> QED
    BY <1>2, <1>4, <2>1, FinishFails
<1>5. CASE /\ EndCall([mem EXCEPT ![m_start][m_finish] = OneElement], blk,
                      OnRead(OneElement) \cup OnConstruct(m_start, m_finish), "ok")
           /\ m_finish' = m_finish + 1
           /\ UNCHANGED <<m_start, m_eos>>
  <2> DEFINE m == [mem EXCEPT ![m_start][m_finish] = OneElement]
  <2>1. OneElement = Given
    <3>1. CASE temp = Null
      BY <1>1, <1>2, <3>1, ArgumentIsGiven DEF OneElement
    <3>2. CASE temp # Null
      BY <1>2, <3>2 DEF OneElement, TempValue, TempSpec
    <3> QED
      BY <3>1, <3>2
  <2>2. OneElement \in Cell
    BY <1>1, <1>2, OneElementIsObject, ObjectNotRaw
  <2>3. PICK f : EndCall(m, blk, f, "ok")
    BY <1>5
  <2>4. /\ m \in MemoryType
        /\ \A s \in Slot : m[m_start][s] = IF s = m_finish THEN Given
                                           ELSE mem[m_start][s]
    BY <1>3, <2>1, <2>2, Stored DEF MemoryType
  <2> HIDE DEF m
  <2>5. ~TooMuch
    BY <1>1, <1>2, GrowthTooMuch
  <2>6. Listed(Abstract!Effect, m_finish + 1)
    BY <1>1, <1>2, InsertEffect
  <2>7. ASSUME NEW x \in 1 .. (m_finish + 1)
        PROVE  Abstract!Effect[x] = m[m_start][x - 1]
    <3>1. Abstract!Effect[x] = IF x <= call.pos THEN before[x]
                               ELSE IF x <= call.pos + call.n
                               THEN Wanted(x - call.pos - 1) ELSE before[x - call.n]
      BY <1>1, <1>2, <2>7, InsertEffect
    <3>2. x - 1 \in Slot /\ \A k : Wanted(k) = Given
      BY <1>1, <1>2 DEF Slot, Wanted
    <3>3. CASE x <= m_finish
      <4>1. x \in 1 .. m_finish /\ x - 1 # m_finish
        BY <1>2, <3>3
      <4> QED
        BY <1>2, <2>4, <3>1, <3>2, <3>3, <4>1
    <3>4. CASE x = m_finish + 1
      <4>1. x - 1 = m_finish /\ ~(x <= call.pos) /\ x <= call.pos + call.n
        BY <1>2, <3>4
      <4> QED
        BY <2>4, <3>1, <3>2, <4>1
    <3> QED
      BY <1>2, <3>3, <3>4
  <2>8. m_finish' \in Nat /\ m_start' = m_start /\ m_finish' = m_finish + 1
    BY <1>2, <1>5
  <2> QED
    BY <1>2, <1>3, <2>3, <2>4, <2>5, <2>6, <2>7, <2>8, TempApart, Returns
<1> QED
  BY <1>4, <1>5 DEF ConstructAtEnd

LEMMA AllocateTempSpec ==
  ASSUME ContractKept, IInv, SpecInv, fn = "entry", AllocateTemp,
         call.op \in InsertOneOps \cup {"insert_n"},
         call.op \in {"insert", "emplace"} => call.pos # m_finish
  PROVE  Good
<1>1. call.op # "assign_range"
  BY DEF InsertOneOps
<1>2. /\ fn # "idle" /\ CallSpec /\ TempSpec /\ Shows(before)
      /\ call.op \in {"insert", "emplace"} => call.pos < m_finish
  BY <1>1, EntryFacts
<1>3. CASE AllocationFails
  <2>1. MayEndWith("bad_alloc") /\ Kept
    BY <1>2 DEF MayEndWith, Kept
  <2> QED
    BY <1>2, <1>3, <2>1, KeptThrow DEF AllocationFails
<1>4. CASE fn' = "temp" /\ UNCHANGED <<mem, vec, call, before, temp>>
  <2>1. Running
    BY <1>2, <1>4, CallFacts DEF Running
  <2>2. EntrySpec'
    BY <1>1, <1>2, <1>4 DEF EntrySpec, Shows, vec
  <2> QED
    BY <1>2, <1>4, <2>1, <2>2, Elsewhere, GoesOn DEF ReallocFns
<1> QED
  BY <1>3, <1>4 DEF AllocateTemp

(* The loop that shifts the tail is entered.                               *)
LEMMA ShiftEnters ==
  ASSUME ContractKept, IInv, SpecInv, fn = "entry", Loop("shift", LastShifted),
         call.op \in {"insert_rv", "insert_range"},
         call.op = "insert_rv" => call.pos < m_finish,
         call.n > 0, m_finish + call.n <= m_eos
  PROVE  Good
<1>1. /\ fn # "idle" /\ CallSpec /\ TempSpec /\ m_finish = Len(before)
      /\ call.n \in Nat /\ call.pos \in 0 .. m_finish /\ m_finish \in Nat
      /\ \A s \in 0 .. (m_finish - 1) : mem[m_start][s] = before[s + 1]
  BY EntryFacts
<1>2. /\ fn' = "shift" /\ i' = m_finish + call.n - 1
      /\ UNCHANGED <<mem, m_start, m_finish, call, before>>
  BY <1>1, LastShiftedExact, Stored, Sizes DEF Loop, memory, vec
<1>3. ASSUME NEW s \in call.pos .. (m_finish - 1)
      PROVE  mem[m_start][IF s + call.n > i' THEN s + call.n ELSE s] = before[s + 1]
  <2>1. /\ i' = m_finish + call.n - 1
        /\ call.n \in Nat /\ call.pos \in 0 .. m_finish /\ m_finish \in Nat
    BY <1>1, <1>2
  <2>2. s \in 0 .. (m_finish - 1)
    BY <2>1
  <2>3. ~(s + call.n > i')
    BY <2>1
  <2> QED
    BY <1>1, <2>2, <2>3
<1>4. \A s \in 0 .. (call.pos - 1) : mem[m_start][s] = before[s + 1]
  BY <1>1
<1>5. ShiftSpec'
  BY <1>1, <1>2, <1>3, <1>4 DEF ShiftSpec, InsertOneOps
<1> QED
  BY <1>1, <1>2, <1>5, Elsewhere, LoopSpec DEF ReallocFns

LEMMA PushBackSpec == ASSUME ContractKept, IInv, SpecInv, PushBack PROVE Good
<1>1. fn = "entry" /\ call.op \in AppendOps
  BY DEF PushBack, Entered
<1>2. /\ call.op # "assign_range" /\ call.op \notin InputOps
      /\ call.op \in Insertions \cup AppendOps
      /\ call.op \in AppendOps \cup InsertOneOps
  BY <1>1 DEF AppendOps, InputOps
<1>3. /\ fn # "idle" /\ CallSpec /\ TempSpec
      /\ m_finish = Len(before) /\ size = m_finish /\ capacity = m_eos /\ Movable
  BY <1>1, <1>2, EntryFacts
<1>4. call.pos = m_finish /\ call.n = 1
  BY <1>1, <1>3, CallFacts DEF CallSpec
<1>5. CASE size # capacity /\ ConstructAtEnd
  BY <1>1, <1>2, <1>3, <1>4, <1>5, ConstructAtEndSpec
<1>6. CASE StartGrowing("realloc_append", size, size + 1, 1)
  <2>1. /\ call.op \in ReallocOps("realloc_append")
        /\ Gap("realloc_append", size, size + 1)
    BY <1>1, <1>3 DEF ReallocOps, Gap
  <2>2. 1 \in SizeType
    BY Sizes DEF SizeType, SizeTypeMod
  <2>3. m_finish + 1 > max_size => TooMuch
    BY <1>2, <1>3, <1>4, GrowthTooMuch
  <2> QED
    BY <1>2, <1>3, <1>6, <2>1, <2>2, <2>3, GrowthTooMuch, StartGrowingSpec
       DEF ReallocFns
<1> QED
  BY <1>5, <1>6 DEF PushBack

LEMMA ResizeSpec == ASSUME ContractKept, IInv, SpecInv, Resize PROVE Good
<1>1. fn = "entry" /\ call.op \in {"resize", "resize_v"}
  BY DEF Resize, Entered
<1>2. call.op # "assign_range" /\ call.op \notin InputOps
      /\ call.op # "reserve" /\ call.op # "pop_back"
  BY <1>1 DEF InputOps
<1>3. /\ fn # "idle" /\ CallSpec /\ TempSpec /\ Shows(before)
      /\ m_finish = Len(before) /\ size = m_finish /\ capacity = m_eos /\ Movable
      /\ call.n \in Nat /\ m_finish \in Nat /\ m_eos \in Nat /\ max_size \in Nat
      /\ m_finish <= m_eos /\ m_eos <= max_size
      /\ \A x \in 1 .. m_finish : before[x] = mem[m_start][x - 1]
  BY <1>1, <1>2, EntryFacts
<1>4. TooMuch <=> call.n > max_size
  BY <1>1 DEF TooMuch, Insertions, InsertOneOps, AppendOps, SizedOps
<1>5. /\ Listed(Abstract!Effect, call.n)
      /\ \A x \in 1 .. call.n :
           Abstract!Effect[x] = IF x <= Len(before) THEN before[x] ELSE Given
  BY <1>1, <1>3, ResizeEffect
<1>6. ASSUME call.n <= m_finish, NEW x \in 1 .. call.n
      PROVE  x \in 1 .. m_finish /\ Abstract!Effect[x] = before[x]
  <2>1. x \in 1 .. m_finish /\ x <= Len(before)
    BY <1>3, <1>6
  <2> QED
    BY <1>5, <2>1
<1>7. CASE call.n > max_size /\ Finish("length_error")
  <2>1. MayEndWith("length_error")
    BY <1>2, <1>4, <1>7 DEF MayEndWith
  <2> QED
    BY <1>3, <1>7, <2>1, FinishFails
<1>8. CASE call.n = size /\ Finish("ok")
  <2>1. ~TooMuch /\ call.n = m_finish
    BY <1>3, <1>4, <1>8
  <2> QED
    <3>1. Listed(Abstract!Effect, m_finish)
      BY <1>5, <2>1
    <3>2. \A x \in 1 .. m_finish : Abstract!Effect[x] = before[x]
      BY <1>3, <1>6, <2>1
    <3> QED
      BY <1>1, <1>2, <1>8, <2>1, <3>1, <3>2, NothingToDo
<1>9. CASE call.n < size /\ TruncateAndEnd(call.n)
  <2>1. ~TooMuch /\ call.n <= m_finish /\ call.n \in 0 .. m_finish
    BY <1>3, <1>4, <1>9
  <2>2. \A x \in 1 .. call.n : Abstract!Effect[x] = mem[m_start][x - 1]
    BY <1>3, <1>6, <2>1
  <2> QED
    BY <1>3, <1>5, <1>9, <2>1, <2>2, TruncateSpec
<1>10. CASE Loop("resize_in", size)
  <2>1. /\ fn' = "resize_in" /\ i' = m_finish
        /\ UNCHANGED <<mem, m_start, m_finish, call, before>>
    BY <1>3, <1>10 DEF Loop, memory, vec
  <2>2. m_finish' .. (i' - 1) = {}
    BY <1>3, <2>1
  <2>3. FillSpec'
    BY <1>1, <1>3, <2>1, <2>2 DEF FillSpec, Shows
  <2> QED
    BY <1>3, <1>10, <2>1, <2>3, Elsewhere, LoopSpec DEF ReallocFns
<1>11. CASE /\ call.n > capacity /\ call.n <= max_size
            /\ StartGrowing("realloc_resize", size, call.n, call.n - size)
  <2>1. /\ call.op \in ReallocOps("realloc_resize")
        /\ Gap("realloc_resize", size, call.n)
    BY <1>1, <1>3 DEF ReallocOps, Gap
  <2>2. call.n - size \in 0 .. (2 * max_size) /\ m_finish + (call.n - size) <= max_size
    BY <1>3, <1>11
  <2>3. call.n - size \in SizeType
    BY <2>2, SizeTypeHolds
  <2>4. ~(m_finish + (call.n - size) > max_size)
    BY <1>3, <2>2
  <2> QED
    BY <1>2, <1>3, <1>11, <2>1, <2>3, <2>4, StartGrowingSpec DEF ReallocFns
<1> QED
  BY <1>7, <1>8, <1>9, <1>10, <1>11 DEF Resize

LEMMA InsertOneSpec == ASSUME ContractKept, IInv, SpecInv, InsertOne PROVE Good
<1>1. fn = "entry" /\ call.op \in {"insert", "emplace"}
  BY DEF InsertOne, Entered
<1>2. /\ call.op # "assign_range" /\ call.op \notin InputOps
      /\ call.op \in Insertions \cup AppendOps /\ call.op \in InsertOneOps
  BY <1>1 DEF Insertions, InsertOneOps, InputOps
<1>3. /\ fn # "idle" /\ CallSpec /\ TempSpec
      /\ m_finish = Len(before) /\ size = m_finish /\ capacity = m_eos /\ Movable
      /\ call.pos \in Nat
  BY <1>1, <1>2, EntryFacts
<1>4. call.n = 1
  BY <1>2, <1>3, CallFacts DEF CallSpec
<1>5. CASE StartGrowing("realloc_insert", call.pos, call.pos + 1, 1)
  <2>1. /\ call.op \in ReallocOps("realloc_insert")
        /\ Gap("realloc_insert", call.pos, call.pos + 1)
    BY <1>1, <1>4 DEF ReallocOps, Gap
  <2>2. 1 \in SizeType
    BY Sizes DEF SizeType, SizeTypeMod
  <2>3. m_finish + 1 > max_size => TooMuch
    BY <1>2, <1>3, <1>4, GrowthTooMuch
  <2> QED
    BY <1>2, <1>3, <1>5, <2>1, <2>2, <2>3, GrowthTooMuch, StartGrowingSpec
       DEF ReallocFns
<1>6. CASE call.pos # size /\ AllocateTemp
  BY <1>1, <1>2, <1>3, <1>6, AllocateTempSpec
<1>7. CASE size # capacity /\ call.pos = size /\ ConstructAtEnd
  BY <1>1, <1>2, <1>3, <1>7, ConstructAtEndSpec
<1> QED
  BY <1>5, <1>6, <1>7 DEF InsertOne

LEMMA InsertRvalueSpec ==
  ASSUME ContractKept, IInv, SpecInv, InsertRvalue PROVE Good
<1>1. fn = "entry" /\ call.op = "insert_rv"
  BY DEF InsertRvalue, Entered
<1>2. /\ call.op # "assign_range" /\ call.op \notin InputOps
      /\ call.op \in Insertions \cup AppendOps /\ call.op \in InsertOneOps
  BY <1>1 DEF Insertions, InsertOneOps, InputOps
<1>3. /\ fn # "idle" /\ CallSpec /\ TempSpec
      /\ m_finish = Len(before) /\ size = m_finish /\ capacity = m_eos /\ Movable
      /\ call.pos \in 0 .. m_finish /\ m_finish \in Nat /\ m_eos \in Nat
      /\ m_finish <= m_eos
  BY <1>1, <1>2, EntryFacts
<1>4. call.n = 1
  BY <1>2, <1>3, CallFacts DEF CallSpec
<1>5. CASE AllocateTemp
  BY <1>1, <1>2, <1>5, AllocateTempSpec
<1>6. CASE StartGrowing("grow", size, size, 1)
  <2>1. call.op \in ReallocOps("grow") /\ Gap("grow", size, size)
    BY <1>1, <1>3 DEF ReallocOps, Gap
  <2>2. 1 \in SizeType
    BY Sizes DEF SizeType, SizeTypeMod
  <2>3. m_finish + 1 > max_size => TooMuch
    BY <1>2, <1>3, <1>4, GrowthTooMuch
  <2> QED
    BY <1>2, <1>3, <1>6, <2>1, <2>2, <2>3, GrowthTooMuch, StartGrowingSpec
       DEF ReallocFns
<1>7. CASE size # capacity /\ call.pos # size /\ Loop("shift", LastShifted)
  <2>1. call.pos < m_finish /\ call.n > 0 /\ m_finish + call.n <= m_eos
    BY <1>3, <1>4, <1>7
  <2> QED
    BY <1>1, <1>7, <2>1, ShiftEnters
<1>8. CASE size # capacity /\ call.pos = size /\ ConstructAtEnd
  BY <1>1, <1>2, <1>3, <1>8, ConstructAtEndSpec
<1> QED
  BY <1>5, <1>6, <1>7, <1>8 DEF InsertRvalue

LEMMA InsertFillSpec == ASSUME ContractKept, IInv, SpecInv, InsertFill PROVE Good
<1>1. fn = "entry" /\ call.op = "insert_n"
  BY DEF InsertFill, Entered
<1>2. /\ call.op # "assign_range" /\ call.op \notin InputOps
      /\ call.op \in Insertions \cup AppendOps
  BY <1>1 DEF Insertions, InsertOneOps, InputOps
<1>3. /\ fn # "idle" /\ CallSpec /\ TempSpec /\ Shows(before)
      /\ m_finish = Len(before) /\ size = m_finish /\ capacity = m_eos /\ Movable
      /\ call.pos \in 0 .. m_finish /\ m_finish \in Nat /\ max_size \in Nat
      /\ call.n \in Nat /\ m_eos \in Nat /\ m_finish <= m_eos /\ m_eos <= max_size
      /\ \A s \in 0 .. (m_finish - 1) : mem[m_start][s] = before[s + 1]
  BY <1>1, <1>2, EntryFacts
<1>4. TooMuch <=> m_finish + call.n > max_size
  BY <1>2, <1>3, GrowthTooMuch
<1>5. gap = call.pos + call.n /\ call.n \in SizeType
  BY <1>3, CallNumbers
<1>6. CASE call.n = 0 /\ Finish("ok")
  <2>1. ~TooMuch /\ Len(before) + call.n = m_finish
    BY <1>3, <1>4, <1>6
  <2>2. Listed(Abstract!Effect, m_finish)
    BY <1>2, <1>3, <2>1, InsertEffect
  <2>3. ASSUME NEW x \in 1 .. m_finish PROVE Abstract!Effect[x] = before[x]
    <3>1. Abstract!Effect[x] = IF x <= call.pos THEN before[x]
                               ELSE IF x <= call.pos + call.n
                               THEN Wanted(x - call.pos - 1) ELSE before[x - call.n]
      BY <1>2, <1>3, <2>1, InsertEffect
    <3>2. call.pos + call.n = call.pos /\ x - call.n = x
      BY <1>3, <1>6
    <3> QED
      BY <3>1, <3>2
  <2> QED
    BY <1>1, <1>2, <1>6, <2>1, <2>2, <2>3, NothingToDo
<1>7. CASE call.n > max_size /\ Finish("length_error")
  <2>1. TooMuch
    BY <1>3, <1>4, <1>7
  <2>2. MayEndWith("length_error")
    BY <1>1, <2>1 DEF MayEndWith
  <2> QED
    BY <1>3, <1>7, <2>2, FinishFails
<1>8. CASE StartGrowing("insert_n", call.pos, gap, call.n)
  <2>1. call.op \in ReallocOps("insert_n") /\ Gap("insert_n", call.pos, gap)
    BY <1>1, <1>5 DEF ReallocOps, Gap
  <2> QED
    BY <1>2, <1>3, <1>4, <1>5, <1>8, <2>1, GrowthTooMuch, StartGrowingSpec
       DEF ReallocFns
<1>9. CASE call.pos = size /\ Loop("fill_end", 0)
  <2>1. /\ fn' = "fill_end" /\ i' = 0
        /\ UNCHANGED <<mem, m_start, m_finish, call, before>>
    BY <1>9 DEF Loop, memory, vec
  <2>2. Len(before) .. (m_finish - 1) = {} /\ m_finish = Len(before) + 0
    BY <1>3
  <2>3. FillSpec'
    BY <1>1, <1>3, <1>9, <2>1, <2>2 DEF FillSpec
  <2> QED
    BY <1>3, <1>9, <2>1, <2>3, Elsewhere, LoopSpec DEF ReallocFns
<1>10. CASE AllocateTemp
  BY <1>1, <1>10, AllocateTempSpec
<1> QED
  BY <1>6, <1>7, <1>8, <1>9, <1>10 DEF InsertFill

LEMMA InsertRangeSpec == ASSUME ContractKept, IInv, SpecInv, InsertRange PROVE Good
<1>1. fn = "entry" /\ call.op = "insert_range"
  BY DEF InsertRange, Entered
<1>2. /\ call.op # "assign_range" /\ call.op \notin InputOps
      /\ call.op \in Insertions \cup AppendOps
  BY <1>1 DEF Insertions, InsertOneOps, InputOps
<1>3. /\ fn # "idle" /\ CallSpec /\ TempSpec
      /\ m_finish = Len(before) /\ size = m_finish /\ capacity = m_eos /\ Movable
      /\ call.pos \in 0 .. m_finish /\ m_finish \in Nat /\ max_size \in Nat
      /\ call.n \in Nat /\ m_eos \in Nat /\ m_finish <= m_eos /\ m_eos <= max_size
  BY <1>1, <1>2, EntryFacts
<1>4. TooMuch <=> m_finish + call.n > max_size
  BY <1>2, <1>3, GrowthTooMuch
<1>5. call.n \in SizeType
  BY <1>3, CallNumbers
<1>6. CASE call.n = 0 /\ Finish("ok")
  <2>1. ~TooMuch /\ Len(before) + call.n = m_finish
    BY <1>3, <1>4, <1>6
  <2>2. Listed(Abstract!Effect, m_finish)
    BY <1>2, <1>3, <2>1, InsertEffect
  <2>3. ASSUME NEW x \in 1 .. m_finish PROVE Abstract!Effect[x] = before[x]
    <3>1. Abstract!Effect[x] = IF x <= call.pos THEN before[x]
                               ELSE IF x <= call.pos + call.n
                               THEN Wanted(x - call.pos - 1) ELSE before[x - call.n]
      BY <1>2, <1>3, <2>1, InsertEffect
    <3>2. call.pos + call.n = call.pos /\ x - call.n = x
      BY <1>3, <1>6
    <3> QED
      BY <3>1, <3>2
  <2> QED
    BY <1>1, <1>2, <1>6, <2>1, <2>2, <2>3, NothingToDo
<1>7. CASE StartGrowing("grow", size, size, call.n)
  <2>1. call.op \in ReallocOps("grow") /\ Gap("grow", size, size)
    BY <1>1, <1>3 DEF ReallocOps, Gap
  <2> QED
    BY <1>2, <1>3, <1>4, <1>5, <1>7, <2>1, GrowthTooMuch, StartGrowingSpec
       DEF ReallocFns
<1>8. CASE call.n # 0 /\ ~NoRoom /\ Loop("shift", LastShifted)
  <2>1. m_finish + call.n <= m_eos
    BY <1>3, <1>8, RoomExact
  <2> QED
    BY <1>1, <1>3, <1>8, <2>1, ShiftEnters
<1> QED
  BY <1>6, <1>7, <1>8 DEF InsertRange

LEMMA EraseEntrySpec == ASSUME ContractKept, IInv, SpecInv, Erase PROVE Good
<1>1. fn = "entry" /\ call.op = "erase"
  BY DEF Erase, Entered
<1>2. /\ fn # "idle" /\ CallSpec /\ TempSpec /\ m_finish = Len(before)
      /\ call.pos \in Nat /\ m_finish \in Nat /\ call.n \in Nat
      /\ \A s \in 0 .. (m_finish - 1) : mem[m_start][s] = before[s + 1]
  BY <1>1, EntryFacts
<1>3. gap = call.pos + call.n /\ gap <= m_finish
  BY <1>1, <1>2, CallNumbers, CallFacts DEF CallSpec
<1>4. ~TooMuch
  BY <1>1 DEF TooMuch, Insertions, InsertOneOps, AppendOps, SizedOps, BuildOps,
              AssignOps
<1>5. CASE call.n = 0 /\ Finish("ok")
  <2>1. Len(before) - call.n = m_finish
    BY <1>2, <1>5
  <2>2. Listed(Abstract!Effect, m_finish)
    BY <1>1, <1>2, <2>1, EraseEffect
  <2>3. ASSUME NEW x \in 1 .. m_finish PROVE Abstract!Effect[x] = before[x]
    <3>1. Abstract!Effect[x] = IF x <= call.pos THEN before[x] ELSE before[x + call.n]
      BY <1>1, <1>2, <2>1, EraseEffect
    <3>2. x + call.n = x
      BY <1>5
    <3> QED
      BY <3>1, <3>2
  <2> QED
    BY <1>1, <1>4, <1>5, <2>2, <2>3, NothingToDo
<1>6. CASE Loop("erase", gap)
  <2>1. /\ fn' = "erase" /\ i' = gap
        /\ UNCHANGED <<mem, m_start, m_finish, call, before>>
    BY <1>6 DEF Loop, memory, vec
  <2>2. ASSUME NEW s \in gap .. (m_finish - 1)
        PROVE  mem[m_start][IF s < gap THEN s - call.n ELSE s] = before[s + 1]
    <3>1. s \in 0 .. (m_finish - 1) /\ ~(s < gap)
      BY <1>2, <1>3
    <3> QED
      BY <1>2, <3>1
  <2>3. ASSUME NEW s \in 0 .. (call.pos - 1) PROVE mem[m_start][s] = before[s + 1]
    <3>1. s \in 0 .. (m_finish - 1)
      BY <1>2, <1>3
    <3> QED
      BY <1>2, <3>1
  <2>4. EraseSpec' /\ gap' = gap
    BY <1>1, <1>2, <2>1, <2>2, <2>3 DEF EraseSpec, gap
  <2> QED
    BY <1>2, <1>6, <2>1, <2>4, Elsewhere, LoopSpec DEF ReallocFns
<1> QED
  BY <1>5, <1>6 DEF Erase

LEMMA EnterSpec == ASSUME ContractKept, IInv, SpecInv, Enter PROVE Good
  BY ReserveSpec, ShrinkToFitSpec, ClearSpec, PopBackSpec, DestroyVectorSpec,
     PushBackSpec, ResizeSpec, InsertOneSpec, InsertRvalueSpec, InsertFillSpec,
     InsertRangeSpec, EraseEntrySpec, ConstructVectorSpec, AssignFillSpec,
     AssignRangeSpec, AssignInputSpec
     DEF Enter, AssignEnter

-----------------------------------------------------------------------------
(* The calls, and the theorem.                                             *)

(* What the program may pass, beyond what IInv needs of it.                *)
LEMMA LegalArguments ==
  ASSUME NEW s \in 0 .. max_size, NEW c \in LegalCalls(s)
  PROVE  /\ c.op \notin RangeOps =>
              c.arg \in Value \/ (c.op \in SelfArg /\ c.arg \in 0 .. (s - 1))
         /\ c.op \in AppendOps => c.pos = s
         /\ c.op \in AppendOps \cup InsertOneOps => c.n = 1
         /\ c.op \in {"build", "resize"} => c.arg = Default
<1>1. \/ c \in PlainCalls(s) \/ c \in CountCalls(s) \/ c \in ResizeCalls(s)
      \/ c \in AppendCalls(s) \/ c \in InsertOneCalls(s)
      \/ c \in InsertFillCalls(s) \/ c \in InsertRangeCalls(s)
      \/ c \in EraseCalls(s) \/ c \in CountedCalls \/ c \in SourceCalls
  BY DEF LegalCalls, AllCalls
<1>2. ASSUME NEW op, NEW a \in Args(op, s)
      PROVE  a \in Value \/ (op \in SelfArg /\ a \in 0 .. (s - 1))
  BY DEF Args
<1> USE ValueAssumption
        DEF CallRecord, AppendOps, InsertOneOps, BuildOps, AssignOps, InputOps, RangeOps
<1>3. CASE c \in PlainCalls(s)
  BY <1>3 DEF PlainCalls
<1>4. CASE c \in CountCalls(s)
  BY <1>4 DEF CountCalls
<1>5. CASE c \in AppendCalls(s)
  <2>1. PICK op \in AppendOps : c \in {CallRecord(op, s, 1, a) : a \in Args(op, s)}
    BY <1>5 DEF AppendCalls
  <2>2. PICK a \in Args(op, s) : c = CallRecord(op, s, 1, a)
    BY <2>1
  <2> QED
    BY <1>2, <2>2
<1>6. CASE c \in ResizeCalls(s)
  BY <1>2, <1>6 DEF ResizeCalls
<1>7. CASE c \in InsertOneCalls(s)
  <2>1. PICK op \in InsertOneOps :
          c \in {CallRecord(op, pos, 1, a) : pos \in 0 .. s, a \in Args(op, s)}
    BY <1>7 DEF InsertOneCalls
  <2>2. PICK pos \in 0 .. s, a \in Args(op, s) : c = CallRecord(op, pos, 1, a)
    BY <2>1
  <2> QED
    BY <1>2, <2>2
<1>8. CASE c \in InsertFillCalls(s)
  BY <1>2, <1>8 DEF InsertFillCalls
<1>9. CASE c \in InsertRangeCalls(s)
  BY <1>9 DEF InsertRangeCalls
<1>10. CASE c \in EraseCalls(s)
  <2>1. PICK pos \in 0 .. s :
          c \in {CallRecord("erase", pos, n, Default) : n \in 0 .. (s - pos)}
    BY <1>10 DEF EraseCalls
  <2> QED
    BY <2>1
<1>11. CASE c \in CountedCalls
  BY <1>11 DEF CountedCalls
<1>12. CASE c \in SourceCalls
  BY <1>12 DEF SourceCalls
<1> QED
  BY <1>1, <1>3, <1>4, <1>5, <1>6, <1>7, <1>8, <1>9, <1>10, <1>11, <1>12

LEMMA InvokeSpec == ASSUME IInv, SpecInv, Invoke PROVE SpecInv'
<1>1. /\ call' \in LegalCalls(m_finish) /\ before' = Contents /\ fn' = "entry"
      /\ mem' = mem /\ m_start' = m_start /\ m_finish' = m_finish /\ temp' = temp
      /\ call = NoCall /\ (call'.op \in BuildOps => m_start' = Null)
  BY DEF Invoke, memory, vec, size
<1>2. m_finish \in 0 .. max_size /\ max_size \in Nat /\ m_finish \in Nat
  BY Stored, Sizes
<1>3. before' = [k \in 1 .. m_finish |-> mem[m_start][k - 1]]
  BY <1>1, ContentsOfStorage
<1>4. before' \in Seq(Object) /\ Len(before') = m_finish
  <2>1. ASSUME NEW k \in 1 .. m_finish PROVE mem[m_start][k - 1] \in Object
    <3>1. k - 1 \in 0 .. (m_finish - 1)
      BY <1>2
    <3> QED
      BY <3>1, StoredElement
  <2> QED
    BY <1>2, <1>3, <2>1
<1>5. Shows(before)'
  <2>1. ASSUME NEW x \in 0 .. (m_finish - 1) PROVE mem[m_start][x] = before'[x + 1]
    <3>1. x + 1 \in 1 .. m_finish /\ (x + 1) - 1 = x
      BY <1>2
    <3> QED
      BY <1>3, <3>1
  <2> QED
    BY <1>1, <1>4, <2>1 DEF Shows
<1>6. /\ call'.pos \in 0 .. m_finish
      /\ call'.op \in BuildOps => m_finish = 0
      /\ call'.op = "erase" => call'.pos + call'.n <= m_finish
  BY <1>1, <1>2, LegalCall
<1>7. call'.op \in BuildOps => before' = <<>>
  BY <1>1, <1>6 DEF Contents
<1>8. CallSpec'
  BY <1>1, <1>2, <1>4, <1>6, <1>7, LegalArguments DEF CallSpec
<1>9. temp = Null
  BY <1>1 DEF IInv, CallValid, TempValid
<1>10. TempSpec' /\ EntrySpec'
  BY <1>1, <1>5, <1>9 DEF TempSpec, EntrySpec
<1> QED
  BY <1>1, <1>8, <1>10, Elsewhere DEF SpecInv, ReallocFns

LEMMA InitSpecInv == Init => SpecInv
  BY DEF Init, SpecInv, CallSpec, TempSpec, EntrySpec, ReallocSpec, FillSpec,
         ShiftSpec, EraseSpec, ReallocFns

LEMMA StutterSpecInv == ASSUME SpecInv, UNCHANGED vars PROVE SpecInv'
<1>1. CallSpec' /\ TempSpec' /\ EntrySpec'
  BY DEF SpecInv, vars, CallSpec, TempSpec, EntrySpec, Given, Shows
<1>2. ReallocSpec'
  BY DEF SpecInv, vars, ReallocSpec, Gap, ReallocOps, Dest, Old, Wanted, Given
<1>3. FillSpec'
  BY DEF SpecInv, vars, FillSpec, Shows, Wanted, Given, MayEndWith, TooMuch
<1>4. ShiftSpec' /\ EraseSpec'
  BY DEF SpecInv, vars, ShiftSpec, EraseSpec, Wanted, Given, gap
<1> QED
  BY <1>1, <1>2, <1>3, <1>4 DEF SpecInv

(* Every step of the code is a step of the contract, or none.              *)
LEMMA NextContract ==
  ASSUME ContractKept, IInv, SpecInv, [Next]_vars
  PROVE  SpecInv' /\ [Abstract!Next]_(Abstract!vars)
<1>1. CASE Invoke
  BY <1>1, InvokeSpec, InvokeContract DEF Abstract!Next
<1>2. CASE CodeStep
  <2>1. Good
    BY <1>2, EnterSpec, ReallocStepSpec, InPlaceStepSpec, AssignStepSpec DEF CodeStep
  <2> QED
    BY <2>1, StepContract DEF Good
<1>3. CASE UNCHANGED vars
  BY <1>3, StutterSpecInv, StutterContract
<1> QED
  BY <1>1, <1>2, <1>3 DEF Next

(* The contract towards the caller, for every element type and allocator   *)
(* that ContractKept admits: every call takes effect as a whole when it    *)
(* returns, or ends with an exception it has reason to throw and leaves the*)
(* elements it found, or, if it is assign(first, last), none.              *)
THEOREM KeepsContract == ContractKept => (Spec => ImplementsSpec)
<1> SUFFICES ASSUME ContractKept PROVE Spec => ImplementsSpec
  OBVIOUS
<1>1. Init => SpecInv /\ Abstract!Init
  BY InitSpecInv, InitContract
<1>2. IInv /\ SpecInv /\ [Next]_vars => SpecInv' /\ [Abstract!Next]_(Abstract!vars)
  BY NextContract
<1> QED
  BY InitIInv, NextIInv, <1>1, <1>2, PTL DEF Spec, ImplementsSpec, Abstract!Spec

=============================================================================
