------------------------- MODULE VectorEffectProofs -------------------------
(***************************************************************************)
(* What the code of one vector does to the elements, told in the terms of  *)
(* its contract (VectorSpec): which programs keep the contract, what each  *)
(* loop has done to the elements so far (SpecInv), how a call may end, and *)
(* the steps of the reallocating functions.                                *)
(***************************************************************************)
EXTENDS VectorCallProofs, SequenceTheorems

(* The operations that lose elements, or show half of their effect, when   *)
(* an exception of this kind ends them.                                    *)
Spoiled(what) ==
  CASE what = "alloc" -> {}
    [] what = "ctor" -> IF NothrowMove THEN {"emplace"} ELSE {}
    [] what = "copy" ->
         {"insert_n", "insert_range", "assign_n"} \cup
         IF NothrowMove THEN {"insert"}
         ELSE SizedOps \cup AppendOps \cup {"emplace", "insert_rv"}
    [] what = "move" -> {"insert", "insert_rv", "insert_n"}
    [] what = "assign" -> InsertOneOps \cup
         {"insert_n", "insert_range", "erase", "assign_n", "assign_range"}

(* The operations that use their argument after they have moved elements.  *)
SelfSpoiled ==
  IF NothrowMove THEN {"insert", "emplace", "insert_n"} ELSE {"insert_n"}

(* The programs that ImplementsSpec holds for: the operations they use lose*)
(* no elements to what may throw, and are given no element of the vector   *)
(* that they would move away before they read it.  Memory may run out.     *)
ContractKept ==
  /\ "alloc" \in MayThrow
  /\ \A what \in MayThrow : Used \cap Spoiled(what) = {}
  /\ SelfArg \cap SelfSpoiled = {}

-----------------------------------------------------------------------------

(* How a step of the code shows in the contract: not at all, or as the end *)
(* of the call.                                                            *)
Running == call # NoCall /\ call' = call /\ before' = before

Returned ==
  /\ call # NoCall /\ call' = NoCall /\ outcome' = "ok"
  /\ ~Abstract!Refused /\ Contents' = Abstract!Effect

Failed ==
  /\ call # NoCall /\ call' = NoCall
  /\ Abstract!Throwable(outcome')
  /\ \/ Contents' = before
     \/ call.op \in Abstract!WeakOps /\ Contents' = <<>>

LEMMA SameNoCall == Abstract!NoCall = NoCall
  BY DEF Abstract!NoCall, NoCall, Abstract!CallRecord, CallRecord

LEMMA SameMaxSize == Abstract!max_size = max_size
  BY DEF Abstract!max_size, max_size, Abstract!Smaller, Smaller

LEMMA SameSlot == Abstract!Slot = Slot
  BY SameMaxSize DEF Abstract!Slot, Slot

LEMMA SameOps ==
  /\ Abstract!SizedOps = SizedOps /\ Abstract!AppendOps = AppendOps
  /\ Abstract!InsertOneOps = InsertOneOps /\ Abstract!BuildOps = BuildOps
  /\ Abstract!AssignOps = AssignOps /\ Abstract!RangeOps = RangeOps
  /\ Abstract!InputOps = InputOps
  BY DEF Abstract!SizedOps, SizedOps, Abstract!AppendOps, AppendOps,
         Abstract!InsertOneOps, InsertOneOps, Abstract!BuildOps, BuildOps,
         Abstract!AssignOps, AssignOps, Abstract!RangeOps, RangeOps,
         Abstract!InputOps, InputOps

LEMMA SameLegalCalls == ASSUME NEW n PROVE Abstract!LegalCalls(n) = LegalCalls(n)
<1>1. Abstract!Count = Count /\ Abstract!Ranges = Ranges
  BY SameMaxSize DEF Abstract!Count, Count, Abstract!Ranges, Ranges
<1>2. ASSUME NEW op PROVE Abstract!Args(op, n) = Args(op, n)
  BY DEF Abstract!Args, Args
<1>3. ASSUME NEW op, NEW p, NEW k, NEW a
      PROVE  Abstract!CallRecord(op, p, k, a) = CallRecord(op, p, k, a)
  BY DEF Abstract!CallRecord, CallRecord
<1>4. Abstract!AllCalls(n) = AllCalls(n)
  BY <1>1, <1>2, <1>3, SameOps
     DEF Abstract!AllCalls, AllCalls, Abstract!PlainCalls, PlainCalls,
         Abstract!CountCalls, CountCalls, Abstract!ResizeCalls, ResizeCalls,
         Abstract!AppendCalls, AppendCalls, Abstract!InsertOneCalls, InsertOneCalls,
         Abstract!InsertFillCalls, InsertFillCalls,
         Abstract!InsertRangeCalls, InsertRangeCalls, Abstract!EraseCalls, EraseCalls,
         Abstract!CountedCalls, CountedCalls, Abstract!SourceCalls, SourceCalls
<1> QED
  BY <1>4, SameOps DEF Abstract!LegalCalls, LegalCalls

LEMMA InitContract == Init => Abstract!Init
  BY SameNoCall DEF Init, Abstract!Init, Contents

LEMMA StutterContract == UNCHANGED vars => UNCHANGED Abstract!vars
  BY DEF vars, Abstract!vars, Contents

LEMMA InvokeContract ==
  ASSUME IInv, Invoke PROVE Abstract!Invoke
<1>1. size = Len(Contents)
  BY ContentsOfStorage, Stored, Sizes
<1>2. /\ call = NoCall /\ call' \in LegalCalls(size)
      /\ before' = Contents /\ outcome' = "ok"
  BY DEF Invoke
<1>3. call' # NoCall
  <2>1. call'.op \in Ops
    BY <1>2, LegalCall, Stored
  <2> QED
    BY <2>1 DEF NoCall, CallRecord, Ops, ElementOps, BuildOps, AssignOps
<1>4. call' \in Abstract!LegalCalls(Len(Contents))
  BY <1>1, <1>2, SameLegalCalls
<1> QED
  BY <1>2, <1>3, <1>4, SameNoCall DEF Abstract!Invoke

LEMMA StepContract ==
  ASSUME Running \/ Returned \/ Failed
  PROVE  Abstract!Next \/ UNCHANGED Abstract!vars
<1>1. CASE Running
  BY <1>1, SameNoCall DEF Running, Abstract!vars
<1>2. CASE Returned
  BY <1>2, SameNoCall DEF Returned, Abstract!Next, Abstract!Return
<1>3. CASE Failed
  BY <1>3, SameNoCall DEF Failed, Abstract!Next, Abstract!Fail, Abstract!Throwable
<1> QED
  BY <1>1, <1>2, <1>3
-----------------------------------------------------------------------------
(* What the functions have made of the call so far.                        *)

(* The value the argument had when the call was made, the value the k-th   *)
(* element of the source must give its copy, and the value the j-th        *)
(* element had that a reallocation moves.                                  *)
Given == IF call.arg \in Slot THEN before[call.arg + 1] ELSE call.arg
Wanted(k) == IF call.op \in RangeOps THEN call.arg[k + 1] ELSE Given
Old(j) == IF call.op \in InputOps THEN call.arg[j + 1] ELSE before[j + 1]

(* Refused and Throwable of the contract, on the contents at the call.     *)
TooMuch ==
  \/ call.op \in SizedOps \cup BuildOps \cup AssignOps /\ call.n > max_size
  \/ call.op \in Insertions \cup AppendOps /\ Len(before) + call.n > max_size
  \/ call.op = "pop_back" /\ before = <<>>

MayEndWith(what) ==
  \/ what = "bad_alloc"
  \/ what = "exception" /\ MayThrow \ {"alloc"} # {}
  \/ what = "length_error" /\ TooMuch /\ call.op # "pop_back"
  \/ what = "out_of_range" /\ TooMuch /\ call.op = "pop_back"

Shows(s) ==
  m_finish = Len(s) /\ \A x \in 0 .. (m_finish - 1) : mem[m_start][x] = s[x + 1]

CallSpec ==
  call # NoCall =>
    /\ before \in Seq(Object) /\ Len(before) <= max_size
    /\ call.pos <= Len(before)
    /\ call.op \notin RangeOps =>
         call.arg \in Value \/ (call.op \in SelfArg /\ call.arg \in 0 .. (Len(before) - 1))
    /\ call.op \in BuildOps => before = <<>>
    /\ call.op \in AppendOps => call.pos = Len(before)
    /\ call.op \in AppendOps \cup InsertOneOps => call.n = 1
    /\ call.op \in {"build", "resize"} => call.arg = Default
    /\ call.op = "erase" => call.pos + call.n <= Len(before)

TempSpec == temp # Null => mem[temp][0] = Given

EntrySpec ==
  /\ fn \in {"entry", "temp"} =>
       Shows(before) \/ (call.op = "assign_range" /\ m_finish = 0)
  /\ fn = "temp" =>
       /\ call.op # "assign_range"
       /\ call.op \in {"insert", "emplace"} => call.pos < m_finish

(* The operations that use a reallocating function.                        *)
ReallocOps(f) ==
  CASE f = "grow" -> {"reserve", "insert_rv", "insert_range", "assign_n", "assign_range"}
                     \cup (BuildOps \ InputOps)
    [] f = "realloc_append" -> AppendOps \cup InputOps
    [] f = "realloc_resize" -> {"resize", "resize_v"}
    [] f = "realloc_insert" -> {"insert", "emplace"}
    [] f = "insert_n" -> {"insert_n"}
    [] f = "shrink_to_fit" -> {"shrink_to_fit"}

(* The part of the new block that each function fills with new elements.   *)
Gap(f, l, h) ==
  CASE f = "realloc_append" -> l = m_finish /\ h = m_finish + 1
    [] f = "realloc_resize" -> l = m_finish /\ h = call.n
    [] f \in {"realloc_insert", "insert_n"} -> l = call.pos /\ h = call.pos + call.n
    [] OTHER -> l = m_finish /\ h = m_finish

(* What the old block holds when a function starts.                        *)
Movable ==
  /\ IF call.op = "assign_range" THEN m_finish = 0
     ELSE call.op \notin InputOps => m_finish = Len(before)
  /\ call.op \in InputOps => m_finish < call.n
  /\ \A j \in 0 .. (m_finish - 1) : mem[m_start][j] = Old(j)

ReallocSpec ==
  fn \in ReallocFns =>
    /\ call.op \in ReallocOps(fn) /\ Gap(fn, lo, hi)
    /\ call.op = "reserve" => call.n <= max_size
    /\ IF call.op = "assign_range" THEN m_finish = 0
       ELSE call.op \notin InputOps => m_finish = Len(before)
    /\ fn # "realloc_insert" /\ built < hi - lo => moved = 0
    /\ \A j \in 0 .. (m_finish - 1) :
         j >= moved \/ ~NothrowMove => mem[m_start][j] = Old(j)
    /\ \A j \in 0 .. (moved - 1) : mem[new_start][Dest(j)] = Old(j)
    /\ \A k \in 0 .. (built - 1) : mem[new_start][lo + k] = Wanted(m_finish)

FillSpec ==
  /\ fn = "fill_end" =>
       /\ call.op = "insert_n" /\ call.pos = Len(before)
       /\ m_finish = Len(before) + i
       /\ \A s \in 0 .. (Len(before) - 1) : mem[m_start][s] = before[s + 1]
       /\ \A s \in Len(before) .. (m_finish - 1) : mem[m_start][s] = Given
  /\ fn = "resize_in" =>
       /\ call.op \in {"resize", "resize_v"} /\ Shows(before)
       /\ \A s \in m_finish .. (i - 1) : mem[m_start][s] = Given
  /\ fn = "assign" => call.op \in {"assign_n", "assign_range"}
                      /\ \A s \in 0 .. (i - 1) : mem[m_start][s] = Wanted(s)
  /\ fn = "append" => call.op \in BuildOps \cup AssignOps
                      /\ \A s \in 0 .. (m_finish - 1) : mem[m_start][s] = Wanted(s)
  /\ fn = "rollback" => call.op \in InputOps /\ MayEndWith(outcome)

ShiftSpec ==
  fn \in {"shift", "place"} =>
    /\ m_finish = Len(before)
    /\ call.op \in InsertOneOps => call.pos < m_finish
    /\ call.op \in {"insert", "emplace"} => temp # Null
    /\ \A s \in 0 .. (call.pos - 1) : mem[m_start][s] = before[s + 1]
    /\ fn = "shift" =>
         \A s \in call.pos .. (m_finish - 1) :
           mem[m_start][IF s + call.n > i THEN s + call.n ELSE s] = before[s + 1]
    /\ fn = "place" =>
         /\ \A s \in call.pos .. (m_finish - 1) :
              mem[m_start][s + call.n] = before[s + 1]
         /\ \A s \in call.pos .. (i - 1) :
              mem[m_start][s] = Wanted(s - call.pos)

EraseSpec ==
  fn = "erase" =>
    /\ call.op = "erase" /\ m_finish = Len(before)
    /\ \A s \in 0 .. (call.pos - 1) : mem[m_start][s] = before[s + 1]
    /\ \A s \in gap .. (m_finish - 1) :
         mem[m_start][IF s < i THEN s - call.n ELSE s] = before[s + 1]

SpecInv ==
  /\ CallSpec /\ TempSpec /\ EntrySpec /\ ReallocSpec
  /\ FillSpec /\ ShiftSpec /\ EraseSpec

Good == (Running \/ Returned \/ Failed) /\ SpecInv'

-----------------------------------------------------------------------------
(* What the contract says of each call, element by element.                *)

LEMMA CallFacts ==
  ASSUME IInv, CallSpec, fn # "idle"
  PROVE  /\ call # NoCall /\ call.op \in Ops /\ call.op \in Used
         /\ max_size \in Nat /\ before \in Seq(Object) /\ Len(before) \in 0 .. max_size
         /\ \A j \in 1 .. Len(before) : before[j] \in Object
         /\ call.n \in Nat /\ call.pos \in 0 .. Len(before)
         /\ call.op \notin RangeOps => Given \in Object
         /\ call.op \in RangeOps =>
              call.arg \in [1 .. call.n -> Value]
              /\ call.arg \in Seq(Object) /\ Len(call.arg) = call.n
<1>1. call # NoCall /\ call.op \in Ops /\ call.op \in Used
  BY DEF IInv, CallValid
<1>2. /\ max_size \in Nat /\ before \in Seq(Object) /\ Len(before) \in 0 .. max_size
      /\ call.n \in Nat /\ call.pos \in 0 .. Len(before)
  BY <1>1, CallNumbers, Sizes DEF CallSpec
<1>3. \A j \in 1 .. Len(before) : before[j] \in Object
  BY <1>2
<1>4. ASSUME call.op \notin RangeOps PROVE Given \in Object
  <2>1. call.arg \in Value \/ call.arg \in 0 .. (Len(before) - 1)
    BY <1>1, <1>4 DEF CallSpec
  <2>2. CASE call.arg \in Slot
    BY <1>2, <1>3, <2>1, <2>2, ValueAssumption DEF Given, Slot
  <2>3. CASE call.arg \notin Slot
    BY <1>2, <2>1, <2>3 DEF Given, Slot, Object
  <2> QED
    BY <2>2, <2>3
<1>5. ASSUME call.op \in RangeOps
      PROVE  /\ call.arg \in [1 .. call.n -> Value]
             /\ call.arg \in Seq(Object) /\ Len(call.arg) = call.n
  <2>1. call.arg \in [1 .. call.n -> Value]
    BY <1>5 DEF IInv, CallValid
  <2>2. call.arg \in [1 .. call.n -> Object]
    BY <2>1 DEF Object
  <2> QED
    BY <1>2, <2>1, <2>2
<1> QED
  BY <1>1, <1>2, <1>3, <1>4, <1>5

(* Only the operations in SelfArg are passed an own element.               *)
LEMMA GivenIsArgument ==
  ASSUME IInv, CallSpec, fn # "idle", call.op \notin RangeOps, call.op \notin SelfArg
  PROVE  call.arg \in Value /\ call.arg \notin Slot /\ Given = call.arg
  BY CallFacts, ValueAssumption, Sizes DEF CallSpec, Given, Slot

LEMMA ContractRefused ==
  ASSUME call # NoCall PROVE Abstract!Refused <=> TooMuch
  BY SameOps, SameMaxSize DEF Abstract!Refused, TooMuch, Insertions

LEMMA ContractThrowable ==
  ASSUME call # NoCall, ContractKept, NEW what
  PROVE  Abstract!Throwable(what) <=> MayEndWith(what)
  BY ContractRefused DEF Abstract!Throwable, MayEndWith, ContractKept

LEMMA ContractEffect ==
  ASSUME IInv, CallSpec, fn # "idle"
  PROVE  /\ call.op \in {"reserve", "shrink_to_fit"} => Abstract!Effect = before
         /\ call.op \in {"clear", "destroy"} => Abstract!Effect = <<>>
         /\ call.op = "pop_back" =>
              Abstract!Effect = SubSeq(before, 1, Len(before) - 1)
         /\ call.op \in {"resize", "resize_v"} =>
              Abstract!Effect = Abstract!Resized(call.n, Given)
         /\ call.op \in {"build", "build_n", "assign_n"} =>
              Abstract!Effect = [k \in 1 .. call.n |-> Given]
         /\ call.op \in RangeOps \ {"insert_range"} => Abstract!Effect = call.arg
         /\ call.op = "insert_range" =>
              Abstract!Effect = Abstract!Spliced(call.pos, call.arg)
         /\ call.op = "erase" =>
              Abstract!Effect = SubSeq(before, 1, call.pos)
                \o SubSeq(before, call.pos + call.n + 1, Len(before))
         /\ call.op \in AppendOps \cup InsertOneOps \cup {"insert_n"} =>
              Abstract!Effect =
                Abstract!Spliced(call.pos, [k \in 1 .. call.n |-> Given])
<1> DEFINE E == Abstract!Effect
<1>1. call # NoCall /\ Abstract!RangeOps = RangeOps
  BY CallFacts, SameOps
<1>2. Given = Abstract!Denoted(call.arg)
  BY <1>1, SameSlot DEF Given, Abstract!Denoted
<1>3. Abstract!Copies(call.n, Given) = [k \in 1 .. call.n |-> Given]
  BY DEF Abstract!Copies
<1>4. ASSUME call.op \in {"reserve", "shrink_to_fit"} PROVE E = before
  BY <1>1, <1>4 DEF Abstract!Effect, RangeOps, InputOps
<1>5. ASSUME call.op \in {"clear", "destroy"} PROVE E = <<>>
  BY <1>1, <1>5 DEF Abstract!Effect, RangeOps, InputOps
<1>6. ASSUME call.op = "pop_back" PROVE E = SubSeq(before, 1, Len(before) - 1)
  BY <1>1, <1>6 DEF Abstract!Effect, RangeOps, InputOps
<1>7. ASSUME call.op \in {"resize", "resize_v"}
      PROVE  E = Abstract!Resized(call.n, Given)
  <2>1. call.op = "resize" => Given = Default
    BY <1>1, ValueAssumption, Sizes DEF CallSpec, Given, Slot
  <2> QED
    BY <1>1, <1>2, <1>7, <2>1 DEF Abstract!Effect, RangeOps, InputOps
<1>8. ASSUME call.op \in {"build", "build_n", "assign_n"}
      PROVE  E = [k \in 1 .. call.n |-> Given]
  <2>1. call.op \notin RangeOps /\ call.op \notin SelfArg
    BY <1>8, SelfArgAssumption DEF RangeOps, InputOps
  <2>2. Given = call.arg
    BY <2>1, GivenIsArgument
  <2> QED
    BY <1>1, <1>3, <1>8, <2>1, <2>2 DEF Abstract!Effect
<1>9. ASSUME call.op \in RangeOps \ {"insert_range"} PROVE E = call.arg
  BY <1>1, <1>9 DEF Abstract!Effect, RangeOps, InputOps
<1>10. ASSUME call.op = "insert_range" PROVE E = Abstract!Spliced(call.pos, call.arg)
  BY <1>1, <1>10 DEF Abstract!Effect, RangeOps, InputOps
<1>11. ASSUME call.op = "erase"
       PROVE  E = SubSeq(before, 1, call.pos)
                    \o SubSeq(before, call.pos + call.n + 1, Len(before))
  BY <1>1, <1>11 DEF Abstract!Effect, RangeOps, InputOps
<1>12. ASSUME call.op \in AppendOps \cup InsertOneOps \cup {"insert_n"}
       PROVE  E = Abstract!Spliced(call.pos, [k \in 1 .. call.n |-> Given])
  BY <1>1, <1>2, <1>3, <1>12
     DEF Abstract!Effect, RangeOps, InputOps, AppendOps, InsertOneOps
<1> QED
  BY <1>4, <1>5, <1>6, <1>7, <1>8, <1>9, <1>10, <1>11, <1>12 DEF E

(* A sequence with another one inserted, and with a part taken out.        *)
LEMMA Joined ==
  ASSUME NEW s \in Seq(Object), NEW t \in Seq(Object)
  PROVE  s \o t = [x \in 1 .. (Len(s) + Len(t)) |->
                     IF x <= Len(s) THEN s[x] ELSE t[x - Len(s)]]
<1> DEFINE r == [x \in 1 .. (Len(s) + Len(t)) |->
                   IF x <= Len(s) THEN s[x] ELSE t[x - Len(s)]]
<1>1. r \in Seq(Object) /\ Len(r) = Len(s) + Len(t)
  <2>1. \A x \in 1 .. (Len(s) + Len(t)) : r[x] \in Object
    OBVIOUS
  <2> QED
    BY <2>1
<1>2. /\ s \o t \in Seq(Object) /\ Len(s \o t) = Len(s) + Len(t)
      /\ \A x \in 1 .. (Len(s) + Len(t)) : (s \o t)[x] = r[x]
  BY ConcatProperties
<1> HIDE DEF r
<1>3. s \o t = r
  BY <1>1, <1>2, SeqEqual
<1> QED
  BY <1>3 DEF r

LEMMA InsertedAt ==
  ASSUME NEW t \in Seq(Object), NEW s \in Seq(Object), NEW p \in 0 .. Len(t)
  PROVE  SubSeq(t, 1, p) \o s \o SubSeq(t, p + 1, Len(t)) =
           [x \in 1 .. (Len(t) + Len(s)) |->
              IF x <= p THEN t[x] ELSE IF x <= p + Len(s) THEN s[x - p]
              ELSE t[x - Len(s)]]
<1> DEFINE b == SubSeq(t, 1, p)
           e == SubSeq(t, p + 1, Len(t))
           c == [x \in 1 .. (p + Len(s)) |-> IF x <= p THEN t[x] ELSE s[x - p]]
<1>1. b = [x \in 1 .. p |-> t[x]] /\ b \in Seq(Object) /\ Len(b) = p
  OBVIOUS
<1>2. /\ e = [x \in 1 .. (Len(t) - p) |-> t[p + x]]
      /\ e \in Seq(Object) /\ Len(e) = Len(t) - p
  OBVIOUS
<1> HIDE DEF b, e
<1>3. b \o s = c
  <2>1. b \o s = [x \in 1 .. (Len(b) + Len(s)) |->
                    IF x <= Len(b) THEN b[x] ELSE s[x - Len(b)]]
    BY <1>1, Joined
  <2> QED
    BY <1>1, <2>1
<1>4. c \in Seq(Object) /\ Len(c) = p + Len(s)
  <2>1. \A x \in 1 .. (p + Len(s)) : c[x] \in Object
    OBVIOUS
  <2> QED
    BY <2>1
<1> HIDE DEF c
<1>5. c \o e = [x \in 1 .. (Len(c) + Len(e)) |->
                  IF x <= Len(c) THEN c[x] ELSE e[x - Len(c)]]
  BY <1>2, <1>4, Joined
<1>6. c \o e = [x \in 1 .. (Len(t) + Len(s)) |->
                  IF x <= p THEN t[x] ELSE IF x <= p + Len(s) THEN s[x - p]
                  ELSE t[x - Len(s)]]
  BY <1>2, <1>4, <1>5 DEF c
<1> QED
  BY <1>3, <1>6 DEF b, e

LEMMA RemovedAt ==
  ASSUME NEW t \in Seq(Object), NEW p \in Nat, NEW n \in Nat, p + n <= Len(t)
  PROVE  SubSeq(t, 1, p) \o SubSeq(t, p + n + 1, Len(t)) =
           [x \in 1 .. (Len(t) - n) |-> IF x <= p THEN t[x] ELSE t[x + n]]
<1> DEFINE b == SubSeq(t, 1, p)
           e == SubSeq(t, p + n + 1, Len(t))
<1>1. b = [x \in 1 .. p |-> t[x]] /\ b \in Seq(Object) /\ Len(b) = p
  OBVIOUS
<1>2. /\ e = [x \in 1 .. (Len(t) - p - n) |-> t[p + n + x]]
      /\ e \in Seq(Object) /\ Len(e) = Len(t) - p - n
  OBVIOUS
<1> HIDE DEF b, e
<1>3. b \o e = [x \in 1 .. (Len(b) + Len(e)) |->
                  IF x <= Len(b) THEN b[x] ELSE e[x - Len(b)]]
  BY <1>1, <1>2, Joined
<1>4. b \o e = [x \in 1 .. (Len(t) - n) |-> IF x <= p THEN t[x] ELSE t[x + n]]
  BY <1>1, <1>2, <1>3
<1> QED
  BY <1>4 DEF b, e

(* The contents the call must leave, and their x-th element.               *)
Listed(e, n) == e = [x \in 1 .. n |-> e[x]]

LEMMA InsertEffect ==
  ASSUME IInv, CallSpec, fn # "idle", call.op \in Insertions \cup AppendOps
  PROVE  /\ Listed(Abstract!Effect, Len(before) + call.n)
         /\ \A x \in 1 .. (Len(before) + call.n) :
              Abstract!Effect[x] =
                IF x <= call.pos THEN before[x]
                ELSE IF x <= call.pos + call.n THEN Wanted(x - call.pos - 1)
                ELSE before[x - call.n]
<1> DEFINE s == IF call.op = "insert_range" THEN call.arg
                ELSE [k \in 1 .. call.n |-> Given]
<1>1. /\ before \in Seq(Object) /\ Len(before) \in Nat /\ call.n \in Nat
      /\ call.pos \in 0 .. Len(before)
  BY CallFacts
<1>2. s \in Seq(Object) /\ Len(s) = call.n
      /\ \A x \in 1 .. call.n : s[x] = Wanted(x - 1)
  <2>1. CASE call.op = "insert_range"
    BY <1>1, <2>1, CallFacts DEF RangeOps, Wanted
  <2>2. CASE call.op # "insert_range"
    <3>1. call.op \notin RangeOps
      BY <2>2 DEF Insertions, InsertOneOps, AppendOps, RangeOps, InputOps
    <3>2. Given \in Object
      BY <3>1, CallFacts
    <3>3. s = [k \in 1 .. call.n |-> Given]
      BY <2>2
    <3> QED
      BY <1>1, <3>1, <3>2, <3>3 DEF Wanted
  <2> QED
    BY <2>1, <2>2
<1>3. Abstract!Effect =
        SubSeq(before, 1, call.pos) \o s \o SubSeq(before, call.pos + 1, Len(before))
  BY CallFacts, ContractEffect
     DEF Abstract!Spliced, Insertions, AppendOps, InsertOneOps
<1> HIDE DEF s
<1>4. Abstract!Effect =
        [x \in 1 .. (Len(before) + Len(s)) |->
           IF x <= call.pos THEN before[x]
           ELSE IF x <= call.pos + Len(s) THEN s[x - call.pos]
           ELSE before[x - Len(s)]]
  BY <1>1, <1>2, <1>3, InsertedAt, Zenon
<1>5. ASSUME NEW x \in 1 .. (Len(before) + call.n),
             ~(x <= call.pos), x <= call.pos + call.n
      PROVE  s[x - call.pos] = Wanted(x - call.pos - 1)
  <2>1. x - call.pos \in 1 .. call.n
    BY <1>1, <1>5
  <2> QED
    BY <1>2, <2>1
<1> QED
  BY <1>1, <1>2, <1>4, <1>5 DEF Listed

LEMMA EraseEffect ==
  ASSUME IInv, CallSpec, fn # "idle", call.op = "erase"
  PROVE  /\ Listed(Abstract!Effect, Len(before) - call.n)
         /\ \A x \in 1 .. (Len(before) - call.n) :
              Abstract!Effect[x] =
                IF x <= call.pos THEN before[x] ELSE before[x + call.n]
<1>1. /\ before \in Seq(Object) /\ call.n \in Nat
      /\ call.pos \in Nat /\ call.pos + call.n <= Len(before)
  BY CallFacts DEF CallSpec
<1>2. Abstract!Effect = SubSeq(before, 1, call.pos)
                          \o SubSeq(before, call.pos + call.n + 1, Len(before))
  BY ContractEffect
<1>3. Abstract!Effect =
        [x \in 1 .. (Len(before) - call.n) |->
           IF x <= call.pos THEN before[x] ELSE before[x + call.n]]
  BY <1>1, <1>2, RemovedAt, Zenon
<1> QED
  BY <1>3 DEF Listed

LEMMA ResizeEffect ==
  ASSUME IInv, CallSpec, fn # "idle", call.op \in {"resize", "resize_v"}
  PROVE  /\ Listed(Abstract!Effect, call.n)
         /\ \A x \in 1 .. call.n :
              Abstract!Effect[x] = IF x <= Len(before) THEN before[x] ELSE Given
<1>1. /\ before \in Seq(Object) /\ Len(before) \in Nat /\ call.n \in Nat
      /\ Given \in Object /\ call # NoCall
  BY CallFacts DEF RangeOps, InputOps
<1>2. Abstract!Effect = Abstract!Resized(call.n, Given)
  BY ContractEffect
<1>3. CASE call.n <= Len(before)
  <2>1. Abstract!Effect = SubSeq(before, 1, call.n)
    BY <1>1, <1>2, <1>3 DEF Abstract!Resized
  <2>2. SubSeq(before, 1, call.n) = [x \in 1 .. call.n |-> before[x]]
    BY <1>1, <1>3
  <2> QED
    BY <1>1, <1>3, <2>1, <2>2 DEF Listed
<1>4. CASE call.n > Len(before)
  <2> DEFINE s == [k \in 1 .. (call.n - Len(before)) |-> Given]
  <2>1. Abstract!Effect = before \o s
    BY <1>1, <1>2, <1>4 DEF Abstract!Resized, Abstract!Copies
  <2>2. s \in Seq(Object) /\ Len(s) = call.n - Len(before)
        /\ \A x \in 1 .. (call.n - Len(before)) : s[x] = Given
    BY <1>1, <1>4
  <2> HIDE DEF s
  <2>3. Abstract!Effect = [x \in 1 .. (Len(before) + Len(s)) |->
                             IF x <= Len(before) THEN before[x] ELSE s[x - Len(before)]]
    BY <1>1, <2>1, <2>2, Joined
  <2> QED
    BY <1>1, <1>4, <2>2, <2>3 DEF Listed
<1> QED
  BY <1>1, <1>3, <1>4

LEMMA PopBackEffect ==
  ASSUME IInv, CallSpec, fn # "idle", call.op = "pop_back", Len(before) > 0
  PROVE  /\ Listed(Abstract!Effect, Len(before) - 1)
         /\ \A x \in 1 .. (Len(before) - 1) : Abstract!Effect[x] = before[x]
<1>1. Abstract!Effect = SubSeq(before, 1, Len(before) - 1)
  BY ContractEffect
<1>2. before \in Seq(Object) /\ Len(before) \in Nat
  BY CallFacts
<1>3. SubSeq(before, 1, Len(before) - 1) = [x \in 1 .. (Len(before) - 1) |-> before[x]]
  BY <1>2
<1> QED
  BY <1>1, <1>3 DEF Listed

(* The constructors and assign: the elements come from outside.            *)
LEMMA SourceEffect ==
  ASSUME IInv, CallSpec, fn # "idle", call.op \in BuildOps \cup AssignOps
  PROVE  /\ Listed(Abstract!Effect, call.n)
         /\ \A x \in 1 .. call.n : Abstract!Effect[x] = Wanted(x - 1)
<1>0. call.n \in Nat
  BY CallFacts
<1>1. CASE call.op \in RangeOps
  <2>1. Abstract!Effect = call.arg /\ call.arg \in [1 .. call.n -> Value]
    BY <1>1, CallFacts, ContractEffect DEF BuildOps, AssignOps
  <2> QED
    BY <1>0, <1>1, <2>1 DEF Wanted, Listed
<1>2. CASE call.op \notin RangeOps
  <2>1. Abstract!Effect = [k \in 1 .. call.n |-> Given]
    BY <1>2, ContractEffect DEF BuildOps, AssignOps, RangeOps, InputOps
  <2> QED
    BY <1>0, <1>2, <2>1 DEF Wanted, Listed
<1> QED
  BY <1>1, <1>2

(* The calls that leave the contents, and those that remove all of them.   *)
LEMMA PlainEffect ==
  ASSUME IInv, CallSpec, fn # "idle"
  PROVE  /\ call.op \in {"reserve", "shrink_to_fit"} => Abstract!Effect = before
         /\ call.op \in {"clear", "destroy"} => Abstract!Effect = <<>>
         /\ Listed(before, Len(before)) /\ Listed(<<>>, 0)
<1>1. Listed(before, Len(before))
  BY CallFacts DEF Listed
<1>2. Listed(<<>>, 0)
  BY DEF Listed
<1> QED
  BY <1>1, <1>2, ContractEffect

-----------------------------------------------------------------------------
(* The ways a step can go on, return or fail.                              *)

LEMMA Elsewhere ==
  /\ fn' \notin {"entry", "temp"} => EntrySpec'
  /\ fn' \notin ReallocFns => ReallocSpec'
  /\ fn' \notin {"fill_end", "resize_in", "assign", "append", "rollback"} => FillSpec'
  /\ fn' \notin {"shift", "place"} => ShiftSpec'
  /\ fn' # "erase" => EraseSpec'
  BY DEF EntrySpec, ReallocSpec, FillSpec, ShiftSpec, EraseSpec

LEMMA SameCall ==
  ASSUME Running
  PROVE  /\ Given' = Given
         /\ \A k : Wanted(k)' = Wanted(k)
         /\ \A j : Old(j)' = Old(j)
         /\ TooMuch' <=> TooMuch
         /\ CallSpec => CallSpec'
  BY DEF Running, Given, Wanted, Old, TooMuch, CallSpec

LEMMA GoesOn ==
  ASSUME CallSpec, Running, temp' = temp, TempSpec,
         temp # Null => mem'[temp][0] = mem[temp][0],
         EntrySpec', ReallocSpec', FillSpec', ShiftSpec', EraseSpec'
  PROVE  Good
<1>1. TempSpec'
  BY SameCall DEF TempSpec
<1> QED
  BY <1>1, SameCall DEF Good, SpecInv

LEMMA EndContents ==
  ASSUME IInv, NEW m \in MemoryType, NEW k, NEW f, NEW out, EndCall(m, k, f, out),
         m_start' \in Block \cup {Null}, temp = Null \/ m_start' # temp,
         m_finish' \in Nat, m_start' = Null => m_finish' = 0
  PROVE  /\ Contents' = [x \in 1 .. m_finish' |-> m[m_start'][x - 1]]
         /\ SpecInv' /\ call' = NoCall /\ outcome' = out
<1>1. /\ call' = NoCall /\ outcome' = out /\ fn' = "idle" /\ temp' = Null
      /\ mem' = IF temp = Null THEN m ELSE [m EXCEPT ![temp] = RawBlock]
  BY DEF EndCall
<1>2. SpecInv'
  <2>1. CallSpec' /\ TempSpec'
    BY <1>1 DEF CallSpec, TempSpec
  <2> QED
    BY <1>1, <2>1, Elsewhere DEF SpecInv, ReallocFns
<1>3. CASE m_start' = Null
  <2>1. Contents' = <<>>
    BY <1>3 DEF Contents
  <2>2. m_finish' = 0
    BY <1>3
  <2>3. [x \in 1 .. m_finish' |-> m[m_start'][x - 1]] = <<>>
    BY <2>2
  <2> QED
    BY <1>1, <1>2, <2>1, <2>3
<1>4. CASE m_start' # Null
  <2>1. mem'[m_start'] = m[m_start']
    BY <1>1, <1>4 DEF MemoryType
  <2> QED
    BY <1>1, <1>2, <1>4, <2>1 DEF Contents
<1> QED
  BY <1>3, <1>4

LEMMA Returns ==
  ASSUME IInv, CallSpec, fn # "idle",
         NEW m \in MemoryType, NEW k, NEW f, EndCall(m, k, f, "ok"),
         m_start' \in Block \cup {Null}, temp = Null \/ m_start' # temp,
         m_finish' \in Nat, m_start' = Null => m_finish' = 0,
         ~TooMuch, Listed(Abstract!Effect, m_finish'),
         \A x \in 1 .. m_finish' : Abstract!Effect[x] = m[m_start'][x - 1]
  PROVE  Good
<1>1. /\ Contents' = [x \in 1 .. m_finish' |-> m[m_start'][x - 1]]
      /\ SpecInv' /\ call' = NoCall /\ outcome' = "ok"
  BY EndContents
<1>2. Contents' = Abstract!Effect
  BY <1>1 DEF Listed
<1> QED
  BY <1>1, <1>2, CallFacts, ContractRefused DEF Good, Returned

LEMMA Fails ==
  ASSUME ContractKept, IInv, CallSpec, fn # "idle",
         NEW m \in MemoryType, NEW k, NEW f, NEW out, EndCall(m, k, f, out),
         m_start' \in Block \cup {Null}, temp = Null \/ m_start' # temp,
         m_finish' \in Nat, m_start' = Null => m_finish' = 0,
         MayEndWith(out),
         \/ /\ m_finish' = Len(before)
            /\ \A x \in 1 .. m_finish' : before[x] = m[m_start'][x - 1]
         \/ call.op \in Abstract!WeakOps /\ m_finish' = 0
  PROVE  Good
<1>1. /\ Contents' = [x \in 1 .. m_finish' |-> m[m_start'][x - 1]]
      /\ SpecInv' /\ call' = NoCall /\ outcome' = out
  BY EndContents
<1>2. call # NoCall /\ Abstract!Throwable(outcome')
  BY <1>1, CallFacts, ContractThrowable
<1>3. CASE /\ m_finish' = Len(before)
           /\ \A x \in 1 .. m_finish' : before[x] = m[m_start'][x - 1]
  <2>1. Contents' = before
    BY <1>1, <1>3, PlainEffect DEF Listed
  <2> QED
    BY <1>1, <1>2, <2>1 DEF Good, Failed
<1>4. CASE call.op \in Abstract!WeakOps /\ m_finish' = 0
  <2>1. [x \in 1 .. m_finish' |-> m[m_start'][x - 1]] = <<>>
    BY <1>4
  <2> QED
    BY <1>1, <1>2, <1>4, <2>1 DEF Good, Failed
<1> QED
  BY <1>3, <1>4

(* An exception leaves a function of the library.                          *)
LEMMA ThrowSpec ==
  ASSUME ContractKept, IInv, CallSpec, fn # "idle",
         NEW m \in MemoryType, NEW k, NEW f, NEW out, Throw(m, k, f, out),
         m_start' \in Block \cup {Null}, temp = Null \/ m_start' # temp,
         m_finish' \in Nat, m_start' = Null => m_finish' = 0,
         MayEndWith(out),
         \/ call.op \in InputOps
         \/ /\ m_finish' = Len(before)
            /\ \A x \in 1 .. m_finish' : before[x] = m[m_start'][x - 1]
         \/ call.op \in Abstract!WeakOps /\ m_finish' = 0
  PROVE  Good
<1>1. CASE call.op \notin InputOps
  BY <1>1, Fails DEF Throw
<1>2. CASE call.op \in InputOps
  <2>1. /\ fn' = "rollback" /\ outcome' = out /\ call' = call /\ before' = before
        /\ temp' = temp
    BY <1>2 DEF Throw
  <2>2. temp = Null
    BY <1>2 DEF IInv, TempValid, InputOps, InsertOneOps
  <2>3. Running
    BY <2>1, CallFacts DEF Running
  <2>4. MayEndWith(out)' /\ FillSpec'
    <3>1. MayEndWith(outcome)'
      BY <2>1, <2>3, SameCall DEF MayEndWith
    <3> QED
      BY <1>2, <2>1, <3>1 DEF FillSpec, MayEndWith
  <2> QED
    BY <2>1, <2>2, <2>3, <2>4, Elsewhere, GoesOn DEF TempSpec, ReallocFns
<1> QED
  BY <1>1, <1>2

LEMMA TempApart ==
  ASSUME IInv
  PROVE  /\ temp = Null \/ m_start # temp
         /\ m_start = Null => m_finish = 0
         /\ m_finish \in Nat
  BY Stored, Sizes DEF IInv, TempValid, StorageValid

(* The storage is what it was when the call was made.                      *)
Kept ==
  \/ call.op \in InputOps \/ Shows(before)
  \/ call.op = "assign_range" /\ m_finish = 0

LEMMA ShowsBefore ==
  ASSUME IInv, CallSpec, fn # "idle", Shows(before)
  PROVE  m_finish = Len(before)
         /\ \A x \in 1 .. m_finish : before[x] = mem[m_start][x - 1]
<1>1. ASSUME NEW x \in 1 .. m_finish PROVE before[x] = mem[m_start][x - 1]
  <2>1. x - 1 \in 0 .. (m_finish - 1) /\ (x - 1) + 1 = x
    BY Stored, Sizes
  <2> QED
    BY <2>1 DEF Shows
<1> QED
  BY <1>1 DEF Shows

LEMMA KeptThrow ==
  ASSUME ContractKept, IInv, CallSpec, fn # "idle",
         NEW out, Throw(mem, blk, {}, out), UNCHANGED vec,
         MayEndWith(out), Kept
  PROVE  Good
  BY ThrowSpec, TempApart, Stored, ShowsBefore DEF vec, Kept, Abstract!WeakOps

LEMMA FinishFails ==
  ASSUME ContractKept, IInv, CallSpec, fn # "idle", NEW out, Finish(out),
         MayEndWith(out), Shows(before)
  PROVE  Good
  BY Fails, TempApart, Stored, ShowsBefore DEF Finish, vec

LEMMA FinishReturns ==
  ASSUME IInv, CallSpec, fn # "idle", Finish("ok"), ~TooMuch,
         Listed(Abstract!Effect, m_finish),
         \A x \in 1 .. m_finish : Abstract!Effect[x] = mem[m_start][x - 1]
  PROVE  Good
  BY Returns, TempApart, Stored DEF Finish, vec

LEMMA TruncateSpec ==
  ASSUME IInv, CallSpec, fn # "idle", NEW n \in 0 .. m_finish, TruncateAndEnd(n),
         ~TooMuch, Listed(Abstract!Effect, n),
         \A x \in 1 .. n : Abstract!Effect[x] = mem[m_start][x - 1]
  PROVE  Good
<1>1. m_finish' = n /\ m_start' = m_start
  BY DEF TruncateAndEnd
<1>2. n \in Nat /\ (m_start = Null => n = 0)
  BY TempApart
<1>3. CASE n = m_finish
  BY <1>1, <1>2, <1>3, Returns, TempApart, Stored DEF TruncateAndEnd
<1>4. CASE n # m_finish
  <2> DEFINE m == Destroyed(m_start, n .. (m_finish - 1))
  <2>1. PICK f : EndCall(m, blk, f, "ok")
    BY <1>4 DEF TruncateAndEnd
  <2>2. m_start \in Block
    BY <1>4, Stored, TempApart
  <2>3. m \in MemoryType /\ \A x \in 1 .. n : m[m_start][x - 1] = mem[m_start][x - 1]
    <3>1. \A x \in 1 .. n : x - 1 \in Slot /\ x - 1 \notin n .. (m_finish - 1)
      BY Stored, Sizes DEF Slot
    <3> QED
      BY <2>2, <3>1, Stored DEF Destroyed, MemoryType, Cell
  <2> HIDE DEF m
  <2>4. \A x \in 1 .. n : Abstract!Effect[x] = m[m_start][x - 1]
    BY <2>3
  <2> QED
    BY <1>1, <1>2, <2>1, <2>2, <2>3, <2>4, Returns, TempApart
<1> QED
  BY <1>3, <1>4

(* The storage is given up, at the end or because of an exception.         *)
LEMMA DestroySpec ==
  ASSUME ContractKept, IInv, CallSpec, fn # "idle", NEW out, DestroyStorageAndEnd(out),
         \/ out = "ok" /\ ~TooMuch /\ Abstract!Effect = <<>>
         \/ MayEndWith(out) /\ (call.op \in Abstract!WeakOps \/ before = <<>>)
  PROVE  Good
<1>1. PICK m, k, f :
        m \in MemoryType /\ EndCall(m, k, f, out) /\ m_start' = Null /\ m_finish' = 0
  <2>1. CASE m_start = Null
    BY <2>1, Stored, TempApart DEF DestroyStorageAndEnd, Finish, vec
  <2>2. CASE m_start # Null
    <3>1. [mem EXCEPT ![m_start] = RawBlock] \in MemoryType
      BY <2>2, Stored DEF MemoryType, RawBlock, Cell
    <3> QED
      BY <2>2, <3>1 DEF DestroyStorageAndEnd, PointersNull
  <2> QED
    BY <2>1, <2>2
<1>2. temp = Null \/ m_start' # temp
  BY <1>1
<1>3. CASE out = "ok" /\ ~TooMuch /\ Abstract!Effect = <<>>
  <2>1. Listed(Abstract!Effect, 0)
    BY <1>3, PlainEffect
  <2> QED
    BY <1>1, <1>2, <1>3, <2>1, Returns
<1>4. CASE MayEndWith(out) /\ call.op \in Abstract!WeakOps
  BY <1>1, <1>2, <1>4, Fails
<1>5. CASE MayEndWith(out) /\ before = <<>>
  <2>1. Len(before) = 0
    BY <1>5
  <2> QED
    BY <1>1, <1>2, <1>5, <2>1, Fails
<1> QED
  BY <1>3, <1>4, <1>5

-----------------------------------------------------------------------------
(* VectorRealloc.                                                          *)

LEMMA StartReallocSpec ==
  ASSUME ContractKept, IInv, CallSpec, TempSpec, fn # "idle",
         NEW f \in ReallocFns, NEW l, NEW h, NEW n, StartRealloc(f, l, h, n),
         call.op \in ReallocOps(f), Gap(f, l, h), Movable,
         call.op = "reserve" => call.n <= max_size
  PROVE  Good
<1>1. CASE AllocationFails
  <2>1. Kept
    BY DEF Movable, Kept, Shows, Old
  <2> QED
    BY <1>1, <2>1, KeptThrow DEF AllocationFails, MayEndWith
<1>2. CASE /\ fn' = f /\ lo' = l /\ hi' = h /\ built' = 0 /\ moved' = 0
           /\ UNCHANGED <<mem, vec, call, before, temp>>
  <2>1. Running
    BY <1>2, CallFacts DEF Running
  <2>2. ReallocSpec'
    <3>1. Gap(fn, lo, hi)' /\ ReallocOps(fn)' = ReallocOps(f)
      BY <1>2 DEF Gap, vec, ReallocOps
    <3> QED
      BY <1>2, <2>1, <3>1, SameCall DEF ReallocSpec, Movable, vec
  <2> QED
    BY <1>2, <2>1, <2>2, Elsewhere, GoesOn DEF ReallocFns
<1> QED
  BY <1>1, <1>2 DEF StartRealloc

LEMMA StartGrowingSpec ==
  ASSUME ContractKept, IInv, CallSpec, TempSpec, fn # "idle",
         NEW f \in ReallocFns, NEW l, NEW h, NEW n \in SizeType,
         StartGrowing(f, l, h, n),
         call.op \in ReallocOps(f), Gap(f, l, h), Movable,
         call.op # "reserve" /\ call.op # "pop_back",
         m_finish + n > max_size => TooMuch
  PROVE  Good
<1>1. CASE TooLong(size, n)
  <2>1. Kept
    BY DEF Movable, Kept, Shows, Old
  <2>2. TooMuch
    BY <1>1, Stored, TooLongExact
  <2> QED
    BY <1>1, <2>1, <2>2, KeptThrow DEF StartGrowing, MayEndWith
<1>2. CASE ~TooLong(size, n)
  <2> DEFINE c == CalculateGrowth(size, n)
  <2>1. StartRealloc(f, l, h, c)
    BY <1>2 DEF StartGrowing
  <2> HIDE DEF c
  <2> QED
    BY <2>1, StartReallocSpec
<1> QED
  BY <1>1, <1>2

(* The arguments are read before the old elements are moved from.          *)
LEMMA ArgumentIsGiven ==
  ASSUME IInv, CallSpec, fn # "idle", call.op \notin RangeOps,
         call.op \in SelfArg =>
           \A j \in 0 .. (Len(before) - 1) : mem[m_start][j] = before[j + 1]
  PROVE  Argument = Given
<1>1. CASE call.arg \in Slot
  <2>1. call.op \in SelfArg /\ call.arg \in 0 .. (Len(before) - 1)
    BY <1>1, CallFacts, ValueAssumption, Sizes DEF CallSpec, Slot
  <2> QED
    BY <1>1, <2>1 DEF Argument, Given
<1>2. CASE call.arg \notin Slot
  BY <1>2 DEF Argument, Given
<1> QED
  BY <1>1, <1>2

LEMMA BuildSpec ==
  ASSUME ContractKept, IInv, SpecInv, Build PROVE Good
<1> DEFINE v == Item(m_finish)
<1>1. /\ fn \in ReallocFns /\ fn # "idle" /\ built < hi - lo
      /\ mem' = [mem EXCEPT ![new_start][lo + built] = v] /\ built' = built + 1
      /\ UNCHANGED <<m_start, m_finish, call, before, fn, new_start, lo, hi, moved, temp>>
  BY DEF Build, TimeToBuild, vec, ReallocFns
<1>2. Running /\ CallSpec /\ TempSpec /\ ReallocSpec
  BY <1>1, CallFacts DEF Running, SpecInv
<1>3. v = Wanted(m_finish)
  <2>1. CASE call.op \in RangeOps
    BY <2>1 DEF Item, Wanted
  <2>2. CASE call.op \notin RangeOps
    <3>1. m_finish = Len(before) /\ call.op \notin InputOps
      BY <1>1, <1>2, <2>2 DEF ReallocSpec, RangeOps, InputOps
    <3>2. CASE fn # "realloc_insert"
      <4>1. \A j \in 0 .. (Len(before) - 1) : mem[m_start][j] = before[j + 1]
        <5>1. moved = 0
          BY <1>1, <1>2, <3>2 DEF ReallocSpec
        <5> QED
          BY <1>1, <1>2, <3>1, <5>1, Stored, Sizes DEF ReallocSpec, Old
      <4> QED
        BY <1>1, <1>2, <2>2, <4>1, ArgumentIsGiven DEF Item, Wanted
    <3>3. CASE fn = "realloc_insert"
      <4>1. call.op \in {"insert", "emplace"}
        BY <1>1, <1>2, <3>3 DEF ReallocSpec, ReallocOps
      <4>2. call.op \in SelfArg => ~NothrowMove
        BY <4>1 DEF ContractKept, SelfSpoiled
      <4>3. call.op \in SelfArg =>
              \A j \in 0 .. (Len(before) - 1) : mem[m_start][j] = before[j + 1]
        BY <1>1, <1>2, <3>1, <4>2 DEF ReallocSpec, Old
      <4> QED
        BY <1>1, <1>2, <2>2, <4>3, ArgumentIsGiven DEF Item, Wanted
    <3> QED
      BY <3>2, <3>3
  <2> QED
    BY <2>1, <2>2
<1> HIDE DEF v
<1>4. lo + built \in Slot
  BY <1>1, InRealloc, Stored, Sizes DEF Slot
<1>5. \A b \in Block, s \in Slot :
        mem'[b][s] = IF b = new_start /\ s = lo + built THEN v ELSE mem[b][s]
  BY <1>1, <1>4, InRealloc, Stored DEF MemoryType
<1>6. temp # Null => mem'[temp][0] = mem[temp][0]
  BY <1>1, <1>5, InRealloc, Sizes DEF IInv, TypeOK, Slot
<1>7. \A j \in 0 .. (m_finish - 1) : mem'[m_start][j] = mem[m_start][j]
  BY <1>1, <1>5, InRealloc, StoredElement
<1>8. ASSUME NEW j \in 0 .. (moved - 1)
      PROVE  Dest(j)' = Dest(j) /\ mem'[new_start][Dest(j)] = mem[new_start][Dest(j)]
  <2>1. /\ j \in 0 .. (m_finish - 1) /\ Dest(j) \in Slot /\ Dest(j)' = Dest(j)
        /\ Dest(j) # lo + built
    BY <1>1, InRealloc, DestSlot, Stored, Sizes DEF Dest
  <2> QED
    BY <1>1, <1>5, <2>1, InRealloc
<1>9. ASSUME NEW k \in 0 .. (built' - 1)
      PROVE  mem'[new_start][lo + k] = Wanted(m_finish)
  <2>1. lo + k \in Slot
    BY <1>1, InRealloc, Stored, Sizes DEF Slot
  <2>2. CASE k = built
    BY <1>1, <1>3, <1>5, <2>1, <2>2, InRealloc
  <2>3. CASE k # built
    <3>1. k \in 0 .. (built - 1) /\ lo + k # lo + built
      BY <1>1, <2>3, InRealloc
    <3> QED
      BY <1>1, <1>2, <1>5, <2>1, <3>1, InRealloc DEF ReallocSpec
  <2> QED
    BY <2>2, <2>3
<1>10. ReallocSpec'
  <2>1. Gap(fn, lo, hi)' /\ (call.op \in ReallocOps(fn))'
    BY <1>1, <1>2 DEF ReallocSpec, Gap, ReallocOps
  <2>2. built' < hi - lo => built < hi - lo
    BY <1>1
  <2>3. \A j \in 0 .. (m_finish - 1) :
          j >= moved \/ ~NothrowMove => mem'[m_start][j] = Old(j)
    BY <1>1, <1>2, <1>7 DEF ReallocSpec
  <2>4. \A j \in 0 .. (moved - 1) : mem'[new_start][Dest(j)'] = Old(j)
    BY <1>1, <1>2, <1>8 DEF ReallocSpec
  <2> QED
    BY <1>1, <1>2, <1>9, <2>1, <2>2, <2>3, <2>4, SameCall DEF ReallocSpec
<1> QED
  BY <1>1, <1>2, <1>6, <1>10, Elsewhere, GoesOn DEF ReallocFns

LEMMA RelocateSpec ==
  ASSUME ContractKept, IInv, SpecInv, Relocate PROVE Good
<1> DEFINE v == mem[m_start][moved]
           w == Left(MoveIfNoexcept, v)
<1>1. /\ fn \in ReallocFns /\ fn # "idle"
      /\ moved < m_finish /\ moved \in 0 .. (m_finish - 1)
      /\ built < hi - lo => fn = "realloc_insert"
  BY InRealloc, Stored, Sizes DEF Relocate, TimeToMove
<1>2. m_start \in Block /\ moved \in Slot /\ (~NothrowMove => w = v)
  BY <1>1, StoredElement DEF Left, MoveIfNoexcept
<1>3. Dest(moved) \in Slot
  BY <1>1, DestSlot
<1> HIDE DEF v, w
<1>4. /\ mem' = [mem EXCEPT ![new_start][Dest(moved)] = v, ![m_start][moved] = w]
      /\ moved' = moved + 1
      /\ UNCHANGED <<m_start, m_finish, call, before, fn, new_start, lo, hi, built, temp>>
  BY DEF Relocate, vec, v, w
<1>5. \A b \in Block, s \in Slot :
        mem'[b][s] = IF b = new_start /\ s = Dest(moved) THEN v
                     ELSE IF b = m_start /\ s = moved THEN w ELSE mem[b][s]
  BY <1>1, <1>2, <1>3, <1>4, InRealloc, Stored DEF MemoryType
<1>6. Running /\ CallSpec /\ TempSpec /\ ReallocSpec
  BY <1>1, <1>4, CallFacts DEF Running, SpecInv
<1>7. temp # Null => mem'[temp][0] = mem[temp][0]
  <2>1. temp # Null => temp \in Block /\ temp # m_start /\ temp # new_start
    BY <1>1, InRealloc DEF IInv, TypeOK, TempValid
  <2> QED
    BY <1>5, <2>1, Sizes DEF Slot
<1>8. v = Old(moved)
  BY <1>1, <1>6 DEF ReallocSpec, v
<1>9. ASSUME NEW j \in 0 .. (m_finish - 1), j >= moved' \/ ~NothrowMove
      PROVE  mem'[m_start][j] = Old(j)
  <2>1. j \in Slot /\ m_start # new_start
    BY <1>1, StoredElement, InRealloc
  <2>2. CASE j = moved
    <3>1. ~NothrowMove
      BY <1>1, <1>4, <1>9, <2>2, InRealloc
    <3> QED
      BY <1>2, <1>5, <1>8, <2>1, <2>2, <3>1
  <2>3. CASE j # moved
    <3>1. j >= moved \/ ~NothrowMove
      BY <1>1, <1>4, <1>9, Stored, Sizes
    <3> QED
      BY <1>1, <1>2, <1>5, <1>6, <2>1, <2>3, <3>1 DEF ReallocSpec
  <2> QED
    BY <2>2, <2>3
<1>10. ASSUME NEW j \in 0 .. (moved' - 1)
       PROVE  Dest(j)' = Dest(j) /\ mem'[new_start][Dest(j)] = Old(j)
  <2>1. Dest(j)' = Dest(j)
    BY <1>4 DEF Dest
  <2>2. CASE j = moved
    BY <1>1, <1>3, <1>5, <1>8, <2>1, <2>2, InRealloc
  <2>3. CASE j # moved
    <3>1. j \in 0 .. (moved - 1) /\ j \in 0 .. (m_finish - 1)
      BY <1>1, <1>4, <2>3, Stored, Sizes
    <3>2. Dest(j) # Dest(moved) /\ Dest(j) \in Slot
      BY <1>1, <3>1, InRealloc, DestSlot, Stored, Sizes DEF Dest
    <3>3. mem[new_start][Dest(j)] = Old(j)
      BY <1>1, <1>6, <3>1 DEF ReallocSpec
    <3> QED
      BY <1>1, <1>5, <2>1, <3>2, <3>3, InRealloc
  <2> QED
    BY <2>2, <2>3
<1>11. ASSUME NEW k \in 0 .. (built - 1)
       PROVE  mem'[new_start][lo + k] = Wanted(m_finish)
  <2>1. lo + k \in Slot /\ lo + k # Dest(moved)
    BY <1>1, InRealloc, Stored, Sizes DEF Slot, Dest
  <2>2. mem[new_start][lo + k] = Wanted(m_finish)
    BY <1>1, <1>6 DEF ReallocSpec
  <2> QED
    BY <1>1, <1>5, <2>1, <2>2, InRealloc
<1>12. ReallocSpec'
  <2>1. Gap(fn, lo, hi)' /\ (call.op \in ReallocOps(fn))'
    BY <1>1, <1>4, <1>6 DEF ReallocSpec, Gap, ReallocOps
  <2>2. \A j \in 0 .. (moved' - 1) : mem'[new_start][Dest(j)'] = Old(j)
    BY <1>10
  <2> QED
    BY <1>1, <1>4, <1>6, <1>9, <1>11, <2>1, <2>2, SameCall DEF ReallocSpec
<1> QED
  BY <1>1, <1>4, <1>6, <1>7, <1>12, Elsewhere, GoesOn DEF ReallocFns

(* The constructor of an element throws in the new block.                  *)
LEMMA AbandonSpec ==
  ASSUME ContractKept, IInv, CallSpec, fn \in ReallocFns, NEW k, NEW f,
         Throw([mem EXCEPT ![new_start] = RawBlock], k, f, "exception"),
         NEW what \in MayThrow, what # "alloc",
         \/ UNCHANGED vec /\ Kept
         \/ PointersNull /\ call.op \in InputOps
  PROVE  Good
<1> DEFINE m == [mem EXCEPT ![new_start] = RawBlock]
<1>1. m \in MemoryType
  BY Stored, InRealloc DEF MemoryType, RawBlock, Cell
<1>2. m_start # Null => m[m_start] = mem[m_start]
  BY Stored, InRealloc DEF MemoryType
<1>3. MayEndWith("exception") /\ fn # "idle" /\ Throw(m, k, f, "exception")
  BY InRealloc DEF MayEndWith
<1> HIDE DEF m
<1>4. CASE UNCHANGED vec /\ Kept
  <2>1. m_start' = m_start /\ m_finish' = m_finish
    BY <1>4 DEF vec
  <2>2. CASE Shows(before)
    <3>1. \A x \in 1 .. m_finish : before[x] = m[m_start][x - 1]
      BY <1>2, <1>3, <2>2, ShowsBefore, TempApart
    <3> QED
      BY <1>1, <1>3, <2>1, <2>2, <3>1, ShowsBefore, TempApart, Stored, ThrowSpec
  <2>3. CASE call.op \in InputOps
    BY <1>1, <1>3, <2>1, <2>3, TempApart, Stored, ThrowSpec
  <2>4. CASE call.op = "assign_range" /\ m_finish = 0
    BY <1>1, <1>3, <2>1, <2>4, TempApart, Stored, ThrowSpec DEF Abstract!WeakOps
  <2> QED
    BY <1>4, <2>2, <2>3, <2>4 DEF Kept
<1>5. CASE PointersNull /\ call.op \in InputOps
  <2>1. m_start' = Null /\ m_finish' = 0
    BY <1>5 DEF PointersNull
  <2> QED
    BY <1>1, <1>3, <1>5, <2>1, ThrowSpec
<1> QED
  BY <1>4, <1>5

LEMMA OldKept ==
  ASSUME IInv, SpecInv, fn \in ReallocFns, call.op # "assign_range",
         \A j \in 0 .. (m_finish - 1) : mem[m_start][j] = Old(j)
  PROVE  Kept
  BY DEF SpecInv, ReallocSpec, Kept, Shows, Old

LEMMA BuildThrowsSpec ==
  ASSUME ContractKept, IInv, SpecInv, BuildThrows PROVE Good
<1>1. /\ fn \in ReallocFns /\ built < hi - lo
      /\ ArgumentCopied \in MayThrow /\ UNCHANGED vec
  BY DEF BuildThrows, TimeToBuild
<1>2. CallSpec /\ ReallocSpec /\ fn # "idle" /\ call.op \in Used
  BY <1>1, InRealloc, CallFacts DEF SpecInv
<1>3. PICK k, f :
        Throw([mem EXCEPT ![new_start] = RawBlock], k, f, "exception")
  BY DEF BuildThrows
<1>4. call.op # "assign_range"
  <2> SUFFICES ASSUME call.op = "assign_range" PROVE FALSE
    OBVIOUS
  <2>1. lo = hi
    BY <1>1, InRealloc DEF RangeOps, InputOps
  <2> QED
    BY <1>1, <2>1, InRealloc
<1>5. \A j \in 0 .. (m_finish - 1) : mem[m_start][j] = Old(j)
  <2>1. CASE fn # "realloc_insert"
    <3>1. moved = 0
      BY <1>1, <1>2, <2>1 DEF ReallocSpec
    <3> QED
      BY <1>1, <1>2, <3>1, Stored, Sizes DEF ReallocSpec
  <2>2. CASE fn = "realloc_insert"
    <3>1. call.op \in {"insert", "emplace"}
      BY <1>1, <1>2, <2>2 DEF ReallocSpec, ReallocOps
    <3>2. ArgumentCopied = IF call.op = "insert" THEN "copy" ELSE "ctor"
      BY <3>1 DEF ArgumentCopied, RangeOps, InputOps
    <3>3. call.op \notin Spoiled(ArgumentCopied)
      BY <1>1, <1>2 DEF ContractKept
    <3>4. ~NothrowMove
      BY <3>1, <3>2, <3>3 DEF Spoiled
    <3> QED
      BY <1>1, <1>2, <3>4 DEF ReallocSpec
  <2> QED
    BY <2>1, <2>2
<1>6. ArgumentCopied # "alloc"
  BY DEF ArgumentCopied
<1> QED
  BY <1>1, <1>2, <1>3, <1>4, <1>5, <1>6, OldKept, AbandonSpec

LEMMA RelocateThrowsSpec ==
  ASSUME ContractKept, IInv, SpecInv, RelocateThrows PROVE Good
<1>1. /\ fn \in ReallocFns /\ moved < m_finish /\ MoveIfNoexcept \in MayThrow
      /\ IF CatchNullsPointers THEN PointersNull ELSE UNCHANGED vec
  BY DEF RelocateThrows, TimeToMove
<1>2. CallSpec /\ ReallocSpec /\ fn # "idle" /\ call.op \in Used
  BY <1>1, InRealloc, CallFacts DEF SpecInv
<1>3. PICK k, f :
        Throw([mem EXCEPT ![new_start] = RawBlock], k, f, "exception")
  BY DEF RelocateThrows
<1>4. ~NothrowMove /\ "copy" \in MayThrow
  BY <1>1, StateAssumption DEF MoveIfNoexcept
<1>5. call.op \notin {"insert_n", "insert_range", "assign_n", "emplace", "insert_rv"}
                       \cup SizedOps \cup AppendOps
  BY <1>2, <1>4 DEF ContractKept, Spoiled
<1>6. call.op # "assign_range" /\ call.op \notin BuildOps \ InputOps
  <2>1. m_finish > 0
    BY <1>1, InRealloc, Stored, Sizes
  <2>2. call.op \in BuildOps \ InputOps => m_finish = 0
    BY <1>1, <1>2, CallFacts DEF ReallocSpec, CallSpec, BuildOps
  <2> QED
    BY <1>1, <1>2, <2>1, <2>2 DEF ReallocSpec
<1>7. \A j \in 0 .. (m_finish - 1) : mem[m_start][j] = Old(j)
  BY <1>1, <1>2, <1>4 DEF ReallocSpec
<1>8. Kept
  BY <1>1, <1>6, <1>7, OldKept
<1>9. CatchNullsPointers => call.op \in InputOps
  BY <1>1, <1>2, <1>5, <1>6 DEF CatchNullsPointers, ReallocSpec, ReallocOps, SizedOps
<1> QED
  BY <1>1, <1>2, <1>3, <1>4, <1>8, <1>9, AbandonSpec

(* The new block holds the old elements around the inserted ones.          *)
LEMMA NewBlockHolds ==
  ASSUME IInv, ReallocSpec, fn \in ReallocFns, built = hi - lo, moved = m_finish,
         NEW s \in 0 .. (m_finish + (hi - lo) - 1)
  PROVE  mem[new_start][s] = IF s < lo THEN Old(s)
                             ELSE IF s < hi THEN Wanted(m_finish)
                             ELSE Old(s - (hi - lo))
<1>1. CASE s < lo
  <2>1. s \in 0 .. (moved - 1) /\ Dest(s) = s
    BY <1>1, InRealloc, Stored, Sizes DEF Dest
  <2> QED
    BY <1>1, <2>1 DEF ReallocSpec
<1>2. CASE lo <= s /\ s < hi
  <2>1. s - lo \in 0 .. (built - 1) /\ lo + (s - lo) = s /\ ~(s < lo)
    BY <1>2, InRealloc
  <2> QED
    BY <1>2, <2>1 DEF ReallocSpec
<1>3. CASE hi <= s
  <2>1. /\ s - (hi - lo) \in 0 .. (moved - 1) /\ Dest(s - (hi - lo)) = s
        /\ ~(s < lo) /\ ~(s < hi)
    BY <1>3, InRealloc, Stored, Sizes DEF Dest
  <2> QED
    BY <2>1 DEF ReallocSpec
<1> QED
  BY <1>1, <1>2, <1>3, InRealloc, Stored, Sizes

LEMMA CommitSpec ==
  ASSUME ContractKept, IInv, SpecInv, Commit PROVE Good
<1> DEFINE m == IF m_start = Null THEN mem ELSE [mem EXCEPT ![m_start] = RawBlock]
           n == m_finish + (hi - lo)
<1>1. /\ fn \in ReallocFns /\ fn # "idle" /\ built = hi - lo /\ moved = m_finish
      /\ m_start' = new_start /\ m_finish' = n
      /\ n \in Nat /\ n <= max_size /\ m_finish \in Nat /\ lo \in Nat /\ hi \in Nat
      /\ new_start \in Block /\ new_start # Null /\ new_start # temp
  <2>1. /\ fn \in ReallocFns /\ built = hi - lo /\ moved = m_finish
        /\ m_start' = new_start /\ m_finish' = n
    BY DEF Commit
  <2>2. max_size \in Nat /\ blk[new_start] <= max_size
    BY <2>1, InRealloc, Sizes
  <2> QED
    BY <2>1, <2>2, InRealloc, Stored, StateAssumption
<1>2. /\ CallSpec /\ TempSpec /\ ReallocSpec
      /\ call.op \in ReallocOps(fn) /\ Gap(fn, lo, hi)
      /\ call.op = "reserve" => call.n <= max_size
  BY <1>1 DEF SpecInv, ReallocSpec
<1>7. call.n \in Nat /\ max_size \in Nat /\ Len(before) \in Nat /\ call.pos \in Nat
  BY <1>1, <1>2, CallFacts
<1>3. /\ m \in MemoryType /\ m[new_start] = mem[new_start]
      /\ temp # Null => m[temp] = mem[temp]
  BY <1>1, Stored, InRealloc DEF MemoryType, RawBlock, Cell, IInv, TypeOK, TempValid
<1>4. \A s \in 0 .. (n - 1) :
        m[new_start][s] = IF s < lo THEN Old(s)
                          ELSE IF s < hi THEN Wanted(m_finish)
                          ELSE Old(s - (hi - lo))
  BY <1>1, <1>2, <1>3, NewBlockHolds
<1>5. CASE Afterwards = "idle"
  <2>1. PICK k, f : EndCall(m, k, f, "ok")
    BY <1>5 DEF Commit
  <2> HIDE DEF m
  <2>2. /\ call.op \notin InputOps /\ call.op # "assign_range"
        /\ m_finish = Len(before) /\ before \in Seq(Object)
        /\ \A j : Old(j) = before[j + 1]
    BY <1>1, <1>2, <1>5, CallFacts DEF Afterwards, BuildOps, InputOps, ReallocSpec, Old
  <2>3. ~TooMuch /\ Listed(Abstract!Effect, n)
        /\ \A x \in 1 .. n : Abstract!Effect[x] = m[new_start][x - 1]
    <3> SUFFICES /\ ~TooMuch /\ Listed(Abstract!Effect, n)
                 /\ \A x \in 1 .. n :
                      Abstract!Effect[x] = IF x <= lo THEN before[x]
                                           ELSE IF x <= hi THEN Wanted(m_finish)
                                           ELSE before[x - (hi - lo)]
      <4>1. ASSUME NEW x \in 1 .. n
            PROVE  m[new_start][x - 1] = IF x <= lo THEN before[x]
                                         ELSE IF x <= hi THEN Wanted(m_finish)
                                         ELSE before[x - (hi - lo)]
        <5>1. /\ x - 1 \in 0 .. (n - 1) /\ (x - 1 < lo <=> x <= lo)
              /\ (x - 1 < hi <=> x <= hi)
              /\ (x - 1) + 1 = x /\ (x - 1 - (hi - lo)) + 1 = x - (hi - lo)
          BY <1>1
        <5> QED
          BY <1>4, <2>2, <5>1
      <4> QED
        BY <4>1
    <3>1. CASE call.op \in {"reserve", "shrink_to_fit"}
      <4>1. lo = m_finish /\ hi = m_finish /\ (call.op = "reserve" => call.n <= max_size)
        BY <1>1, <1>2, <3>1 DEF ReallocSpec, ReallocOps, Gap, ReallocFns, AppendOps,
           InputOps
      <4>2. ~TooMuch
        BY <1>7, <3>1, <4>1
           DEF TooMuch, SizedOps, BuildOps, AssignOps,
               Insertions, InsertOneOps, AppendOps
      <4> QED
        BY <1>1, <1>2, <2>2, <3>1, <4>1, <4>2, PlainEffect
    <3>2. CASE call.op \in AppendOps \cup {"insert", "emplace", "insert_n"}
      <4>1. lo = call.pos /\ hi = call.pos + call.n
        <5>1. CASE call.op \in AppendOps
          <6>1. fn = "realloc_append"
            BY <1>1, <1>2, <5>1
               DEF ReallocOps, ReallocFns, AppendOps, BuildOps, InputOps
          <6>2. call.pos = Len(before) /\ call.n = 1
            BY <1>1, <1>2, <5>1, CallFacts DEF CallSpec
          <6> QED
            BY <1>2, <2>2, <6>1, <6>2 DEF Gap
        <5>2. CASE call.op \in {"insert", "emplace", "insert_n"}
          <6>1. fn \in {"realloc_insert", "insert_n"}
            BY <1>1, <1>2, <5>2
               DEF ReallocOps, ReallocFns, AppendOps, BuildOps, InputOps
          <6> QED
            BY <1>2, <6>1 DEF Gap
        <5> QED
          BY <3>2, <5>1, <5>2
      <4>2. n = Len(before) + call.n
        BY <1>7, <2>2, <4>1
      <4>3. \A x : Wanted(x) = Wanted(m_finish)
        BY <3>2 DEF Wanted, RangeOps, InputOps, AppendOps
      <4>4. ~TooMuch
        BY <1>1, <1>7, <3>2, <4>2
           DEF TooMuch, SizedOps, BuildOps, AssignOps, AppendOps
      <4>5. call.op \in Insertions \cup AppendOps
        BY <3>2 DEF Insertions, InsertOneOps
      <4>6. hi - lo = call.n
        BY <1>7, <4>1
      <4> HIDE DEF n
      <4> QED
        BY <1>1, <1>2, <4>1, <4>2, <4>3, <4>4, <4>5, <4>6, InsertEffect
    <3>3. CASE call.op \in {"resize", "resize_v"}
      <4>1. lo = Len(before) /\ hi = call.n
        BY <1>1, <1>2, <2>2, <3>3 DEF ReallocSpec, ReallocOps, Gap, ReallocFns,
           AppendOps, BuildOps, InputOps
      <4>2. n = call.n /\ Wanted(m_finish) = Given
        BY <1>7, <2>2, <3>3, <4>1 DEF Wanted, RangeOps, InputOps
      <4>3. ~TooMuch
        <5>1. call.n <= max_size
          BY <1>1, <4>2
        <5> QED
          BY <1>7, <3>3, <5>1
             DEF TooMuch, Insertions, InsertOneOps, AppendOps
      <4>4. \A x \in 1 .. n : x <= hi
        BY <4>1, <4>2
      <4> HIDE DEF n
      <4> QED
        BY <1>1, <1>2, <3>3, <4>1, <4>2, <4>3, <4>4, ResizeEffect
    <3> QED
      BY <1>1, <1>2, <1>5, <2>2, <3>1, <3>2, <3>3
         DEF ReallocSpec, ReallocOps, ReallocFns, Afterwards, BuildOps, InputOps
  <2> QED
    BY <1>1, <1>2, <1>3, <2>1, <2>3, Returns
<1>6. CASE Afterwards # "idle"
  <2>1. /\ fn' = Afterwards /\ call' = call /\ before' = before /\ temp' = temp
        /\ mem' = m
    BY <1>6 DEF Commit
  <2> HIDE DEF m
  <2>2. Running
    BY <1>1, <1>2, <2>1, CallFacts DEF Running
  <2>7. ASSUME call.op \in {"insert_rv", "insert_range", "assign_n"}
        PROVE  lo = m_finish /\ hi = m_finish /\ Shows(before)'
    <3>1. /\ lo = m_finish /\ hi = m_finish /\ m_finish = Len(before)
          /\ call.op \notin InputOps
      BY <1>1, <1>2, <2>7 DEF ReallocSpec, ReallocOps, Gap, ReallocFns, InputOps,
         AppendOps
    <3>2. m_finish' = Len(before)
      BY <1>1, <3>1
    <3>3. \A x \in 0 .. (m_finish' - 1) : m[new_start][x] = before[x + 1]
      BY <1>1, <1>4, <3>1, <3>2 DEF Old
    <3> QED
      BY <1>1, <2>1, <3>1, <3>2, <3>3 DEF Shows
  <2>3. CASE Afterwards = "entry"
    <3>1. EntrySpec'
      BY <2>1, <2>3, <2>7 DEF EntrySpec, Afterwards
    <3> QED
      BY <1>1, <1>2, <1>3, <2>1, <2>2, <2>3, <3>1, Elsewhere, GoesOn DEF ReallocFns
  <2>5. CASE Afterwards = "assign"
    <3>1. call.op = "assign_n" /\ i' = 0
      BY <2>5 DEF Afterwards, Commit
    <3>2. FillSpec'
      BY <2>1, <2>5, <3>1 DEF FillSpec
    <3> QED
      BY <1>1, <1>2, <1>3, <2>1, <2>2, <2>5, <3>2, Elsewhere, GoesOn DEF ReallocFns
  <2>6. CASE Afterwards = "shift"
    <3>1. call.op = "insert_range" /\ i' = LastShifted /\ call.op \notin InsertOneOps
      BY <2>6 DEF Afterwards, Commit, InsertOneOps
    <3>2. call.n > 0 /\ m_finish + call.n <= max_size
      <4>1. call.n > 0 /\ m_finish + call.n <= blk[new_start]
        BY <1>1, <2>6 DEF IInv, ReallocValid
      <4> QED
        BY <1>1, <1>7, <4>1, InRealloc
    <3>3. i' = m_finish + call.n - 1
      BY <1>7, <3>1, <3>2, LastShiftedExact
    <3>4. m_finish' = m_finish /\ m_finish = Len(before)
          /\ \A s \in 0 .. (m_finish - 1) : mem'[m_start'][s] = before[s + 1]
      <4>1. lo = m_finish /\ hi = m_finish /\ Shows(before)'
        BY <2>7, <3>1
      <4>2. m_finish' = m_finish
        BY <1>1, <4>1
      <4>3. /\ m_finish' = Len(before)
            /\ \A s \in 0 .. (m_finish' - 1) : mem'[m_start'][s] = before[s + 1]
        BY <2>1, <4>1 DEF Shows
      <4> QED
        BY <4>2, <4>3
    <3>5. ASSUME NEW s \in call.pos .. (m_finish - 1)
          PROVE  mem'[m_start'][IF s + call.n > i' THEN s + call.n ELSE s] = before[s + 1]
      <4>1. s \in 0 .. (m_finish - 1) /\ ~(s + call.n > i')
        BY <1>1, <1>7, <3>3
      <4> QED
        BY <3>4, <4>1
    <3>6. \A s \in 0 .. (call.pos - 1) : mem'[m_start'][s] = before[s + 1]
      BY <1>1, <1>2, <1>7, <3>4, CallFacts
    <3>7. ShiftSpec'
      BY <2>1, <2>6, <3>1, <3>4, <3>5, <3>6 DEF ShiftSpec
    <3> QED
      BY <1>1, <1>2, <1>3, <2>1, <2>2, <2>6, <3>7, Elsewhere, GoesOn DEF ReallocFns
  <2>4. CASE Afterwards = "append"
    <3>1. call.op \in BuildOps \cup AssignOps
      BY <2>4 DEF Afterwards, AssignOps
    <3>2. ASSUME NEW x \in 0 .. (n - 1) PROVE m[new_start][x] = Wanted(x)
      <4>1. CASE call.op \in InputOps
        <5>1. lo = m_finish /\ hi = m_finish + 1
          BY <1>1, <1>2, <4>1 DEF ReallocSpec, ReallocOps, Gap, ReallocFns,
             AppendOps, BuildOps, InputOps
        <5>2. \A j : Old(j) = Wanted(j)
          BY <4>1 DEF Old, Wanted, RangeOps
        <5>3. x < lo \/ (x = m_finish /\ x < hi)
          BY <1>1, <5>1
        <5> QED
          BY <1>4, <5>1, <5>2, <5>3
      <4>2. CASE call.op \notin InputOps
        <5>1. m_finish = 0 /\ lo = 0 /\ hi = 0
          <6>1. call.op = "assign_range" \/ call.op \in BuildOps
            BY <2>4, <4>2 DEF Afterwards, InputOps
          <6>2. m_finish = 0
            BY <1>1, <1>2, <4>2, <6>1, CallFacts DEF ReallocSpec, CallSpec
          <6> QED
            BY <1>1, <1>2, <4>2, <6>1, <6>2 DEF ReallocSpec, ReallocOps, Gap, ReallocFns,
             AppendOps, BuildOps, InputOps
        <5> QED
          BY <5>1
      <4> QED
        BY <4>1, <4>2
    <3>3. FillSpec'
      <4>1. \A s \in 0 .. (m_finish' - 1) : mem'[m_start'][s] = Wanted(s)
        BY <1>1, <2>1, <3>2
      <4>2. \A s : Wanted(s)' = Wanted(s)
        BY <2>2, SameCall
      <4> QED
        BY <2>1, <2>4, <3>1, <4>1, <4>2 DEF FillSpec
    <3> QED
      BY <1>1, <1>2, <1>3, <2>1, <2>2, <2>4, <3>3, Elsewhere, GoesOn DEF ReallocFns
  <2> QED
    BY <1>6, <2>3, <2>4, <2>5, <2>6 DEF Afterwards
<1> QED
  BY <1>5, <1>6

LEMMA ReallocStepSpec ==
  ASSUME ContractKept, IInv, SpecInv, ReallocStep PROVE Good
  BY BuildSpec, BuildThrowsSpec, RelocateSpec, RelocateThrowsSpec, CommitSpec
     DEF ReallocStep

=============================================================================
