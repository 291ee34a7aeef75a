------------------------------- MODULE Vector -------------------------------
(***************************************************************************)
(* One vector<T, Allocator> of vector.h, used by a program that makes one  *)
(* call at a time.  A call enters the action named after its method, which *)
(* makes the method's first decisions; the rest of the method is a loop of *)
(* VectorRealloc (into a new block), of VectorShift (inside the storage) or*)
(* of VectorAssign (contents from outside).                                *)
(***************************************************************************)
EXTENDS VectorAssign

(* vector(): no storage.                                                   *)
Init ==
  /\ mem = [b \in Block |-> RawBlock] /\ blk = [b \in Block |-> 0]
  /\ m_start = Null /\ m_finish = 0 /\ m_eos = 0
  /\ faults = {} /\ call = NoCall /\ outcome = "ok" /\ before = <<>>
  /\ fn = "idle" /\ new_start = Null /\ temp = Null
  /\ lo = 0 /\ hi = 0 /\ built = 0 /\ moved = 0 /\ i = 0

(* The program makes a call.  A vector without storage owns nothing, so    *)
(* another can be constructed in its place.                                *)
Invoke ==
  /\ call = NoCall
  /\ call' \in LegalCalls(size)
  /\ call'.op \in BuildOps => m_start = Null
  /\ fn' = "entry" /\ before' = Contents /\ outcome' = "ok"
  /\ UNCHANGED <<memory, vec, faults, frame, temp, i>>

Entered(op) == fn = "entry" /\ call.op = op

-----------------------------------------------------------------------------

Reserve ==
  /\ Entered("reserve")
  /\ \/ call.n <= capacity /\ Finish("ok")
     \/ call.n > capacity /\ call.n > max_size /\ Finish("length_error")
     \/ /\ call.n > capacity /\ call.n <= max_size
        /\ StartRealloc("grow", size, size, call.n)

(* The elements are moved to a temporary vector, which is swapped in; the  *)
(* temporary reserves nothing when there is no element.                    *)
ShrinkToFit ==
  /\ Entered("shrink_to_fit")
  /\ \/ capacity = size /\ Finish("ok")
     \/ capacity > size /\ size = 0 /\ DestroyStorageAndEnd("ok")
     \/ capacity > size /\ size > 0 /\ StartRealloc("shrink_to_fit", size, size, size)

Clear == Entered("clear") /\ TruncateAndEnd(0)

PopBack ==
  /\ Entered("pop_back")
  /\ \/ size = 0 /\ Finish("out_of_range")
     \/ size > 0 /\ TruncateAndEnd(size - 1)

(* ~vector(); the next call is made on a vector() built in its place.      *)
DestroyVector == Entered("destroy") /\ DestroyStorageAndEnd("ok")

(* push_back and emplace_back.                                             *)
PushBack ==
  /\ \E op \in AppendOps : Entered(op)
  /\ \/ size # capacity /\ ConstructAtEnd
     \/ size = capacity /\ StartGrowing("realloc_append", size, size + 1, 1)

(* resize(count) and resize(count, value).                                 *)
Resize ==
  /\ Entered("resize") \/ Entered("resize_v")
  /\ \/ call.n > max_size /\ Finish("length_error")
     \/ call.n = size /\ Finish("ok")
     \/ call.n < size /\ TruncateAndEnd(call.n)
     \/ call.n > size /\ call.n <= capacity /\ Loop("resize_in", size)
     \/ /\ call.n > capacity /\ call.n <= max_size
        /\ StartGrowing("realloc_resize", size, call.n, call.n - size)

-----------------------------------------------------------------------------

(* insert(pos, const T&) and emplace(pos, args...).                        *)
InsertOne ==
  /\ Entered("insert") \/ Entered("emplace")
  /\ \/ /\ size = capacity
        /\ StartGrowing("realloc_insert", call.pos, call.pos + 1, 1)
     \/ size # capacity /\ call.pos # size /\ AllocateTemp
     \/ size # capacity /\ call.pos = size /\ ConstructAtEnd

(* Mutant of InsertRvalue: it asks calculate_growth for no more room, which*)
(* is none when the vector is empty.                                       *)
InsertRvalueNoGrowth ==
  /\ Entered("insert_rv")
  /\ \/ size = capacity /\ temp = Null /\ AllocateTemp
     \/ size = capacity /\ temp # Null /\ StartGrowing("grow", size, size, 0)
     \/ size # capacity /\ call.pos # size /\ Loop("shift", LastShifted)
     \/ size # capacity /\ call.pos = size /\ ConstructAtEnd

(* insert(pos, T&&): when the vector is full the value is saved in a       *)
(* temp_value, the vector grows, and the function calls itself.            *)
InsertRvalue ==
  /\ Entered("insert_rv")
  /\ \/ size = capacity /\ temp = Null /\ AllocateTemp
     \/ size = capacity /\ temp # Null /\ StartGrowing("grow", size, size, 1)
     \/ size # capacity /\ call.pos # size /\ Loop("shift", LastShifted)
     \/ size # capacity /\ call.pos = size /\ ConstructAtEnd

(* Mutant of NoRoom: an exact fit counts as too little room.               *)
NoSpareRoom == Wrap(capacity - size) <= call.n

NoRoom == Wrap(capacity - size) < call.n

(* insert(pos, count, value).                                              *)
InsertFill ==
  /\ Entered("insert_n")
  /\ \/ call.n = 0 /\ Finish("ok")
     \/ call.n > max_size /\ Finish("length_error")
     \/ /\ call.n \in 1 .. max_size
        /\ \/ /\ NoRoom
              /\ StartGrowing("insert_n", call.pos, gap, call.n)
           \/ ~NoRoom /\ call.pos = size /\ Loop("fill_end", 0)
           \/ ~NoRoom /\ call.pos # size /\ AllocateTemp

(* insert(pos, first, last): after grow it goes on with the shift, without *)
(* another look at the capacity.                                           *)
InsertRange ==
  /\ Entered("insert_range")
  /\ \/ call.n = 0 /\ Finish("ok")
     \/ call.n # 0 /\ NoRoom /\ StartGrowing("grow", size, size, call.n)
     \/ call.n # 0 /\ ~NoRoom /\ Loop("shift", LastShifted)

(* erase(first, last), and erase(pos) with one element.                    *)
Erase ==
  /\ Entered("erase")
  /\ \/ call.n = 0 /\ Finish("ok")
     \/ call.n # 0 /\ Loop("erase", gap)

-----------------------------------------------------------------------------

Enter ==
  \/ Reserve \/ ShrinkToFit \/ Clear \/ PopBack \/ DestroyVector
  \/ PushBack \/ Resize
  \/ InsertOne \/ InsertRvalue \/ InsertFill \/ InsertRange \/ Erase
  \/ AssignEnter

(* A step of the library's code, as opposed to one of its caller.          *)
CodeStep == Enter \/ ReallocStep \/ InPlaceStep \/ AssignStep

Next == Invoke \/ CodeStep

Spec == Init /\ [][Next]_vars

(* A call, once made, keeps running: nothing else shares its thread.       *)
FairSpec == Spec /\ WF_vars(CodeStep)

-----------------------------------------------------------------------------
(* Types.                                                                  *)

TypeOK ==
  /\ mem \in [Block -> [Slot -> Cell]] /\ blk \in [Block -> 0 .. max_size]
  /\ m_start \in Block \cup {Null}
  /\ m_finish \in 0 .. max_size /\ m_eos \in 0 .. max_size
  /\ faults \subseteq {"construct_live", "construct_stray", "assign_raw", "read_raw",
                       "destroy_raw", "destroy_unused", "free_wrong",
                       "free_live", "free_stray"}
  /\ new_start \in Block \cup {Null} /\ temp \in Block \cup {Null}
  /\ lo \in 0 .. max_size /\ hi \in 0 .. max_size
  /\ built \in 0 .. max_size /\ moved \in 0 .. max_size
  /\ i \in SizeType


-----------------------------------------------------------------------------
(* What holds whatever throws.                                             *)

(* The basic exception guarantee: at every moment of every call the three  *)
(* pointers agree with the block that was allocated, and [m_start,         *)
(* m_finish) holds objects, so that the destructor and any later call are  *)
(* safe even after a constructor or an assignment has thrown half-way.     *)
StorageValid ==
  IF m_start = Null THEN m_finish = 0 /\ m_eos = 0
  ELSE /\ m_eos > 0 /\ blk[m_start] = m_eos /\ m_finish <= m_eos
       /\ \A s \in 0 .. (m_finish - 1) : mem[m_start][s] # Raw

(* No catch block, loop or rollback ever assigns to, reads or destroys a   *)
(* slot without an object, constructs over or forgets an object that the   *)
(* vector or the call in progress knows of, or deallocates a block twice or*)
(* with another size than it was allocated with.  Admitted are what happens*)
(* to objects that an exception has left beyond m_finish, and the unused   *)
(* slots that range_assign destroys at line 1120.                          *)
NoUndefinedBehaviour ==
  faults \subseteq {"construct_stray", "free_stray", "destroy_unused"}

Ended == call # NoCall /\ call' = NoCall

(* While a reallocation builds the new block of a type that it copies, the *)
(* vector still shows the elements it had when the call was made, or what  *)
(* the call has read of its source: the first half of the strong guarantee,*)
(* which the rollback needs.                                               *)
OldStorageIntact ==
  fn \in ReallocFns /\ ~NothrowMove =>
    Contents = IF call.op \in InputOps THEN SubSeq(call.arg, 1, m_finish)
               ELSE IF call.op = "assign_range" THEN <<>> ELSE before

(* So a reallocation of such a type that fails has no effect, wherever it  *)
(* throws, with these exceptions: the handlers that set the pointers to    *)
(* nullptr leave an empty vector, never a part of the elements.            *)
FailedReallocationUndone ==
  [][ Ended /\ outcome' # "ok" /\ fn \in ReallocFns /\ ~NothrowMove =>
        Contents' = IF TimeToMove /\ CatchNullsPointers THEN <<>> ELSE before ]_vars

(* Blocks nobody owns any more.                                            *)
Leaked == {b \in Block : blk[b] > 0 /\ b \notin {m_start, new_start, temp}}

(* The ways out that lose a block: the constructor of temp_value, which    *)
(* does not catch, and the handlers that release the new block and then set*)
(* the pointers to the old one to nullptr.                                 *)
LosesBlock ==
  \/ fn = "temp"
  \/ fn \in ReallocFns /\ TimeToMove /\ CatchNullsPointers

(* A block is lost only there, and only when an element throws: no call    *)
(* leaks that returns, or that ends with bad_alloc, length_error or        *)
(* out_of_range, and no other handler forgets a block.                     *)
OnlyElementsLoseBlocks ==
  [][Leaked' # Leaked => outcome' = "exception" /\ LosesBlock]_vars

(* A constructor that throws gives up every block it has allocated, since  *)
(* no destructor runs: the vector has none at the end, and none was lost on*)
(* the way but one, the old block when realloc_append cannot copy the      *)
(* elements already read to the new one.                                   *)
FailedConstructionReleases ==
  [][ call.op \in BuildOps =>
        /\ Ended /\ outcome' # "ok" => m_start' = Null
        /\ Leaked' # Leaked => /\ fn = "realloc_append" /\ TimeToMove
                               /\ Leaked' = Leaked \cup {m_start} ]_vars

-----------------------------------------------------------------------------
(* What holds when no element throws.                                      *)

(* Between calls the allocator's books balance: one block at most is out,  *)
(* exactly the elements are alive, and nothing was misused on the way.     *)
NothingLost ==
  call = NoCall =>
    /\ faults = {}
    /\ \A b \in Block : blk[b] = IF b = m_start THEN m_eos ELSE 0
    /\ \A b \in Block, s \in Slot :
         mem[b][s] # Raw <=> b = m_start /\ s < m_finish

(* References and iterators before the position stay valid: erase, and an  *)
(* insertion that the capacity of the moment can hold, neither change      *)
(* block nor touch an element before pos.                                  *)
ReferencesKept ==
  [][ \/ call.op = "erase"
      \/ /\ call.op \in InsertOneOps \cup {"insert_n", "insert_range"}
         /\ Len(before) + call.n <= m_eos
      => /\ m_start' = m_start
         /\ \A s \in Slot : s < call.pos => mem'[m_start][s] = mem[m_start][s]
    ]_vars

(* The contents seen by the caller: those at the call until it ends.       *)
Abstract ==
  INSTANCE VectorSpec WITH contents <- IF call = NoCall THEN Contents ELSE before,
                           outcome <- IF call = NoCall THEN outcome ELSE "ok"

(* Every call takes effect at once, or throws what it may and leaves no    *)
(* trace.                                                                  *)
ImplementsSpec == Abstract!Spec

(* Every call ends: the loops that count down in an unsigned size_type, and*)
(* insert(pos, T&&) that calls itself, do not go on for ever.              *)
CallReturns == call # NoCall ~> call = NoCall

(* How far the call in progress is from its end: the part of the method it *)
(* has reached, counted from the last, the elements of its source still to *)
(* be appended, and the turns left to the loop that runs.                  *)

(* insert(pos, T&&) when it has found or made room.                        *)
RoomFound == call.op = "insert_rv" /\ m_finish < m_eos

(* What is done before the storage grows: save the value, or give it up.   *)
ReadyToGrow == temp # Null \/ (call.op = "assign_range" /\ m_start = Null)

PartsLeft ==
  CASE fn = "entry" -> IF RoomFound THEN 4 ELSE IF ReadyToGrow THEN 6 ELSE 8
    [] fn = "temp" -> 7
    [] fn = "append" \/ (fn \in ReallocFns /\ call.op \in InputOps) -> 1
    [] fn \in ReallocFns /\ call.op \notin InputOps -> 5
    [] fn = "shift" -> 3
    [] fn \in {"place", "fill_end", "resize_in", "erase", "assign"} -> 2
    [] OTHER -> 0

ElementsLeft == IF PartsLeft = 1 THEN call.n - m_finish ELSE 0

TurnsLeft ==
  CASE fn \in ReallocFns -> (hi - lo - built) + (m_finish - moved)
    [] fn = "append" -> max_size + 1
    [] fn \in {"fill_end", "resize_in"} -> call.n - i
    [] fn = "shift" -> i + 1 - gap
    [] fn = "place" -> gap - i
    [] fn = "erase" -> m_finish - i
    [] fn = "assign" -> Common - i
    [] OTHER -> 0

(* The three decrease as a lexicographic order, which has no infinite      *)
(* descent among natural numbers.                                          *)
NearerEnd ==
  \/ PartsLeft' < PartsLeft
  \/ /\ PartsLeft' = PartsLeft
     /\ \/ ElementsLeft' < ElementsLeft
        \/ ElementsLeft' = ElementsLeft /\ TurnsLeft' < TurnsLeft

(* No step of a call is in vain: whatever throws, each brings its end      *)
(* nearer.  A loop whose unsigned counter passes below zero, or a method   *)
(* that starts over although nothing has changed, would break this.        *)
CallsRunDown ==
  [][ call # NoCall =>
        \/ call' = NoCall
        \/ {ElementsLeft', TurnsLeft'} \subseteq Nat /\ NearerEnd ]_vars

-----------------------------------------------------------------------------
(* What comments and tests of the repository say, and the code does not.   *)

(* stress_test.cpp:313: "Check that all objects were properly destroyed",  *)
(* asserting that no more is destroyed than was constructed.               *)
DestroysWhatWasConstructed == {"destroy_raw", "destroy_unused"} \cap faults = {}

(* vector.h:556, 873, 913, 1243, 1289: "strong exception gaurantee" of     *)
(* reserve, push_back and resize, and stress_test.cpp:400 "Exception was   *)
(* thrown, std::vector should be unchanged".                               *)
StrongGuaranteeAsCommented ==
  [][ Ended /\ outcome' = "exception"
        /\ call.op \in SizedOps \cup AppendOps => Contents' = before ]_vars

(* vector.h:1359: "Construct new element directly (args... is still        *)
(* valid)": the argument still has the value it had when the call was made.*)
ArgumentStillValid ==
  [][ fn = "realloc_insert" /\ built' > built /\ call.arg \in Slot
        => mem'[new_start][lo] = before[call.arg + 1] ]_vars

(* vector.h:729, 819: the insertions in the middle make a temporary to     *)
(* avoid self-reference, so insert(pos, n, v[k]) inserts n equal elements. *)
InsertsEqualCopies ==
  [][ Ended /\ outcome' = "ok" /\ call.op = "insert_n" =>
        \A s, t \in Slot :
          {s, t} \subseteq call.pos .. (gap - 1) =>
            mem'[m_start'][s] = mem'[m_start'][t] ]_vars

=============================================================================
