----------------------------- MODULE VectorCalls -----------------------------
(***************************************************************************)
(* The calls a program can make on one vector, and the precondition of     *)
(* each: what iterator, count and value arguments it may pass.  Shared by  *)
(* the abstract specification (VectorSpec) and the storage model (Vector). *)
(***************************************************************************)
EXTENDS Growth, Sequences

CONSTANTS
  Value,       \* the values an element can hold
  Default,     \* the value a value-initialised element holds
  Raw,         \* the state of a slot that holds no object
  Moved,       \* the value of an object that has been moved from
  MaxRange,    \* the longest range [first, last) passed (a bound)
  SelfArg,     \* the operations whose argument may refer to an own element
  Used         \* the operations the program uses (a bound: all, or a part)

ASSUME ValueAssumption ==
  /\ Default \in Value
  /\ Raw \notin Value /\ Moved \notin Value /\ Raw # Moved
  /\ Value \cap Nat = {}

(* An argument bound to T&& may be taken to be the only reference to its   *)
(* object, so only these operations may be passed an own element.          *)
ASSUME SelfArgAssumption ==
  SelfArg \subseteq {"push_back", "emplace_back", "resize_v", "insert",
                     "emplace", "insert_n"}

(* Positions of elements, counted from begin().                            *)
Slot == 0 .. (max_size - 1)

Object == Value \cup {Moved}

(* push_back_rv and insert_rv take a T&&; resize_v takes a fill value;     *)
(* insert_n is insert(pos, count, value) and destroy is ~vector().         *)
ElementOps == {"reserve", "shrink_to_fit", "clear", "pop_back", "destroy",
               "push_back", "push_back_rv", "emplace_back",
               "resize", "resize_v", "insert", "insert_rv", "emplace",
               "insert_n", "insert_range", "erase"}

(* vector(count), vector(count, value), vector(first, last), where input   *)
(* marks iterators that can be read once only, and the same of assign.     *)
BuildOps == {"build", "build_n", "build_range", "build_input"}
AssignOps == {"assign_n", "assign_range", "assign_input"}
InputOps == {"build_input", "assign_input"}
RangeOps == {"insert_range", "build_range", "assign_range"} \cup InputOps

Ops == ElementOps \cup BuildOps \cup AssignOps

(* Operations that append one element, and that insert one at a position.  *)
AppendOps == {"push_back", "push_back_rv", "emplace_back"}
InsertOneOps == {"insert", "insert_rv", "emplace"}
(* Operations with a count but no position.                                *)
SizedOps == {"reserve", "resize", "resize_v"}

(* One past max_size() stands for every count beyond it.                   *)
Count == 0 .. (max_size + 1)

ASSUME RangeAssumption == MaxRange \in Count

(* A value argument: a value of the caller's own, or, for the operations   *)
(* in SelfArg, the index of the element of the vector it refers to.        *)
Args(op, size) ==
  IF op \in SelfArg THEN Value \cup 0 .. (size - 1) ELSE Value

(* The values of a range [first, last).                                    *)
Ranges == UNION {[1 .. n -> Value] : n \in 0 .. MaxRange}

CallRecord(op, pos, n, arg) == [op |-> op, pos |-> pos, n |-> n, arg |-> arg]

NoCall == CallRecord("none", 0, 0, Default)

(* The calls that are legal on a vector of this size, by their arguments.  *)
PlainCalls(size) ==
  {CallRecord(op, size, 0, Default) :
      op \in {"shrink_to_fit", "clear", "pop_back", "destroy"}}
CountCalls(size) ==
  {CallRecord(op, size, n, Default) : op \in {"reserve", "resize"}, n \in Count}
ResizeCalls(size) ==
  {CallRecord("resize_v", size, n, a) : n \in Count, a \in Args("resize_v", size)}
AppendCalls(size) ==
  UNION {{CallRecord(op, size, 1, a) : a \in Args(op, size)} : op \in AppendOps}
InsertOneCalls(size) ==
  UNION {{CallRecord(op, pos, 1, a) : pos \in 0 .. size, a \in Args(op, size)} :
      op \in InsertOneOps}
InsertFillCalls(size) ==
  {CallRecord("insert_n", pos, n, a) :
      pos \in 0 .. size, n \in Count, a \in Args("insert_n", size)}
InsertRangeCalls(size) ==
  {CallRecord("insert_range", pos, Len(r), r) : pos \in 0 .. size, r \in Ranges}
EraseCalls(size) ==
  UNION {{CallRecord("erase", pos, n, Default) : n \in 0 .. (size - pos)} :
      pos \in 0 .. size}

CountedCalls ==
  {CallRecord("build", 0, n, Default) : n \in Count}
  \cup {CallRecord(op, 0, n, a) :
          op \in {"build_n", "assign_n"}, n \in Count, a \in Value}
SourceCalls ==
  {CallRecord(op, 0, Len(r), r) : op \in RangeOps \ {"insert_range"}, r \in Ranges}

AllCalls(size) ==
  PlainCalls(size) \cup CountCalls(size) \cup ResizeCalls(size)
  \cup AppendCalls(size) \cup InsertOneCalls(size) \cup InsertFillCalls(size)
  \cup InsertRangeCalls(size) \cup EraseCalls(size)
  \cup CountedCalls \cup SourceCalls

(* An object is constructed where there is none.                           *)
LegalCalls(size) ==
  {c \in AllCalls(size) : c.op \in Used /\ (c.op \in BuildOps => size = 0)}

=============================================================================
