--------------------------- MODULE VectorInvariant ---------------------------
(***************************************************************************)
(* The inductive invariant of Vector: what each function relies on while   *)
(* it runs.  StorageValid says what the vector owns; the parts below add,  *)
(* for each value of fn, how far its loops have come and which slots hold  *)
(* objects because of it, whatever has thrown in earlier calls.            *)
(***************************************************************************)
EXTENDS Vector

(* What is wrong at most: an object that is not known of, or no longer.    *)
Harmless == {"construct_live", "construct_stray", "free_live", "free_stray",
             "destroy_unused"}

NothingAbsent == faults \subseteq Harmless

Live(b, S) == \A s \in S : mem[b][s] # Raw

(* The call in progress has legal arguments; an own element it refers to   *)
(* is still an element.                                                    *)
CallValid ==
  /\ fn \in {"idle", "entry"} \cup ReallocFns \cup InPlaceFns
  /\ fn = "idle" <=> call = NoCall
  /\ fn # "idle" =>
       /\ call.op \in Ops /\ call.op \in Used
       /\ call.n \in Count /\ call.pos \in 0 .. max_size
       /\ call.op \in BuildOps \cup AssignOps => call.pos = 0
       /\ IF call.op \in RangeOps THEN call.arg \in [1 .. call.n -> Value]
          ELSE call.arg \in Value \cup 0 .. (m_finish - 1)

EntryValid ==
  fn = "entry" =>
    /\ call.pos <= m_finish
    /\ call.op = "erase" => call.pos + call.n <= m_finish
    /\ call.op \in InsertOneOps => call.n = 1
    /\ call.op # "insert_rv" => temp = Null
    /\ call.op \in BuildOps => m_start = Null /\ m_finish = 0

(* The temp_value in scope holds an object in a block of its own.          *)
TempValid ==
  /\ fn = "idle" => temp = Null
  /\ temp # Null =>
       /\ temp # m_start /\ blk[temp] = 1 /\ mem[temp][0] # Raw
       /\ call.op \in InsertOneOps \cup {"insert_n"}

(* A temp_value under construction, and the room it is made for.           *)
NewTempValid ==
  fn = "temp" =>
    /\ temp = Null /\ new_start \in Block /\ new_start # m_start
    /\ blk[new_start] = 1
    /\ call.n > 0 /\ call.pos <= m_finish
    /\ call.op = "insert_rv" => call.n = 1
    /\ call.op \in {"insert", "emplace", "insert_n"} => m_finish + call.n <= m_eos
    /\ call.op \in InsertOneOps \cup {"insert_n"}

(* The new block has room for all, and holds the inserted elements built   *)
(* so far and the old elements moved so far.                               *)
ReallocValid ==
  fn \in ReallocFns =>
    /\ new_start \in Block /\ new_start # m_start /\ new_start # temp
    /\ call.pos <= m_finish
    /\ lo <= hi /\ lo <= m_finish /\ moved <= m_finish
    /\ built <= hi - lo /\ m_finish + (hi - lo) <= blk[new_start]
    /\ blk[new_start] > 0
    /\ Live(new_start, lo .. (lo + built - 1))
    /\ Live(new_start, {Dest(j) : j \in 0 .. (moved - 1)})
    /\ call.op \in InsertOneOps => call.n = 1
    /\ call.op # "insert_rv" => temp = Null
    /\ call.op \in RangeOps \ InputOps => lo = hi
    /\ fn = "grow" => m_eos < blk[new_start]
    /\ Afterwards = "shift" => call.n > 0 /\ m_finish + call.n <= blk[new_start]
    /\ Afterwards = "assign" => lo = hi /\ call.n <= blk[new_start]
    /\ Afterwards = "append" =>
         IF call.op \in InputOps THEN hi - lo = 1 /\ m_finish < call.n
         ELSE lo = hi /\ m_finish = 0 /\ call.n <= blk[new_start]

(* The loops inside the storage.                                           *)
FillValid ==
  /\ fn \in {"fill_end", "resize_in"} => call.op \notin RangeOps
  /\ fn = "fill_end" =>
       call.n > 0 /\ i <= call.n /\ m_finish + (call.n - i) <= m_eos
  /\ fn = "resize_in" =>
       /\ m_finish <= i /\ i <= call.n /\ 0 < call.n /\ call.n <= m_eos
       /\ Live(m_start, m_finish .. (i - 1))
  /\ fn = "assign" =>
       call.op \in AssignOps \ InputOps /\ i <= Common /\ call.n <= m_eos
  /\ fn = "append" =>
       /\ call.op \in BuildOps \cup AssignOps /\ m_finish <= call.n
       /\ call.op \notin InputOps => call.n <= m_eos

ShiftValid ==
  fn \in {"shift", "place"} =>
    /\ call.op \in InsertOneOps \cup {"insert_n", "insert_range"}
    /\ call.n > 0 /\ call.pos <= m_finish /\ m_finish + call.n <= m_eos
    /\ IF fn = "shift"
       THEN /\ gap - 1 <= i /\ i < m_finish + call.n
            /\ \A s \in m_finish .. (m_finish + call.n - 1) :
                 s > i => mem[m_start][s] # Raw
       ELSE /\ call.pos <= i /\ i <= gap
            /\ \A s \in m_finish .. (m_finish + call.n - 1) :
                 s < i \/ s >= gap => mem[m_start][s] # Raw

EraseValid ==
  fn = "erase" => call.n > 0 /\ gap <= i /\ i <= m_finish

IInv ==
  /\ TypeOK /\ StorageValid /\ NothingAbsent
  /\ CallValid /\ EntryValid /\ TempValid /\ NewTempValid
  /\ ReallocValid /\ FillValid /\ ShiftValid /\ EraseValid

=============================================================================
