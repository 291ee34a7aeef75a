----------------------------- MODULE VectorSpec -----------------------------
(***************************************************************************)
(* What vector<T> promises its caller, memory left out: a sequence of      *)
(* values on which one call at a time takes effect.  A call either returns *)
(* with the contents the operation defines, or ends with an exception that *)
(* it has reason to throw, and leaves the contents as they were (the strong*)
(* exception guarantee) or, for assign(first, last), empty.                *)
(***************************************************************************)
EXTENDS VectorCalls

CONSTANT
  MayThrow   \* what can throw: "alloc", "copy", "move", "ctor", "assign"

VARIABLES
  contents,   \* the elements, in order
  call,       \* the call in progress, or NoCall
  outcome     \* how the last call ended: "ok" or what it threw

vars == <<contents, call, outcome>>

Init == contents = <<>> /\ call = NoCall /\ outcome = "ok"

(* The value an argument denotes when the call is made.                    *)
Denoted(arg) == IF arg \in Slot THEN contents[arg + 1] ELSE arg

Copies(n, v) == [k \in 1 .. n |-> v]

Spliced(pos, s) ==
  SubSeq(contents, 1, pos) \o s \o SubSeq(contents, pos + 1, Len(contents))

Resized(n, v) ==
  IF n <= Len(contents) THEN SubSeq(contents, 1, n)
  ELSE contents \o Copies(n - Len(contents), v)

(* The contents after the call in progress has returned.                   *)
Effect ==
  CASE call.op \in {"reserve", "shrink_to_fit"} -> contents
    [] call.op \in {"clear", "destroy"} -> <<>>
    [] call.op = "pop_back" -> SubSeq(contents, 1, Len(contents) - 1)
    [] call.op = "resize" -> Resized(call.n, Default)
    [] call.op = "resize_v" -> Resized(call.n, Denoted(call.arg))
    [] call.op \in {"build", "build_n", "assign_n"} -> Copies(call.n, call.arg)
    [] call.op \in RangeOps \ {"insert_range"} -> call.arg
    [] call.op = "insert_range" -> Spliced(call.pos, call.arg)
    [] call.op = "erase" -> SubSeq(contents, 1, call.pos) \o
          SubSeq(contents, call.pos + call.n + 1, Len(contents))
    [] OTHER -> Spliced(call.pos, Copies(call.n, Denoted(call.arg)))

(* Calls that must be refused: length_error, or out_of_range for pop_back. *)
Refused ==
  \/ call.op \in SizedOps \cup BuildOps \cup AssignOps /\ call.n > max_size
  \/ call.op \in AppendOps \cup InsertOneOps \cup {"insert_n", "insert_range"}
       /\ Len(contents) + call.n > max_size
  \/ call.op = "pop_back" /\ contents = <<>>

Invoke ==
  /\ call = NoCall
  /\ call' \in LegalCalls(Len(contents))
  /\ outcome' = "ok"
  /\ UNCHANGED contents

(* assign(first, last) may lose the elements, but not show half of them.   *)
WeakOps == {"assign_range", "assign_input"}

Return ==
  /\ call # NoCall
  /\ ~Refused
  /\ contents' = Effect
  /\ call' = NoCall /\ outcome' = "ok"

(* What a call may throw: what the allocator or the elements do, and what  *)
(* it throws itself when it must be refused.                               *)
Throwable(what) ==
  \/ what = "bad_alloc" /\ "alloc" \in MayThrow
  \/ what = "exception" /\ MayThrow \ {"alloc"} # {}
  \/ what = "length_error" /\ Refused /\ call.op # "pop_back"
  \/ what = "out_of_range" /\ Refused /\ call.op = "pop_back"

Fail ==
  /\ call # NoCall
  /\ outcome' \in {"bad_alloc", "exception", "length_error", "out_of_range"}
  /\ Throwable(outcome')
  /\ call' = NoCall
  /\ \/ UNCHANGED contents
     \/ call.op \in WeakOps /\ contents' = <<>>

Next == Invoke \/ Return \/ Fail

Spec == Init /\ [][Next]_vars

=============================================================================
