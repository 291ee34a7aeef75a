-------------------------- MODULE SinglePassInsert --------------------------
(***************************************************************************)
(* insert(pos, first, last) of vector.h with iterators that can be read    *)
(* once only, as its constraint std::input_iterator allows.  The iterators *)
(* are input_iterator_wrapper of testsuite_iterators.h: pointers that share*)
(* a record of the range, whose start follows every increment of any copy, *)
(* and that verify their own use against it.                               *)
(***************************************************************************)
EXTENDS Integers

CONSTANT MaxRange   \* the longest range passed (a bound)

VARIABLES
  fn,       \* "distance" while counting, "copy" while inserting, or "done"
  last,     \* SharedInfo->last, where the range starts at 0
  shared,   \* SharedInfo->first, the start of what can still be read
  it,       \* the copy of the iterator that the loop advances
  count,    \* the result of std::distance
  copied,   \* how many elements have been inserted
  verified  \* no ITERATOR_VERIFY has failed

vars == <<fn, last, shared, it, count, copied, verified>>

Init ==
  /\ fn = "distance" /\ last \in 0 .. MaxRange
  /\ shared = 0 /\ it = 0 /\ count = 0 /\ copied = 0 /\ verified = TRUE

(* it == last, which both loops test before every turn.                    *)
ComparesValid == it >= shared /\ last >= shared

(* *it and ++it.                                                           *)
ReadsValid == it < last /\ it >= shared

(* ++it, which every copy of the iterator notices.                         *)
Advance == it' = it + 1 /\ shared' = it + 1

Judge(valid) == verified' = (verified /\ valid)

(* size_type count = std::distance(first, last).                           *)
Distance ==
  /\ fn = "distance" /\ it # last
  /\ Judge(ComparesValid /\ ReadsValid) /\ Advance /\ count' = count + 1
  /\ UNCHANGED <<fn, last, copied>>

(* The loop over the elements starts from first again.                     *)
DistanceDone ==
  /\ fn = "distance" /\ it = last
  /\ Judge(ComparesValid)
  /\ fn' = (IF count = 0 THEN "done" ELSE "copy") /\ it' = 0
  /\ UNCHANGED <<last, shared, count, copied>>

(* for(auto it = first; it != last; ++it,++i): the element goes into the   *)
(* vector.                                                                 *)
CopyNext ==
  /\ fn = "copy" /\ it # last
  /\ Judge(ComparesValid /\ ReadsValid) /\ Advance /\ copied' = copied + 1
  /\ UNCHANGED <<fn, last, count>>

CopyDone ==
  /\ fn = "copy" /\ it = last
  /\ Judge(ComparesValid) /\ fn' = "done"
  /\ UNCHANGED <<last, shared, it, count, copied>>

Next == Distance \/ DistanceDone \/ CopyNext \/ CopyDone

Spec == Init /\ [][Next]_vars

(* testsuite_iterators.h:283, 304: ITERATOR_VERIFY(ptr>=SharedInfo->first):*)
(* an iterator is not used after a copy of it has moved on.                *)
ReadOnce == verified

=============================================================================
