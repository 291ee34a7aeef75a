--------------------------- MODULE TwoVectorsSpec ---------------------------
(***************************************************************************)
(* What vectors promise when they copy, move and swap, memory left out:    *)
(* the elements and the allocator of each one after every function, by the *)
(* traits of the allocator type, and what an exception may have changed.   *)
(***************************************************************************)
EXTENDS AllocatorTraits

VARIABLES
  contents,   \* vector -> its elements, in order
  alloc       \* vector -> the personality of its allocator

vars == <<contents, alloc, traits, last>>

Init ==
  /\ traits \in Traits
  /\ contents = [v \in Vec |-> <<>>] /\ alloc \in [Vec -> Personality]
  /\ last = NoneYet

(* Only the vectors in V change, and v becomes p's with these elements.    *)
Only(V) ==
  \A u \in Vec \ V : contents'[u] = contents[u] /\ alloc'[u] = alloc[u]

Become(v, s, p) == contents'[v] = s /\ alloc'[v] = p

(* The function throws: bad_alloc, or what an element has thrown.          *)
Fails(op, args) ==
  \E what \in {"bad_alloc", "exception"} : Throws(op, args, what)

NoEffect(op, args) == UNCHANGED <<contents, alloc>> /\ Fails(op, args)

-----------------------------------------------------------------------------
(* Which function it is and what its arguments are is in last, so that the *)
(* result of a function that returns is determined.                        *)

(* vector(first, last, p), of the elements x.                              *)
Construct(v, x, p) ==
  /\ contents[v] = <<>>
  /\ \/ Only({v}) /\ Become(v, x, p) /\ Returns("construct", <<v, x, p>>)
     \/ NoEffect("construct", <<v, x, p>>)

Destroy(v) ==
  Only({v}) /\ Become(v, <<>>, alloc[v]) /\ Returns("destroy", <<v>>)

(* Sequence t has the elements of s that are not in S, in their order: from*)
(* is where each of them was.                                              *)
Remaining(t, s, S) ==
  LET Kept == {k \in DOMAIN s : s[k] \notin S}
  IN  \E from \in [DOMAIN t -> Kept] :
        /\ \A k \in Kept : \E j \in DOMAIN t : from[j] = k
        /\ \A j \in DOMAIN t : t[j] = s[from[j]]
        /\ \A i, j \in DOMAIN t : i < j => from[i] < from[j]

(* erase_if that throws has moved elements about, but has as many, and no  *)
(* others.                                                                 *)
EraseIf(v, S) ==
  /\ Only({v}) /\ alloc' = alloc
  /\ \/ Remaining(contents'[v], contents[v], S) /\ Returns("erase_if", <<v, S>>)
     \/ /\ Len(contents'[v]) = Len(contents[v])
        /\ \A k \in DOMAIN contents'[v] :
             \/ contents'[v][k] = Moved
             \/ \E j \in DOMAIN contents[v] : contents'[v][k] = contents[v][j]
        /\ Fails("erase_if", <<v, S>>)

CopyConstruct(v, w, p, op, args) ==
  /\ contents[v] = <<>>
  /\ \/ Only({v}) /\ Become(v, contents[w], p) /\ Returns(op, args)
     \/ NoEffect(op, args)

(* The elements of w when the first n of them have been moved from, and    *)
(* those after them too if they can be moved without an exception.         *)
LeftIn(w, n) ==
  [k \in DOMAIN contents[w] |->
     IF k <= n \/ MoveIfNoexcept = "move" THEN Moved ELSE contents[w][k]]

(* The new vector has the other's elements; the other has none, or, when   *)
(* the allocators differ, what moving them one by one has left.            *)
MoveConstruct(v, w, p, op, args) ==
  LET takes == Equal(p, alloc[w])
  IN  /\ contents[v] = <<>>
      /\ \/ /\ Only({v, w}) /\ Become(v, contents[w], p) /\ Returns(op, args)
            /\ Become(w, IF takes THEN <<>> ELSE LeftIn(w, 0), alloc[w])
         \/ ~takes /\ NoEffect(op, args)

(* An assignment that throws has put some elements of w in the place of    *)
(* those of v, and has not changed how many there are.                     *)
PartlyAssigned(v, w) ==
  /\ Len(contents'[v]) = Len(contents[v])
  /\ \A k \in DOMAIN contents'[v] :
       \/ contents'[v][k] = contents[v][k]
       \/ k \in DOMAIN contents[w] /\ contents'[v][k] = contents[w][k]

(* A copy assignment that throws has changed its target alone: partly, or  *)
(* it has emptied it because its allocator is replaced by an unequal one.  *)
CopyAssign(v, w) ==
  LET drops == traits.pocca /\ ~Equal(alloc[v], alloc[w])
  IN  /\ traits \in Assignable
      /\ Only({v}) /\ alloc'[v] = IF traits.pocca THEN alloc[w] ELSE alloc[v]
      /\ \/ contents'[v] = contents[w] /\ Returns("copy_assign", <<v, w>>)
         \/ /\ IF drops THEN contents'[v] = <<>> ELSE PartlyAssigned(v, w)
            /\ Fails("copy_assign", <<v, w>>)

(* Only a move assignment that must not take the storage can throw.  Its   *)
(* target is then partly assigned, or empty when it could not make room;   *)
(* and elements of the other vector may have been moved from.              *)
MoveAssign(v, w) ==
  LET takes == AlwaysTakes \/ Equal(alloc[v], alloc[w])
  IN  /\ Only({v, w})
      /\ alloc'[v] = (IF traits.pocma THEN alloc[w] ELSE alloc[v])
      /\ alloc'[w] = alloc[w]
      /\ \/ /\ contents'[v] = contents[w]
            /\ contents'[w] = IF takes THEN <<>> ELSE LeftIn(w, Len(contents[v]))
            /\ Returns("move_assign", <<v, w>>)
         \/ /\ ~takes
            /\ PartlyAssigned(v, w) \/ (contents'[v] = <<>> /\ contents'[w] = contents[w])
            /\ DOMAIN contents'[w] = DOMAIN contents[w]
            /\ \A k \in DOMAIN contents[w] : contents'[w][k] \in {contents[w][k], Moved}
            /\ Fails("move_assign", <<v, w>>)

Swap(v, w) ==
  /\ Swappable(alloc[v], alloc[w])
  /\ Only({v, w})
  /\ Become(v, contents[w], IF traits.pocs THEN alloc[w] ELSE alloc[v])
  /\ Become(w, contents[v], IF traits.pocs THEN alloc[v] ELSE alloc[w])
  /\ Returns("swap", <<v, w>>)

-----------------------------------------------------------------------------

Next ==
  /\ \/ \E v \in Vec : \/ Destroy(v)
                       \/ \E x \in Source, p \in Personality : Construct(v, x, p)
                       \/ \E S \in SUBSET Value : EraseIf(v, S)
     \/ \E v, w \in Vec :
          /\ v # w
          /\ \/ CopyConstruct(v, w, Select(alloc[w]), "copy_construct", <<v, w>>)
             \/ MoveConstruct(v, w, alloc[w], "move_construct", <<v, w>>)
             \/ \E p \in Personality :
                  \/ CopyConstruct(v, w, p, "copy_construct_with", <<v, w, p>>)
                  \/ MoveConstruct(v, w, p, "move_construct_with", <<v, w, p>>)
             \/ CopyAssign(v, w) \/ MoveAssign(v, w) \/ Swap(v, w)
  /\ UNCHANGED traits

Spec == Init /\ [][Next]_vars

=============================================================================
