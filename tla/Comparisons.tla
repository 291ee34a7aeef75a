---------------------------- MODULE Comparisons ----------------------------
(***************************************************************************)
(* operator== and operator<=> of vector.h on the vectors of TwoVectors.    *)
(* What they are built on depends on the element type, which may have an   *)
(* ==, a <=>, or only a <.                                                 *)
(***************************************************************************)
EXTENDS TwoVectors

CONSTANT
  ElementTypes   \* what comparing elements gives, and with which operators

(* less and same are the pairs for which < and == are true; equality and   *)
(* three_way tell whether the type has an == and a <=>.                    *)
ASSUME ElementAssumption == ElementTypes \subseteq
  [less : SUBSET (Value \X Value), same : SUBSET (Value \X Value),
   equality : BOOLEAN, three_way : BOOLEAN]

(* The <=> of the element type.                                            *)
ThreeWay(t, x, y) ==
  CASE <<x, y>> \in t.less -> "less"
    [] <<y, x>> \in t.less -> "greater"
    [] <<x, y>> \in t.same -> "equivalent"
    [] OTHER -> "unordered"

(* Mutant of SynthThreeWay: the operands are not tried the other way round.*)
SynthHalf(t, x, y) ==
  IF t.three_way THEN ThreeWay(t, x, y)
  ELSE IF <<x, y>> \in t.less THEN "less" ELSE "equivalent"

(* synth_three_way.                                                        *)
SynthThreeWay(t, x, y) ==
  IF t.three_way THEN ThreeWay(t, x, y)
  ELSE IF <<x, y>> \in t.less THEN "less"
  ELSE IF <<y, x>> \in t.less THEN "greater"
  ELSE "equivalent"

(* How operator== compares two elements.                                   *)
SameElement(t, x, y) ==
  CASE t.equality -> <<x, y>> \in t.same
    [] ~t.equality /\ t.three_way -> ThreeWay(t, x, y) = "equivalent"
    [] ~t.equality /\ ~t.three_way -> <<x, y>> \notin t.less /\ <<y, x>> \notin t.less

(* operator==.                                                             *)
EqualVectors(t, v, w) ==
  /\ vec[v].finish = vec[w].finish
  /\ \A k \in DOMAIN Contents(v) : SameElement(t, Contents(v)[k], Contents(w)[k])

(* operator<=>: the first elements that are not equivalent decide, or the  *)
(* lengths (std::lexicographical_compare_three_way).                       *)
ThreeWayVectors(t, v, w) ==
  LET x == Contents(v)
      y == Contents(w)
      Differ == {k \in DOMAIN x \cap DOMAIN y : SynthThreeWay(t, x[k], y[k]) # "equivalent"}
      first == CHOOSE k \in Differ : \A j \in Differ : k <= j
  IN  CASE Differ # {} -> SynthThreeWay(t, x[first], y[first])
        [] Differ = {} /\ Len(x) < Len(y) -> "less"
        [] Differ = {} /\ Len(x) > Len(y) -> "greater"
        [] OTHER -> "equivalent"

(* Two vectors are equal exactly when <=> finds them equivalent, whichever *)
(* operators their elements have, and <=> of the operands exchanged gives  *)
(* the opposite: std::totally_ordered, as cmp_c++20.cc requires.           *)
ComparisonsAgree ==
  \A v, w \in Vec :
    (\A u \in {v, w} : \A k \in DOMAIN Contents(u) : Contents(u)[k] # Moved) =>
      \A t \in ElementTypes :
        /\ EqualVectors(t, v, w) <=> ThreeWayVectors(t, v, w) = "equivalent"
        /\ ThreeWayVectors(t, v, w) = "less" <=> ThreeWayVectors(t, w, v) = "greater"

=============================================================================
