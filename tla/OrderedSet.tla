------------------------------ MODULE OrderedSet ------------------------------
(***************************************************************************)
(* What the trees of uv/tree.h are for: a set of elements in order.  A     *)
(* call leaves in ret its name, the element it is about and its result: a  *)
(* sequence of at most one element or, of a walk, of those it visited.     *)
(* The caller takes the result before it calls again.                      *)
(***************************************************************************)
EXTENDS Integers, SequencesExt, FiniteSetsExt

CONSTANT Node

VARIABLES set, ret

Least(S) == IF S = {} THEN <<>> ELSE <<Min(S)>>
Greatest(S) == IF S = {} THEN <<>> ELSE <<Max(S)>>

(* The element of S that is the k-th from below. *)
Ranked(S, k) == CHOOSE x \in S : Cardinality({y \in S : y <= x}) = k

InOrder(S) == [k \in 1 .. Cardinality(S) |-> Ranked(S, k)]

Answer(call, arg, val) == [call |-> call, arg |-> arg, val |-> val]
NoAnswer == Answer("none", 0, <<>>)

Init == set = {} /\ ret = NoAnswer

Inserts(elm) ==
  ret' = Answer("INSERT", elm, Least(set \cap {elm})) /\ set' = set \cup {elm}

Removes(elm) ==
  ret' = Answer("REMOVE", elm, Least(set \cap {elm})) /\ set' = set \ {elm}

(* The calls that only look, and what they find. *)
Looks(elm) ==
  /\ UNCHANGED set
  /\ \/ ret' = Answer("FIND", elm, Least(set \cap {elm}))
     \/ ret' = Answer("NFIND", elm, Least({x \in set : x >= elm}))
     \/ elm \in set /\ ret' = Answer("NEXT", elm, Least({x \in set : x > elm}))
     \/ elm \in set /\ ret' = Answer("PREV", elm, Greatest({x \in set : x < elm}))

LooksAtAll ==
  /\ UNCHANGED set
  /\ ret' \in {Answer("MIN", 0, Least(set)), Answer("MAX", 0, Greatest(set)),
               Answer("FOREACH", 0, InOrder(set)),
               Answer("FOREACH_REVERSE", 0, Reverse(InOrder(set)))}

(* A walk that removes what it visits, over the whole set or from elm on. *)
RemovesAll ==
  /\ set' = {}
  /\ ret' \in {Answer("FOREACH_SAFE", 0, InOrder(set)),
               Answer("FOREACH_REVERSE_SAFE", 0, Reverse(InOrder(set)))}

RemovesFrom(elm) ==
  LET above == {x \in set : x >= elm}
      below == {x \in set : x <= elm}
  IN /\ elm \in set
     /\ \/ ret' = Answer("FOREACH_FROM", elm, InOrder(above)) /\ set' = set \ above
        \/ ret' = Answer("FOREACH_REVERSE_FROM", elm, Reverse(InOrder(below))) /\ set' = set \ below

Call ==
  \/ LooksAtAll \/ RemovesAll
  \/ \E elm \in Node : Inserts(elm) \/ Removes(elm) \/ Looks(elm) \/ RemovesFrom(elm)

ResultTaken == ret # NoAnswer /\ ret' = NoAnswer /\ UNCHANGED set

Next == ResultTaken \/ (ret = NoAnswer /\ Call)

Spec == Init /\ [][Next]_<<set, ret>>
=============================================================================
