------------------------------ MODULE TreeNodes ------------------------------
(***************************************************************************)
(* The elements of the trees of uv/tree.h.  An element is its key: cmp of  *)
(* two elements compares the numbers.  A tree is a record of its root and  *)
(* of one function for each link, so that t["left"][x] is the macro        *)
(* SPLAY_LEFT or RB_LEFT, and the two halves of the code that differ only  *)
(* in left and right are one operator with the side as a parameter.  The   *)
(* links of an element that is in no tree are never read: they are NULL.   *)
(***************************************************************************)
EXTENDS Integers

CONSTANT NumNodes

ASSUME NodesAssumption == NumNodes \in Nat \ {0}

NULL == 0
Node == 1 .. NumNodes
Link == Node \cup {NULL}
Sides == {"left", "right"}

Other(side) == IF side = "left" THEN "right" ELSE "left"

(* The side of root on which the search for elm goes on. *)
Side(elm, root) == IF elm < root THEN "left" ELSE "right"

(* A loop of the macros: step is its body and leaves a state in which the  *)
(* loop ends as it is.  A loop that has not ended after more iterations    *)
(* than there are elements never ends, and has no value.                   *)
Repeat(step, state) ==
  LET after[n \in Nat] == IF n = 0 THEN state ELSE step[after[n - 1]]
      last == after[NumNodes + 1]
  IN CASE step[last] = last -> last

Ret(x) == IF x = NULL THEN <<>> ELSE <<x>>

(* What a call leaves: its name, the element it was about or NULL, and what *)
(* it returned or, of a walk, the elements visited.                        *)
Answer(call, arg, val) == [call |-> call, arg |-> arg, val |-> val]
NoAnswer == Answer("none", NULL, <<>>)

(* The names of the calls that go to a side. *)
StepTo == [left |-> "PREV", right |-> "NEXT"]
EndAt == [left |-> "MIN", right |-> "MAX"]
WalkTo == [left |-> "FOREACH_REVERSE", right |-> "FOREACH"]
SafeWalkTo == [left |-> "FOREACH_REVERSE_SAFE", right |-> "FOREACH_SAFE"]
WalkFrom == [left |-> "FOREACH_REVERSE_FROM", right |-> "FOREACH_FROM"]
=============================================================================
