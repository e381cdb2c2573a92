--------------------------- MODULE SplayTree_proofs ---------------------------
(***************************************************************************)
(* The splay tree for any number of elements.  Between calls it is a       *)
(* search tree, and so are, inside SPLAY, the tree below the root and the  *)
(* two that hang from the stack.                                           *)
(*                                                                         *)
(* That a tree is a search tree is said of each element by itself, with    *)
(* two labels: lab.left[x] and lab.right[x] are the elements between which *)
(* the search that comes to x has found it.  Left and right are treated    *)
(* alike.                                                                  *)
(***************************************************************************)
EXTENDS SplayTree, TreeNodes_proofs

(* Below x, to the side, is another element with the labels that go with   *)
(* it, or there is none to be.                                             *)
ChildOK(t, S, lab, side, x) ==
  \/ t[side][x] = NULL /\ \A y \in S : ~(Before(side, lab[side][x], y) /\ Before(side, y, x))
  \/ /\ t[side][x] \in S
     /\ lab[side][t[side][x]] = lab[side][x]
     /\ lab[Other(side)][t[side][x]] = x

Typed(t, S, lab) ==
  t \in SplayTrees /\ S \in SUBSET Node /\ lab \in [Sides -> [Node -> Int]]

(* t is a search tree of the elements of S. *)
Labelled(t, S, lab) ==
  /\ Typed(t, S, lab)
  /\ t.root \in S
  /\ \A side \in Sides :
       /\ lab[side][t.root] = Far(side)
       /\ \A x \in S : /\ Before(side, lab[side][x], x) /\ ~Before(side, lab[side][x], Far(side))
                       /\ ChildOK(t, S, lab, side, x)

(* Inside SPLAY: the tree below the root lies between the elements at the  *)
(* ends of the trees that hang from the stack.  The label that will be the *)
(* root is Open as long as this is not known.                              *)
Open(side) == IF side = "left" THEN -1 ELSE NumNodes + 2
Edge(e, side) == IF e[side] = Stack THEN Far(side) ELSE e[side]

Hangs(t, S, lab, e, side) ==
  e[side] # Stack =>
    /\ e[side] \in S /\ lab[Other(side)][e[side]] = Open(Other(side))
    /\ t[Other(side)][Stack] \in S
    /\ lab[side][t[Other(side)][Stack]] = Far(side)
    /\ lab[Other(side)][t[Other(side)][Stack]] = Open(Other(side))

Placed(lab, e, side, x) ==
  /\ Before(side, lab[side][x], x) /\ ~Before(side, lab[side][x], Open(side))
  /\ lab[side][x] = Open(side) => ~Before(side, x, Edge(e, Other(side)))

Split(t, S, lab, e) ==
  /\ Typed(t, S, lab) /\ e \in Ends
  /\ t.root \in S
  /\ \A side \in Sides :
       /\ lab[side][t.root] = Edge(e, side)
       /\ Hangs(t, S, lab, e, side)
       /\ \A x \in S : /\ Placed(lab, e, side, x)
                       /\ x # e[Other(side)] => ChildOK(t, S, lab, side, x)

NoEnds == [left |-> Stack, right |-> Stack]

LEMMA TreeType ==
  ASSUME NEW t \in SplayTrees, NEW side \in Sides
  PROVE  t[side] \in [Node \cup {Stack} -> Link] /\ t.root \in Link
  BY DEF SplayTrees, Sides

LEMMA EndsType ==
  ASSUME NEW e \in Ends, NEW side \in Sides
  PROVE  e[side] \in Node \cup {Stack}
  BY DEF Ends, Sides

LEMMA Landmarks ==
  /\ NULL \in Int /\ Stack \in Int /\ Node \subseteq Int /\ NULL \notin Node /\ Stack \notin Node
  /\ \A side \in Sides : /\ Far(side) \in Int /\ Open(side) \in Int
                         /\ Before(side, Open(side), Far(side))
                         /\ \A x \in Node : Before(side, Far(side), x)
  BY NodesAssumption DEF Node, NULL, Stack, Far, Open, Before, Sides

LEMMA EdgeNotOpen ==
  ASSUME NEW e \in Ends, NEW side \in Sides
  PROVE  Edge(e, side) \in Int /\ Edge(e, side) # Open(side) /\ Edge(e, side) \in Node \cup {Far(side)}
  <1>1. Edge(e, side) \in Node \cup {Far(side)}
    BY EndsType DEF Edge
  <1>2. ASSUME NEW x \in Node \cup {Far(side)} PROVE x \in Int /\ x # Open(side)
    BY NodesAssumption DEF Far, Open, Node, NULL, Stack
  <1> QED
    BY <1>1, <1>2

LEMMA SplitStarts ==
  ASSUME NEW t, NEW S, NEW lab, Labelled(t, S, lab)
  PROVE  Split(t, S, lab, NoEnds)
  <1> USE NodesAssumption DEF Labelled, Typed
  <1>1. NoEnds \in Ends /\ \A side \in Sides : NoEnds[side] = Stack /\ Edge(NoEnds, side) = Far(side)
    BY DEF NoEnds, Ends, Edge, Sides
  <1>2. ASSUME NEW side \in Sides, NEW x \in S PROVE Placed(lab, NoEnds, side, x)
    <2>1. lab[side][x] \in Int /\ x \in Int
      BY Landmarks
    <2>2. Before(side, lab[side][x], x) /\ ~Before(side, lab[side][x], Far(side))
      OBVIOUS
    <2> QED
      BY <2>1, <2>2, <1>1, TwoSides DEF Placed, Before, Far, Open, Sides, Other, NULL, Stack
  <1> QED
    BY <1>1, <1>2 DEF Split, Hangs

-----------------------------------------------------------------------------
(* What the operations on links make of a tree. *)
LEMMA Turned ==
  ASSUME NEW t \in SplayTrees, NEW side \in Sides, t.root # NULL, t[side][t.root] # NULL
  PROVE  LET u == RotateUp(t, side)
             o == Other(side)
         IN /\ u \in SplayTrees
            /\ u.root = t[side][t.root]
            /\ u[side] = [t[side] EXCEPT ![t.root] = t[o][t[side][t.root]]]
            /\ u[o] = [t[o] EXCEPT ![t[side][t.root]] = t.root]
  <1>1. CASE side = "left"
    BY <1>1 DEF SplayTrees, RotateUp, Other, Link
  <1>2. CASE side = "right"
    BY <1>2 DEF SplayTrees, RotateUp, Other, Link
  <1> QED
    BY <1>1, <1>2 DEF Sides

(* The child gets the labels of the root, and the root those beside it. *)
TurnedLabels(t, lab, side) ==
  LET r == t.root
      c == t[side][r]
  IN [lab EXCEPT ![side][r] = c, ![Other(side)][c] = lab[Other(side)][r]]

LEMMA TurnedLabelsAre ==
  ASSUME NEW t, NEW lab \in [Sides -> [Node -> Int]], NEW side \in Sides,
         t.root \in Node, t[side][t.root] \in Node
  PROVE  LET r == t.root
             c == t[side][r]
             o == Other(side)
             new == TurnedLabels(t, lab, side)
         IN /\ new \in [Sides -> [Node -> Int]]
            /\ \A x \in Node : /\ new[side][x] = IF x = r THEN c ELSE lab[side][x]
                               /\ new[o][x] = IF x = c THEN lab[o][r] ELSE lab[o][x]
  <1> DEFINE r == t.root
             c == t[side][r]
             o == Other(side)
             new == [lab EXCEPT ![side][r] = c, ![o][c] = lab[o][r]]
  <1>1. lab[o][r] \in Int /\ c \in Int /\ o \in Sides /\ o # side
    <2>1. o \in Sides /\ o # side
      BY TwoSides
    <2> QED
      BY <2>1, Landmarks
  <1>2. new = [lab EXCEPT ![side] = [lab[side] EXCEPT ![r] = c], ![o] = [lab[o] EXCEPT ![c] = lab[o][r]]]
    BY <1>1
  <1>3. /\ new \in [Sides -> [Node -> Int]]
        /\ \A x \in Node : /\ new[side][x] = IF x = r THEN c ELSE lab[side][x]
                           /\ new[o][x] = IF x = c THEN lab[o][r] ELSE lab[o][x]
    BY <1>1, <1>2
  <1>4. TurnedLabels(t, lab, side) = new
    BY DEF TurnedLabels
  <1> HIDE DEF new
  <1> QED
    BY <1>3, <1>4

(* The root, and the child it has, lie strictly between the ends. *)
LEMMA RootInside ==
  ASSUME NEW t, NEW S, NEW lab, NEW e, Split(t, S, lab, e), NEW side \in Sides
  PROVE  t.root \in Node /\ t.root # e[side]
  <1> DEFINE r == t.root
  <1>1. r \in Node /\ r \in Int /\ r # Stack
    BY Landmarks DEF Split, Typed
  <1>2. lab[side][r] = Edge(e, side) /\ Before(side, lab[side][r], r)
    BY DEF Split, Placed
  <1>3. Edge(e, side) # r
    BY <1>1, <1>2, Order
  <1> QED
    BY <1>1, <1>3 DEF Edge

LEMMA ChildInside ==
  ASSUME NEW t, NEW S, NEW lab, NEW e, Split(t, S, lab, e),
         NEW side \in Sides, t[side][t.root] # NULL
  PROVE  LET r == t.root
             o == Other(side)
             c == t[side][r]
         IN /\ c \in S /\ c \in Node /\ lab[side][c] = lab[side][r] /\ lab[o][c] = r
            /\ Before(side, c, r) /\ c # r /\ c # e[side] /\ c # e[o]
  <1> DEFINE r == t.root
             o == Other(side)
             c == t[side][r]
  <1>1. /\ r \in S /\ S \subseteq Node /\ o \in Sides /\ Other(o) = side
        /\ r \in Node /\ r # e[side] /\ r # e[o]
    <2>1. o \in Sides /\ Other(o) = side
      BY TwoSides
    <2>2. r # e[side] /\ r # e[o] /\ r \in Node
      BY <2>1, RootInside
    <2> QED
      BY <2>1, <2>2 DEF Split, Typed
  <1>2. c \in S /\ lab[side][c] = lab[side][r] /\ lab[o][c] = r
    BY <1>1 DEF Split, ChildOK
  <1>3. c \in Node /\ c \in Int /\ r \in Int /\ c # Stack
    BY <1>1, <1>2, Landmarks
  <1>4. /\ lab[side][r] = Edge(e, side) /\ lab[o][r] = Edge(e, o)
        /\ Before(side, lab[side][c], c) /\ Before(o, r, c) /\ Before(o, lab[o][r], r)
    BY <1>1, <1>2 DEF Split, Placed
  <1>5. Before(side, c, r)
    BY <1>3, <1>4, Order
  <1>6. c # r /\ c # Edge(e, side)
    BY <1>2, <1>3, <1>4, <1>5, Order
  <1>7. c # Edge(e, o)
    BY <1>3, <1>4, <1>5, Order
  <1> QED
    BY <1>2, <1>3, <1>5, <1>6, <1>7 DEF Edge

LEMMA SplitTurns ==
  ASSUME NEW t, NEW S, NEW lab, NEW e, Split(t, S, lab, e),
         NEW side \in Sides, t[side][t.root] # NULL
  PROVE  Split(RotateUp(t, side), S, TurnedLabels(t, lab, side), e)
  <1> DEFINE r == t.root
             o == Other(side)
             c == t[side][r]
             u == RotateUp(t, side)
             new == TurnedLabels(t, lab, side)
  <1>0. /\ Typed(t, S, lab) /\ e \in Ends /\ r \in S /\ lab[side][r] = Edge(e, side) /\ lab[o][r] = Edge(e, o)
        /\ o \in Sides /\ Other(o) = side /\ o # side
    BY TwoSides DEF Split
  <1>1. /\ S \subseteq Node /\ t \in SplayTrees /\ lab \in [Sides -> [Node -> Int]]
        /\ t[side] \in [Node \cup {Stack} -> Link] /\ t[o] \in [Node \cup {Stack} -> Link]
        /\ lab[side] \in [Node -> Int] /\ lab[o] \in [Node -> Int]
    BY <1>0, TreeType DEF Typed
  <1>2. \A x \in S : Before(side, lab[side][x], x) /\ Before(o, lab[o][x], x)
    BY <1>0 DEF Split, Placed
  <1>3. r \in Node /\ r # NULL
    BY <1>0, RootInside, Landmarks
  <1>5. /\ c \in S /\ c \in Node /\ lab[side][c] = lab[side][r] /\ lab[o][c] = r
        /\ Before(side, c, r) /\ c # r
    BY ChildInside
  <1>4. r # e[side] /\ r # e[o] /\ c # e[side] /\ c # e[o]
    BY <1>0, RootInside, ChildInside
  <1>7. /\ u \in SplayTrees /\ u.root = c
        /\ u[side] = [t[side] EXCEPT ![r] = t[o][c]]
        /\ u[o] = [t[o] EXCEPT ![c] = r]
    BY <1>1, <1>3, Turned
  <1>8. ASSUME NEW x \in Node \cup {Stack}
        PROVE  /\ u[side][x] = IF x = r THEN t[o][c] ELSE t[side][x]
               /\ u[o][x] = IF x = c THEN r ELSE t[o][x]
    BY <1>1, <1>7
  <1>9. /\ new \in [Sides -> [Node -> Int]]
        /\ \A x \in Node : /\ new[side][x] = IF x = r THEN c ELSE lab[side][x]
                           /\ new[o][x] = IF x = c THEN lab[o][r] ELSE lab[o][x]
    <2>1. /\ t.root \in Node /\ t[side][t.root] \in Node
          /\ lab \in [Sides -> [Node -> Int]]
      BY <1>1, <1>3, <1>5
    <2> HIDE DEF r, c, o
    <2> QED
      BY <2>1, TurnedLabelsAre DEF r, c, o
  <1> HIDE DEF u, new
  <1>10. ASSUME NEW x \in S PROVE Placed(new, e, side, x) /\ Placed(new, e, o, x)
    <2>1. /\ Placed(lab, e, side, x) /\ Placed(lab, e, o, x) /\ Placed(lab, e, o, r)
          /\ x \in Node /\ x \in Int /\ r \in Int /\ c \in Int
          /\ lab[side][x] \in Int /\ lab[o][x] \in Int /\ lab[o][r] \in Int
      BY <1>0, <1>1, <1>3, <1>5, Landmarks DEF Split
    <2>2. Placed(new, e, side, x)
      <3>1. CASE x = r
        <4>1. new[side][x] = c
          BY <1>9, <2>1, <3>1
        <4>2. Before(side, Open(side), Far(side)) /\ Before(side, Far(side), c) /\ Open(side) \in Int /\ Far(side) \in Int
          BY <1>5, Landmarks
        <4> QED
          BY <4>1, <4>2, <1>5, <2>1, <3>1 DEF Placed, Before
      <3>2. CASE x # r
        BY <1>9, <2>1, <3>2 DEF Placed
      <3> QED
        BY <3>1, <3>2
    <2>3. Placed(new, e, o, x)
      <3>1. CASE x = c
        <4>1. new[o][x] = lab[o][r]
          BY <1>9, <2>1, <3>1
        <4>2. Before(o, lab[o][r], c)
          BY <1>0, <1>2, <1>5, <2>1 DEF Before, Other, Sides
        <4>3. lab[o][r] # Open(o)
          BY <1>0, <1>3, EndsType, Landmarks DEF Edge, Before
        <4> QED
          BY <4>1, <4>2, <4>3, <2>1, <3>1 DEF Placed
      <3>2. CASE x # c
        BY <1>9, <2>1, <3>2 DEF Placed
      <3> QED
        BY SMTT(30), <3>1, <3>2
    <2> QED
      BY <2>2, <2>3
  <1>11. ASSUME NEW x \in S, x # e[o] PROVE ChildOK(u, S, new, side, x)
    <2>1. ChildOK(t, S, lab, side, x) /\ x \in Node
      BY <1>0, <1>1, <1>11 DEF Split
    <2>2. CASE x = r
      <3>1. ChildOK(t, S, lab, o, c)
        BY <1>0, <1>5, <1>4 DEF Split
      <3>2. u[side][x] = t[o][c] /\ new[side][x] = c
        BY SMTT(30), <1>8, <1>9, <2>1, <2>2
      <3>3. CASE t[o][c] \in S
        <4>1. t[o][c] \in Node /\ lab[o][t[o][c]] = r /\ lab[side][t[o][c]] = c
          BY <3>1, <3>3, <1>0, <1>1, <1>5, Landmarks DEF ChildOK
        <4>2. t[o][c] # r /\ t[o][c] # c
          <5>1. Before(o, r, r) \/ Before(side, c, c) => FALSE
            BY <1>0, <1>3, <1>5, Landmarks, Order
          <5> QED
            BY <4>1, <5>1, <3>3, <1>2
        <4> QED
          BY SMTT(30), <4>1, <4>2, <3>2, <3>3, <1>9, <2>2 DEF ChildOK
      <3>4. CASE t[o][c] \notin S
        <4>1. t[o][c] = NULL /\ \A y \in S : ~(Before(o, r, y) /\ Before(o, y, c))
          BY <3>1, <3>4, <1>5 DEF ChildOK
        <4>2. \A y \in S : ~(Before(side, c, y) /\ Before(side, y, r))
          BY <4>1, <1>0 DEF Before, Other, Sides
        <4> QED
          BY <4>1, <4>2, <3>2, <2>2 DEF ChildOK
      <3> QED
        BY <3>3, <3>4
    <2>3. CASE x # r
      <3>1. u[side][x] = t[side][x] /\ new[side][x] = lab[side][x]
        BY <1>8, <1>9, <2>1, <2>3
      <3>2. CASE t[side][x] \in S
        <4>1. t[side][x] \in Node /\ lab[side][t[side][x]] = lab[side][x] /\ lab[o][t[side][x]] = x
          BY <2>1, <3>2, <1>1, Landmarks DEF ChildOK
        <4>2. t[side][x] # c /\ t[side][x] # r
          <5>1. lab[o][r] # x
            BY <1>0, <1>11, <2>1, Landmarks DEF Edge, Far, Stack
          <5> QED
            BY <4>1, <5>1, <1>5, <2>3
        <4> QED
          BY <4>1, <4>2, <3>1, <3>2, <1>9 DEF ChildOK
      <3>3. CASE t[side][x] \notin S
        BY <2>1, <3>1, <3>3 DEF ChildOK
      <3> QED
        BY <3>2, <3>3
    <2> QED
      BY <2>2, <2>3
  <1>12. ASSUME NEW x \in S, x # e[side] PROVE ChildOK(u, S, new, o, x)
    <2>1. ChildOK(t, S, lab, o, x) /\ x \in Node
      BY <1>0, <1>1, <1>12 DEF Split
    <2>2. CASE x = c
      <3>1. u[o][x] = r /\ new[o][x] = lab[o][r] /\ new[o][r] = lab[o][r] /\ new[side][r] = c
        BY <1>3, <1>5, <1>8, <1>9, <2>1, <2>2
      <3> QED
        BY <3>1, <1>0, <2>2 DEF ChildOK
    <2>3. CASE x # c
      <3>1. u[o][x] = t[o][x] /\ new[o][x] = lab[o][x]
        BY <1>8, <1>9, <2>1, <2>3
      <3>2. CASE t[o][x] \in S
        <4>1. t[o][x] \in Node /\ lab[o][t[o][x]] = lab[o][x] /\ lab[side][t[o][x]] = x
          BY <2>1, <3>2, <1>0, <1>1, Landmarks DEF ChildOK
        <4>2. t[o][x] # c /\ t[o][x] # r
          <5>1. lab[side][r] # x
            BY <1>0, <1>12, <2>1, Landmarks DEF Edge, Far, Stack
          <5> QED
            BY <4>1, <5>1, <1>5
        <4> QED
          BY <4>1, <4>2, <3>1, <3>2, <1>0, <1>9 DEF ChildOK
      <3>3. CASE t[o][x] \notin S
        BY <2>1, <3>1, <3>3 DEF ChildOK
      <3> QED
        BY <3>2, <3>3
    <2> QED
      BY <2>2, <2>3
  <1>13. ASSUME NEW s \in {side, o} PROVE Hangs(u, S, new, e, s)
    <2>1. Hangs(t, S, lab, e, s) /\ s \in Sides /\ Other(s) \in {side, o} /\ Other(s) # s
      BY <1>0 DEF Split
    <2>2. u[side][Stack] = t[side][Stack] /\ u[o][Stack] = t[o][Stack]
      BY <1>3, <1>5, <1>8, Landmarks
    <2> SUFFICES ASSUME e[s] # Stack
                 PROVE  /\ e[s] \in S /\ new[Other(s)][e[s]] = Open(Other(s))
                        /\ u[Other(s)][Stack] \in S
                        /\ new[s][u[Other(s)][Stack]] = Far(s)
                        /\ new[Other(s)][u[Other(s)][Stack]] = Open(Other(s))
      BY DEF Hangs
    <2>3. /\ e[s] \in S /\ lab[Other(s)][e[s]] = Open(Other(s))
          /\ t[Other(s)][Stack] \in S
          /\ lab[s][t[Other(s)][Stack]] = Far(s)
          /\ lab[Other(s)][t[Other(s)][Stack]] = Open(Other(s))
      BY <2>1 DEF Hangs
    <2>4. lab[side][r] # Open(side) /\ lab[o][r] # Open(o) /\ r # Open(o) /\ r # Open(side)
      BY <1>0, <1>3, EndsType, Landmarks DEF Edge, Before
    <2>5. t[Other(s)][Stack] # r /\ t[Other(s)][Stack] # c /\ e[s] # r /\ e[s] # c
      BY <2>1, <2>3, <2>4, <1>3, <1>5, <1>4
    <2> QED
      BY <1>0, <1>1, <1>9, <2>1, <2>2, <2>3, <2>5
  <1>14. u.root \in S /\ new[side][u.root] = Edge(e, side) /\ new[o][u.root] = Edge(e, o)
    BY <1>0, <1>5, <1>7, <1>9
  <1>15. Typed(u, S, new)
    BY <1>0, <1>7, <1>9 DEF Typed
  <1>16. Sides = {side, o}
    BY <1>0 DEF Sides
  <1>17. Split(u, S, new, e)
    BY <1>0, <1>10, <1>11, <1>12, <1>13, <1>14, <1>15, <1>16 DEF Split
  <1> QED
    BY <1>17 DEF u, new

LEMMA Linked ==
  ASSUME NEW t \in SplayTrees, NEW e \in Ends, NEW side \in Sides, t.root # NULL, t[side][t.root] # NULL
  PROVE  LET u == LinkRoot(t, e, side)
             o == Other(side)
         IN /\ u \in SplayTrees
            /\ u.root = t[side][t.root]
            /\ u[side] = [t[side] EXCEPT ![e[o]] = t.root]
            /\ u[o] = t[o]
  <1>1. CASE side = "left"
    BY <1>1 DEF SplayTrees, LinkRoot, Other, Link, Ends
  <1>2. CASE side = "right"
    BY <1>2 DEF SplayTrees, LinkRoot, Other, Link, Ends
  <1> QED
    BY <1>1, <1>2 DEF Sides

(* The root becomes the end of the tree beyond elm. *)
LEMMA SplitLinks ==
  ASSUME NEW t, NEW S, NEW lab, NEW e, Split(t, S, lab, e),
         NEW side \in Sides, t[side][t.root] # NULL
  PROVE  Split(LinkRoot(t, e, side), S, [lab EXCEPT ![side][t.root] = Open(side)],
               [e EXCEPT ![Other(side)] = t.root])
  <1> DEFINE r == t.root
             o == Other(side)
             c == t[side][r]
             u == LinkRoot(t, e, side)
             new == [lab EXCEPT ![side][r] = Open(side)]
             f == [e EXCEPT ![o] = r]
  <1>0. /\ Typed(t, S, lab) /\ e \in Ends /\ r \in S /\ lab[side][r] = Edge(e, side) /\ lab[o][r] = Edge(e, o)
        /\ o \in Sides /\ Other(o) = side /\ o # side
    BY TwoSides DEF Split
  <1>1. /\ S \subseteq Node /\ t \in SplayTrees /\ lab \in [Sides -> [Node -> Int]]
        /\ t[side] \in [Node \cup {Stack} -> Link] /\ t[o] \in [Node \cup {Stack} -> Link]
        /\ lab[side] \in [Node -> Int] /\ lab[o] \in [Node -> Int]
        /\ e[side] \in Node \cup {Stack} /\ e[o] \in Node \cup {Stack}
    BY <1>0, TreeType, EndsType DEF Typed
  <1>2. \A x \in S : Before(side, lab[side][x], x) /\ Before(o, lab[o][x], x)
    BY <1>0 DEF Split, Placed
  <1>3. r \in Node /\ r # NULL /\ r # Stack /\ r # e[side] /\ r # e[o]
    BY <1>0, <1>1, RootInside, Landmarks
  <1>4. c \in S /\ c \in Node /\ lab[side][c] = lab[side][r] /\ lab[o][c] = r /\ c # r
    BY ChildInside
  <1>5. /\ u \in SplayTrees /\ u.root = c
        /\ u[side] = [t[side] EXCEPT ![e[o]] = r]
        /\ u[o] = t[o]
    BY <1>0, <1>1, <1>3, Linked
  <1>6. ASSUME NEW x \in Node \cup {Stack}
        PROVE  u[side][x] = IF x = e[o] THEN r ELSE t[side][x]
    BY <1>1, <1>5
  <1>7. /\ new \in [Sides -> [Node -> Int]]
        /\ new[o] = lab[o]
        /\ \A x \in Node : new[side][x] = IF x = r THEN Open(side) ELSE lab[side][x]
    BY <1>0, <1>1, <1>3, Landmarks
  <1>8. f \in Ends /\ f[side] = e[side] /\ f[o] = r
    BY <1>0, <1>3 DEF Ends, Sides
  <1>9. Edge(f, side) = Edge(e, side) /\ Edge(f, o) = r
    BY <1>3, <1>8 DEF Edge
  <1>10. lab[side][r] # Open(side) /\ lab[o][r] # Open(o) /\ Edge(e, side) \in Int /\ Edge(e, o) \in Int
    BY <1>0, EdgeNotOpen
  <1> HIDE DEF u, new, f
  <1>11. ASSUME NEW x \in S PROVE Placed(new, f, side, x) /\ Placed(new, f, o, x)
    <2>1. /\ Placed(lab, e, side, x) /\ Placed(lab, e, o, x) /\ x \in Node /\ x \in Int /\ r \in Int
      BY <1>0, <1>1, <1>3, Landmarks DEF Split
    <2>2. Placed(new, f, o, x)
      BY <1>0, <1>7, <1>9, <2>1 DEF Placed
    <2>3. CASE x = r
      <3>1. /\ new[side][x] = Open(side) /\ Before(side, Open(side), r)
            /\ ~Before(side, Open(side), Open(side)) /\ ~Before(side, r, r)
        BY <1>3, <1>7, <2>1, <2>3, Landmarks, Order
      <3> QED
        BY <3>1, <1>9, <2>2, <2>3 DEF Placed
    <2>4. CASE x # r
      <3>1. new[side][x] = lab[side][x]
        BY <1>7, <2>1, <2>4
      <3>2. Before(side, r, Edge(e, o))
        BY <1>0, <1>2, <1>10, <2>1, Order
      <3>3. ~Before(side, x, Edge(e, o)) => ~Before(side, x, r)
        BY <3>2, <1>10, <2>1, Order
      <3> QED
        BY <3>1, <3>3, <1>9, <2>1, <2>2 DEF Placed
    <2> QED
      BY <2>3, <2>4
  <1>12. ASSUME NEW x \in S, x # f[o] PROVE ChildOK(u, S, new, side, x)
    <2>1. x \in Node /\ x # r /\ new[side][x] = lab[side][x]
      BY <1>1, <1>7, <1>8, <1>12
    <2>2. CASE x = e[o]
      <3>1. lab[side][x] = Open(side)
        BY <2>1, <2>2, <1>0, Landmarks DEF Split, Hangs
      <3>2. u[side][x] = r /\ new[side][r] = Open(side) /\ new[o][r] = x
        BY <2>1, <2>2, <1>0, <1>3, <1>6, <1>7, Landmarks DEF Edge
      <3> QED
        BY <3>1, <3>2, <2>1, <1>0 DEF ChildOK
    <2>3. CASE x # e[o]
      <3>1. ChildOK(t, S, lab, side, x) /\ u[side][x] = t[side][x]
        BY <2>1, <2>3, <1>0, <1>6 DEF Split
      <3>2. CASE t[side][x] \in S
        <4>1. t[side][x] \in Node /\ lab[side][t[side][x]] = lab[side][x] /\ lab[o][t[side][x]] = x
          BY <3>1, <3>2, <1>1, Landmarks DEF ChildOK
        <4>2. t[side][x] # r
          BY <4>1, <2>1, <2>3, <1>0, Landmarks DEF Edge, Far, Stack
        <4> QED
          BY <4>1, <4>2, <3>1, <3>2, <2>1, <1>7 DEF ChildOK
      <3>3. CASE t[side][x] \notin S
        BY <2>1, <3>1, <3>3 DEF ChildOK
      <3> QED
        BY <3>2, <3>3
    <2> QED
      BY <2>2, <2>3
  <1>13. ASSUME NEW x \in S, x # f[side] PROVE ChildOK(u, S, new, o, x)
    <2>1. ChildOK(t, S, lab, o, x) /\ x \in Node /\ x # e[side] /\ u[o][x] = t[o][x]
      BY <1>0, <1>1, <1>5, <1>8, <1>13 DEF Split
    <2>2. CASE t[o][x] \in S
      <3>1. t[o][x] \in Node /\ lab[o][t[o][x]] = lab[o][x] /\ lab[side][t[o][x]] = x
        BY <2>1, <2>2, <1>0, <1>1, Landmarks DEF ChildOK
      <3>2. t[o][x] # r
        BY <3>1, <2>1, <1>0, Landmarks DEF Edge, Far, Stack
      <3> QED
        BY <3>1, <3>2, <2>1, <2>2, <1>0, <1>7 DEF ChildOK
    <2>3. CASE t[o][x] \notin S
      BY <2>1, <2>3, <1>7 DEF ChildOK
    <2> QED
      BY <2>2, <2>3
  <1>14. Hangs(u, S, new, f, side)
    <2> SUFFICES ASSUME e[side] # Stack
                 PROVE  /\ e[side] \in S /\ new[o][e[side]] = Open(o)
                        /\ u[o][Stack] \in S /\ new[side][u[o][Stack]] = Far(side)
                        /\ new[o][u[o][Stack]] = Open(o)
      BY <1>8 DEF Hangs
    <2>1. /\ e[side] \in S /\ lab[o][e[side]] = Open(o)
          /\ t[o][Stack] \in S /\ lab[side][t[o][Stack]] = Far(side) /\ lab[o][t[o][Stack]] = Open(o)
      BY DEF Split, Hangs
    <2> QED
      BY <2>1, <1>1, <1>5, <1>7, <1>10
  <1>15. Hangs(u, S, new, f, o)
    <2>1. new[side][r] = Open(side)
      BY <1>3, <1>7
    <2>2. u[side][Stack] \in S /\ new[o][u[side][Stack]] = Far(o) /\ new[side][u[side][Stack]] = Open(side)
      <3>1. CASE e[o] = Stack
        BY <3>1, <2>1, <1>0, <1>6, <1>7 DEF Edge
      <3>2. CASE e[o] # Stack
        <4>1. t[side][Stack] \in S /\ lab[o][t[side][Stack]] = Far(o) /\ lab[side][t[side][Stack]] = Open(side)
          BY <3>2, <1>0 DEF Split, Hangs
        <4> QED
          BY <4>1, <3>2, <2>1, <1>1, <1>6, <1>7
      <3> QED
        BY <3>1, <3>2
    <2> QED
      BY <2>1, <2>2, <1>0, <1>8 DEF Hangs
  <1>16. u.root \in S /\ new[side][u.root] = Edge(f, side) /\ new[o][u.root] = Edge(f, o)
    BY <1>0, <1>4, <1>5, <1>7, <1>9
  <1>17. Typed(u, S, new) /\ Sides = {side, o}
    BY <1>0, <1>5, <1>7 DEF Typed, Sides
  <1>18. Split(u, S, new, f)
    BY <1>0, <1>8, <1>11, <1>12, <1>13, <1>14, <1>15, <1>16, <1>17 DEF Split
  <1> QED
    BY <1>18 DEF u, new, f

LEMMA Assembled ==
  ASSUME NEW t \in SplayTrees, NEW e \in Ends, NEW side \in Sides,
         t.root \in Node, t.root # e[side], t.root # e[Other(side)]
  PROVE  LET u == Assemble(t, e)
             o == Other(side)
         IN /\ u \in SplayTrees
            /\ u.root = t.root
            /\ u[side][Stack] = NULL
            /\ u[side][t.root] = IF e[side] = Stack THEN t[side][t.root] ELSE t[o][Stack]
            /\ e[o] # Stack => u[side][e[o]] = t[o][t.root]
            /\ \A x \in Node : x # t.root /\ x # e[o] => u[side][x] = t[side][x]
  <1>0. Stack \notin Node /\ NULL \in Link /\ t.root # Stack
    BY Landmarks DEF Link
  <1> DEFINE l == [t.left EXCEPT ![e.right] = t.right[t.root]]
             r == [t.right EXCEPT ![e.left] = t.left[t.root]]
             u == Assemble(t, e)
  <1>1. /\ l \in [Node \cup {Stack} -> Link] /\ r \in [Node \cup {Stack} -> Link]
        /\ l = [x \in Node \cup {Stack} |-> IF x = e.right THEN t.right[t.root] ELSE t.left[x]]
        /\ r = [x \in Node \cup {Stack} |-> IF x = e.left THEN t.left[t.root] ELSE t.right[x]]
    <2>1. /\ t.left \in [Node \cup {Stack} -> Link] /\ t.right \in [Node \cup {Stack} -> Link]
          /\ t.left[t.root] \in Link /\ t.right[t.root] \in Link
          /\ e.left \in Node \cup {Stack} /\ e.right \in Node \cup {Stack}
      BY DEF SplayTrees, Ends
    <2> QED
      BY <2>1
  <1>2. u = [root |-> t.root,
             left |-> [[l EXCEPT ![t.root] = r[Stack]] EXCEPT ![Stack] = NULL],
             right |-> [[r EXCEPT ![t.root] = l[Stack]] EXCEPT ![Stack] = NULL]]
    <2> DEFINE t1 == [root |-> t.root, left |-> l, right |-> r]
               t2 == [t1 EXCEPT !.left[t.root] = r[Stack]]
               t3 == [t2 EXCEPT !.right[t.root] = l[Stack]]
               t4 == [t3 EXCEPT !.left[Stack] = NULL]
    <2>1. [t EXCEPT !.right[e.left] = t.left[t.root], !.left[e.right] = t.right[t.root]] = t1
      <3> DEFINE t0 == [t EXCEPT !.right[e.left] = t.left[t.root]]
      <3>1. t0 = [root |-> t.root, left |-> t.left, right |-> r]
        BY DEF SplayTrees
      <3>2. [t0 EXCEPT !.left[e.right] = t.right[t.root]] = t1
        <4> HIDE DEF t0, l, r
        <4>1. t0.left = t.left /\ t0.right = r /\ t0.root = t.root
          BY <3>1
        <4>2. t0.left[e.right] = t.left[e.right]
          BY <4>1
        <4> QED
          BY <3>1, <4>1 DEF l
      <3> QED
        BY <3>2
    <2>2. t1.right[Stack] = r[Stack] /\ t1.left[Stack] = l[Stack]
      OBVIOUS
    <2>3. t2 = [root |-> t.root, left |-> [l EXCEPT ![t.root] = r[Stack]], right |-> r]
      <3> HIDE DEF l, r
      <3> QED
        OBVIOUS
    <2>4. t3 = [root |-> t.root, left |-> [l EXCEPT ![t.root] = r[Stack]],
                right |-> [r EXCEPT ![t.root] = l[Stack]]]
      <3> HIDE DEF l, r, t2
      <3> QED
        BY <2>3
    <2>5. t4 = [root |-> t.root, left |-> [[l EXCEPT ![t.root] = r[Stack]] EXCEPT ![Stack] = NULL],
                right |-> [r EXCEPT ![t.root] = l[Stack]]]
      <3> HIDE DEF l, r, t2, t3
      <3> QED
        BY <2>4
    <2>6. u = [t4 EXCEPT !.right[Stack] = NULL]
      <3> HIDE DEF l, r
      <3> QED
        BY <2>1, <2>2 DEF Assemble
    <2> HIDE DEF t1, t2, t3, t4, l, r, u
    <2> QED
      BY <2>5, <2>6
  <1> HIDE DEF u, l, r
  <1>3. /\ u \in SplayTrees /\ u.root = t.root
        /\ u.left = [x \in Node \cup {Stack} |->
             IF x = Stack THEN NULL ELSE IF x = t.root THEN r[Stack] ELSE l[x]]
        /\ u.right = [x \in Node \cup {Stack} |->
             IF x = Stack THEN NULL ELSE IF x = t.root THEN l[Stack] ELSE r[x]]
    BY <1>0, <1>1, <1>2 DEF SplayTrees
  <1>4. CASE side = "left"
    BY <1>0, <1>1, <1>3, <1>4 DEF Other, Ends, u
  <1>5. CASE side = "right"
    BY <1>0, <1>1, <1>3, <1>5 DEF Other, Ends, u
  <1> QED
    BY <1>4, <1>5 DEF Sides

(* What was Open is the root. *)
AssembledLabels(t, lab) ==
  [side \in Sides |->
     [x \in Node |-> IF x = t.root THEN Far(side)
                     ELSE IF lab[side][x] = Open(side) THEN t.root ELSE lab[side][x]]]

LEMMA SplitAssembles ==
  ASSUME NEW t, NEW S, NEW lab, NEW e, Split(t, S, lab, e)
  PROVE  Labelled(Assemble(t, e), S, AssembledLabels(t, lab))
  <1> DEFINE r == t.root
             u == Assemble(t, e)
             new == AssembledLabels(t, lab)
  <1>1. /\ S \subseteq Node /\ t \in SplayTrees /\ lab \in [Sides -> [Node -> Int]] /\ e \in Ends
        /\ r \in S /\ r \in Node /\ r \in Int
    BY Landmarks DEF Split, Typed
  <1>2. new \in [Sides -> [Node -> Int]]
    BY <1>1, Landmarks DEF AssembledLabels
  <1>3. ASSUME NEW side \in Sides, NEW x \in Node
        PROVE  new[side][x] = IF x = r THEN Far(side)
                              ELSE IF lab[side][x] = Open(side) THEN r ELSE lab[side][x]
    BY DEF AssembledLabels
  <1> HIDE DEF new
  <1>4. ASSUME NEW side \in Sides
        PROVE  /\ u \in SplayTrees /\ u.root = r /\ new[side][r] = Far(side)
               /\ \A x \in S : /\ Before(side, new[side][x], x) /\ ~Before(side, new[side][x], Far(side))
                               /\ ChildOK(u, S, new, side, x)
    <2> DEFINE o == Other(side)
    <2>1. /\ o \in Sides /\ Other(o) = side /\ o # side /\ r # e[side] /\ r # e[o]
          /\ e[side] \in Node \cup {Stack} /\ e[o] \in Node \cup {Stack}
      <3>1. o \in Sides
        BY TwoSides
      <3> QED
        BY <3>1, <1>1, TwoSides, RootInside, EndsType
    <2>2. /\ u \in SplayTrees /\ u.root = r
          /\ u[side][r] = IF e[side] = Stack THEN t[side][r] ELSE t[o][Stack]
          /\ e[o] # Stack => u[side][e[o]] = t[o][r]
          /\ \A x \in Node : x # r /\ x # e[o] => u[side][x] = t[side][x]
      BY <1>1, <2>1, Assembled
    <2> HIDE DEF u
    <2>3. /\ lab[side][r] = Edge(e, side) /\ lab[o][r] = Edge(e, o)
          /\ Edge(e, side) # Open(side) /\ Edge(e, o) # Open(o) /\ Edge(e, o) \in Int
          /\ Hangs(t, S, lab, e, side) /\ Hangs(t, S, lab, e, o)
      BY <1>1, <2>1, EdgeNotOpen DEF Split
    <2>4. \A x \in Node : x # Open(side) /\ x # Open(o)
      BY <2>1, Landmarks, Order
    <2>5. Far(side) # Open(side) /\ Far(o) # Open(o) /\ Open(side) \in Int /\ Far(side) \in Int
      BY <2>1, Landmarks, Order
    <2>6. ASSUME NEW x \in S
          PROVE  Before(side, new[side][x], x) /\ ~Before(side, new[side][x], Far(side))
      <3>1. /\ x \in Node /\ x \in Int /\ lab[side][x] \in Int /\ Placed(lab, e, side, x)
            /\ Before(side, Far(side), x) /\ Before(side, Far(side), r)
        BY <1>1, Landmarks DEF Split
      <3>2. Before(side, r, Edge(e, o))
        <4>1. Before(o, Edge(e, o), r)
          BY <1>1, <2>1, <2>3 DEF Split, Placed
        <4> QED
          BY <4>1, <1>1, <2>3, Order
      <3>3. CASE x = r
        BY <3>1, <3>3, <1>3, <2>5, Order
      <3>4. CASE x # r /\ lab[side][x] = Open(side)
        <4>1. new[side][x] = r
          BY <3>1, <3>4, <1>3
        <4>2. ~Before(side, x, Edge(e, o))
          BY <3>1, <3>4 DEF Placed
        <4>3. Before(side, r, x)
          BY <3>1, <3>2, <4>2, <1>1, <2>3 DEF Before
        <4>4. ~Before(side, r, Far(side))
          BY <3>1, <1>1, <2>5 DEF Before
        <4> QED
          BY <4>1, <4>3, <4>4
      <3>5. CASE x # r /\ lab[side][x] # Open(side)
        <4>1. new[side][x] = lab[side][x]
          BY <3>1, <3>5, <1>3
        <4>2. Before(side, lab[side][x], x) /\ ~Before(side, lab[side][x], Open(side))
          BY <3>1 DEF Placed
        <4>3. ~Before(side, lab[side][x], Far(side))
          BY <3>1, <3>5, <4>2, NodesAssumption DEF Before, Far, Open, NULL, Stack
        <4> QED
          BY <4>1, <4>2, <4>3
      <3> QED
        BY <3>3, <3>4, <3>5
    <2>7. ASSUME NEW x \in S PROVE ChildOK(u, S, new, side, x)
      <3>1. x \in Node /\ x \in Int
        BY <1>1, Landmarks
      <3>2. CASE x = r
        <4>1. new[side][x] = Far(side)
          BY <3>1, <3>2, <1>3
        <4>2. CASE e[side] # Stack
          <5> DEFINE d == t[o][Stack]
          <5>1. u[side][x] = d /\ d \in S /\ lab[side][d] = Far(side) /\ lab[o][d] = Open(o)
            BY <3>2, <4>2, <2>2, <2>3 DEF Hangs
          <5>2. d # r /\ d \in Node
            BY <5>1, <1>1, <2>3
          <5> HIDE DEF d
          <5>3. new[side][d] = Far(side) /\ new[o][d] = r
            BY <5>1, <5>2, <1>3, <2>1, <2>5
          <5> QED
            BY <5>1, <5>3, <4>1, <3>2 DEF ChildOK
        <4>3. CASE e[side] = Stack
          <5> DEFINE c == t[side][r]
          <5>1. u[side][x] = c /\ ChildOK(t, S, lab, side, r) /\ lab[side][r] = Far(side)
            BY <3>2, <4>3, <1>1, <2>1, <2>2, <2>3 DEF Edge, Split
          <5>2. CASE c \in S
            <6>1. lab[side][c] = Far(side) /\ lab[o][c] = r /\ c \in Node
              BY <5>1, <5>2, <1>1, Landmarks DEF ChildOK
            <6>2. c # r
              BY <6>1, <1>1, <2>1, <2>3, EndsType DEF Edge, Split, Placed, Before
            <6> HIDE DEF c
            <6>3. new[side][c] = Far(side) /\ new[o][c] = r
              BY <6>1, <6>2, <1>1, <1>3, <2>1, <2>4, <2>5
            <6> QED
              BY <5>1, <5>2, <6>3, <4>1, <3>2 DEF ChildOK
          <5>3. CASE c \notin S
            BY <5>1, <5>3, <4>1, <3>2 DEF ChildOK
          <5> QED
            BY <5>2, <5>3
        <4> QED
          BY <4>2, <4>3
      <3>3. CASE x # r /\ x = e[o]
        <4> DEFINE c == t[o][r]
        <4>1. /\ u[side][x] = c /\ lab[side][x] = Open(side) /\ ChildOK(t, S, lab, o, r)
              /\ lab[o][r] = x
          BY <3>1, <3>3, <1>1, <2>1, <2>2, <2>3, Landmarks DEF Edge, Split, Hangs
        <4>2. new[side][x] = r
          BY <3>1, <3>3, <4>1, <1>3
        <4>3. CASE c \in S
          <5>1. lab[o][c] = x /\ lab[side][c] = r /\ c \in Node /\ c # r
            BY <4>1, <4>3, <1>1, <2>1, <2>3, ChildInside, Landmarks DEF ChildOK
          <5> HIDE DEF c
          <5>2. new[o][c] = x /\ new[side][c] = r
            BY <5>1, <3>1, <1>1, <1>3, <2>1, <2>4
          <5> QED
            BY <4>1, <4>2, <4>3, <5>2 DEF ChildOK
        <4>4. CASE c \notin S
          <5>1. c = NULL /\ \A y \in S : ~(Before(o, x, y) /\ Before(o, y, r))
            BY <4>1, <4>4 DEF ChildOK
          <5>2. \A y \in S : ~(Before(side, r, y) /\ Before(side, y, x))
            BY <5>1, <3>1, <1>1, Landmarks, Order
          <5> QED
            BY <4>1, <4>2, <5>1, <5>2 DEF ChildOK
        <4> QED
          BY <4>3, <4>4
      <3>4. CASE x # r /\ x # e[o]
        <4> DEFINE c == t[side][x]
        <4>1. u[side][x] = c /\ ChildOK(t, S, lab, side, x)
          BY <3>1, <3>4, <2>2 DEF Split
        <4>2. CASE c \in S
          <5>1. lab[side][c] = lab[side][x] /\ lab[o][c] = x /\ c \in Node
            BY <4>1, <4>2, <1>1, Landmarks DEF ChildOK
          <5>2. c # r
            BY <5>1, <3>1, <3>4, <2>3, Landmarks DEF Edge, Far, Stack
          <5> HIDE DEF c
          <5>3. new[side][c] = new[side][x] /\ new[o][c] = x
            BY <5>1, <5>2, <3>1, <3>4, <1>3, <2>1, <2>4
          <5> QED
            BY <4>1, <4>2, <5>3 DEF ChildOK
        <4>3. CASE c \notin S
          <5>1. c = NULL /\ \A y \in S : ~(Before(side, lab[side][x], y) /\ Before(side, y, x))
            BY <4>1, <4>3 DEF ChildOK
          <5>2. new[side][x] = lab[side][x] \/ (new[side][x] = r /\ lab[side][x] = Open(side))
            BY <3>1, <3>4, <1>3
          <5>3. Before(side, Open(side), r)
            BY <1>1, <2>5, Landmarks, Order
          <5>4. \A y \in S : ~(Before(side, new[side][x], y) /\ Before(side, y, x))
            <6>1. \A y \in S : Before(side, r, y) => Before(side, Open(side), y)
              BY <5>3, <1>1, <2>5, Landmarks, Order
            <6> QED
              BY <5>1, <5>2, <6>1
          <5> QED
            BY <4>1, <5>1, <5>4 DEF ChildOK
        <4> QED
          BY <4>2, <4>3
      <3> QED
        BY <3>2, <3>3, <3>4
    <2> QED
      BY <2>2, <2>6, <2>7, <1>1, <1>3
  <1>5. u \in SplayTrees /\ u.root = r
    BY <1>4 DEF Sides
  <1> HIDE DEF u
  <1>6. Labelled(u, S, new)
    BY <1>1, <1>2, <1>4, <1>5 DEF Labelled, Typed
  <1> QED
    BY <1>6 DEF u, new

-----------------------------------------------------------------------------
(* SPLAY.  Elements that are not in the tree keep their links. *)
Same(t, u, S) == \A side \in Sides : \A x \in Node \ S : u[side][x] = t[side][x]

Keys == Link \cup {Stack}

(* elm belongs between the ends. *)
Around(e, elm) ==
  \A side \in Sides : Before(side, Edge(e, side), elm) \/ (e[side] = Stack /\ elm = Far(side))

(* No element lies closer to elm than x, nor is elm there if it is not x. *)
Nearest(S, elm, x) ==
  \A side \in Sides : \A y \in S : Before(side, y, x) => Before(side, y, elm)

LEMMA KeysType == Keys \subseteq Int /\ Node \subseteq Keys /\ NULL \in Keys /\ Stack \in Keys
  BY Landmarks DEF Keys, Link

LEMMA SameTrans ==
  ASSUME NEW t, NEW u, NEW v, NEW S, Same(t, u, S), Same(u, v, S)
  PROVE  Same(t, v, S)
  BY DEF Same

LEMMA TurnKeepsOthers ==
  ASSUME NEW t, NEW S, NEW lab, NEW e, Split(t, S, lab, e),
         NEW side \in Sides, t[side][t.root] # NULL
  PROVE  RotateUp(t, side).root = t[side][t.root] /\ Same(t, RotateUp(t, side), S)
  <1> DEFINE r == t.root
             o == Other(side)
             c == t[side][r]
             u == RotateUp(t, side)
  <1>1. /\ r \in S /\ c \in S /\ S \subseteq Node /\ r # NULL /\ t \in SplayTrees
        /\ t[side] \in [Node \cup {Stack} -> Link] /\ t[o] \in [Node \cup {Stack} -> Link]
    <2>1. r \in S /\ S \subseteq Node /\ t \in SplayTrees
      BY DEF Split, Typed
    <2>2. t[side] \in [Node \cup {Stack} -> Link] /\ t[o] \in [Node \cup {Stack} -> Link]
      BY <2>1, TwoSides, TreeType
    <2>3. c \in S
      BY ChildInside
    <2> QED
      BY <2>1, <2>2, <2>3, Landmarks
  <1>2. /\ u.root = c
        /\ u[side] = [t[side] EXCEPT ![r] = t[o][c]]
        /\ u[o] = [t[o] EXCEPT ![c] = r]
    BY <1>1, Turned
  <1> HIDE DEF u
  <1>3. \A x \in Node \ S : u[side][x] = t[side][x] /\ u[o][x] = t[o][x]
    BY <1>1, <1>2
  <1>4. Sides = {side, o}
    BY DEF Sides, Other
  <1>5. u.root = c /\ Same(t, u, S)
    BY <1>2, <1>3, <1>4 DEF Same
  <1> QED
    BY <1>5 DEF u

LEMMA LinkKeepsOthers ==
  ASSUME NEW t, NEW S, NEW lab, NEW e, Split(t, S, lab, e),
         NEW side \in Sides, t[side][t.root] # NULL
  PROVE  LinkRoot(t, e, side).root = t[side][t.root] /\ Same(t, LinkRoot(t, e, side), S)
  <1> DEFINE r == t.root
             o == Other(side)
             u == LinkRoot(t, e, side)
  <1>1. /\ r \in Node /\ r # NULL /\ t \in SplayTrees /\ e \in Ends /\ S \subseteq Node
        /\ t[side] \in [Node \cup {Stack} -> Link] /\ o \in Sides
    BY TwoSides, TreeType, Landmarks DEF Split, Typed
  <1>2. e[o] # Stack => e[o] \in S
    BY <1>1 DEF Split, Hangs
  <1>3. /\ u.root = t[side][r]
        /\ u[side] = [t[side] EXCEPT ![e[o]] = r]
        /\ u[o] = t[o]
    BY <1>1, Linked
  <1> HIDE DEF u
  <1>4. \A x \in Node \ S : u[side][x] = t[side][x] /\ u[o][x] = t[o][x]
    BY <1>1, <1>2, <1>3, Landmarks
  <1>5. Sides = {side, o}
    BY DEF Sides, Other
  <1>6. u.root = t[side][r] /\ Same(t, u, S)
    BY <1>3, <1>4, <1>5 DEF Same
  <1> QED
    BY <1>6 DEF u

LEMMA TurnsDown ==
  ASSUME NEW t, NEW S, NEW lab, NEW e, Split(t, S, lab, e), NEW elm \in Keys, elm # t.root
  PROVE  LET side == Side(elm, t.root)
             u == TurnedDown(t, elm)
         IN /\ side \in Sides /\ Before(side, elm, t.root)
            /\ \E l : Split(u, S, l, e)
            /\ Same(t, u, S)
            /\ Before(side, elm, u.root)
            /\ t[side][t.root] = NULL => u = t
            /\ u[side][u.root] = NULL => TurnedDown(u, elm) = u
  <1> DEFINE r == t.root
             side == Side(elm, r)
             c == t[side][r]
             u == TurnedDown(t, elm)
  <1>1. r \in Node /\ r \in Int /\ elm \in Int
    BY KeysType, Landmarks DEF Split, Typed
  <1>2. side \in Sides /\ Before(side, elm, r)
    BY <1>1, SideOf
  <1>3. u = IF c \in {NULL, elm} \/ Side(elm, c) # side THEN t ELSE RotateUp(t, side)
    BY DEF TurnedDown
  <1>4. CASE c \in {NULL, elm} \/ Side(elm, c) # side
    <2>1. u = t
      BY <1>3, <1>4
    <2> HIDE DEF u
    <2>2. Same(t, u, S)
      BY <2>1 DEF Same
    <2>3. TurnedDown(t, elm) = t
      BY <2>1 DEF u
    <2>4. /\ \E l : Split(u, S, l, e)
          /\ Before(side, elm, u.root)
          /\ TurnedDown(u, elm) = u
      BY <1>2, <2>1, <2>3
    <2> QED
      BY <1>2, <2>1, <2>2, <2>4 DEF u
  <1>5. CASE ~(c \in {NULL, elm} \/ Side(elm, c) # side)
    <2>1. u = RotateUp(t, side) /\ c # NULL /\ c # elm
      BY <1>3, <1>5
    <2> HIDE DEF u
    <2>2. u.root = c /\ Same(t, u, S) /\ Split(u, S, TurnedLabels(t, lab, side), e)
      BY <1>2, <2>1, TurnKeepsOthers, SplitTurns
    <2>3. c \in Int
      BY <1>2, <2>1, ChildInside, Landmarks
    <2>4. Before(side, elm, c)
      BY <1>1, <1>5, <2>1, <2>3, SideOf
    <2>5. u[side][u.root] = NULL => TurnedDown(u, elm) = u
      <3>1. Side(elm, u.root) = side
        BY <1>5, <2>2
      <3> QED
        BY <3>1 DEF TurnedDown
    <2> QED
      BY <1>2, <2>1, <2>2, <2>4, <2>5 DEF u
  <1> QED
    BY <1>4, <1>5
(* The states of the loop of SPLAY in a tree of the elements of S. *)
Splaying(t, S, elm) ==
  {s \in SplayStates : /\ s.elm = elm /\ Around(s.ends, elm) /\ Same(t, s.tree, S)
                       /\ \E lab : Split(s.tree, S, lab, s.ends)}

Width(s) == Edge(s.ends, "right") - Edge(s.ends, "left") - 1

LEMMA WidthIs ==
  ASSUME NEW t, NEW S, NEW elm, NEW s \in Splaying(t, S, elm)
  PROVE  /\ Width(s) \in Nat
         /\ \A side \in Sides : Before(side, Edge(s.ends, side), s.tree.root)
  <1>1. PICK lab : Split(s.tree, S, lab, s.ends)
    BY DEF Splaying
  <1> DEFINE e == s.ends
             r == s.tree.root
  <1>2. ASSUME NEW side \in Sides PROVE Before(side, Edge(e, side), r)
    BY <1>1 DEF Split, Placed
  <1>3. r \in Int /\ Edge(e, "left") \in Int /\ Edge(e, "right") \in Int
    BY <1>1, EdgeNotOpen, Landmarks DEF Split, Typed, Sides
  <1>4. Before("left", Edge(e, "left"), r) /\ Before("right", Edge(e, "right"), r)
    BY <1>2 DEF Sides
  <1>5. Edge(e, "left") < r /\ r < Edge(e, "right")
    BY <1>4 DEF Before
  <1>6. Edge(e, "right") - Edge(e, "left") - 1 \in Nat
    BY <1>3, <1>5
  <1> QED
    BY <1>2, <1>6 DEF Width

LEMMA StateIs ==
  ASSUME NEW t0, NEW S, NEW elm \in Keys, NEW t, NEW e,
         Around(e, elm), Same(t0, t, S), \E lab : Split(t, S, lab, e)
  PROVE  [tree |-> t, ends |-> e, elm |-> elm] \in Splaying(t0, S, elm)
  <1>1. t \in SplayTrees /\ t.root # NULL /\ e \in Ends
    BY Landmarks DEF Split, Typed
  <1> QED
    BY <1>1 DEF Splaying, SplayStates, Keys

LEMMA SplayStepIs ==
  ASSUME NEW s \in SplayStates
  PROVE  /\ s = [tree |-> s.tree, ends |-> s.ends, elm |-> s.elm]
         /\ LET side == Side(s.elm, s.tree.root)
                t == TurnedDown(s.tree, s.elm)
            IN SplayStep[s] =
                 IF s.elm = s.tree.root \/ t[side][t.root] = NULL
                 THEN [tree |-> t, ends |-> s.ends, elm |-> s.elm]
                 ELSE [tree |-> LinkRoot(t, s.ends, side),
                       ends |-> [s.ends EXCEPT ![Other(side)] = t.root], elm |-> s.elm]
  <1> DEFINE side == Side(s.elm, s.tree.root)
             t == TurnedDown(s.tree, s.elm)
  <1>1. s = [tree |-> s.tree, ends |-> s.ends, elm |-> s.elm]
    BY DEF SplayStates
  <1>2. SplayStep[s] =
          IF s.elm = s.tree.root \/ t[side][t.root] = NULL THEN [s EXCEPT !.tree = t]
          ELSE [s EXCEPT !.tree = LinkRoot(t, s.ends, side), !.ends[Other(side)] = t.root]
    BY DEF SplayStep
  <1> HIDE DEF t, side
  <1>3. [s EXCEPT !.tree = t] = [tree |-> t, ends |-> s.ends, elm |-> s.elm]
    BY DEF SplayStates
  <1>4. ASSUME NEW u, NEW o, NEW x
        PROVE  [s EXCEPT !.tree = u, !.ends[o] = x] = [tree |-> u, ends |-> [s.ends EXCEPT ![o] = x], elm |-> s.elm]
    <2>1. [s EXCEPT !.tree = u, !.ends[o] = x] = [[s EXCEPT !.tree = u] EXCEPT !.ends = [s.ends EXCEPT ![o] = x]]
      BY DEF SplayStates
    <2> DEFINE f == [s.ends EXCEPT ![o] = x]
    <2>2. [s EXCEPT !.tree = u] = [tree |-> u, ends |-> s.ends, elm |-> s.elm]
      BY DEF SplayStates
    <2>3. [[tree |-> u, ends |-> s.ends, elm |-> s.elm] EXCEPT !.ends = f] = [tree |-> u, ends |-> f, elm |-> s.elm]
      OBVIOUS
    <2> QED
      BY <2>1, <2>2, <2>3
  <1>5. SplayStep[s] = IF s.elm = s.tree.root \/ t[side][t.root] = NULL
                 THEN [tree |-> t, ends |-> s.ends, elm |-> s.elm]
                 ELSE [tree |-> LinkRoot(t, s.ends, side),
                       ends |-> [s.ends EXCEPT ![Other(side)] = t.root], elm |-> s.elm]
    BY <1>2, <1>3, <1>4
  <1> QED
    BY <1>1, <1>5 DEF t, side

(* Each round stays in the tree, and either it is the last or elm is sought *)
(* between closer ends.  After the last the root is as near as can be.      *)
LEMMA SplayStepKeeps ==
  ASSUME NEW t0, NEW S, NEW elm \in Keys, NEW s \in Splaying(t0, S, elm)
  PROVE  /\ SplayStep[s] \in Splaying(t0, S, elm)
         /\ SplayStep[SplayStep[s]] = SplayStep[s] \/ Width(SplayStep[s]) < Width(s)
         /\ SplayStep[s] = s => Nearest(S, elm, s.tree.root)
  <1> DEFINE t == s.tree
             e == s.ends
             r == t.root
             side == Side(elm, r)
             o == Other(side)
             u == TurnedDown(t, elm)
             s2 == SplayStep[s]
  <1>1. PICK lab : Split(t, S, lab, e)
    BY DEF Splaying
  <1>2. s \in SplayStates /\ s.elm = elm /\ Around(e, elm) /\ Same(t0, t, S)
    BY DEF Splaying
  <1>3. r \in S /\ S \subseteq Node /\ r \in Int /\ elm \in Int
    BY <1>1, KeysType, Landmarks DEF Split, Typed
  <1>4. s2 = IF elm = r \/ u[side][u.root] = NULL THEN [tree |-> u, ends |-> e, elm |-> elm]
             ELSE [tree |-> LinkRoot(u, e, side), ends |-> [e EXCEPT ![o] = u.root], elm |-> elm]
    BY <1>2, SplayStepIs
  <1>5. s = [tree |-> t, ends |-> e, elm |-> elm]
    BY <1>2, SplayStepIs
  <1>6. CASE elm = r
    <2>1. u = t
      BY <1>6 DEF TurnedDown
    <2>2. s2 = s
      BY <1>4, <1>5, <1>6, <2>1
    <2>3. Nearest(S, elm, r)
      BY <1>6 DEF Nearest
    <2> QED
      BY <2>2, <2>3
  <1>7. CASE elm # r
    <2>1. /\ side \in Sides /\ o \in Sides /\ Other(o) = side /\ o # side
          /\ Before(side, elm, r) /\ Before(side, elm, u.root) /\ Same(t, u, S)
      BY <1>1, <1>7, TurnsDown, TwoSides
    <2>2. PICK l : Split(u, S, l, e)
      BY <1>1, <1>7, TurnsDown
    <2>3. t[side][r] = NULL => u = t
      BY <1>1, <1>7, TurnsDown
    <2>4. u[side][u.root] = NULL => TurnedDown(u, elm) = u
      BY <1>1, <1>7, TurnsDown
    <2>5. Same(t0, u, S)
      BY <1>2, <2>1, SameTrans
    <2>6. u.root \in Node /\ u.root \in Int /\ Side(elm, u.root) = side
      <3>1. u.root \in S
        BY <2>2 DEF Split
      <3> HIDE DEF u, side
      <3>2. u.root \in Node /\ u.root \in Int
        BY <3>1, <1>3, Landmarks
      <3> QED
        BY <3>2, <1>3, <2>1, SideOf
    <2> HIDE DEF u
    <2>7. CASE u[side][u.root] = NULL
      <3>1. s2 = [tree |-> u, ends |-> e, elm |-> elm]
        BY <1>4, <2>7
      <3>2. s2 \in Splaying(t0, S, elm)
        BY <3>1, <1>2, <2>2, <2>5, StateIs
      <3>3. SplayStep[s2] = s2
        <4>1. s2 \in SplayStates /\ s2.tree = u /\ s2.elm = elm /\ s2.ends = e
          BY <3>1, <3>2 DEF Splaying
        <4> HIDE DEF s2
        <4>2. SplayStep[s2] = [tree |-> u, ends |-> e, elm |-> elm]
          <5> HIDE DEF side
          <5>1. Side(elm, u.root) = side /\ TurnedDown(u, elm) = u /\ u[side][u.root] = NULL
            BY <2>4, <2>6, <2>7
          <5> QED
            <6>1. SplayStep[s2] =
                    IF s2.elm = s2.tree.root \/ TurnedDown(s2.tree, s2.elm)[Side(s2.elm, s2.tree.root)]
                                                  [TurnedDown(s2.tree, s2.elm).root] = NULL
                    THEN [tree |-> TurnedDown(s2.tree, s2.elm), ends |-> s2.ends, elm |-> s2.elm]
                    ELSE [tree |-> LinkRoot(TurnedDown(s2.tree, s2.elm), s2.ends, Side(s2.elm, s2.tree.root)),
                          ends |-> [s2.ends EXCEPT ![Other(Side(s2.elm, s2.tree.root))]
                                      = TurnedDown(s2.tree, s2.elm).root], elm |-> s2.elm]
              BY <4>1, SplayStepIs
            <6>2. TurnedDown(s2.tree, s2.elm) = u /\ Side(s2.elm, s2.tree.root) = side
              BY <4>1, <5>1
            <6> HIDE DEF u
            <6> QED
              BY <6>1, <6>2, <4>1, <5>1
        <4> QED
          BY <4>2, <3>1
      <3>4. ASSUME s2 = s PROVE Nearest(S, elm, r)
        <4>1. u = t
          BY <3>4, <3>1, <1>5
        <4>2. ASSUME NEW y \in S, Before(side, y, r) PROVE Before(side, y, elm)
          <5>1. y \in Node /\ y \in Int /\ Edge(e, side) \in Int
            BY <1>1, <1>3, <2>1, EdgeNotOpen, Landmarks DEF Split
          <5>2. ~Before(side, Edge(e, side), y)
            <6>1. r # e[o]
              BY <1>1, <2>1, RootInside
            <6>2. ChildOK(t, S, lab, side, r) /\ t[side][r] = NULL /\ lab[side][r] = Edge(e, side)
              BY <1>1, <1>3, <2>1, <2>7, <4>1, <6>1 DEF Split
            <6> QED
              BY <6>2, <4>2, <1>3, Landmarks DEF ChildOK
          <5>3. Before(side, Edge(e, side), elm) \/ Edge(e, side) = Far(side)
            BY <1>2, <2>1 DEF Around, Edge
          <5>4. CASE Edge(e, side) = Far(side)
            BY <5>1, <5>2, <5>4, <2>1, Landmarks
          <5>5. CASE Before(side, Edge(e, side), elm)
            BY <5>1, <5>2, <5>5, <1>3 DEF Before
          <5> QED
            BY <5>3, <5>4, <5>5
        <4>3. ASSUME NEW y \in S, Before(o, y, r) PROVE Before(o, y, elm)
          <5>1. y \in Int
            BY <1>3, Landmarks
          <5>2. Before(side, r, y) /\ Before(side, elm, y)
            BY <4>3, <5>1, <1>3, <2>1, Order
          <5> QED
            BY <5>1, <5>2, <1>3, <2>1, Order
        <4>4. Sides = {side, o}
          BY <2>1, TwoSides
        <4> QED
          BY <4>2, <4>3, <4>4 DEF Nearest
      <3> QED
        BY <3>2, <3>3, <3>4
    <2>8. CASE u[side][u.root] # NULL
      <3> DEFINE f == [e EXCEPT ![o] = u.root]
                 v == LinkRoot(u, e, side)
      <3>1. s2 = [tree |-> v, ends |-> f, elm |-> elm]
        BY <1>4, <1>7, <2>8
      <3>2. Split(v, S, [l EXCEPT ![side][u.root] = Open(side)], f)
        BY <2>1, <2>2, <2>8, SplitLinks
      <3>3. Same(t0, v, S)
        BY <2>1, <2>2, <2>5, <2>8, LinkKeepsOthers, SameTrans
      <3>4. e \in Ends /\ f[o] = u.root /\ f[side] = e[side]
        BY <1>1, <2>1 DEF Split, Ends, Sides
      <3>5. u.root # Stack /\ Before(o, u.root, elm)
        BY <1>3, <2>1, <2>6, Landmarks, Order
      <3>6. Around(f, elm)
        <4>1. Before(o, Edge(f, o), elm)
          BY <3>4, <3>5 DEF Edge
        <4>2. Before(side, Edge(f, side), elm) \/ (f[side] = Stack /\ elm = Far(side))
          BY <1>2, <2>1, <3>4 DEF Around, Edge
        <4>3. Sides = {side, o}
          BY <2>1, TwoSides
        <4> QED
          BY <4>1, <4>2, <4>3 DEF Around
      <3> HIDE DEF f, v
      <3>7. s2 \in Splaying(t0, S, elm)
        BY <3>1, <3>2, <3>3, <3>6, StateIs
      <3>8. Edge(f, side) = Edge(e, side) /\ Edge(f, o) = u.root
        BY <3>4, <3>5 DEF Edge
      <3>9. Before(o, Edge(e, o), u.root) /\ Edge(e, o) \in Int /\ Edge(e, side) \in Int
        BY <1>1, <2>1, <2>2, EdgeNotOpen DEF Split, Placed
      <3>10. Edge(f, "right") - Edge(f, "left") - 1 < Edge(e, "right") - Edge(e, "left") - 1
        <4>1. CASE side = "left"
          BY <4>1, <3>8, <3>9, <2>6 DEF Other, Before
        <4>2. CASE side = "right"
          BY <4>2, <3>8, <3>9, <2>6 DEF Other, Before
        <4> QED
          BY <4>1, <4>2, <2>1 DEF Sides
      <3>11. Width(s2) < Width(s)
        <4>1. s2.ends = f
          BY <3>1
        <4> HIDE DEF s2
        <4> QED
          BY <4>1, <3>10 DEF Width
      <3>12. s2 # s
        BY <3>11, <3>7, WidthIs
      <3> QED
        BY <3>7, <3>11, <3>12
    <2> QED
      BY <2>7, <2>8
  <1> QED
    BY <1>6, <1>7

LEMMA AssembleKeepsOthers ==
  ASSUME NEW t, NEW S, NEW lab, NEW e, Split(t, S, lab, e)
  PROVE  LET u == Assemble(t, e)
         IN u.root = t.root /\ Same(t, u, S) /\ \A side \in Sides : u[side][Stack] = NULL
  <1> DEFINE u == Assemble(t, e)
  <1>1. t \in SplayTrees /\ e \in Ends /\ t.root \in S /\ S \subseteq Node
    BY DEF Split, Typed
  <1>2. ASSUME NEW side \in Sides
        PROVE  /\ u.root = t.root /\ u[side][Stack] = NULL
               /\ \A x \in Node \ S : u[side][x] = t[side][x]
    <2> DEFINE o == Other(side)
    <2>1. o \in Sides /\ t.root # e[side] /\ t.root # e[o]
      BY RootInside, TwoSides
    <2>2. e[o] # Stack => e[o] \in S
      BY <2>1 DEF Split, Hangs
    <2>3. /\ u.root = t.root /\ u[side][Stack] = NULL
          /\ \A x \in Node : x # t.root /\ x # e[o] => u[side][x] = t[side][x]
      BY <1>1, <2>1, Assembled
    <2>4. Stack \notin Node
      BY Landmarks
    <2> QED
      BY <1>1, <2>2, <2>3, <2>4
  <1> HIDE DEF u
  <1>3. u.root = t.root
    BY <1>2 DEF Sides
  <1>4. u.root = t.root /\ Same(t, u, S) /\ \A side \in Sides : u[side][Stack] = NULL
    BY <1>2, <1>3 DEF Same
  <1> QED
    BY <1>4 DEF u

(* SPLAY keeps the elements in order and brings to the root the one sought, *)
(* or one next to where it would be.                                        *)
LEMMA Splays ==
  ASSUME NEW t, NEW S, NEW lab, Labelled(t, S, lab), NEW elm \in Keys
  PROVE  LET u == Splay(t, elm)
         IN /\ \E l : Labelled(u, S, l)
            /\ Nearest(S, elm, u.root) /\ Same(t, u, S)
            /\ \A side \in Sides : u[side][Stack] = NULL
  <1> DEFINE Inv == Splaying(t, S, elm)
             size == [s \in Inv |-> Width(s)]
             start == [tree |-> t, ends |-> NoEnds, elm |-> elm]
             s == Repeat(SplayStep, start)
             u == Splay(t, elm)
  <1>1. \E l : Split(t, S, l, NoEnds)
    BY SplitStarts
  <1>2. Same(t, t, S)
    BY DEF Same
  <1>3. Around(NoEnds, elm)
    <2>1. ASSUME NEW side \in Sides PROVE Before(side, Far(side), elm) \/ elm = Far(side)
      <3>1. elm \in Node \/ elm = NULL \/ elm = Stack
        BY DEF Keys, Link
      <3> QED
        BY <3>1, NodesAssumption DEF Before, Far, Sides, NULL, Stack, Node
    <2>2. \A side \in Sides : NoEnds[side] = Stack /\ Edge(NoEnds, side) = Far(side)
      BY DEF NoEnds, Edge, Sides
    <2> QED
      BY <2>1, <2>2 DEF Around
  <1>4. start \in Inv
    BY <1>1, <1>2, <1>3, StateIs
  <1>5. size \in [Inv -> Nat]
    BY WidthIs
  <1>6. size[start] <= NumNodes
    <2>1. Edge(start.ends, "left") = NULL /\ Edge(start.ends, "right") = Stack
      BY DEF NoEnds, Edge, Far, Stack
    <2>2. Width(start) = NumNodes
      BY <2>1, NodesAssumption DEF Width, Stack, NULL
    <2>3. size[start] = Width(start)
      BY <1>4
    <2> QED
      BY <2>2, <2>3, NodesAssumption
  <1>7. \A x \in Inv : /\ SplayStep[x] \in Inv
                       /\ SplayStep[SplayStep[x]] = SplayStep[x] \/ size[SplayStep[x]] < size[x]
    BY SplayStepKeeps
  <1> HIDE DEF size, Inv, start
  <1>8. s \in Inv /\ SplayStep[s] = s
    BY <1>4, <1>5, <1>6, <1>7, RepeatEnds
  <1>9. u = Assemble(s.tree, s.ends)
    BY DEF Splay, start, NoEnds
  <1> HIDE DEF s, u
  <1>10. s \in Splaying(t, S, elm)
    BY <1>8 DEF Inv
  <1>11. Nearest(S, elm, s.tree.root) /\ Same(t, s.tree, S)
    BY <1>8, <1>10, SplayStepKeeps DEF Splaying
  <1>12. PICK l : Split(s.tree, S, l, s.ends)
    BY <1>10 DEF Splaying
  <1>13. /\ Labelled(u, S, AssembledLabels(s.tree, l))
         /\ u.root = s.tree.root /\ Same(s.tree, u, S) /\ \A side \in Sides : u[side][Stack] = NULL
    BY <1>9, <1>12, SplitAssembles, AssembleKeepsOthers
  <1>14. Same(t, u, S)
    BY <1>11, <1>13, SameTrans
  <1> QED
    BY <1>11, <1>13, <1>14 DEF u

-----------------------------------------------------------------------------
(* What holds of the root, and of the children of each element of which it *)
(* holds, holds of all: the search for an element finds it.                *)
LEMMA Descends ==
  ASSUME NEW t, NEW S, NEW lab, Labelled(t, S, lab), NEW P \in SUBSET S, t.root \in P,
         \A p \in P : \A side \in Sides : t[side][p] # NULL => t[side][p] \in P
  PROVE  P = S
  <1>1. /\ S \subseteq Node /\ t.root \in S /\ lab \in [Sides -> [Node -> Int]]
        /\ \A side \in Sides : /\ lab[side][t.root] = Far(side)
                               /\ \A x \in S : Before(side, lab[side][x], x) /\ ChildOK(t, S, lab, side, x)
    BY DEF Labelled, Typed
  <1>2. ASSUME NEW x \in S, x \notin P PROVE FALSE
    <2> DEFINE Holds(p) == \A side \in Sides : Before(side, lab[side][p], x)
               T == {lab["right"][p] - lab["left"][p] : p \in {q \in P : Holds(q)}}
    <2>1. "left" \in Sides /\ "right" \in Sides /\ x \in Int /\ x \in Node
      BY <1>1, Landmarks DEF Sides
    <2>2. ASSUME NEW p \in P
          PROVE  /\ p \in Node /\ p \in Int /\ lab["left"][p] \in Int /\ lab["right"][p] \in Int
                 /\ lab["left"][p] < p /\ p < lab["right"][p] /\ p # x
                 /\ \A side \in Sides : lab[side][p] \in Int /\ Before(side, lab[side][p], p)
      <3>1. p \in S /\ p \in Node /\ p \in Int
        BY <1>1, Landmarks
      <3>2. \A side \in Sides : lab[side][p] \in Int /\ Before(side, lab[side][p], p)
        BY <3>1, <1>1
      <3> QED
        BY <3>1, <3>2, <2>1, <1>2 DEF Before
    <2>3. T \subseteq Nat
      <3>1. ASSUME NEW p \in P PROVE lab["right"][p] - lab["left"][p] \in Nat
        BY <2>2
      <3> QED
        BY <3>1
    <2>4. Holds(t.root)
      <3>1. \A side \in Sides : lab[side][t.root] = Far(side) /\ Before(side, Far(side), x)
        BY <1>1, <2>1, Landmarks
      <3> QED
        BY <3>1
    <2>5. T # {}
      BY <2>4
    <2>6. PICK m \in T : \A n \in T : m <= n
      <3> HIDE DEF T
      <3> QED
        BY <2>3, <2>5, LeastOf
    <2>7. PICK p \in P : Holds(p) /\ m = lab["right"][p] - lab["left"][p]
      BY <2>6
    <2> DEFINE side == Side(x, p)
               o == Other(side)
               c == t[side][p]
    <2>8. side \in Sides /\ o \in Sides /\ Sides = {side, o} /\ Before(side, x, p) /\ Other(o) = side
      <3>1. side \in Sides /\ Before(side, x, p)
        BY <2>1, <2>2, SideOf
      <3> QED
        BY <3>1, TwoSides
    <2>9. ChildOK(t, S, lab, side, p) /\ Before(side, lab[side][p], x)
      BY <1>1, <2>7, <2>8
    <2>10. c \in S /\ lab[side][c] = lab[side][p] /\ lab[o][c] = p
      BY <2>8, <2>9 DEF ChildOK
    <2>11. c \in P
      BY <2>8, <2>10, <1>1, Landmarks
    <2>12. Before(o, p, x)
      BY <2>1, <2>2, <2>8, Order
    <2> HIDE DEF side, o, c
    <2>13. Holds(c)
      BY <2>8, <2>9, <2>10, <2>12
    <2>14. lab["right"][c] - lab["left"][c] \in T
      BY <2>11, <2>13
    <2>15. lab["right"][p] - lab["left"][p] <= lab["right"][c] - lab["left"][c]
      BY <2>6, <2>7, <2>14
    <2>16. Before(o, lab[o][p], p)
      BY <2>2, <2>8
    <2>17. CASE side = "left"
      BY <2>17, <2>2, <2>10, <2>11, <2>15, <2>16 DEF o, Other, Before
    <2>18. CASE side = "right"
      BY <2>18, <2>2, <2>10, <2>11, <2>15, <2>16 DEF o, Other, Before
    <2> QED
      BY <2>8, <2>17, <2>18 DEF Sides
  <1> QED
    BY <1>2

LEMMA LabelsWithin ==
  ASSUME NEW t, NEW S, NEW lab, Labelled(t, S, lab), NEW side \in Sides, NEW x \in S
  PROVE  /\ lab[side][x] \in S \cup {Far(side)}
         /\ x # t.root => ~(\A s \in Sides : Before(s, lab[s][x], t.root))
  <1> DEFINE P == {p \in S : /\ \A s \in Sides : lab[s][p] \in S \cup {Far(s)}
                             /\ p # t.root => ~(\A s \in Sides : Before(s, lab[s][p], t.root))}
  <1>1. /\ S \subseteq Node /\ t.root \in S /\ lab \in [Sides -> [Node -> Int]]
        /\ \A s \in Sides : /\ lab[s][t.root] = Far(s)
                            /\ \A p \in S : Before(s, lab[s][p], p) /\ ChildOK(t, S, lab, s, p)
    BY DEF Labelled, Typed
  <1>2. t.root \in P
    BY <1>1
  <1>3. ASSUME NEW p \in P, NEW s \in Sides, t[s][p] # NULL PROVE t[s][p] \in P
    <2> DEFINE c == t[s][p]
               o == Other(s)
    <2>1. o \in Sides /\ Sides = {s, o} /\ o # s
      BY TwoSides
    <2>2. c \in S /\ lab[s][c] = lab[s][p] /\ lab[o][c] = p
      BY <1>1, <1>3 DEF ChildOK
    <2>3. ASSUME \A a \in Sides : Before(a, lab[a][c], t.root) PROVE FALSE
      <3>1. Before(s, lab[s][p], t.root) /\ Before(o, p, t.root)
        BY <2>1, <2>2, <2>3
      <3>2. p \in Int /\ t.root \in Int /\ lab[o][p] \in Int /\ Before(o, lab[o][p], p)
        BY <1>1, <2>1, Landmarks
      <3>3. p # t.root /\ Before(o, lab[o][p], t.root)
        BY <3>1, <3>2, <2>1, Order
      <3> QED
        BY <3>1, <3>3, <2>1
    <2> HIDE DEF c
    <2>4. \A a \in Sides : lab[a][c] \in S \cup {Far(a)}
      BY <2>1, <2>2
    <2>5. c \in P
      BY <2>2, <2>3, <2>4
    <2> QED
      BY <2>5 DEF c
  <1>4. P \in SUBSET S
    OBVIOUS
  <1>5. P = S
    <2> HIDE DEF P
    <2> QED
      BY <1>2, <1>3, <1>4, Descends
  <1> QED
    BY <1>5

LEMMA Reached ==
  ASSUME NEW t, NEW S, NEW lab, Labelled(t, S, lab), NEW x \in S
  PROVE  x = t.root \/ \E side \in Sides : \E p \in S : t[side][p] = x
  <1> DEFINE P == {y \in S : y = t.root \/ \E side \in Sides : \E p \in S : t[side][p] = y}
  <1>1. t.root \in P
    BY DEF Labelled
  <1>2. ASSUME NEW p \in P, NEW side \in Sides, t[side][p] # NULL PROVE t[side][p] \in P
    BY <1>2 DEF Labelled, ChildOK
  <1>3. P \in SUBSET S
    OBVIOUS
  <1>4. P = S
    <2> HIDE DEF P
    <2> QED
      BY <1>1, <1>2, <1>3, Descends
  <1> QED
    BY <1>4

-----------------------------------------------------------------------------
(* A search tree is a root between two search trees.  From c hangs one of  *)
(* the elements of T:                                                      *)
At(t, c) == [t EXCEPT !.root = c]

Below(t, T, c) == IF T = {} THEN c = NULL ELSE \E lab : Labelled(At(t, c), T, lab)

Beside(S, side, x) == {y \in S : Before(side, y, x)}

LEMMA AtIs ==
  ASSUME NEW t \in SplayTrees, NEW c \in Link
  PROVE  /\ At(t, c) \in SplayTrees /\ At(t, c).root = c
         /\ \A side \in Sides : At(t, c)[side] = t[side]
  <1>1. At(t, c) \in SplayTrees /\ At(t, c).root = c
    BY DEF At, SplayTrees
  <1>2. ASSUME NEW side \in Sides PROVE At(t, c)[side] = t[side]
    <2>1. CASE side = "left"
      BY <2>1 DEF At, SplayTrees
    <2>2. CASE side = "right"
      BY <2>2 DEF At, SplayTrees
    <2> QED
      BY <2>1, <2>2 DEF Sides
  <1> QED
    BY <1>1, <1>2

LEMMA SearchFrom ==
  ASSUME NEW t \in SplayTrees, NEW T, NEW c, Below(t, T, c)
  PROVE  /\ T \subseteq Node /\ c \in T \cup {NULL} /\ (T = {} <=> c = NULL)
         /\ T # {} => \E lab : Labelled(At(t, c), T, lab)
  <1>1. CASE T = {}
    BY <1>1 DEF Below
  <1>2. CASE T # {}
    <2>1. PICK lab : Labelled(At(t, c), T, lab)
      BY <1>2 DEF Below
    <2>2. At(t, c).root = c
      BY DEF At, SplayTrees
    <2>3. T \subseteq Node /\ c \in T
      BY <2>1, <2>2 DEF Labelled, Typed
    <2> QED
      BY <1>2, <2>1, <2>3, Landmarks
  <1> QED
    BY <1>1, <1>2

(* The links of the elements of T are all that count. *)
LEMMA SameSearch ==
  ASSUME NEW t \in SplayTrees, NEW u \in SplayTrees, NEW T, NEW c, Below(t, T, c),
         \A side \in Sides : \A x \in T : u[side][x] = t[side][x]
  PROVE  Below(u, T, c)
  <1>1. CASE T = {}
    BY <1>1 DEF Below
  <1>2. CASE T # {}
    <2>1. PICK lab : Labelled(At(t, c), T, lab)
      BY <1>2 DEF Below
    <2>2. c \in Link
      BY SearchFrom DEF Link
    <2>3. /\ At(u, c) \in SplayTrees /\ At(u, c).root = c /\ At(t, c).root = c
          /\ \A side \in Sides : At(u, c)[side] = u[side] /\ At(t, c)[side] = t[side]
      BY <2>2, AtIs
    <2>4. \A side \in Sides : \A x \in T : At(u, c)[side][x] = At(t, c)[side][x]
      BY <2>3
    <2> DEFINE v == At(u, c)
               w == At(t, c)
    <2> HIDE DEF v, w
    <2>5. Labelled(w, T, lab) /\ v \in SplayTrees /\ v.root = w.root
          /\ \A side \in Sides : \A x \in T : v[side][x] = w[side][x]
      BY <2>1, <2>3, <2>4 DEF v, w
    <2>6. Labelled(v, T, lab)
      BY <2>5 DEF Labelled, Typed, ChildOK
    <2> QED
      BY <1>2, <2>6 DEF v, Below
  <1> QED
    BY <1>1, <1>2

LEMMA Apart ==
  ASSUME NEW t, NEW S, NEW lab, Labelled(t, S, lab), NEW side \in Sides
  PROVE  Below(t, Beside(S, side, t.root), t[side][t.root])
  <1> DEFINE r == t.root
             c == t[side][r]
             T == Beside(S, side, r)
             o == Other(side)
             u == At(t, c)
             new == [lab EXCEPT ![o] = [x \in Node |-> IF lab[o][x] = r THEN Far(o) ELSE lab[o][x]]]
  <1>1. /\ S \subseteq Node /\ r \in S /\ t \in SplayTrees /\ lab \in [Sides -> [Node -> Int]]
        /\ \A s \in Sides : /\ lab[s][r] = Far(s)
                            /\ \A x \in S : /\ Before(s, lab[s][x], x) /\ ~Before(s, lab[s][x], Far(s))
                                            /\ ChildOK(t, S, lab, s, x)
    BY DEF Labelled, Typed
  <1>2. o \in Sides /\ o # side /\ Other(o) = side /\ Sides = {side, o} /\ r \in Int /\ r \in Node
    <2>1. o \in Sides /\ o # side /\ Other(o) = side /\ Sides = {side, o}
      BY TwoSides
    <2> QED
      BY <1>1, <2>1, Landmarks
  <1>3. CASE c \notin S
    <2>1. c = NULL /\ \A y \in S : ~(Before(side, Far(side), y) /\ Before(side, y, r))
      BY <1>1, <1>3 DEF ChildOK
    <2>2. T = {}
      BY <1>1, <2>1, Landmarks DEF Beside
    <2> QED
      BY <2>1, <2>2 DEF Below
  <1>4. CASE c \in S
    <2>1. lab[side][c] = Far(side) /\ lab[o][c] = r /\ c \in Node /\ c \in Int
      <3>1. c \in Node /\ c \in Int /\ c # NULL
        BY <1>1, <1>4, Landmarks
      <3>2. ChildOK(t, S, lab, side, r) /\ lab[side][r] = Far(side)
        BY <1>1
      <3> QED
        BY <3>1, <3>2 DEF ChildOK
    <2>2. \A x \in T : x \in S /\ x \in Node /\ x \in Int /\ Before(side, x, r) /\ Before(o, r, x)
      BY <1>1, <1>2, Landmarks, Order DEF Beside
    <2>3. c \in T
      BY <2>1, <1>1, <1>2, <1>4, Order DEF Beside
    <2>4. u \in SplayTrees /\ u.root = c /\ \A s \in Sides : u[s] = t[s]
      BY <1>1, <2>1, AtIs DEF Link
    <2>5. /\ new \in [Sides -> [Node -> Int]]
          /\ \A x \in Node : /\ new[side][x] = lab[side][x]
                             /\ new[o][x] = IF lab[o][x] = r THEN Far(o) ELSE lab[o][x]
      BY <1>1, <1>2, Landmarks
    <2> HIDE DEF T, u, new, c
    <2>6. new[side][c] = Far(side) /\ new[o][c] = Far(o)
      BY <2>1, <2>5
    <2>7. ASSUME NEW x \in T
          PROVE  /\ Before(side, new[side][x], x) /\ ~Before(side, new[side][x], Far(side))
                 /\ Before(o, new[o][x], x) /\ ~Before(o, new[o][x], Far(o))
      <3>1. x \in S /\ x \in Node /\ Before(o, Far(o), x) /\ Far(o) \in Int
        BY <2>2, <1>2, Landmarks
      <3>2. new[side][x] = lab[side][x] /\ new[o][x] \in {lab[o][x], Far(o)}
        BY <2>5, <3>1
      <3>3. ~Before(o, Far(o), Far(o))
        BY <1>2, <3>1, Order
      <3> QED
        BY <1>1, <1>2, <3>1, <3>2, <3>3
    <2>8. ASSUME NEW x \in T PROVE ChildOK(u, T, new, side, x)
      <3> DEFINE d == t[side][x]
      <3>1. ChildOK(t, S, lab, side, x) /\ u[side][x] = d /\ new[side][x] = lab[side][x]
        BY <1>1, <2>2, <2>4, <2>5
      <3>2. CASE d \notin S
        BY <3>1, <3>2, <2>2 DEF ChildOK
      <3>3. CASE d \in S
        <4>1. lab[side][d] = lab[side][x] /\ lab[o][d] = x /\ d \in Node /\ d \in Int
          BY <3>1, <3>3, <1>1, Landmarks DEF ChildOK
        <4>2. Before(o, x, d)
          BY <4>1, <3>3, <1>1, <1>2
        <4>3. x # r /\ Before(side, d, r)
          BY <4>1, <4>2, <2>2, <1>2, Order
        <4>4. d \in T
          BY <3>3, <4>3 DEF T, Beside
        <4>5. new[side][d] = new[side][x] /\ new[o][d] = x
          BY <4>1, <4>3, <3>1, <2>5
        <4> QED
          BY <3>1, <4>4, <4>5 DEF ChildOK
      <3> QED
        BY <3>2, <3>3
    <2>9. ASSUME NEW x \in T PROVE ChildOK(u, T, new, o, x)
      <3> DEFINE d == t[o][x]
                 k == lab[o][x]
      <3>1. ChildOK(t, S, lab, o, x) /\ u[o][x] = d /\ new[o][x] = IF k = r THEN Far(o) ELSE k
        BY <1>1, <1>2, <2>2, <2>4, <2>5
      <3>2. CASE d \notin S
        <4>1. d = NULL /\ \A y \in S : ~(Before(o, k, y) /\ Before(o, y, x))
          BY <3>1, <3>2 DEF ChildOK
        <4>2. \A y \in T : ~(Before(o, new[o][x], y) /\ Before(o, y, x))
          BY <3>1, <4>1, <2>2
        <4> QED
          BY <3>1, <4>1, <4>2 DEF ChildOK
      <3>3. CASE d \in S
        <4>1. lab[o][d] = k /\ lab[side][d] = x /\ d \in Node /\ d \in Int /\ k \in Int /\ lab[side][x] \in Int
          <5>1. lab[o][d] = k /\ lab[side][d] = x
            BY <3>1, <3>3, <1>1, <1>2, Landmarks DEF ChildOK
          <5>2. d \in Node /\ x \in Node
            BY <3>3, <1>1, <2>2
          <5>3. k \in Int /\ lab[side][x] \in Int
            BY <5>2, <1>1, <1>2
          <5> HIDE DEF d, k
          <5> QED
            BY <5>1, <5>2, <5>3, Landmarks
        <4>2. Before(side, lab[side][x], r) /\ x # r
          <5>1. Before(side, lab[side][x], x) /\ Before(side, x, r)
            BY <1>1, <2>2
          <5> QED
            BY <5>1, <4>1, <2>2, <1>2, Order
        <4>3. ~Before(o, k, r)
          BY <4>2, <2>2, <1>2, LabelsWithin
        <4>4. Before(o, k, d)
          BY <4>1, <3>3, <1>1, <1>2
        <4>5. Before(side, d, r)
          BY <4>1, <4>3, <4>4, <1>2 DEF Before, Other, Sides
        <4>6. d \in T
          BY <3>3, <4>5 DEF T, Beside
        <4>7. new[o][d] = new[o][x] /\ new[side][d] = x
          BY <4>1, <3>1, <2>5
        <4> QED
          BY <3>1, <4>6, <4>7, <1>2 DEF ChildOK
      <3> QED
        BY <3>2, <3>3
    <2>10. Typed(u, T, new)
      BY <2>2, <2>4, <2>5 DEF Typed
    <2>11. Labelled(u, T, new)
      BY <1>2, <2>3, <2>4, <2>6, <2>7, <2>8, <2>9, <2>10 DEF Labelled
    <2>12. Below(t, T, c)
      BY <2>3, <2>11 DEF u, Below
    <2> QED
      BY <2>12 DEF T, c
  <1> QED
    BY <1>3, <1>4

(* The labels of the two trees become those of the tree of both: what was *)
(* without a neighbour at the root has the root for one.                  *)
Joined(r, half) ==
  [s \in Sides |-> [x \in Node |->
     IF x = r THEN Far(s)
     ELSE LET found == half[Side(x, r)][s][x]
          IN IF s # Side(x, r) /\ found = Far(s) THEN r ELSE found]]

LEMMA Together ==
  ASSUME NEW t \in SplayTrees, NEW S \in SUBSET Node, t.root \in S,
         \A side \in Sides : Below(t, Beside(S, side, t.root), t[side][t.root])
  PROVE  \E lab : Labelled(t, S, lab)
  <1> DEFINE r == t.root
             T(side) == Beside(S, side, r)
             c(side) == t[side][r]
             Half(side) == CHOOSE lab : Labelled(At(t, c(side)), T(side), lab)
             half == [side \in Sides |-> IF T(side) = {} THEN [s \in Sides |-> [x \in Node |-> 0]] ELSE Half(side)]
             new == Joined(r, half)
  <1>1. r \in Node /\ r \in Int /\ S \subseteq Node
    BY Landmarks
  <1>2. ASSUME NEW side \in Sides
        PROVE  /\ half[side] \in [Sides -> [Node -> Int]]
               /\ T(side) # {} => Labelled(At(t, c(side)), T(side), half[side])
               /\ T(side) = {} => c(side) = NULL
    <2>1. Below(t, T(side), c(side))
      OBVIOUS
    <2>2. CASE T(side) = {}
      <3>1. c(side) = NULL
        BY <2>1, <2>2 DEF Below
      <3>2. half[side] = [s \in Sides |-> [x \in Node |-> 0]]
        BY <2>2
      <3>3. [s \in Sides |-> [x \in Node |-> 0]] \in [Sides -> [Node -> Int]]
        OBVIOUS
      <3> HIDE DEF half
      <3> QED
        BY <2>2, <3>1, <3>2, <3>3
    <2>3. CASE T(side) # {}
      <3>1. \E lab : Labelled(At(t, c(side)), T(side), lab)
        BY <2>1, <2>3 DEF Below
      <3>2. Labelled(At(t, c(side)), T(side), Half(side))
        BY <3>1
      <3>3. half[side] = Half(side)
        BY <2>3
      <3> HIDE DEF Half, half
      <3>4. half[side] \in [Sides -> [Node -> Int]]
        BY <3>2, <3>3 DEF Labelled, Typed
      <3> QED
        BY <2>3, <3>2, <3>3, <3>4
    <2> QED
      BY <2>2, <2>3
  <1> HIDE DEF half
  <1>3. new \in [Sides -> [Node -> Int]]
    <2>1. ASSUME NEW s \in Sides, NEW x \in Node
          PROVE  (IF x = r THEN Far(s)
                  ELSE LET found == half[Side(x, r)][s][x]
                       IN IF s # Side(x, r) /\ found = Far(s) THEN r ELSE found) \in Int
      <3>1. Side(x, r) \in Sides /\ Far(s) \in Int /\ r \in Int
        BY <1>1, SideOf, Landmarks
      <3>2. half[Side(x, r)][s][x] \in Int
        BY <3>1, <1>2
      <3> QED
        BY <3>1, <3>2
    <2> QED
      BY <2>1 DEF Joined
  <1>4. \A side \in Sides : new[side][r] = Far(side)
    BY <1>1 DEF Joined
  <1>5. ASSUME NEW side \in Sides, NEW x \in T(side)
        PROVE  LET o == Other(side)
                   l == half[side]
               IN /\ x \in S /\ x \in Node /\ x \in Int /\ x # r /\ Before(side, x, r) /\ Before(o, r, x)
                  /\ new[side][x] = l[side][x]
                  /\ new[o][x] = IF l[o][x] = Far(o) THEN r ELSE l[o][x]
    <2> DEFINE o == Other(side)
               l == half[side]
    <2>1. o \in Sides /\ o # side /\ Sides = {side, o}
      BY TwoSides
    <2>2. x \in S /\ x \in Node /\ x \in Int /\ Before(side, x, r)
      BY Landmarks DEF Beside
    <2>3. x # r /\ Before(o, r, x) /\ Side(x, r) = side
      BY <2>2, <1>1, Order, SideOf
    <2>4. new[side][x] = l[side][x] /\ new[o][x] = IF l[o][x] = Far(o) THEN r ELSE l[o][x]
      BY <2>1, <2>2, <2>3 DEF Joined
    <2> QED
      BY <2>2, <2>3, <2>4
  <1> HIDE DEF new
  <1>6. ASSUME NEW side \in Sides, NEW x \in T(side), NEW s \in Sides
        PROVE  /\ Before(s, new[s][x], x) /\ ~Before(s, new[s][x], Far(s))
               /\ ChildOK(t, S, new, s, x)
    <2> DEFINE o == Other(side)
               l == half[side]
               v == At(t, c(side))
               U == T(side)
    <2>1. o \in Sides /\ o # side /\ Other(o) = side /\ Sides = {side, o}
      BY TwoSides
    <2>2. \A y \in U : /\ y \in S /\ y \in Node /\ y \in Int /\ y # r /\ Before(side, y, r) /\ Before(o, r, y)
                       /\ new[side][y] = l[side][y]
                       /\ new[o][y] = IF l[o][y] = Far(o) THEN r ELSE l[o][y]
      BY <1>5
    <2>3. Labelled(v, U, l)
      BY <1>2
    <2>4. c(side) \in Link
      BY <1>1, TreeType
    <2>5. v[s] = t[s] /\ v[side] = t[side] /\ v[o] = t[o]
      BY <2>1, <2>4, AtIs
    <2> HIDE DEF U, l, v, o
    <2>6. x \in U /\ ChildOK(v, U, l, side, x) /\ ChildOK(v, U, l, o, x)
          /\ Before(side, l[side][x], x) /\ ~Before(side, l[side][x], Far(side))
          /\ Before(o, l[o][x], x) /\ ~Before(o, l[o][x], Far(o))
      BY <2>1, <2>3 DEF U, Labelled
    <2>7. Far(o) \in Int /\ Far(side) \in Int /\ Before(o, Far(o), r) /\ Before(o, Far(o), x)
      BY <2>1, <2>2, <2>6, <1>1, Landmarks
    <2>8. l[o][x] \in U \cup {Far(o)} /\ l[o][x] \in Int
      <3>1. l[o][x] \in U \cup {Far(o)}
        BY <2>1, <2>3, <2>6, LabelsWithin
      <3> QED
        BY <3>1, <2>2, <2>7
    <2>9. CASE s = side
      <3> DEFINE d == t[side][x]
      <3>1. ChildOK(t, S, new, side, x)
        <4>1. CASE d \in U
          <5>1. l[side][d] = l[side][x] /\ l[o][d] = x
            BY <4>1, <2>2, <2>5, <2>6, Landmarks DEF ChildOK, o
          <5>2. x # Far(o)
            BY <2>2, <2>6, <2>7, <2>1, Order
          <5>3. d \in S /\ new[side][d] = new[side][x] /\ new[o][d] = x
            BY <4>1, <5>1, <5>2, <2>2, <2>6
          <5> QED
            BY <5>3 DEF ChildOK, o
        <4>2. CASE d \notin U
          <5>1. d = NULL /\ \A y \in U : ~(Before(side, l[side][x], y) /\ Before(side, y, x))
            BY <4>2, <2>5, <2>6 DEF ChildOK
          <5>2. ASSUME NEW y \in S, Before(side, new[side][x], y), Before(side, y, x) PROVE FALSE
            <6>1. Before(side, y, r)
              BY <5>2, <2>2, <2>6, <1>1, Landmarks, Order
            <6>2. y \in U
              BY <6>1 DEF U, Beside
            <6> QED
              BY <5>1, <5>2, <6>2, <2>2, <2>6
          <5> QED
            BY <5>1, <5>2 DEF ChildOK
        <4> QED
          BY <4>1, <4>2
      <3> QED
        BY <3>1, <2>2, <2>6, <2>9
    <2>10. CASE s = o
      <3> DEFINE d == t[o][x]
      <3>1. Before(o, new[o][x], x) /\ ~Before(o, new[o][x], Far(o))
        <4>1. ~Before(o, r, Far(o))
          BY <2>1, <2>7, <1>1, Order
        <4> QED
          BY <4>1, <2>2, <2>6
      <3>2. ChildOK(t, S, new, o, x)
        <4>1. CASE d \in U
          <5>1. l[o][d] = l[o][x] /\ l[side][d] = x
            BY <4>1, <2>1, <2>2, <2>5, <2>6, Landmarks DEF ChildOK
          <5>2. d \in S /\ new[o][d] = new[o][x] /\ new[side][d] = x
            BY <4>1, <5>1, <2>2, <2>6
          <5> QED
            BY <5>2, <2>1 DEF ChildOK
        <4>2. CASE d \notin U
          <5>1. d = NULL /\ \A y \in U : ~(Before(o, l[o][x], y) /\ Before(o, y, x))
            BY <4>2, <2>5, <2>6 DEF ChildOK
          <5>2. ASSUME NEW y \in S, Before(o, new[o][x], y), Before(o, y, x) PROVE FALSE
            <6>1. y \in Node /\ y \in Int
              BY <1>1, Landmarks
            <6>2. Before(o, r, y)
              <7>1. CASE l[o][x] = Far(o)
                BY <7>1, <5>2, <2>2, <2>6
              <7>2. CASE l[o][x] # Far(o)
                BY <7>2, <5>2, <6>1, <2>1, <2>2, <2>6, <2>8, <1>1, Order
              <7> QED
                BY <7>1, <7>2
            <6>3. Before(side, y, r)
              BY <6>1, <6>2, <1>1, <2>1, Order
            <6>4. y \in U
              BY <6>3 DEF U, Beside
            <6>5. Before(o, l[o][x], y)
              BY <5>2, <6>1, <2>1, <2>2, <2>6, Landmarks
            <6> QED
              BY <5>1, <5>2, <6>4, <6>5
          <5> QED
            BY <5>1, <5>2 DEF ChildOK
        <4> QED
          BY <4>1, <4>2
      <3> QED
        BY <3>1, <3>2, <2>10
    <2> QED
      BY <2>1, <2>9, <2>10
  <1>7. ASSUME NEW side \in Sides
        PROVE  /\ Before(side, new[side][r], r) /\ ~Before(side, new[side][r], Far(side))
               /\ ChildOK(t, S, new, side, r)
    <2> DEFINE o == Other(side)
               l == half[side]
               d == t[side][r]
    <2>1. o \in Sides /\ o # side
      BY TwoSides
    <2>2. Before(side, Far(side), r) /\ ~Before(side, Far(side), Far(side))
      BY <1>1, Landmarks, Order
    <2>3. CASE T(side) = {}
      <3>1. d = NULL /\ \A y \in S : ~Before(side, y, r)
        BY <2>3, <1>2 DEF Beside
      <3> QED
        BY <3>1, <2>2, <1>4 DEF ChildOK
    <2>4. CASE T(side) # {}
      <3>1. Labelled(At(t, d), T(side), l)
        BY <2>4, <1>2
      <3>2. d \in Link
        BY <1>1, TreeType
      <3>3. At(t, d).root = d
        BY <3>2, AtIs
      <3>4. d \in T(side) /\ l[side][d] = Far(side) /\ l[o][d] = Far(o)
        BY <3>1, <3>3, <2>1 DEF Labelled
      <3>5. d \in S /\ new[side][d] = Far(side) /\ new[o][d] = r
        BY <3>4, <1>5
      <3> QED
        BY <3>5, <2>2, <1>4 DEF ChildOK
    <2> QED
      BY <2>3, <2>4
  <1>8. ASSUME NEW x \in S, x # r PROVE \E side \in Sides : x \in T(side)
    <2>1. x \in Int
      BY <1>1, Landmarks
    <2> QED
      BY <2>1, <1>1, <1>8, SideOf DEF Beside
  <1>9. \A s \in Sides : \A x \in S : /\ Before(s, new[s][x], x) /\ ~Before(s, new[s][x], Far(s))
                                      /\ ChildOK(t, S, new, s, x)
    BY <1>6, <1>7, <1>8
  <1>10. Typed(t, S, new)
    BY <1>3 DEF Typed
  <1> QED
    BY <1>4, <1>9, <1>10 DEF Labelled

-----------------------------------------------------------------------------
(* Between calls: a search tree of S, and no link of anything else.        *)
IsTree(t, S) ==
  /\ t \in SplayTrees /\ S \in SUBSET Node
  /\ Below(t, S, t.root)
  /\ \A side \in Sides : \A x \in (Node \cup {Stack}) \ S : t[side][x] = NULL

LEMMA TreeLabelled ==
  ASSUME NEW t, NEW S, IsTree(t, S)
  PROVE  /\ t.root \in S \cup {NULL} /\ (S = {} <=> t.root = NULL)
         /\ S # {} => \E lab : Labelled(t, S, lab)
  <1>1. At(t, t.root) = t
    BY DEF IsTree, At, SplayTrees
  <1> QED
    BY <1>1, SearchFrom DEF IsTree

LEMMA IsTreeIf ==
  ASSUME NEW t, NEW S, NEW lab, Labelled(t, S, lab),
         \A side \in Sides : \A x \in (Node \cup {Stack}) \ S : t[side][x] = NULL
  PROVE  IsTree(t, S)
  <1>1. t \in SplayTrees /\ S \in SUBSET Node /\ S # {}
    BY DEF Labelled, Typed
  <1>2. At(t, t.root) = t
    BY <1>1 DEF At, SplayTrees
  <1>3. Below(t, S, t.root)
    BY <1>1, <1>2 DEF Below
  <1> QED
    BY <1>1, <1>3 DEF IsTree

LEMMA SplayKeepsTree ==
  ASSUME NEW t, NEW S, IsTree(t, S), S # {}, NEW elm \in Keys
  PROVE  LET u == Splay(t, elm)
         IN IsTree(u, S) /\ u.root \in S /\ Nearest(S, elm, u.root)
  <1> DEFINE u == Splay(t, elm)
  <1>1. PICK lab : Labelled(t, S, lab)
    BY TreeLabelled
  <1>2. /\ \E l : Labelled(u, S, l)
        /\ Nearest(S, elm, u.root) /\ Same(t, u, S)
        /\ \A side \in Sides : u[side][Stack] = NULL
    BY <1>1, Splays
  <1> HIDE DEF u
  <1>3. PICK l : Labelled(u, S, l)
    BY <1>2
  <1>4. \A side \in Sides : \A x \in (Node \cup {Stack}) \ S : u[side][x] = NULL
    BY <1>2 DEF IsTree, Same
  <1>5. u.root \in S
    BY <1>3 DEF Labelled
  <1>6. IsTree(u, S)
    BY <1>3, <1>4, IsTreeIf
  <1> QED
    BY <1>2, <1>5, <1>6 DEF u

(* The root is the element sought if that is in the tree. *)
LEMMA NearestFinds ==
  ASSUME NEW S \in SUBSET Node, NEW elm \in Int, NEW r \in S, Nearest(S, elm, r)
  PROVE  /\ elm \in S <=> r = elm
         /\ elm = NULL => \A y \in S : r <= y
         /\ elm = Stack => \A y \in S : y <= r
  <1>1. \A y \in S : (y < r => y < elm) /\ (r < y => elm < y)
    <2>1. "left" \in Sides /\ "right" \in Sides
      BY DEF Sides
    <2> QED
      BY <2>1 DEF Nearest, Before
  <1>2. \A y \in S : y \in Int /\ NULL < y /\ y < Stack
    BY NodesAssumption DEF Node, NULL, Stack
  <1>3. elm \in S <=> r = elm
    BY <1>1, <1>2
  <1>4. elm = NULL => \A y \in S : r <= y
    BY <1>1, <1>2
  <1>5. elm = Stack => \A y \in S : y <= r
    BY <1>1, <1>2
  <1> QED
    BY <1>3, <1>4, <1>5

(* Every element is the root or is linked to, and nothing else is. *)
LEMMA ElementsAre ==
  ASSUME NEW t, NEW S, IsTree(t, S)
  PROVE  ({t.root} \cup Range(t.left) \cup Range(t.right)) \ {NULL} = S
  <1>1. /\ t.left = t["left"] /\ t.right = t["right"]
        /\ DOMAIN t.left = Node \cup {Stack} /\ DOMAIN t.right = Node \cup {Stack} /\ S \subseteq Node
    BY DEF IsTree, SplayTrees
  <1>2. Sides = {"left", "right"}
    BY DEF Sides
  <1>3. CASE S = {}
    <2>1. t.root = NULL
      BY <1>3, TreeLabelled
    <2>2. \A x \in Node \cup {Stack} : t.left[x] = NULL /\ t.right[x] = NULL
      BY <1>1, <1>2, <1>3 DEF IsTree
    <2> QED
      BY <1>1, <1>3, <2>1, <2>2 DEF Range
  <1>4. CASE S # {}
    <2>1. PICK lab : Labelled(t, S, lab)
      BY <1>4, TreeLabelled
    <2>2. t.root \in S
      BY <2>1 DEF Labelled
    <2>3. ASSUME NEW x \in Node \cup {Stack}, NEW side \in Sides PROVE t[side][x] \in S \cup {NULL}
      <3>1. CASE x \in S
        BY <2>1, <3>1 DEF Labelled, ChildOK
      <3>2. CASE x \notin S
        BY <3>2 DEF IsTree
      <3> QED
        BY <3>1, <3>2
    <2>4. ASSUME NEW x \in S, x # t.root PROVE \E p \in Node : t.left[p] = x \/ t.right[p] = x
      <3>1. PICK side \in Sides, p \in S : t[side][p] = x
        BY <2>1, <2>4, Reached
      <3> QED
        BY <3>1, <1>1, <1>2
    <2>5. \A x \in Node \cup {Stack} : t.left[x] \in S \cup {NULL} /\ t.right[x] \in S \cup {NULL}
      BY <2>3, <1>1, <1>2
    <2>6. NULL \notin S
      BY <1>1, Landmarks
    <2>7. S \subseteq {t.root} \cup Range(t.left) \cup Range(t.right)
      BY <2>4, <1>1 DEF Range
    <2>8. Range(t.left) \subseteq S \cup {NULL} /\ Range(t.right) \subseteq S \cup {NULL}
      BY <2>5, <1>1 DEF Range
    <2> QED
      BY <2>2, <2>6, <2>7, <2>8
  <1> QED
    BY <1>3, <1>4

(* Going left ends at the least element below. *)
LEMMA LeftmostIs ==
  ASSUME NEW t \in SplayTrees, NEW T, NEW c, Below(t, T, c)
  PROVE  /\ T = {} => Leftmost(t, c) = NULL
         /\ T # {} => Leftmost(t, c) \in T /\ \A y \in T : Leftmost(t, c) <= y
  <1> DEFINE Down == [x \in Link |-> IF x = NULL THEN x ELSE IF t.left[x] = NULL THEN x ELSE t.left[x]]
             m == Repeat(Down, c)
  <1>1. Leftmost(t, c) = m
    BY DEF Leftmost
  <1>2. t.left = t["left"] /\ "left" \in Sides
    BY DEF Sides
  <1>3. CASE T = {}
    <2> DEFINE Inv == {NULL}
               size == [x \in Inv |-> 0]
    <2>1. c = NULL
      BY <1>3, SearchFrom
    <2>2. Down[NULL] = NULL
      BY DEF Link
    <2>3. c \in Inv /\ size \in [Inv -> Nat] /\ size[c] <= NumNodes
      BY <2>1, NodesAssumption
    <2>4. \A x \in Inv : Down[x] \in Inv /\ (Down[Down[x]] = Down[x] \/ size[Down[x]] < size[x])
      BY <2>2
    <2> HIDE DEF Inv, size, Down
    <2>5. m \in Inv
      BY <2>3, <2>4, RepeatEnds
    <2> QED
      BY <2>5, <1>1, <1>3 DEF Inv
  <1>4. CASE T # {}
    <2>1. PICK lab : Labelled(At(t, c), T, lab)
      BY <1>4, SearchFrom
    <2> DEFINE v == At(t, c)
               Inv == {x \in T : lab["left"][x] = NULL}
               size == [x \in Inv |-> x - 1]
    <2>2. c \in Link /\ T \subseteq Node
      BY SearchFrom DEF Link
    <2>3. v.root = c /\ v["left"] = t["left"]
      BY <1>2, <2>2, AtIs
    <2> HIDE DEF v
    <2>4. Labelled(v, T, lab)
      BY <2>1 DEF v
    <2>5. c \in Inv
      BY <1>2, <2>3, <2>4 DEF Labelled, Far
    <2>6. ASSUME NEW x \in Inv
          PROVE  /\ Down[x] = IF t.left[x] = NULL THEN x ELSE t.left[x]
                 /\ t.left[x] = NULL => \A y \in T : x <= y
                 /\ t.left[x] # NULL => t.left[x] \in Inv /\ t.left[x] < x
      <3>1. x \in Node /\ x # NULL /\ x \in Link /\ x \in T /\ lab["left"][x] = NULL
        BY <2>2, Landmarks DEF Link
      <3>2. Down[x] = IF t.left[x] = NULL THEN x ELSE t.left[x]
        BY <3>1
      <3>3. ChildOK(v, T, lab, "left", x) /\ v["left"][x] = t.left[x]
        BY <1>2, <2>3, <2>4, <3>1 DEF Labelled
      <3>4. ASSUME t.left[x] = NULL PROVE \A y \in T : x <= y
        <4>1. \A y \in T : ~(Before("left", NULL, y) /\ Before("left", y, x))
          BY <3>1, <3>3, <3>4, <2>2, Landmarks DEF ChildOK
        <4>2. \A y \in T : y \in Int /\ NULL < y
          BY <2>2, NodesAssumption DEF Node, NULL
        <4>3. x \in Int
          BY <4>2, <3>1
        <4> QED
          BY <4>1, <4>2, <4>3 DEF Before
      <3>5. ASSUME t.left[x] # NULL PROVE t.left[x] \in Inv /\ t.left[x] < x
        <4> DEFINE d == t.left[x]
        <4>1. d \in T /\ lab["left"][d] = NULL /\ lab["right"][d] = x
          BY <3>1, <3>3, <3>5 DEF ChildOK, Other
        <4>2. Before("right", lab["right"][d], d)
          BY <2>4, <4>1 DEF Labelled, Sides
        <4> QED
          BY <4>1, <4>2 DEF Before
      <3> QED
        BY <3>2, <3>4, <3>5
    <2>7. size \in [Inv -> Nat] /\ \A x \in Inv : size[x] = x - 1 /\ x \in 1 .. NumNodes
      <3>1. \A x \in Inv : x \in 1 .. NumNodes
        BY <2>2 DEF Node
      <3> HIDE DEF Inv
      <3>2. \A x \in Inv : x - 1 \in Nat
        BY <3>1, NodesAssumption
      <3> QED
        BY <3>1, <3>2
    <2>8. size[c] <= NumNodes
      BY <2>5, <2>7, NodesAssumption
    <2> HIDE DEF Down, Inv, size
    <2>9. ASSUME NEW x \in Inv
          PROVE  Down[x] \in Inv /\ (Down[Down[x]] = Down[x] \/ size[Down[x]] < size[x])
      <3>1. CASE t.left[x] = NULL
        BY <3>1, <2>6
      <3>2. CASE t.left[x] # NULL
        <4>1. Down[x] \in Inv /\ Down[x] < x
          BY <3>2, <2>6
        <4> QED
          BY <4>1, <2>7
      <3> QED
        BY <3>1, <3>2
    <2>10. m \in Inv /\ Down[m] = m
      BY <2>5, <2>7, <2>8, <2>9, RepeatEnds
    <2>11. t.left[m] = NULL
      BY <2>6, <2>7, <2>10
    <2>12. m \in T /\ \A y \in T : m <= y
      BY <2>6, <2>10, <2>11 DEF Inv
    <2> QED
      BY <1>1, <1>4, <2>12
  <1> QED
    BY <1>3, <1>4

-----------------------------------------------------------------------------
(* SPLAY_INSERT *)
LEMMA First ==
  ASSUME NEW t, IsTree(t, {}), NEW elm \in Node
  PROVE  IsTree([t EXCEPT !.root = elm], {elm})
  <1> DEFINE u == At(t, elm)
  <1>1. t \in SplayTrees /\ \A side \in Sides : \A x \in Node \cup {Stack} : t[side][x] = NULL
    BY DEF IsTree
  <1>2. u \in SplayTrees /\ u.root = elm /\ \A side \in Sides : u[side] = t[side]
    BY <1>1, AtIs DEF Link
  <1> HIDE DEF u
  <1>3. ASSUME NEW side \in Sides PROVE Below(u, Beside({elm}, side, elm), u[side][elm])
    <2>1. ~Before(side, elm, elm)
      BY Landmarks, Order
    <2>2. Beside({elm}, side, elm) = {}
      BY <2>1 DEF Beside
    <2> QED
      BY <1>1, <1>2, <2>2 DEF Below
  <1>4. \E lab : Labelled(u, {elm}, lab)
    <2>1. {elm} \in SUBSET Node /\ u.root \in {elm}
      BY <1>2
    <2> QED
      BY <1>2, <1>3, <2>1, Together
  <1>5. IsTree(u, {elm})
    BY <1>1, <1>2, <1>4, IsTreeIf
  <1> QED
    BY <1>5 DEF u, At

LEMMA InsertedIs ==
  ASSUME NEW t \in SplayTrees, NEW elm \in Node, t.root \in Node, t.root # elm
  PROVE  LET u == InsertAtRoot(t, elm)
             side == Side(elm, t.root)
             o == Other(side)
         IN /\ u \in SplayTrees /\ u.root = elm
            /\ u[side] = [t[side] EXCEPT ![elm] = t[side][t.root], ![t.root] = NULL]
            /\ u[o] = [t[o] EXCEPT ![elm] = t.root]
  <1>1. CASE Side(elm, t.root) = "left"
    BY <1>1 DEF SplayTrees, InsertAtRoot, Other, Link
  <1>2. CASE Side(elm, t.root) = "right"
    BY <1>2 DEF SplayTrees, InsertAtRoot, Other, Link
  <1> QED
    BY <1>1, <1>2 DEF Side

LEMMA Inserted ==
  ASSUME NEW t, NEW S, IsTree(t, S), S # {}, NEW elm \in Node \ S, Nearest(S, elm, t.root)
  PROVE  IsTree(InsertAtRoot(t, elm), S \cup {elm})
  <1> DEFINE r == t.root
             side == Side(elm, r)
             o == Other(side)
             u == InsertAtRoot(t, elm)
             U == S \cup {elm}
             V == Beside(U, o, elm)
  <1>1. PICK lab : Labelled(t, S, lab)
    BY TreeLabelled
  <1>2. r \in S /\ r \in Node /\ r \in Int /\ elm \in Int /\ r # elm /\ t \in SplayTrees /\ S \subseteq Node /\ elm \in Node
    BY <1>1, Landmarks DEF Labelled, Typed
  <1>3. side \in Sides /\ o \in Sides /\ Other(o) = side /\ o # side /\ Sides = {side, o}
        /\ Before(side, elm, r) /\ Before(o, r, elm)
    <2>1. side \in Sides /\ Before(side, elm, r)
      BY <1>2, SideOf
    <2>2. o \in Sides /\ Other(o) = side /\ o # side /\ Sides = {side, o}
      BY <2>1, TwoSides
    <2> HIDE DEF side
    <2>3. Before(o, r, elm)
      BY <2>1, <1>2, Order
    <2> QED
      BY <2>1, <2>2, <2>3
  <1>4. /\ u \in SplayTrees /\ u.root = elm
        /\ u[side] = [t[side] EXCEPT ![elm] = t[side][r], ![r] = NULL]
        /\ u[o] = [t[o] EXCEPT ![elm] = r]
    BY <1>2, InsertedIs
  <1>5. t[side] \in [Node \cup {Stack} -> Link] /\ t[o] \in [Node \cup {Stack} -> Link]
    BY <1>2, <1>3, TreeType
  <1> HIDE DEF u, side, o
  <1>6. /\ u[side][elm] = t[side][r] /\ u[o][elm] = r /\ u[side][r] = NULL
        /\ \A x \in Node \cup {Stack} : x # elm /\ x # r => u[side][x] = t[side][x]
        /\ \A x \in Node \cup {Stack} : x # elm => u[o][x] = t[o][x]
    BY <1>2, <1>4, <1>5
  <1>7. \A y \in S : y \in Int /\ y # elm /\ (Before(side, y, r) <=> Before(side, y, elm))
                     /\ (Before(o, y, elm) <=> y = r \/ Before(o, y, r))
    <2>1. ASSUME NEW y \in S PROVE y \in Int /\ y # elm
      BY <1>2, Landmarks
    <2>2. ASSUME NEW y \in S PROVE Before(side, y, r) <=> Before(side, y, elm)
      BY <2>1, <1>2, <1>3, Order DEF Nearest
    <2>3. ASSUME NEW y \in S PROVE Before(o, y, elm) <=> ~Before(side, y, elm)
      BY <2>1, <1>2, <1>3 DEF Before, Other, Sides
    <2>4. ASSUME NEW y \in S PROVE Before(o, y, r) <=> ~Before(side, y, r) /\ y # r
      BY <2>1, <1>2, <1>3 DEF Before, Other, Sides
    <2>5. ~Before(side, r, r)
      BY <1>2, <1>3, Order
    <2> QED
      BY <2>1, <2>2, <2>3, <2>4, <2>5
  <1>8. Below(u, Beside(U, side, elm), u[side][elm])
    <2>1. Below(t, Beside(S, side, r), t[side][r])
      BY <1>1, <1>3, Apart
    <2>2. ~Before(side, elm, elm) /\ ~Before(side, r, r)
      BY <1>2, <1>3, Order
    <2>3. Beside(U, side, elm) = Beside(S, side, r)
      BY <1>7, <2>2 DEF Beside
    <2>4. \A s \in Sides : \A x \in Beside(S, side, r) : u[s][x] = t[s][x]
      BY <1>2, <1>3, <1>6, <1>7, <2>2 DEF Beside
    <2>5. Below(u, Beside(S, side, r), t[side][r])
      BY <1>2, <1>4, <2>1, <2>4, SameSearch
    <2> QED
      BY <1>6, <2>3, <2>5
  <1>9. V = {r} \cup Beside(S, o, r) /\ V \in SUBSET Node
    <2>1. ~Before(o, elm, elm)
      BY <1>2, <1>3, Order
    <2>2. V = {r} \cup Beside(S, o, r)
      BY <1>2, <1>7, <2>1 DEF Beside
    <2> QED
      BY <1>2, <2>2 DEF Beside
  <1>10. Below(u, V, u[o][elm])
    <2> DEFINE w == At(u, r)
    <2>1. w \in SplayTrees /\ w.root = r /\ \A s \in Sides : w[s] = u[s]
      BY <1>2, <1>4, AtIs DEF Link
    <2> HIDE DEF w, V
    <2>2. ~Before(o, r, r) /\ ~Before(side, r, r)
      BY <1>2, <1>3, Order
    <2>3. Below(w, Beside(V, o, r), w[o][r])
      <3>1. Below(t, Beside(S, o, r), t[o][r])
        BY <1>1, <1>3, Apart
      <3>2. Beside(V, o, r) = Beside(S, o, r)
        BY <1>9, <2>2 DEF Beside
      <3>3. \A s \in Sides : \A x \in Beside(S, o, r) : w[s][x] = t[s][x]
        BY <1>2, <1>3, <1>6, <1>7, <2>1, <2>2 DEF Beside
      <3>4. Below(w, Beside(S, o, r), t[o][r])
        BY <1>2, <2>1, <3>1, <3>3, SameSearch
      <3> QED
        BY <1>2, <1>3, <1>6, <2>1, <3>2, <3>4
    <2>4. Below(w, Beside(V, side, r), w[side][r])
      <3>1. Beside(V, side, r) = {}
        <4>1. ASSUME NEW y \in Beside(S, o, r) PROVE ~Before(side, y, r)
          <5>1. y \in Int /\ Before(o, y, r)
            BY <1>7 DEF Beside
          <5> QED
            BY <5>1, <1>2, <1>3 DEF Before, Other, Sides
        <4> QED
          BY <1>9, <2>2, <4>1 DEF Beside
      <3> QED
        BY <1>3, <1>6, <2>1, <3>1 DEF Below
    <2>5. r \in V
      BY <1>9
    <2>6. \E l : Labelled(w, V, l)
      BY <1>3, <1>9, <2>1, <2>3, <2>4, <2>5, Together
    <2> QED
      BY <1>6, <2>5, <2>6 DEF Below, w
  <1>11. \E l : Labelled(u, U, l)
    <2>1. U \in SUBSET Node /\ u.root \in U
      BY <1>2, <1>4
    <2>2. \A s \in Sides : Below(u, Beside(U, s, u.root), u[s][u.root])
      BY <1>3, <1>4, <1>8, <1>10
    <2> HIDE DEF U
    <2> QED
      BY <1>4, <2>1, <2>2, Together
  <1>12. \A s \in Sides : \A x \in (Node \cup {Stack}) \ U : u[s][x] = NULL
    <2>1. \A s \in Sides : \A x \in (Node \cup {Stack}) \ S : t[s][x] = NULL
      BY DEF IsTree
    <2> QED
      BY <1>2, <1>3, <1>6, <2>1
  <1>13. IsTree(u, U)
    BY <1>11, <1>12, IsTreeIf
  <1> QED
    BY <1>13 DEF u

(* SPLAY_REMOVE *)
Cut(t, elm) == [t EXCEPT !.left[elm] = NULL, !.right[elm] = NULL]

LEMMA Cleared ==
  ASSUME NEW t \in SplayTrees, NEW elm \in Node
  PROVE  LET u == Cut(t, elm)
         IN /\ u \in SplayTrees /\ u.root = t.root
            /\ \A side \in Sides : \A x \in Node \cup {Stack} : u[side][x] = IF x = elm THEN NULL ELSE t[side][x]
  BY DEF Cut, SplayTrees, Sides, Link

LEMMA HungRight ==
  ASSUME NEW t \in SplayTrees, NEW c \in Link, t.root \in Node
  PROVE  LET u == [t EXCEPT !.right[t.root] = c]
         IN /\ u \in SplayTrees /\ u.root = t.root
            /\ \A x \in Node \cup {Stack} : /\ u["left"][x] = t["left"][x]
                                            /\ u["right"][x] = IF x = t.root THEN c ELSE t["right"][x]
  BY DEF SplayTrees, Link

LEMMA Removed ==
  ASSUME NEW t, NEW S, IsTree(t, S), t.root # NULL
  PROVE  IsTree(RemoveRoot(t), S \ {t.root})
  <1> DEFINE elm == t.root
             c == t["left"][elm]
             d == t["right"][elm]
             L == Beside(S, "left", elm)
             R == Beside(S, "right", elm)
             t1 == Splay(At(t, c), elm)
             t2 == IF c = NULL THEN At(t, d) ELSE [t1 EXCEPT !.right[t1.root] = d]
             u == Cut(t2, elm)
  <1>1. t \in SplayTrees /\ S \subseteq Node /\ S # {} /\ elm \in S /\ elm \in Node /\ elm \in Int
    <2>1. t \in SplayTrees /\ S \subseteq Node
      BY DEF IsTree
    <2>2. S # {} /\ elm \in S
      BY TreeLabelled
    <2> QED
      BY <2>1, <2>2, Landmarks
  <1>2. PICK lab : Labelled(t, S, lab)
    BY <1>1, TreeLabelled
  <1>3. Sides = {"left", "right"} /\ Other("left") = "right" /\ Other("right") = "left"
    BY DEF Sides, Other
  <1>4. /\ Below(t, L, c) /\ Below(t, R, d)
        /\ c \in L \cup {NULL} /\ (L = {} <=> c = NULL) /\ L \subseteq Node
        /\ d \in R \cup {NULL} /\ (R = {} <=> d = NULL) /\ R \subseteq Node
    <2>1. Below(t, L, c) /\ Below(t, R, d)
      BY <1>2, <1>3, Apart
    <2> HIDE DEF L, R, c, d
    <2> QED
      BY <2>1, <1>1, SearchFrom
  <1>5. c \in Link /\ d \in Link
    BY <1>4 DEF Link
  <1>6. RemoveRoot(t) = u
    BY DEF RemoveRoot, At, Cut
  <1>7. /\ \A y \in L : y \in S /\ y \in Int /\ y < elm
        /\ \A y \in R : y \in S /\ y \in Int /\ elm < y
        /\ S \ {elm} = L \cup R
    <2>1. \A y \in S : y \in Int
      BY <1>1, Landmarks
    <2> QED
      BY <2>1, <1>1 DEF Beside, Before
  <1> HIDE DEF L, R, c, d
  <1>8. ASSUME NEW v \in SplayTrees, v.root = IF L \cup R = {} THEN NULL ELSE v.root,
               L \cup R # {} => \E l : Labelled(v, L \cup R, l),
               \A side \in Sides : \A x \in (Node \cup {Stack}) \ S : v[side][x] = NULL
        PROVE  IsTree(Cut(v, elm), L \cup R)
    <2> DEFINE w == Cut(v, elm)
    <2>1. /\ w \in SplayTrees /\ w.root = v.root
          /\ \A side \in Sides : \A x \in Node \cup {Stack} : w[side][x] = IF x = elm THEN NULL ELSE v[side][x]
      BY <1>1, <1>8, Cleared
    <2> HIDE DEF w
    <2>2. \A side \in Sides : \A x \in (Node \cup {Stack}) \ (L \cup R) : w[side][x] = NULL
      BY <1>7, <1>8, <2>1
    <2>3. CASE L \cup R = {}
      <3>1. Below(w, {}, w.root)
        BY <1>8, <2>1, <2>3 DEF Below
      <3> QED
        <4>1. IsTree(w, {})
          BY <2>1, <2>2, <2>3, <3>1 DEF IsTree
        <4> QED
          BY <2>3, <4>1 DEF w
    <2>4. CASE L \cup R # {}
      <3>1. PICK l : Labelled(v, L \cup R, l)
        BY <1>8, <2>4
      <3>2. At(v, v.root) = v /\ v.root \in Link
        BY DEF At, SplayTrees
      <3>3. Below(v, L \cup R, v.root)
        BY <2>4, <3>1, <3>2 DEF Below
      <3>4. \A side \in Sides : \A x \in L \cup R : w[side][x] = v[side][x]
        BY <1>4, <1>7, <2>1
      <3>5. Below(w, L \cup R, w.root)
        BY <2>1, <3>3, <3>4, SameSearch
      <3> QED
        <4>1. L \cup R \in SUBSET Node
          BY <1>4
        <4>2. IsTree(w, L \cup R)
          BY <4>1, <2>1, <2>2, <3>5 DEF IsTree
        <4> QED
          BY <4>2 DEF w
    <2> QED
      BY <2>3, <2>4
  <1>9. CASE c = NULL
    <2> DEFINE v == At(t, d)
    <2>1. v \in SplayTrees /\ v.root = d /\ \A side \in Sides : v[side] = t[side]
      BY <1>1, <1>5, AtIs
    <2>2. L = {} /\ L \cup R = R
      BY <1>4, <1>9
    <2>3. R # {} => \E l : Labelled(v, R, l)
      BY <1>4 DEF Below
    <2>4. \A side \in Sides : \A x \in (Node \cup {Stack}) \ S : v[side][x] = NULL
      BY <2>1 DEF IsTree
    <2>5. v.root = IF L \cup R = {} THEN NULL ELSE v.root
      BY <1>4, <2>1, <2>2
    <2> HIDE DEF v
    <2>6. IsTree(Cut(v, elm), L \cup R)
      BY <1>8, <2>1, <2>2, <2>3, <2>4, <2>5
    <2>7. t2 = v
      BY <1>9 DEF v
    <2> QED
      BY <1>6, <1>7, <2>6, <2>7
  <1>10. CASE c # NULL
    <2> DEFINE a == At(t, c)
               m == t1.root
               v == [t1 EXCEPT !.right[m] = d]
    <2>1. a \in SplayTrees /\ a.root = c /\ \A side \in Sides : a[side] = t[side]
      BY <1>1, <1>5, AtIs
    <2>2. PICK l1 : Labelled(a, L, l1)
      BY <1>4, <1>10 DEF Below
    <2>3. /\ \E l : Labelled(t1, L, l)
          /\ Nearest(L, elm, m) /\ Same(a, t1, L)
          /\ \A side \in Sides : t1[side][Stack] = NULL
      BY <2>2, <1>1, Splays, KeysType
    <2> HIDE DEF a, t1
    <2>4. PICK l : Labelled(t1, L, l)
      BY <2>3
    <2>5. t1 \in SplayTrees /\ m \in L /\ m \in Node /\ m \in Int
      BY <2>4, <1>4, <1>7 DEF Labelled, Typed
    <2>6. \A y \in L : y <= m
      <3>1. \A y \in L : Before("right", y, m) => Before("right", y, elm)
        BY <2>3, <1>3 DEF Nearest
      <3> QED
        BY <3>1, <1>1, <1>7, <2>5 DEF Before
    <2>7. /\ v \in SplayTrees /\ v.root = m
          /\ \A x \in Node \cup {Stack} : /\ v["left"][x] = t1["left"][x]
                                          /\ v["right"][x] = IF x = m THEN d ELSE t1["right"][x]
      BY <1>5, <2>5, HungRight
    <2>8. \A side \in Sides : \A x \in (Node \cup {Stack}) \ L : v[side][x] = t1[side][x]
      BY <1>3, <2>5, <2>7
    <2>9. \A side \in Sides : \A x \in Node \ L : t1[side][x] = t[side][x]
      BY <2>1, <2>3 DEF Same
    <2> HIDE DEF v
    <2>10. Beside(L \cup R, "left", m) = Beside(L, "left", m) /\ Beside(L \cup R, "right", m) = R
      <3>1. \A y \in R : m < y
        BY <1>1, <1>7, <2>5
      <3> QED
        BY <3>1, <1>1, <1>7, <2>5, <2>6 DEF Beside, Before
    <2>11. Below(v, Beside(L \cup R, "left", m), v["left"][m])
      <3>1. Below(t1, Beside(L, "left", m), t1["left"][m])
        BY <1>3, <2>4, Apart
      <3>2. \A y \in Beside(L, "left", m) : y \in Node /\ y # m
        BY <1>4, <1>7, <2>5 DEF Beside, Before
      <3>3. \A side \in Sides : \A y \in Beside(L, "left", m) : v[side][y] = t1[side][y]
        BY <1>3, <2>7, <3>2
      <3>4. Below(v, Beside(L, "left", m), t1["left"][m])
        BY <2>5, <2>7, <3>1, <3>3, SameSearch
      <3> QED
        BY <2>5, <2>7, <2>10, <3>4
    <2>12. Below(v, Beside(L \cup R, "right", m), v["right"][m])
      <3>1. \A y \in R : y \in Node \ L
        BY <1>1, <1>4, <1>7
      <3>2. \A side \in Sides : \A y \in R : v[side][y] = t[side][y]
        BY <2>8, <2>9, <3>1
      <3>3. Below(v, R, d)
        BY <1>1, <1>4, <2>7, <3>2, SameSearch
      <3> QED
        BY <2>5, <2>7, <2>10, <3>3
    <2>13. \E k : Labelled(v, L \cup R, k)
      <3>1. L \cup R \in SUBSET Node /\ v.root \in L \cup R
        BY <1>4, <2>5, <2>7
      <3>2. \A side \in Sides : Below(v, Beside(L \cup R, side, v.root), v[side][v.root])
        BY <1>3, <2>7, <2>11, <2>12
      <3> QED
        BY <2>7, <3>1, <3>2, Together
    <2>14. \A side \in Sides : \A x \in (Node \cup {Stack}) \ S : v[side][x] = NULL
      <3>1. ASSUME NEW side \in Sides, NEW x \in (Node \cup {Stack}) \ S PROVE v[side][x] = NULL
        <4>1. x \notin L
          BY <1>7
        <4>2. v[side][x] = t1[side][x]
          BY <2>8, <4>1
        <4>3. CASE x = Stack
          BY <4>2, <4>3, <2>3
        <4>4. CASE x \in Node
          BY <4>1, <4>2, <4>4, <2>9 DEF IsTree
        <4> QED
          BY <4>3, <4>4
      <3> QED
        BY <3>1
    <2>15. v.root = IF L \cup R = {} THEN NULL ELSE v.root
      BY <2>5
    <2>16. IsTree(Cut(v, elm), L \cup R)
      BY <1>8, <2>7, <2>13, <2>14, <2>15
    <2>17. t2 = v
      BY <1>10 DEF v
    <2> QED
      BY <1>6, <1>7, <2>16, <2>17
  <1> QED
    BY <1>9, <1>10

-----------------------------------------------------------------------------
(* A set in order, here and in OrderedSet. *)
LEMMA CardinalityIs ==
  ASSUME NEW T
  PROVE  SplaySet!Cardinality(T) = Cardinality(T)
  BY DEF SplaySet!Cardinality, Cardinality

LEMMA InOrderIs ==
  ASSUME NEW T
  PROVE  SplaySet!InOrder(T) = Ordered(T)
  <1>1. ASSUME NEW k PROVE SplaySet!Ranked(T, k) = Nth(T, k)
    BY CardinalityIs, Zenon DEF SplaySet!Ranked, Nth
  <1> QED
    BY <1>1, CardinalityIs DEF SplaySet!InOrder, Ordered

-----------------------------------------------------------------------------
(* SPLAY_NEXT of the root, and the ends of the tree. *)
LEMMA NextOfRoot ==
  ASSUME NEW t, NEW S, IsTree(t, S), S # {}
  PROVE  LET r == t.root
             next == Leftmost(t, t.right[r])
         IN \/ next = NULL /\ \A y \in S : y <= r
            \/ next \in S /\ r < next /\ \A y \in S : r < y => next <= y
  <1> DEFINE r == t.root
             R == Beside(S, "right", r)
             next == Leftmost(t, t.right[r])
  <1>1. t.right = t["right"] /\ "right" \in Sides /\ t \in SplayTrees
    BY DEF IsTree, Sides
  <1>2. r \in S /\ S \subseteq Node
    BY TreeLabelled DEF IsTree
  <1>3. Below(t, R, t.right[r])
    <2>1. PICK lab : Labelled(t, S, lab)
      BY TreeLabelled
    <2> QED
      BY <1>1, <2>1, Apart
  <1>4. /\ R = {} => next = NULL
        /\ R # {} => next \in R /\ \A y \in R : next <= y
    <2> HIDE DEF R, r
    <2> QED
      BY <1>1, <1>3, LeftmostIs
  <1>5. R = {y \in S : r < y}
    BY DEF Beside, Before
  <1>6. \A y \in S : y \in Int
    BY <1>2, Landmarks
  <1> HIDE DEF next, R
  <1>7. CASE R = {}
    <2>1. \A y \in S : y <= r
      BY <1>2, <1>5, <1>6, <1>7
    <2> QED
      BY <1>4, <1>7, <2>1 DEF next
  <1>8. CASE R # {}
    BY <1>4, <1>5, <1>8 DEF next
  <1> QED
    BY <1>7, <1>8

LEMMA MinMaxIs ==
  ASSUME NEW t, NEW S, IsTree(t, S), NEW side \in Sides
  PROVE  LET u == MinMax(t, side)
         IN /\ IsTree(u, S)
            /\ S = {} => u.root = NULL
            /\ S # {} => u.root \in S /\ \A y \in S : ~Before(side, y, u.root)
  <1>1. CASE S = {}
    BY <1>1, TreeLabelled DEF MinMax
  <1>2. CASE S # {}
    <2> DEFINE elm == IF side = "left" THEN NULL ELSE Stack
               u == Splay(t, elm)
    <2>1. t.root # NULL
      BY <1>2, TreeLabelled
    <2>2. MinMax(t, side) = u
      BY <2>1 DEF MinMax
    <2>3. elm \in Keys /\ elm \in Int
      BY KeysType
    <2>4. S \in SUBSET Node
      BY DEF IsTree
    <2>5. IsTree(u, S) /\ u.root \in S /\ Nearest(S, elm, u.root)
      BY <1>2, <2>3, SplayKeepsTree
    <2>6. \A y \in S : y \in Int
      BY <2>4, Landmarks
    <2> HIDE DEF u
    <2>7. CASE side = "left"
      <3>1. \A y \in S : u.root <= y
        <4>1. elm = NULL
          BY <2>7
        <4>2. u.root \in S /\ Nearest(S, elm, u.root) /\ elm \in Int
          BY <2>3, <2>5
        <4> HIDE DEF elm
        <4>3. ASSUME NEW m \in S, Nearest(S, elm, m), elm \in Int
              PROVE  elm = NULL => \A y \in S : m <= y
          BY <4>3, <2>4, NearestFinds
        <4> QED
          BY <4>1, <4>2, <4>3, Zenon
      <3>2. \A y \in S : ~(y < u.root)
        BY <2>5, <2>6, <3>1
      <3> QED
        BY <1>2, <2>2, <2>5, <2>7, <3>2 DEF Before
    <2>8. CASE side = "right"
      <3>1. \A y \in S : y <= u.root
        <4>1. elm = Stack
          BY <2>8
        <4>2. u.root \in S /\ Nearest(S, elm, u.root) /\ elm \in Int
          BY <2>3, <2>5
        <4> HIDE DEF elm
        <4>3. ASSUME NEW m \in S, Nearest(S, elm, m), elm \in Int
              PROVE  elm = Stack => \A y \in S : y <= m
          BY <4>3, <2>4, NearestFinds
        <4> QED
          BY <4>1, <4>2, <4>3, Zenon
      <3>2. \A y \in S : ~(u.root < y)
        BY <2>5, <2>6, <3>1
      <3> QED
        BY <1>2, <2>2, <2>5, <2>8, <3>2 DEF Before
    <2> QED
      BY <2>7, <2>8 DEF Sides
  <1> QED
    BY <1>1, <1>2

(* A search brings the element sought to the root, if it is in the tree. *)
LEMMA Finds ==
  ASSUME NEW t, NEW S, IsTree(t, S), NEW elm \in Node, S # {}
  PROVE  LET u == Splay(t, elm)
         IN /\ IsTree(u, S) /\ u.root \in S /\ Nearest(S, elm, u.root)
            /\ u.root = elm <=> elm \in S
  <1> DEFINE u == Splay(t, elm)
  <1>1. elm \in Keys /\ elm \in Int /\ S \in SUBSET Node
    BY KeysType DEF IsTree
  <1>2. IsTree(u, S) /\ u.root \in S /\ Nearest(S, elm, u.root)
    BY <1>1, SplayKeepsTree
  <1> HIDE DEF u
  <1>3. u.root = elm <=> elm \in S
    BY <1>1, <1>2, NearestFinds
  <1> QED
    BY <1>2, <1>3 DEF u

-----------------------------------------------------------------------------
(* SPLAY_FOREACH has visited what is below the element it is at. *)
Walking(S) ==
  {w \in Walks : /\ IsTree(w.tree, S) /\ w.at \in S \cup {NULL}
                 /\ w.visited = Ordered({y \in S : w.at = NULL \/ y < w.at})}

Ahead(w) == IF w.at = NULL THEN 0 ELSE NumNodes + 1 - w.at

LEMMA AheadType ==
  ASSUME NEW S, NEW w \in Walking(S)
  PROVE  Ahead(w) \in Nat /\ Ahead(w) <= NumNodes
  <1>1. w.at = NULL \/ w.at \in Node
    BY DEF Walking, IsTree
  <1> QED
    BY <1>1, NodesAssumption DEF Ahead, Node

LEMMA ForeachKeeps ==
  ASSUME NEW S, NEW w \in Walking(S)
  PROVE  /\ ForeachStep[w] \in Walking(S)
         /\ w.at = NULL => ForeachStep[w] = w
         /\ w.at # NULL => Ahead(ForeachStep[w]) < Ahead(w)
  <1> DEFINE t == Splay(w.tree, w.at)
             next == Leftmost(t, t.right[w.at])
             w2 == ForeachStep[w]
  <1>1. /\ w \in Walks /\ IsTree(w.tree, S) /\ w.at \in S \cup {NULL}
        /\ w.visited = Ordered({y \in S : w.at = NULL \/ y < w.at})
    BY DEF Walking
  <1>2. w2 = IF w.at = NULL THEN w
             ELSE [tree |-> t, at |-> next, visited |-> Append(w.visited, w.at)]
    BY <1>1 DEF ForeachStep
  <1>3. CASE w.at = NULL
    BY <1>2, <1>3
  <1>4. CASE w.at # NULL
    <2> DEFINE x == w.at
               T == {y \in S : y < x}
               U == {y \in S : next = NULL \/ y < next}
    <2>1. x \in S /\ S \subseteq Node /\ x \in Node
      BY <1>1, <1>4 DEF IsTree
    <2>2. IsTree(t, S) /\ t.root = x
      BY <1>1, <2>1, Finds
    <2> HIDE DEF t
    <2>3. \/ next = NULL /\ \A y \in S : y <= x
          \/ next \in S /\ x < next /\ \A y \in S : x < y => next <= y
      BY <2>1, <2>2, NextOfRoot
    <2>4. \A y \in S : y \in Int
      BY <2>1, Landmarks
    <2> HIDE DEF next
    <2>5. w.visited = Ordered(T)
      BY <1>1, <1>4
    <2>6. U = T \cup {x}
      <3>1. NULL \notin S
        BY <2>1, Landmarks
      <3> QED
        BY <2>1, <2>3, <2>4, <3>1
    <2>7. Append(w.visited, x) = Ordered(U)
      <3>1. T \in SUBSET Node /\ \A y \in T : y < x
        BY <2>1
      <3> HIDE DEF T, U, x
      <3> QED
        BY <2>1, <2>5, <2>6, <3>1, OrderedNext
    <2>8. w2 = [tree |-> t, at |-> next, visited |-> Append(w.visited, x)]
      BY <1>2, <1>4
    <2>9. w2 \in Walks
      <3>1. t \in SplayTrees /\ next \in Link /\ w.visited \in Seq(Node)
        BY <1>1, <2>1, <2>2, <2>3 DEF IsTree, Link, Walks
      <3> QED
        BY <2>1, <2>8, <3>1 DEF Walks
    <2>10. w2 \in Walking(S)
      <3>1. w2.tree = t /\ w2.at = next /\ w2.visited = Append(w.visited, x)
        BY <2>8
      <3> HIDE DEF w2
      <3>2. next \in S \cup {NULL}
        BY <2>3
      <3> QED
        BY <2>2, <2>7, <2>9, <3>1, <3>2 DEF Walking
    <2>11. Ahead(w2) < Ahead(w)
      <3>1. w2.at = next
        BY <2>8
      <3>2. x \in 1 .. NumNodes
        BY <2>1 DEF Node
      <3>3. Ahead(w) = NumNodes + 1 - x
        BY <1>4 DEF Ahead
      <3>4. Ahead(w2) = IF next = NULL THEN 0 ELSE NumNodes + 1 - next
        BY <3>1 DEF Ahead
      <3>5. next = NULL \/ (next \in Int /\ x < next)
        BY <2>3, <2>4
      <3> HIDE DEF x, w2
      <3> QED
        BY <3>2, <3>3, <3>4, <3>5, NodesAssumption
    <2> QED
      BY <1>4, <2>10, <2>11
  <1> QED
    BY <1>3, <1>4

LEMMA ForeachVisits ==
  ASSUME NEW t, NEW S, IsTree(t, S), \A y \in S : t.root <= y
  PROVE  LET walk == Repeat(ForeachStep, [tree |-> t, at |-> t.root, visited |-> <<>>])
         IN IsTree(walk.tree, S) /\ walk.visited = Ordered(S)
  <1> DEFINE Inv == Walking(S)
             size == [w \in Inv |-> Ahead(w)]
             start == [tree |-> t, at |-> t.root, visited |-> <<>>]
             walk == Repeat(ForeachStep, start)
  <1>1. start \in Inv
    <2>1. t \in SplayTrees /\ t.root \in Link /\ t.root \in S \cup {NULL} /\ S \subseteq Node
          /\ (S = {} <=> t.root = NULL)
      BY TreeLabelled DEF IsTree, Link
    <2>2. start \in Walks
      BY <2>1 DEF Walks
    <2>3. {y \in S : t.root = NULL \/ y < t.root} = {}
      <3>1. \A y \in S : y \in Int
        BY <2>1, Landmarks
      <3>2. \A y \in S : ~(y < t.root)
        BY <2>1, <3>1
      <3> QED
        BY <2>1, <3>2
    <2>4. start.tree = t /\ start.at = t.root /\ start.visited = <<>>
      OBVIOUS
    <2> HIDE DEF start
    <2> QED
      BY <2>1, <2>2, <2>3, <2>4, OrderedNone DEF Walking
  <1>2. size \in [Inv -> Nat]
    BY AheadType
  <1>3. size[start] <= NumNodes
    BY <1>1, AheadType
  <1>4. ASSUME NEW w \in Inv
        PROVE  ForeachStep[w] \in Inv /\
               (ForeachStep[ForeachStep[w]] = ForeachStep[w] \/ size[ForeachStep[w]] < size[w])
    <2>1. /\ ForeachStep[w] \in Inv
          /\ w.at = NULL => ForeachStep[w] = w
          /\ w.at # NULL => Ahead(ForeachStep[w]) < Ahead(w)
      BY ForeachKeeps
    <2>2. size[w] = Ahead(w) /\ size[ForeachStep[w]] = Ahead(ForeachStep[w])
      BY <2>1
    <2> HIDE DEF size, Inv
    <2> QED
      BY <2>1, <2>2
  <1> HIDE DEF size, Inv, start
  <1>5. walk \in Inv /\ ForeachStep[walk] = walk
    BY <1>1, <1>2, <1>3, <1>4, RepeatEnds
  <1> HIDE DEF walk
  <1>6. walk \in Walking(S)
    BY <1>5 DEF Inv
  <1>7. walk.at = NULL
    BY <1>5, <1>6, ForeachKeeps, AheadType
  <1>8. {y \in S : walk.at = NULL \/ y < walk.at} = S
    BY <1>7
  <1>9. IsTree(walk.tree, S) /\ walk.visited = Ordered(S)
    BY <1>6, <1>8 DEF Walking
  <1> QED
    BY <1>9 DEF walk, start

(* What has been drained lies below what is still in the tree. *)
Elements(t) == ({t.root} \cup Range(t.left) \cup Range(t.right)) \ {NULL}

Drained(w, S, T) ==
  /\ T \in SUBSET S /\ S \in SUBSET Node
  /\ IsTree(w.tree, T)
  /\ \A x \in S \ T : \A y \in T : x < y
  /\ w.visited = Ordered(S \ T)

Draining(S) == {w \in Drains : Drained(w, S, Elements(w.tree))}

LEMMA DrainKeeps ==
  ASSUME NEW S, NEW w \in Draining(S)
  PROVE  /\ DrainStep[w] \in Draining(S)
         /\ w.tree.root = NULL => DrainStep[w] = w
         /\ w.tree.root # NULL =>
              Cardinality(Elements(DrainStep[w].tree)) < Cardinality(Elements(w.tree))
  <1> DEFINE T == Elements(w.tree)
             t == MinMax(w.tree, "left")
             x == t.root
             t2 == Splay(t, x)
             t3 == RemoveRoot(t2)
             w2 == DrainStep[w]
  <1>1. /\ w \in Drains /\ T \in SUBSET S /\ S \in SUBSET Node /\ IsTree(w.tree, T)
        /\ \A z \in S \ T : \A y \in T : z < y
        /\ w.visited = Ordered(S \ T)
    BY DEF Draining, Drained
  <1>2. w2 = IF w.tree.root = NULL THEN w ELSE [tree |-> t3, visited |-> Append(w.visited, x)]
    BY <1>1 DEF DrainStep
  <1>3. CASE w.tree.root = NULL
    BY <1>2, <1>3
  <1>4. CASE w.tree.root # NULL
    <2> HIDE DEF T
    <2>1. T # {} /\ T \in SUBSET Node
      BY <1>1, <1>4, TreeLabelled
    <2>2. IsTree(t, T) /\ x \in T /\ \A y \in T : ~Before("left", y, x)
      BY <1>1, <2>1, MinMaxIs DEF Sides
    <2>3. x \in Node /\ \A y \in S : y \in Int /\ y # NULL
      BY <1>1, <2>1, <2>2, Landmarks
    <2>4. \A y \in T : x <= y
      <3>1. \A y \in T : ~(y < x) /\ y \in Int
        BY <1>1, <2>2, <2>3 DEF Before
      <3> QED
        BY <2>2, <3>1
    <2> HIDE DEF t
    <2>5. IsTree(t2, T) /\ t2.root = x
      BY <2>1, <2>2, <2>3, Finds
    <2> HIDE DEF t2
    <2>6. IsTree(t3, T \ {x})
      BY <2>2, <2>3, <2>5, <1>1, Removed
    <2> HIDE DEF t3, x
    <2>7. Elements(t3) = T \ {x}
      BY <2>6, ElementsAre DEF Elements
    <2>8. w2 = [tree |-> t3, visited |-> Append(w.visited, x)]
      BY <1>2, <1>4
    <2>9. w2 \in Drains
      <3>1. t3 \in SplayTrees /\ w.visited \in Seq(Node)
        BY <1>1, <2>6 DEF IsTree, Drains
      <3> QED
        BY <2>3, <2>8, <3>1 DEF Drains
    <2>10. Append(w.visited, x) = Ordered(S \ (T \ {x}))
      <3>1. S \ (T \ {x}) = (S \ T) \cup {x}
        BY <1>1, <2>2
      <3>2. S \ T \in SUBSET Node /\ \A y \in S \ T : y < x
        BY <1>1, <2>2
      <3> QED
        BY <1>1, <2>3, <3>1, <3>2, OrderedNext
    <2>11. \A z \in S \ (T \ {x}) : \A y \in T \ {x} : z < y
      BY <1>1, <2>2, <2>3, <2>4
    <2>12. w2.tree = t3 /\ w2.visited = Append(w.visited, x)
      BY <2>8
    <2> HIDE DEF w2
    <2>13. w2 \in Draining(S)
      BY <1>1, <2>6, <2>7, <2>9, <2>10, <2>11, <2>12 DEF Draining, Drained
    <2>14. Cardinality(T \ {x}) < Cardinality(T)
      <3>1. IsFiniteSet(T) /\ Cardinality(T) \in Nat
        BY <2>1, NodesFinite
      <3>2. Cardinality(T \ {x}) = Cardinality(T) - 1
        BY <2>2, <3>1, FS_RemoveElement
      <3> QED
        BY <3>1, <3>2
    <2> QED
      <3>1. Cardinality(Elements(w2.tree)) < Cardinality(T)
        BY <2>7, <2>12, <2>14
      <3> QED
        BY <1>4, <2>13, <3>1 DEF T, w2
  <1> QED
    BY <1>3, <1>4

LEMMA DrainVisits ==
  ASSUME NEW t, NEW S, IsTree(t, S)
  PROVE  LET walk == Repeat(DrainStep, [tree |-> t, visited |-> <<>>])
         IN IsTree(walk.tree, {}) /\ walk.visited = Ordered(S)
  <1> DEFINE Inv == Draining(S)
             size == [w \in Inv |-> Cardinality(Elements(w.tree))]
             start == [tree |-> t, visited |-> <<>>]
             walk == Repeat(DrainStep, start)
  <1>1. ASSUME NEW w \in Inv PROVE Elements(w.tree) \in SUBSET Node
    BY DEF Draining, Drained
  <1>2. start \in Inv
    <2>1. Elements(t) = S /\ t \in SplayTrees /\ S \in SUBSET Node
      BY ElementsAre DEF Elements, IsTree
    <2>2. start \in Drains /\ start.tree = t /\ start.visited = <<>>
      BY <2>1 DEF Drains
    <2>3. S \ S = {}
      OBVIOUS
    <2> HIDE DEF start
    <2>4. Drained(start, S, S)
      BY <2>1, <2>2, <2>3, OrderedNone DEF Drained
    <2> QED
      BY <2>1, <2>2, <2>4 DEF Draining
  <1>3. size \in [Inv -> Nat]
    BY <1>1, NodesFinite
  <1>4. size[start] <= NumNodes
    BY <1>1, <1>2, NodesFinite
  <1>5. ASSUME NEW w \in Inv
        PROVE  DrainStep[w] \in Inv /\
               (DrainStep[DrainStep[w]] = DrainStep[w] \/ size[DrainStep[w]] < size[w])
    <2>1. /\ DrainStep[w] \in Inv
          /\ w.tree.root = NULL => DrainStep[w] = w
          /\ w.tree.root # NULL =>
               Cardinality(Elements(DrainStep[w].tree)) < Cardinality(Elements(w.tree))
      BY DrainKeeps
    <2>2. size[w] = Cardinality(Elements(w.tree))
          /\ size[DrainStep[w]] = Cardinality(Elements(DrainStep[w].tree))
      BY <2>1
    <2> HIDE DEF size, Inv
    <2> QED
      BY <2>1, <2>2
  <1> HIDE DEF size, start
  <1>6. walk \in Inv /\ DrainStep[walk] = walk
    <2> HIDE DEF Inv
    <2> QED
      BY <1>2, <1>3, <1>4, <1>5, RepeatEnds
  <1> HIDE DEF walk
  <1>7. walk.tree.root = NULL
    <2>1. Cardinality(Elements(walk.tree)) \in Nat
      BY <1>1, <1>6, NodesFinite
    <2> QED
      BY <1>6, <2>1, DrainKeeps
  <1>8. Drained(walk, S, Elements(walk.tree))
    BY <1>6 DEF Draining
  <1>9. Elements(walk.tree) = {}
    BY <1>7, <1>8, TreeLabelled DEF Drained
  <1>10. S \ {} = S
    OBVIOUS
  <1>11. IsTree(walk.tree, {}) /\ walk.visited = Ordered(S)
    BY <1>8, <1>9, <1>10 DEF Drained
  <1> QED
    BY <1>11 DEF walk, start

-----------------------------------------------------------------------------
(* The tree as an ordered set. *)
LEMMA LeastIs ==
  ASSUME NEW T \in SUBSET Int
  PROVE  /\ T = {} => SplaySet!Least(T) = <<>> /\ SplaySet!Greatest(T) = <<>>
         /\ \A m \in T : (\A y \in T : m <= y) => SplaySet!Least(T) = <<m>>
         /\ \A m \in T : (\A y \in T : y <= m) => SplaySet!Greatest(T) = <<m>>
  <1>1. ASSUME NEW m \in T, \A y \in T : m <= y PROVE SplaySet!Min(T) = m
    <2>1. \A z \in T : (\A y \in T : z <= y) => z = m
      BY <1>1
    <2> QED
      BY <1>1, <2>1 DEF SplaySet!Min
  <1>2. ASSUME NEW m \in T, \A y \in T : y <= m PROVE SplaySet!Max(T) = m
    <2>1. \A z \in T : (\A y \in T : y <= z) => z = m
      BY <1>2
    <2> QED
      BY <1>2, <2>1 DEF SplaySet!Max
  <1> QED
    BY <1>1, <1>2 DEF SplaySet!Least, SplaySet!Greatest

LEMMA Searched ==
  ASSUME NEW t, NEW S, IsTree(t, S), NEW elm \in Node
  PROVE  LET u == IF t.root = NULL THEN t ELSE Splay(t, elm)
         IN /\ IsTree(u, S)
            /\ S = {} <=> u.root = NULL
            /\ u.root = elm <=> elm \in S
            /\ S # {} => Nearest(S, elm, u.root)
            /\ Ret(Found(u, elm)) = SplaySet!Least(S \cap {elm})
  <1> DEFINE u == IF t.root = NULL THEN t ELSE Splay(t, elm)
  <1>1. /\ IsTree(u, S)
        /\ u.root = elm <=> elm \in S
        /\ S # {} => Nearest(S, elm, u.root)
    <2>1. CASE S = {}
      <3>1. u = t /\ t.root = NULL
        BY <2>1, TreeLabelled
      <3> HIDE DEF u
      <3> QED
        BY <2>1, <3>1, Landmarks
    <2>2. CASE S # {}
      BY <2>2, TreeLabelled, Finds
    <2> QED
      BY <2>1, <2>2
  <1> HIDE DEF u
  <1>2. S = {} <=> u.root = NULL
    BY <1>1, TreeLabelled
  <1>3. elm \in Int /\ elm # NULL
    BY Landmarks
  <1>4. Ret(Found(u, elm)) = SplaySet!Least(S \cap {elm})
    <2>1. CASE elm \in S
      <3>1. S \cap {elm} = {elm}
        BY <2>1
      <3>2. SplaySet!Least({elm}) = <<elm>>
        BY <1>3, LeastIs
      <3>3. Ret(Found(u, elm)) = <<elm>>
        BY <1>1, <1>3, <2>1 DEF Ret, Found
      <3> QED
        BY <3>1, <3>2, <3>3
    <2>2. CASE elm \notin S
      <3>1. S \cap {elm} = {}
        BY <2>2
      <3>2. SplaySet!Least({}) = <<>>
        BY LeastIs
      <3>3. Ret(Found(u, elm)) = <<>>
        BY <1>1, <2>2 DEF Ret, Found
      <3> QED
        BY <3>1, <3>2, <3>3
    <2> QED
      BY <2>1, <2>2
  <1> QED
    BY <1>1, <1>2, <1>4 DEF u

(* The elements of the tree that a call leaves. *)
LEMMA Leaves ==
  ASSUME NEW S, IsTree(sph', S)
  PROVE  SplayElements' = S /\ IsTree(sph', SplayElements')
  <1>1. ({sph'.root} \cup Range(sph'.left) \cup Range(sph'.right)) \ {NULL} = S
    BY ElementsAre
  <1> QED
    BY <1>1 DEF SplayElements

IsCall == IsTree(sph', SplayElements') /\ SplaySet!Call

LEMMA AnswerIs ==
  ASSUME NEW call, NEW arg, NEW val
  PROVE  SplaySet!Answer(call, arg, val) = Answer(call, arg, val)
  BY DEF SplaySet!Answer, Answer

LEMMA InsertStep ==
  ASSUME IsTree(sph, SplayElements), NEW elm \in Node, SplayInsert(elm)
  PROVE  IsCall
  <1> DEFINE S == SplayElements
             t == IF sph.root = NULL THEN sph ELSE Splay(sph, elm)
  <1>1. /\ IsTree(t, S)
        /\ S = {} <=> t.root = NULL
        /\ t.root = elm <=> elm \in S
        /\ S # {} => Nearest(S, elm, t.root)
        /\ Ret(Found(t, elm)) = SplaySet!Least(S \cap {elm})
    BY Searched
  <1>2. splayRet' = Answer("INSERT", elm, Ret(Found(t, elm)))
    BY DEF SplayInsert, Gives
  <1>3. sph' = IF t.root = NULL THEN [t EXCEPT !.root = elm]
               ELSE IF t.root = elm THEN t ELSE InsertAtRoot(t, elm)
    BY DEF SplayInsert
  <1> HIDE DEF t, S
  <1>4. IsTree(sph', S \cup {elm})
    <2>1. CASE t.root = NULL
      <3>1. S \cup {elm} = {elm} /\ IsTree(t, {})
        BY <1>1, <2>1
      <3>2. IsTree([t EXCEPT !.root = elm], {elm})
        BY <3>1, First
      <3> QED
        BY <1>3, <2>1, <3>1, <3>2
    <2>2. CASE t.root = elm
      <3>1. S \cup {elm} = S /\ t.root # NULL
        BY <1>1, <2>2, Landmarks
      <3> QED
        BY <1>1, <1>3, <2>2, <3>1
    <2>3. CASE t.root # NULL /\ t.root # elm
      BY <1>1, <1>3, <2>3, Inserted
    <2> QED
      BY <2>1, <2>2, <2>3
  <1>5. SplayElements' = S \cup {elm} /\ IsTree(sph', SplayElements')
    BY <1>4, Leaves
  <1>6. SplaySet!Inserts(elm)
    BY <1>1, <1>2, <1>5, AnswerIs DEF SplaySet!Inserts, S
  <1> QED
    BY <1>5, <1>6 DEF IsCall, SplaySet!Call

LEMMA FindStep ==
  ASSUME IsTree(sph, SplayElements), NEW elm \in Node, SplayFind(elm)
  PROVE  IsCall
  <1> DEFINE S == SplayElements
             t == IF sph.root = NULL THEN sph ELSE Splay(sph, elm)
  <1>1. IsTree(t, S) /\ Ret(Found(t, elm)) = SplaySet!Least(S \cap {elm})
    BY Searched
  <1>2. splayRet' = Answer("FIND", elm, Ret(Found(t, elm))) /\ sph' = t
    BY DEF SplayFind, Gives
  <1> HIDE DEF t
  <1>3. SplayElements' = S /\ IsTree(sph', SplayElements')
    BY <1>1, <1>2, Leaves
  <1>4. SplaySet!Looks(elm)
    BY <1>1, <1>2, <1>3, AnswerIs DEF SplaySet!Looks
  <1> QED
    BY <1>3, <1>4 DEF IsCall, SplaySet!Call

LEMMA RemoveStep ==
  ASSUME IsTree(sph, SplayElements), NEW elm \in Node, SplayRemove(elm)
  PROVE  IsCall
  <1> DEFINE S == SplayElements
             t == IF sph.root = NULL THEN sph ELSE Splay(sph, elm)
  <1>1. /\ IsTree(t, S)
        /\ t.root = elm <=> elm \in S
        /\ Ret(Found(t, elm)) = SplaySet!Least(S \cap {elm})
    BY Searched
  <1>2. splayRet' = Answer("REMOVE", elm, Ret(Found(t, elm)))
        /\ sph' = IF t.root # elm THEN t ELSE RemoveRoot(t)
    BY DEF SplayRemove, Gives
  <1> HIDE DEF t, S
  <1>3. IsTree(sph', S \ {elm})
    <2>1. CASE t.root = elm
      <3>1. t.root # NULL
        BY <2>1, Landmarks
      <3> QED
        BY <1>1, <1>2, <2>1, <3>1, Removed
    <2>2. CASE t.root # elm
      <3>1. S \ {elm} = S
        BY <1>1, <2>2
      <3> QED
        BY <1>1, <1>2, <2>2, <3>1
    <2> QED
      BY <2>1, <2>2
  <1>4. SplayElements' = S \ {elm} /\ IsTree(sph', SplayElements')
    BY <1>3, Leaves
  <1>5. SplaySet!Removes(elm)
    BY <1>1, <1>2, <1>4, AnswerIs DEF SplaySet!Removes, S
  <1> QED
    BY <1>4, <1>5 DEF IsCall, SplaySet!Call

LEMMA AfterStep ==
  ASSUME IsTree(sph, SplayElements), NEW elm \in Node, SplayAfter(elm)
  PROVE  IsCall
  <1> DEFINE S == SplayElements
             t == Splay(sph, elm)
             next == Leftmost(t, t.right[elm])
             T == {x \in S : x > elm}
  <1>1. sph.root # NULL /\ t.root = elm /\ sph' = t /\ splayRet' = Answer("NEXT", elm, Ret(next))
    BY DEF SplayAfter, Gives
  <1>2. S # {} /\ S \subseteq Node
    BY <1>1, TreeLabelled DEF IsTree
  <1>3. IsTree(t, S) /\ elm \in S
    BY <1>1, <1>2, Finds
  <1> HIDE DEF t, S
  <1>4. \/ next = NULL /\ \A y \in S : y <= elm
        \/ next \in S /\ elm < next /\ \A y \in S : elm < y => next <= y
    BY <1>1, <1>2, <1>3, NextOfRoot
  <1>5. \A y \in S : y \in Int /\ y # NULL
    BY <1>2, Landmarks
  <1> HIDE DEF next
  <1>6. Ret(next) = SplaySet!Least(T)
    <2>1. CASE next = NULL
      <3>1. T = {}
        BY <1>3, <1>4, <1>5, <2>1
      <3> QED
        BY <2>1, <3>1, LeastIs DEF Ret
    <2>2. CASE next # NULL
      <3>1. next \in T /\ T \in SUBSET Int /\ \A y \in T : next <= y
        BY <1>3, <1>4, <1>5, <2>2
      <3> HIDE DEF T
      <3> QED
        BY <2>2, <3>1, LeastIs DEF Ret
    <2> QED
      BY <2>1, <2>2
  <1>7. SplayElements' = S /\ IsTree(sph', SplayElements')
    BY <1>1, <1>3, Leaves
  <1>8. SplaySet!Looks(elm)
    BY <1>1, <1>3, <1>6, <1>7, AnswerIs DEF SplaySet!Looks, S
  <1> QED
    BY <1>7, <1>8 DEF IsCall, SplaySet!Call

LEMMA MinMaxStep ==
  ASSUME IsTree(sph, SplayElements), NEW side \in Sides, SplayMinMax(side)
  PROVE  IsCall
  <1> DEFINE S == SplayElements
             t == MinMax(sph, side)
  <1>1. sph' = t /\ splayRet' = Answer(EndAt[side], NULL, Ret(t.root))
    BY DEF SplayMinMax, Gives
  <1>2. /\ IsTree(t, S)
        /\ S = {} => t.root = NULL
        /\ S # {} => t.root \in S /\ \A y \in S : ~Before(side, y, t.root)
    BY MinMaxIs
  <1>3. S \in SUBSET Int /\ \A y \in S : y # NULL
    BY Landmarks DEF IsTree
  <1> HIDE DEF t, S
  <1>4. SplayElements' = S /\ IsTree(sph', SplayElements')
    BY <1>1, <1>2, Leaves
  <1>5. CASE side = "left"
    <2>1. Ret(t.root) = SplaySet!Least(S)
      <3>1. ASSUME NEW y \in S PROVE ~(y < t.root) => t.root <= y
        <4>1. S # {} /\ y \in Int
          BY <1>3
        <4>2. t.root \in Int
          BY <4>1, <1>2, <1>3
        <4> QED
          BY <4>1, <4>2
      <3> QED
        BY <1>2, <1>3, <1>5, <3>1, LeastIs DEF Ret, Before
    <2>2. splayRet' = SplaySet!Answer("MIN", 0, SplaySet!Least(S))
      BY <1>1, <1>5, <2>1, AnswerIs DEF EndAt, NULL
    <2> QED
      BY <1>4, <2>2 DEF IsCall, SplaySet!Call, SplaySet!LooksAtAll, S
  <1>6. CASE side = "right"
    <2>1. Ret(t.root) = SplaySet!Greatest(S)
      <3>1. ASSUME NEW y \in S PROVE ~(t.root < y) => y <= t.root
        <4>1. S # {} /\ y \in Int
          BY <1>3
        <4>2. t.root \in Int
          BY <4>1, <1>2, <1>3
        <4> QED
          BY <4>1, <4>2
      <3> QED
        BY <1>2, <1>3, <1>6, <3>1, LeastIs DEF Ret, Before
    <2>2. splayRet' = SplaySet!Answer("MAX", 0, SplaySet!Greatest(S))
      BY <1>1, <1>6, <2>1, AnswerIs DEF EndAt, NULL
    <2> QED
      BY <1>4, <2>2 DEF IsCall, SplaySet!Call, SplaySet!LooksAtAll, S
  <1> QED
    BY <1>5, <1>6 DEF Sides

LEMMA ForeachCall ==
  ASSUME IsTree(sph, SplayElements), SplayForeach
  PROVE  IsCall
  <1> DEFINE S == SplayElements
             t == MinMax(sph, "left")
             walk == Repeat(ForeachStep, [tree |-> t, at |-> t.root, visited |-> <<>>])
  <1>1. sph' = walk.tree /\ splayRet' = Answer("FOREACH", NULL, walk.visited)
    BY DEF SplayForeach
  <1>2. IsTree(t, S) /\ (S # {} => t.root \in S /\ \A y \in S : ~Before("left", y, t.root))
    BY MinMaxIs DEF Sides
  <1>3. S \in SUBSET Int
    BY Landmarks DEF IsTree
  <1> HIDE DEF t, S
  <1>4. ASSUME NEW y \in S PROVE t.root <= y
    <2>1. S # {} /\ y \in Int
      BY <1>3
    <2>2. t.root \in Int /\ ~(y < t.root)
      BY <2>1, <1>2, <1>3 DEF Before
    <2> QED
      BY <2>1, <2>2
  <1>5. IsTree(walk.tree, S) /\ walk.visited = Ordered(S)
    BY <1>2, <1>4, ForeachVisits
  <1> HIDE DEF walk
  <1>6. SplayElements' = S /\ IsTree(sph', SplayElements')
    BY <1>1, <1>5, Leaves
  <1>7. splayRet' = SplaySet!Answer("FOREACH", 0, SplaySet!InOrder(S))
    BY <1>1, <1>5, InOrderIs, AnswerIs DEF NULL
  <1> QED
    BY <1>6, <1>7 DEF IsCall, SplaySet!Call, SplaySet!LooksAtAll, S

LEMMA DrainCall ==
  ASSUME IsTree(sph, SplayElements), SplayDrain
  PROVE  IsCall
  <1> DEFINE S == SplayElements
             walk == Repeat(DrainStep, [tree |-> sph, visited |-> <<>>])
  <1>1. sph' = walk.tree /\ splayRet' = Answer("FOREACH_SAFE", NULL, walk.visited)
    BY DEF SplayDrain
  <1>2. IsTree(walk.tree, {}) /\ walk.visited = Ordered(S)
    BY DrainVisits
  <1> HIDE DEF walk
  <1>3. SplayElements' = {} /\ IsTree(sph', SplayElements')
    BY <1>1, <1>2, Leaves
  <1>4. splayRet' = SplaySet!Answer("FOREACH_SAFE", 0, SplaySet!InOrder(S))
    BY <1>1, <1>2, InOrderIs, AnswerIs DEF NULL
  <1> QED
    BY <1>3, <1>4 DEF IsCall, SplaySet!Call, SplaySet!RemovesAll

LEMMA CallStep ==
  ASSUME IsTree(sph, SplayElements), SplayCall
  PROVE  IsCall
  BY InsertStep, FindStep, RemoveStep, AfterStep, MinMaxStep, ForeachCall, DrainCall DEF SplayCall

LEMMA NextStep ==
  ASSUME IsTree(sph, SplayElements), [SplayNext]_splayVars
  PROVE  /\ IsTree(sph', SplayElements')
         /\ [SplaySet!Next]_<<SplayElements, splayRet>>
  <1>1. ASSUME UNCHANGED sph PROVE IsTree(sph', SplayElements') /\ UNCHANGED SplayElements
    BY <1>1 DEF SplayElements
  <1>2. NoAnswer = SplaySet!NoAnswer
    BY AnswerIs DEF NoAnswer, SplaySet!NoAnswer, NULL
  <1>3. CASE splayRet = NoAnswer /\ SplayCall
    <2>1. IsTree(sph', SplayElements') /\ SplaySet!Call
      BY <1>3, CallStep DEF IsCall
    <2> QED
      BY <2>1, <1>2, <1>3 DEF SplaySet!Next
  <1>4. CASE splayRet # NoAnswer /\ splayRet' = NoAnswer /\ UNCHANGED sph
    BY <1>1, <1>2, <1>4 DEF SplaySet!Next, SplaySet!ResultTaken
  <1>5. CASE UNCHANGED splayVars
    BY <1>1, <1>5 DEF splayVars
  <1> QED
    BY <1>3, <1>4, <1>5 DEF SplayNext

LEMMA StartsEmpty ==
  ASSUME SplayInit
  PROVE  IsTree(sph, SplayElements) /\ SplaySet!Init
  <1> DEFINE none == [x \in Node \cup {Stack} |-> NULL]
  <1>1. sph = [root |-> NULL, left |-> none, right |-> none] /\ splayRet = NoAnswer
    BY DEF SplayInit
  <1>2. none \in [Node \cup {Stack} -> Link] /\ \A x \in Node \cup {Stack} : none[x] = NULL
    BY DEF Link
  <1> HIDE DEF none
  <1>3. sph.root = NULL /\ sph.left = none /\ sph.right = none
    BY <1>1
  <1>4. sph \in SplayTrees /\ \A side \in Sides : sph[side] = none
    BY <1>1, <1>2 DEF SplayTrees, Link, Sides
  <1>5. IsTree(sph, {})
    BY <1>2, <1>3, <1>4 DEF IsTree, Below
  <1>6. SplayElements = {}
    BY <1>5, ElementsAre DEF SplayElements
  <1>7. NoAnswer = SplaySet!NoAnswer
    BY AnswerIs DEF NoAnswer, SplaySet!NoAnswer, NULL
  <1> QED
    BY <1>1, <1>5, <1>6, <1>7 DEF SplaySet!Init

(* Between any two calls of the splay tree its elements form a search tree:  *)
(* none is lost in a rotation, none is linked to twice or hangs from the     *)
(* stack that SPLAY worked with.                                             *)
THEOREM SplayIsTree == SplaySpec => []IsTree(sph, SplayElements)
  <1>1. SplayInit => IsTree(sph, SplayElements)
    BY StartsEmpty
  <1>2. IsTree(sph, SplayElements) /\ [SplayNext]_splayVars => IsTree(sph, SplayElements)'
    BY NextStep
  <1> QED
    BY <1>1, <1>2, PTL DEF SplaySpec

(* The splay tree is an ordered set, for any number of elements: every call *)
(* (SPLAY_INSERT ... SPLAY_FOREACH), which all rebuild the tree, ends, does *)
(* to the set what it should and returns what it should.                    *)
THEOREM SplayRefines == SplaySpec => SplayIsOrderedSet
  <1>1. SplayInit => SplaySet!Init
    BY StartsEmpty
  <1>2. IsTree(sph, SplayElements) /\ [SplayNext]_splayVars => [SplaySet!Next]_<<SplayElements, splayRet>>
    BY NextStep
  <1> QED
    BY <1>1, <1>2, SplayIsTree, PTL DEF SplaySpec, SplayIsOrderedSet, SplaySet!Spec
=============================================================================
