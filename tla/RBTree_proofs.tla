---------------------------- MODULE RBTree_proofs ----------------------------
(***************************************************************************)
(* The red-black tree for any number of elements.  As in SplayTree_proofs, *)
(* two labels say of each element by itself where it is in the tree, and   *)
(* left and right are treated alike.                                       *)
(***************************************************************************)
EXTENDS RBTree, TreeNodes_proofs

(* What is below x, to the side: an element that knows x, or nothing for   *)
(* there is no element to be there.                                        *)
KidOK(t, S, lab, side, x) ==
  \/ t[side][x] = NULL /\ \A y \in S : ~(Before(side, lab[side][x], y) /\ Before(side, y, x))
  \/ /\ t[side][x] \in S /\ t.parent[t[side][x]] = x
     /\ lab[side][t[side][x]] = lab[side][x]
     /\ lab[Other(side)][t[side][x]] = x

Attached(t, S, x) ==
  IF x = t.root THEN t.parent[x] = NULL
  ELSE t.parent[x] \in S /\ \E side \in Sides : t[side][t.parent[x]] = x

(* t is a search tree of the elements of S. *)
Shape(t, S, lab) ==
  /\ t \in RBTrees /\ S \in SUBSET Node /\ lab \in [Sides -> [Node -> Int]]
  /\ t.root \in S \cup {NULL} /\ (t.root = NULL => S = {})
  /\ \A x \in S : Attached(t, S, x)
  /\ \A side \in Sides :
       /\ t.root \in S => lab[side][t.root] = Far(side)
       /\ \A x \in S : /\ Before(side, lab[side][x], x) /\ ~Before(side, lab[side][x], Far(side))
                       /\ KidOK(t, S, lab, side, x)

LEMMA RBType ==
  ASSUME NEW t \in RBTrees, NEW side \in Sides
  PROVE  /\ t[side] \in [Node -> Link] /\ t.root \in Link /\ t.parent \in [Node -> Link]
         /\ t.color \in [Node -> {"RB_BLACK", "RB_RED"}]
  BY DEF RBTrees, Sides

LEMMA Kid ==
  ASSUME NEW t, NEW S, NEW lab, Shape(t, S, lab), NEW side \in Sides, NEW x \in S, t[side][x] # NULL
  PROVE  LET c == t[side][x]
             o == Other(side)
         IN /\ c \in S /\ c \in Node /\ x \in Node /\ c # x /\ c # t.root /\ t.parent[c] = x
            /\ lab[side][c] = lab[side][x] /\ lab[o][c] = x
            /\ Before(side, c, x) /\ t[o][x] # c
  <1> DEFINE c == t[side][x]
             o == Other(side)
  <1>1. o \in Sides /\ Other(o) = side
    BY TwoSides
  <1>2. c \in S /\ t.parent[c] = x /\ lab[side][c] = lab[side][x] /\ lab[o][c] = x
    BY DEF Shape, KidOK
  <1>3. c \in Node /\ x \in Node /\ c \in Int /\ x \in Int /\ x # NULL
    BY <1>2, Numbers DEF Shape
  <1>4. Before(o, x, c)
    BY <1>1, <1>2 DEF Shape
  <1>5. Before(side, c, x) /\ c # x
    BY <1>3, <1>4, Order
  <1>6. c # t.root
    BY <1>2, <1>3 DEF Shape, Attached
  <1>7. t[o][x] # c
    <2>1. SUFFICES ASSUME t[o][x] = c PROVE FALSE
      OBVIOUS
    <2>2. c # NULL
      BY <1>3, Numbers
    <2>3. lab[side][c] = x
      BY <2>1, <2>2, <1>1 DEF Shape, KidOK
    <2>4. Before(side, lab[side][x], x)
      BY DEF Shape
    <2> QED
      BY <2>3, <2>4, <1>2, <1>3, Order
  <1> QED
    BY <1>2, <1>3, <1>5, <1>6, <1>7

(* A link leads to an element from one place only. *)
LEMMA OneLink ==
  ASSUME NEW t, NEW S, NEW lab, Shape(t, S, lab), NEW side \in Sides, NEW other \in Sides,
         NEW x \in S, NEW y \in S, t[side][x] = t[other][y], t[side][x] # NULL
  PROVE  x = y /\ side = other
  <1>1. x = y
    BY Kid
  <1>2. other = side \/ other = Other(side)
    BY TwoSides
  <1> QED
    BY <1>1, <1>2, Kid

-----------------------------------------------------------------------------
(* What the operations on links make of a tree. *)
LEMMA ParentSet ==
  ASSUME NEW t \in RBTrees, NEW elm \in Link, NEW up \in Link
  PROVE  LET u == SetParent(t, elm, up)
         IN /\ u \in RBTrees /\ u.root = t.root /\ u.left = t.left /\ u.right = t.right /\ u.color = t.color
            /\ \A z \in Node : u.parent[z] = IF z = elm THEN up ELSE t.parent[z]
  <1>1. CASE elm = NULL
    BY <1>1, Numbers DEF SetParent, RBTrees
  <1>2. CASE elm # NULL
    <2>1. elm \in Node
      BY <1>2 DEF Link
    <2> QED
      BY <1>2, <2>1 DEF SetParent, RBTrees
  <1> QED
    BY <1>1, <1>2

LEMMA ColorSet ==
  ASSUME NEW t \in RBTrees, NEW elm \in Link, NEW color \in {"RB_BLACK", "RB_RED"}
  PROVE  LET u == SetColor(t, elm, color)
         IN /\ u \in RBTrees /\ u.root = t.root /\ u.left = t.left /\ u.right = t.right /\ u.parent = t.parent
            /\ \A z \in Node : u.color[z] = IF z = elm THEN color ELSE t.color[z]
  <1>1. CASE elm = NULL
    BY <1>1, Numbers DEF SetColor, RBTrees
  <1>2. CASE elm # NULL
    <2>1. elm \in Node
      BY <1>2 DEF Link
    <2> QED
      BY <1>2, <2>1 DEF SetColor, RBTrees
  <1> QED
    BY <1>1, <1>2

LEMMA BlackRedSet ==
  ASSUME NEW t \in RBTrees, NEW black \in Node, NEW red \in Node, black # red
  PROVE  LET u == SetBlackRed(t, black, red)
         IN /\ u \in RBTrees /\ u.root = t.root /\ u.left = t.left /\ u.right = t.right /\ u.parent = t.parent
            /\ \A z \in Node : u.color[z] = IF z = black THEN "RB_BLACK"
                                            ELSE IF z = red THEN "RB_RED" ELSE t.color[z]
  BY DEF SetBlackRed, RBTrees

(* The place that elm has: below its parent on one side, or the root. *)
Placing(t, up, elm) ==
  up # NULL => /\ up \in Node /\ \E side \in Sides : t[side][up] = elm
               /\ \A side \in Sides : t[side][up] = elm => t[Other(side)][up] # elm

LEMMA Relinked ==
  ASSUME NEW t \in RBTrees, NEW up \in Link, NEW elm, NEW new \in Link, Placing(t, up, elm)
  PROVE  LET u == Relink(t, up, elm, new)
         IN /\ u \in RBTrees /\ u.parent = t.parent /\ u.color = t.color
            /\ u.root = IF up = NULL THEN new ELSE t.root
            /\ \A side \in Sides : \A z \in Node :
                 u[side][z] = IF z = up /\ t[side][z] = elm THEN new ELSE t[side][z]
  <1>1. CASE up = NULL
    BY <1>1, Numbers DEF Relink, RBTrees, Sides
  <1>2. CASE up # NULL /\ t["left"][up] = elm
    <2>1. up \in Node /\ t["right"][up] # elm
      BY <1>2 DEF Placing, Sides, Other
    <2>2. Relink(t, up, elm, new) = [t EXCEPT !.left[up] = new]
      BY <1>2 DEF Relink
    <2> QED
      BY <1>2, <2>1, <2>2 DEF RBTrees, Sides
  <1>3. CASE up # NULL /\ t["left"][up] # elm
    <2>1. up \in Node /\ t["right"][up] = elm
      BY <1>3 DEF Placing, Sides
    <2>2. Relink(t, up, elm, new) = [t EXCEPT !.right[up] = new]
      BY <1>3 DEF Relink
    <2> QED
      BY <1>3, <2>1, <2>2 DEF RBTrees, Sides
  <1> QED
    BY <1>1, <1>2, <1>3

SetSide(t, side, x, c) == [t EXCEPT ![side][x] = c]

LEMMA SideSet ==
  ASSUME NEW t \in RBTrees, NEW side \in Sides, NEW x \in Node, NEW c \in Link
  PROVE  LET u == SetSide(t, side, x, c)
         IN /\ u \in RBTrees /\ u.root = t.root /\ u.parent = t.parent /\ u.color = t.color
            /\ u[Other(side)] = t[Other(side)]
            /\ \A z \in Node : u[side][z] = IF z = x THEN c ELSE t[side][z]
  <1>1. CASE side = "left"
    BY <1>1 DEF RBTrees, Other, SetSide
  <1>2. CASE side = "right"
    BY <1>2 DEF RBTrees, Other, SetSide
  <1> QED
    BY <1>1, <1>2 DEF Sides

LinkTo(t, side, x, c, y, up) == [t EXCEPT ![side][x] = c, !.parent[y] = up]

LEMMA LinkSet ==
  ASSUME NEW t \in RBTrees, NEW side \in Sides, NEW x \in Node, NEW c \in Link,
         NEW y \in Node, NEW up \in Link
  PROVE  LET u == LinkTo(t, side, x, c, y, up)
         IN /\ u \in RBTrees /\ u.root = t.root /\ u.color = t.color
            /\ u[Other(side)] = t[Other(side)]
            /\ \A z \in Node : u[side][z] = IF z = x THEN c ELSE t[side][z]
            /\ \A z \in Node : u.parent[z] = IF z = y THEN up ELSE t.parent[z]
  <1>1. CASE side = "left"
    BY <1>1 DEF RBTrees, Other, LinkTo
  <1>2. CASE side = "right"
    BY <1>2 DEF RBTrees, Other, LinkTo
  <1> QED
    BY <1>1, <1>2 DEF Sides

LEMMA Places ==
  ASSUME NEW t, NEW S, NEW lab, Shape(t, S, lab), NEW x \in S
  PROVE  /\ Placing(t, t.parent[x], x) /\ t.parent[x] \in S \cup {NULL} /\ t.parent[x] # x
         /\ t.parent[x] = NULL <=> x = t.root
  <1>1. x \in Node /\ x # NULL /\ S \subseteq Node /\ NULL \notin Node
    BY Numbers DEF Shape
  <1>2. Attached(t, S, x)
    BY DEF Shape
  <1>3. CASE x = t.root
    BY <1>1, <1>2, <1>3 DEF Attached, Placing
  <1>4. CASE x # t.root
    <2>1. t.parent[x] \in S /\ \E side \in Sides : t[side][t.parent[x]] = x
      BY <1>2, <1>4 DEF Attached
    <2>2. t.parent[x] # x
      BY <2>1, <1>1, Kid
    <2>3. \A side \in Sides : t[side][t.parent[x]] = x => t[Other(side)][t.parent[x]] # x
      BY <2>1, <1>1, Kid
    <2> QED
      BY <2>1, <2>2, <2>3, <1>1, <1>4 DEF Placing
  <1> QED
    BY <1>3, <1>4

LEMMA Rotated ==
  ASSUME NEW t, NEW S, NEW lab, Shape(t, S, lab), NEW side \in Sides, NEW x \in S,
         t[Other(side)][x] # NULL
  PROVE  LET u == Rotate(t, x, side)
             o == Other(side)
             y == t[o][x]
             b == t[side][y]
             p == t.parent[x]
         IN /\ u \in RBTrees /\ u.color = t.color
            /\ u.root = IF x = t.root THEN y ELSE t.root
            /\ \A z \in Node :
                 /\ u[side][z] = IF z = y THEN x ELSE IF z = p /\ t[side][z] = x THEN y ELSE t[side][z]
                 /\ u[o][z] = IF z = x THEN b ELSE IF z = p /\ t[o][z] = x THEN y ELSE t[o][z]
                 /\ u.parent[z] = IF z = x THEN y ELSE IF z = y THEN p
                                  ELSE IF z = b THEN x ELSE t.parent[z]
  <1> DEFINE o == Other(side)
             y == t[o][x]
             b == t[side][y]
             p == t.parent[x]
             t0 == SetParent(t, b, x)
             t1 == LinkTo(t0, o, x, b, y, p)
             t2 == Relink(t1, p, x, y)
             u == LinkTo(t2, side, y, x, x, y)
  <1>1. o \in Sides /\ Other(o) = side /\ o # side /\ Sides = {side, o}
    BY TwoSides
  <1>2. /\ t \in RBTrees /\ x \in Node /\ y \in S /\ y \in Node /\ y # x /\ t.parent[y] = x
        /\ x # NULL /\ y # NULL /\ S \subseteq Node
    <2>1. t \in RBTrees /\ S \subseteq Node /\ x \in Node
      BY DEF Shape
    <2>2. y \in S /\ y \in Node /\ y # x /\ t.parent[y] = x
      BY <1>1, Kid
    <2> QED
      BY <2>1, <2>2, Numbers
  <1>3. p \in S \cup {NULL} /\ p \in Link /\ p # x /\ Placing(t, p, x) /\ (p = NULL <=> x = t.root)
    BY <1>2, Places DEF Link
  <1>4. p # y
    <2>1. SUFFICES ASSUME p = y PROVE FALSE
      OBVIOUS
    <2>2. p # NULL /\ \E s \in Sides : t[s][y] = x
      BY <2>1, <1>2, <1>3 DEF Placing
    <2>3. PICK s \in Sides : t[s][y] = x
      BY <2>2
    <2>4. Before(o, y, x)
      BY <1>1, <1>2, Kid
    <2>5. Before(s, x, y) /\ lab[s][x] = lab[s][y] /\ lab[Other(s)][x] = y
      BY <2>3, <1>2, Kid
    <2>6. lab[o][y] = lab[o][x] /\ lab[side][y] = x
      BY <1>1, <1>2, Kid
    <2>7. x \in Int /\ y \in Int
      BY <1>2, Numbers
    <2>8. CASE s = o
      BY <2>8, <2>4, <2>5, <2>7, <1>1, Order
    <2>9. CASE s = side
      <3>1. lab[side][x] = x
        BY <2>9, <2>5, <2>6
      <3> QED
        BY <3>1, <2>7, Order DEF Shape
    <2> QED
      BY <2>8, <2>9, <1>1
  <1>5. b \in Link
    BY <1>2, RBType
  <1>6. y \in Link /\ x \in Link
    BY <1>2 DEF Link
  <1>7. /\ t0 \in RBTrees /\ t0.root = t.root /\ t0.color = t.color /\ t0[side] = t[side] /\ t0[o] = t[o]
        /\ \A z \in Node : t0.parent[z] = IF z = b THEN x ELSE t.parent[z]
    <2>1. /\ t0 \in RBTrees /\ t0.root = t.root /\ t0.left = t.left /\ t0.right = t.right /\ t0.color = t.color
          /\ \A z \in Node : t0.parent[z] = IF z = b THEN x ELSE t.parent[z]
      <3> HIDE DEF b
      <3> QED
        BY <1>2, <1>5, <1>6, ParentSet
    <2>2. t0["left"] = t["left"] /\ t0["right"] = t["right"]
      BY <2>1
    <2> HIDE DEF t0
    <2> QED
      BY <2>1, <2>2, <1>1 DEF Sides
  <1> HIDE DEF t0
  <1>8. /\ t1 \in RBTrees /\ t1.root = t.root /\ t1.color = t.color /\ t1[side] = t[side]
        /\ \A z \in Node : t1[o][z] = IF z = x THEN b ELSE t[o][z]
        /\ \A z \in Node : t1.parent[z] = IF z = y THEN p ELSE IF z = b THEN x ELSE t.parent[z]
    <2> HIDE DEF b, p, y, o
    <2>1. /\ t1 \in RBTrees /\ t1.root = t0.root /\ t1.color = t0.color
          /\ t1[Other(o)] = t0[Other(o)]
          /\ \A z \in Node : t1[o][z] = IF z = x THEN b ELSE t0[o][z]
          /\ \A z \in Node : t1.parent[z] = IF z = y THEN p ELSE t0.parent[z]
      <3>1. o \in Sides /\ t0 \in RBTrees /\ x \in Node /\ b \in Link /\ y \in Node /\ p \in Link
        BY <1>1, <1>2, <1>3, <1>5, <1>7
      <3> QED
        BY <3>1, LinkSet
    <2> HIDE DEF t1
    <2> QED
      BY <2>1, <1>1, <1>7
  <1> HIDE DEF t1
  <1>9. Placing(t1, p, x)
    <2>1. ASSUME p # NULL PROVE p \in Node /\ \A s \in Sides : t1[s][p] = t[s][p]
      <3>1. p \in Node
        BY <2>1, <1>2, <1>3
      <3> QED
        BY <3>1, <1>1, <1>3, <1>8
    <2> QED
      BY <2>1, <1>1, <1>3, TwoSides DEF Placing
  <1>10. /\ t2 \in RBTrees /\ t2.parent = t1.parent /\ t2.color = t1.color
         /\ t2.root = IF p = NULL THEN y ELSE t1.root
         /\ \A s \in Sides : \A z \in Node :
              t2[s][z] = IF z = p /\ t1[s][z] = x THEN y ELSE t1[s][z]
    <2> HIDE DEF b, p, y, o
    <2> QED
      BY <1>3, <1>6, <1>8, <1>9, Relinked
  <1> HIDE DEF t2
  <1>11. /\ u \in RBTrees /\ u.root = t2.root /\ u.color = t2.color
         /\ u[o] = t2[o]
         /\ \A z \in Node : u[side][z] = IF z = y THEN x ELSE t2[side][z]
         /\ \A z \in Node : u.parent[z] = IF z = x THEN y ELSE t2.parent[z]
    <2> HIDE DEF b, p, y
    <2> QED
      <3>1. t2 \in RBTrees /\ x \in Node /\ x \in Link /\ y \in Node /\ y \in Link
        BY <1>1, <1>2, <1>6, <1>10
      <3> HIDE DEF o
      <3>2. /\ u \in RBTrees /\ u.root = t2.root /\ u.color = t2.color
            /\ u[Other(side)] = t2[Other(side)]
            /\ \A z \in Node : u[side][z] = IF z = y THEN x ELSE t2[side][z]
            /\ \A z \in Node : u.parent[z] = IF z = x THEN y ELSE t2.parent[z]
        BY <3>1, LinkSet
      <3> QED
        BY <3>2 DEF o
  <1> HIDE DEF u
  <1>12. Rotate(t, x, side) = u
    BY Zenon DEF Rotate, u, t2, t1, t0, LinkTo
  <1>13. u.root = IF x = t.root THEN y ELSE t.root
    BY <1>3, <1>8, <1>10, <1>11
  <1>14. ASSUME NEW z \in Node
         PROVE /\ u[side][z] = IF z = y THEN x ELSE IF z = p /\ t[side][z] = x THEN y ELSE t[side][z]
               /\ u[o][z] = IF z = x THEN b ELSE IF z = p /\ t[o][z] = x THEN y ELSE t[o][z]
               /\ u.parent[z] = IF z = x THEN y ELSE IF z = y THEN p
                                ELSE IF z = b THEN x ELSE t.parent[z]
    <2> HIDE DEF b, y, p, o
    <2>1. u[side][z] = IF z = y THEN x ELSE IF z = p /\ t[side][z] = x THEN y ELSE t[side][z]
      BY <1>8, <1>10, <1>11
    <2>2. u[o][z] = IF z = x THEN b ELSE IF z = p /\ t[o][z] = x THEN y ELSE t[o][z]
      BY <1>1, <1>3, <1>8, <1>10, <1>11
    <2>3. u.parent[z] = IF z = x THEN y ELSE IF z = y THEN p
                                ELSE IF z = b THEN x ELSE t.parent[z]
      BY <1>8, <1>10, <1>11
    <2> QED
      BY <2>1, <2>2, <2>3
  <1> QED
    BY <1>8, <1>10, <1>11, <1>12, <1>13, <1>14

-----------------------------------------------------------------------------
(* The room that the labels leave to an element and those below it. *)
Room(lab, x) == lab["right"][x] - lab["left"][x]

LEMMA Labels ==
  ASSUME NEW t, NEW S, NEW lab, Shape(t, S, lab), NEW x \in S
  PROVE  /\ x \in Node /\ x \in Int /\ x # NULL /\ Room(lab, x) \in Nat
         /\ 2 <= Room(lab, x) /\ Room(lab, x) <= NumNodes + 1
         /\ \A side \in Sides : lab[side][x] \in Int /\ Before(side, lab[side][x], x)
  <1>1. x \in Node /\ x \in Int /\ x # NULL
    BY Numbers DEF Shape
  <1>2. \A side \in Sides : lab[side][x] \in Int /\ Before(side, lab[side][x], x)
    BY <1>1 DEF Shape
  <1>3. /\ lab["left"][x] \in Int /\ lab["left"][x] < x /\ ~(lab["left"][x] < 0)
        /\ lab["right"][x] \in Int /\ x < lab["right"][x] /\ ~(NumNodes + 1 < lab["right"][x])
    <2>1. "left" \in Sides /\ "right" \in Sides
      BY DEF Sides
    <2>2. /\ ~Before("left", lab["left"][x], Far("left")) /\ ~Before("right", lab["right"][x], Far("right"))
      BY <2>1 DEF Shape
    <2> QED
      BY <2>1, <2>2, <1>2 DEF Before, Far, NULL
  <1>4. Room(lab, x) \in Nat /\ 2 <= Room(lab, x) /\ Room(lab, x) <= NumNodes + 1
    BY <1>1, <1>3, NodesAssumption DEF Room
  <1> QED
    BY <1>1, <1>2, <1>4

LEMMA Narrower ==
  ASSUME NEW t, NEW S, NEW lab, Shape(t, S, lab), NEW side \in Sides, NEW x \in S, t[side][x] # NULL
  PROVE  Room(lab, t[side][x]) < Room(lab, x)
  <1> DEFINE c == t[side][x]
             o == Other(side)
  <1>1. /\ c \in S /\ lab[side][c] = lab[side][x] /\ lab[o][c] = x /\ Before(o, lab[o][x], x)
        /\ o \in Sides /\ lab[side][x] \in Int /\ lab[o][x] \in Int /\ x \in Int
    BY Kid, Labels, TwoSides
  <1> HIDE DEF c
  <1>4. Room(lab, c) < Room(lab, x)
    <2>1. CASE side = "left"
      BY <1>1, <2>1 DEF Room, Before, Other
    <2>2. CASE side = "right"
      BY <1>1, <2>2 DEF Room, Before, Other
    <2> QED
      BY <2>1, <2>2 DEF Sides
  <1> QED
    BY <1>4 DEF c

(* What holds of the root and of the children of whom it holds, holds. *)
LEMMA Everywhere ==
  ASSUME NEW t, NEW S, NEW lab, Shape(t, S, lab), NEW P \in SUBSET S, t.root \in S => t.root \in P,
         \A p \in P : \A side \in Sides : t[side][p] # NULL => t[side][p] \in P
  PROVE  P = S
  <1> DEFINE Q == S \ P
             size(x) == NumNodes + 1 - Room(lab, x)
             T == {size(x) : x \in Q}
  <1>1. SUFFICES ASSUME Q # {} PROVE FALSE
    OBVIOUS
  <1>2. T \subseteq Nat /\ T # {}
    <2>1. \A x \in S : size(x) \in Nat
      BY Labels, NodesAssumption
    <2> QED
      BY <1>1, <2>1
  <1>3. PICK n \in T : \A m \in T : n <= m
    BY <1>2, LeastOf, Zenon
  <1>4. PICK x \in Q : size(x) = n
    BY <1>3
  <1>5. x # t.root /\ x \in S
    BY <1>4
  <1>6. t.parent[x] \in S /\ \E side \in Sides : t[side][t.parent[x]] = x
    BY <1>5 DEF Shape, Attached
  <1>7. PICK side \in Sides : t[side][t.parent[x]] = x
    BY <1>6
  <1>8. x # NULL
    BY <1>5, Labels
  <1>9. t.parent[x] \in Q
    BY <1>4, <1>6, <1>7, <1>8
  <1>10. Room(lab, x) < Room(lab, t.parent[x])
    BY <1>6, <1>7, <1>8, Narrower
  <1>11. size(t.parent[x]) < size(x)
    <2>1. Room(lab, x) \in Nat /\ Room(lab, t.parent[x]) \in Nat
      BY <1>5, <1>6, Labels
    <2> QED
      BY <2>1, <1>10, NodesAssumption
  <1>12. size(x) <= size(t.parent[x])
    BY <1>3, <1>4, <1>9
  <1>13. size(x) \in Int /\ size(t.parent[x]) \in Int
    BY <1>5, <1>6, Labels, NodesAssumption
  <1> QED
    BY <1>11, <1>12, <1>13

(* A label is an element above, and what it leaves room for is in its room. *)
LEMMA Nested ==
  ASSUME NEW t, NEW S, NEW lab, Shape(t, S, lab), NEW side \in Sides, NEW x \in S
  PROVE  \/ lab[side][x] = Far(side)
         \/ /\ lab[side][x] \in S /\ Room(lab, x) < Room(lab, lab[side][x])
            /\ ~Before(Other(side), lab[Other(side)][x], lab[Other(side)][lab[side][x]])
  <1> DEFINE o == Other(side)
             OK(z) == \/ lab[side][z] = Far(side)
                      \/ /\ lab[side][z] \in S /\ Room(lab, z) < Room(lab, lab[side][z])
                         /\ ~Before(o, lab[o][z], lab[o][lab[side][z]])
             P == {z \in S : OK(z)}
  <1>1. t.root \in S => t.root \in P
    BY DEF Shape
  <1>2. ASSUME NEW p \in P, NEW s \in Sides, t[s][p] # NULL
        PROVE t[s][p] \in P
    <2> DEFINE c == t[s][p]
    <2>1. /\ c \in S /\ lab[s][c] = lab[s][p] /\ lab[Other(s)][c] = p /\ Room(lab, c) < Room(lab, p)
      BY <1>2, Kid, Narrower
    <2>2. o \in Sides /\ Other(o) = side
      BY TwoSides
    <2>3. /\ lab[o][p] \in Int /\ Before(o, lab[o][p], p) /\ p \in Int /\ Room(lab, p) \in Int
          /\ Room(lab, c) \in Int
      BY <2>1, <2>2, Labels
    <2> HIDE DEF c
    <2>4. CASE s = o
      <3>1. lab[side][c] = p /\ lab[o][c] = lab[o][p]
        BY <2>1, <2>2, <2>4
      <3>2. ~Before(o, lab[o][c], lab[o][p])
        BY <3>1, <2>2, <2>3, Order
      <3> QED
        BY <3>1, <3>2, <2>1 DEF c
    <2>5. CASE s = side
      <3>1. lab[side][c] = lab[side][p] /\ lab[o][c] = p
        BY <2>1, <2>5
      <3>2. CASE lab[side][p] = Far(side)
        BY <3>1, <3>2, <2>1 DEF c
      <3>3. CASE lab[side][p] # Far(side)
        <4> DEFINE q == lab[side][p]
        <4>1. q \in S /\ Room(lab, p) < Room(lab, q) /\ ~Before(o, lab[o][p], lab[o][q])
          BY <3>3
        <4>2. lab[o][q] \in Int /\ Room(lab, q) \in Int
          BY <4>1, <2>2, Labels
        <4> HIDE DEF q
        <4>3. ~Before(o, p, lab[o][q])
          BY <4>1, <4>2, <2>2, <2>3, Order
        <4>4. Room(lab, c) < Room(lab, q)
          BY <4>1, <4>2, <2>1, <2>3
        <4> QED
          BY <4>1, <4>3, <4>4, <3>1, <2>1 DEF c, q
      <3> QED
        BY <3>2, <3>3
    <2> QED
      BY <2>4, <2>5, TwoSides
  <1>3. P = S
    <2> HIDE DEF OK
    <2>1. \A p \in P : \A s \in Sides : t[s][p] # NULL => t[s][p] \in P
      BY <1>2
    <2> HIDE DEF P
    <2>2. P \in SUBSET S
      BY DEF P
    <2> QED
      BY <1>1, <2>1, <2>2, Everywhere
  <1> QED
    BY <1>3

LEMMA ShapeSame ==
  ASSUME NEW t, NEW S, NEW lab, Shape(t, S, lab), NEW u \in RBTrees, u.root = t.root,
         \A x \in S : u.parent[x] = t.parent[x] /\ \A side \in Sides : u[side][x] = t[side][x]
  PROVE  Shape(u, S, lab)
  <1>1. ASSUME NEW x \in S PROVE Attached(u, S, x)
    BY DEF Shape, Attached
  <1>2. ASSUME NEW x \in S, NEW side \in Sides PROVE KidOK(u, S, lab, side, x)
    <2>1. KidOK(t, S, lab, side, x) /\ u[side][x] = t[side][x]
      BY DEF Shape
    <2>2. CASE t[side][x] = NULL
      <3>1. NULL \notin S
        BY Numbers DEF Shape
      <3> QED
        BY <2>1, <2>2, <3>1 DEF KidOK
    <2>3. CASE t[side][x] # NULL
      BY <2>1, <2>3 DEF KidOK
    <2> QED
      BY <2>2, <2>3
  <1> QED
    BY <1>1, <1>2 DEF Shape

(* Labels that differ from others at one element on one side, and so on. *)
RotatedLabels(t, lab, x, side) ==
  LET o == Other(side)
      y == t[o][x]
  IN [s \in Sides |-> [z \in Node |-> IF s = o /\ z = x THEN y
                                      ELSE IF s = side /\ z = y THEN lab[side][x] ELSE lab[s][z]]]

LEMMA ShapeRotates ==
  ASSUME NEW t, NEW S, NEW lab, Shape(t, S, lab), NEW side \in Sides, NEW x \in S,
         t[Other(side)][x] # NULL
  PROVE  /\ Shape(Rotate(t, x, side), S, RotatedLabels(t, lab, x, side))
         /\ \A z \in Node \ S : Rotate(t, x, side).parent[z] = t.parent[z]
  <1> DEFINE o == Other(side)
             y == t[o][x]
             b == t[side][y]
             p == t.parent[x]
             u == Rotate(t, x, side)
             new == RotatedLabels(t, lab, x, side)
  <1>1. o \in Sides /\ Other(o) = side /\ o # side /\ Sides = {side, o}
    BY TwoSides
  <1>2. /\ y \in S /\ y \in Node /\ x \in Node /\ y # x /\ y # t.root /\ t.parent[y] = x
        /\ lab[o][y] = lab[o][x] /\ lab[side][y] = x /\ Before(o, y, x)
    BY <1>1, Kid
  <1>3. /\ Placing(t, p, x) /\ p \in S \cup {NULL} /\ p # x /\ (p = NULL <=> x = t.root)
    BY Places
  <1>4. b # NULL => /\ b \in S /\ b \in Node /\ b # y /\ b # t.root /\ t.parent[b] = y
                    /\ lab[side][b] = x /\ lab[o][b] = y
    BY <1>1, <1>2, Kid
  <1>5. b # x /\ p # y
    <2>1. b # x
      <3>1. lab[side][x] # x
        BY Labels, Order
      <3> QED
        BY <3>1, <1>2, <1>4, Labels
    <2>2. SUFFICES ASSUME p = y PROVE FALSE
      BY <2>1
    <2>3. PICK s \in Sides : t[s][y] = x
      BY <2>2, <1>2, <1>3, Numbers DEF Placing
    <2>4. s = o
      BY <2>1, <2>3, <1>1
    <2>5. Before(o, x, y)
      BY <2>3, <2>4, <1>1, <1>2, Kid, Labels
    <2> QED
      BY <2>5, <1>2, <1>1, Labels, Order
  <1>6. S \subseteq Node /\ NULL \notin S /\ lab \in [Sides -> [Node -> Int]] /\ t \in RBTrees
    BY Numbers DEF Shape
  <1>7. /\ u \in RBTrees /\ u.root = IF x = t.root THEN y ELSE t.root
        /\ \A z \in Node :
             /\ u[side][z] = IF z = y THEN x ELSE IF z = p /\ t[side][z] = x THEN y ELSE t[side][z]
             /\ u[o][z] = IF z = x THEN b ELSE IF z = p /\ t[o][z] = x THEN y ELSE t[o][z]
             /\ u.parent[z] = IF z = x THEN y ELSE IF z = y THEN p
                              ELSE IF z = b THEN x ELSE t.parent[z]
    <2>1. t[o][x] # NULL
      OBVIOUS
    <2> HIDE DEF u
    <2> QED
      BY <2>1, Rotated DEF u
  <1>8. /\ new \in [Sides -> [Node -> Int]]
        /\ \A z \in Node : /\ new[side][z] = IF z = y THEN lab[side][x] ELSE lab[side][z]
                           /\ new[o][z] = IF z = x THEN y ELSE lab[o][z]
    <2>1. y \in Int /\ lab[side][x] \in Int
      BY <1>2, Labels
    <2> HIDE DEF y
    <2> QED
      BY <2>1, <1>1, <1>6 DEF RotatedLabels, y
  <1> HIDE DEF u, new, b, p, y
  <1>9. ASSUME NEW z \in S
        PROVE  /\ z \in Node
               /\ \A s \in Sides : /\ lab[s][z] \in Int /\ z \in Int /\ Before(s, lab[s][z], z)
                                   /\ ~Before(s, lab[s][z], Far(s)) /\ KidOK(t, S, lab, s, z)
    BY Labels DEF Shape
  <1>10. ASSUME NEW z \in S, NEW s \in Sides
         PROVE Before(s, new[s][z], z) /\ ~Before(s, new[s][z], Far(s))
    <2>1. CASE s = side
      <3>1. CASE z = y
        <4>1. Before(side, x, y) /\ Before(side, lab[side][x], x) /\ ~Before(side, lab[side][x], Far(side))
          BY <1>1, <1>2, <1>9, Order
        <4>2. Before(side, lab[side][x], y)
          BY <4>1, <1>2, <1>9, Order
        <4> QED
          BY <4>1, <4>2, <2>1, <3>1, <1>2, <1>8
      <3> QED
        BY <3>1, <2>1, <1>8, <1>9
    <2>2. CASE s = o
      <3>1. CASE z = x
        <4>1. Before(o, y, x) /\ Before(o, Far(o), y)
          BY <1>1, <1>2, Numbers
        <4>2. ~Before(o, y, Far(o))
          BY <4>1, <1>1, <1>2, <1>9, Numbers, Order
        <4> QED
          BY <4>1, <4>2, <2>2, <3>1, <1>2, <1>8
      <3> QED
        BY <3>1, <2>2, <1>8, <1>9
    <2> QED
      BY <2>1, <2>2, <1>1
  <1>11. ASSUME NEW s \in Sides PROVE u.root \in S => new[s][u.root] = Far(s)
    <2>1. CASE x = t.root
      <3>1. lab[s][x] = Far(s)
        BY <2>1 DEF Shape
      <3>2. u.root = y
        BY <2>1, <1>7
      <3> QED
        BY <3>1, <3>2, <1>1, <1>2, <1>8
    <2>2. CASE x # t.root
      <3>1. u.root = t.root
        BY <2>2, <1>7
      <3>2. t.root \in S => lab[s][t.root] = Far(s) /\ t.root \in Node
        BY <1>6 DEF Shape
      <3>3. t.root # x /\ t.root # y
        BY <2>2, <1>2
      <3> QED
        BY <3>1, <3>2, <3>3, <1>1, <1>8
    <2> QED
      BY <2>1, <2>2
  (* An element that keeps its child and that child's place. *)
  <1>12. ASSUME NEW z \in S, NEW s \in Sides, u[s][z] = t[s][z], new[s][z] = lab[s][z],
                t[s][z] \notin {x, y}, t[s][z] = b => b = NULL
         PROVE KidOK(u, S, new, s, z)
    <2>1. CASE t[s][z] = NULL
      BY <2>1, <1>6, <1>9, <1>12 DEF KidOK
    <2>2. CASE t[s][z] # NULL
      <3> DEFINE k == t[s][z]
      <3>1. k \in S /\ k \in Node /\ t.parent[k] = z /\ lab[s][k] = lab[s][z] /\ lab[Other(s)][k] = z
        BY <2>2, Kid
      <3>2. k # x /\ k # y /\ k # b
        BY <2>2, <1>12
      <3>3. u.parent[k] = z /\ new[s][k] = lab[s][k] /\ new[Other(s)][k] = lab[Other(s)][k]
        <4> HIDE DEF k
        <4>1. u.parent[k] = z
          BY <3>1, <3>2, <1>7
        <4>2. \A v \in Sides : new[v][k] = lab[v][k]
          BY <3>1, <3>2, <1>1, <1>8
        <4> QED
          BY <4>1, <4>2, TwoSides
      <3> QED
        BY <3>1, <3>3, <1>12 DEF KidOK
    <2> QED
      BY <2>1, <2>2
  <1>13. ASSUME NEW z \in S, NEW s \in Sides PROVE KidOK(u, S, new, s, z)
    <2>1. CASE z = x /\ s = side
      <3>1. u[s][z] = t[s][z] /\ new[s][z] = lab[s][z]
        BY <2>1, <1>2, <1>3, <1>7, <1>8
      <3>2. t[s][z] # x
        <4>1. x # NULL
          BY <1>6
        <4> QED
          BY <2>1, <4>1, Kid
      <3>3. t[s][z] # y
        BY <2>1, <1>1, <1>2, <1>6, Kid DEF y
      <3>4. t[s][z] = b => b = NULL
        BY <2>1, <1>1, <1>2, OneLink DEF b
      <3> QED
        BY <3>1, <3>2, <3>3, <3>4, <1>12
    <2>2. CASE z = x /\ s = o
      <3>1. u[s][z] = b /\ new[s][z] = y
        BY <2>2, <1>1, <1>2, <1>7, <1>8
      <3>2. CASE b = NULL
        <4>1. \A v \in S : ~(Before(side, lab[side][y], v) /\ Before(side, v, y))
          BY <3>2, <1>2, <1>6, <1>9 DEF KidOK, b
        <4>2. \A v \in S : ~(Before(o, y, v) /\ Before(o, v, x))
          BY <4>1, <1>1, <1>2, <1>9, Order
        <4> QED
          BY <4>2, <3>1, <3>2, <2>2 DEF KidOK
      <3>3. CASE b # NULL
        <4>1. b \in S /\ u.parent[b] = x /\ new[o][b] = y /\ new[side][b] = x
          BY <3>3, <1>4, <1>5, <1>7, <1>8
        <4> QED
          BY <4>1, <3>1, <2>2, <1>1 DEF KidOK
      <3> QED
        BY <3>2, <3>3
    <2>3. CASE z = y /\ s = side
      <3>1. u[s][z] = x /\ new[s][z] = lab[side][x]
        BY <2>3, <1>2, <1>7, <1>8
      <3>2. u.parent[x] = y /\ new[side][x] = lab[side][x] /\ new[o][x] = y
        BY <1>2, <1>7, <1>8
      <3> QED
        BY <3>1, <3>2, <2>3 DEF KidOK
    <2>4. CASE z = y /\ s = o
      <3>1. u[s][z] = t[s][z] /\ new[s][z] = lab[s][z]
        BY <2>4, <1>2, <1>5, <1>7, <1>8
      <3>2. t[s][z] # y /\ t[s][z] # x
        <4>1. x # NULL /\ y # NULL
          BY <1>2, <1>6
        <4>2. t[s][z] # y
          BY <2>4, <4>1, Kid
        <4>3. t[s][z] # x
          BY <2>4, <4>1, <1>5, Kid DEF p
        <4> QED
          BY <4>2, <4>3
      <3>3. t[s][z] = b => b = NULL
        BY <2>4, <1>1, <1>2, OneLink DEF b
      <3> QED
        BY <3>1, <3>2, <3>3, <1>12
    <2>5. CASE z \notin {x, y} /\ t[s][z] = x
      <3>1. z = p /\ lab[s][x] = lab[s][z] /\ lab[Other(s)][x] = z
        BY <2>5, <1>6, Kid DEF p
      <3>2. u[s][z] = y /\ new[s][z] = lab[s][z]
        <4>1. z \in Node
          BY <1>9
        <4> QED
          BY <3>1, <2>5, <4>1, <1>1, <1>7, <1>8
      <3>3. u.parent[y] = z
        BY <3>1, <1>2, <1>7
      <3>4. \A v \in Sides : new[v][y] = lab[v][x]
        BY <1>1, <1>2, <1>8
      <3> QED
        BY <3>1, <3>2, <3>3, <3>4, <1>2, TwoSides DEF KidOK
    <2>6. CASE z \notin {x, y} /\ t[s][z] # x
      <3>1. u[s][z] = t[s][z] /\ new[s][z] = lab[s][z]
        <4>1. z \in Node
          BY <1>9
        <4> QED
          BY <2>6, <4>1, <1>1, <1>7, <1>8
      <3>2. t[s][z] # y
        <4>1. y # NULL
          BY <1>2, <1>6
        <4> QED
          BY <2>6, <4>1, <1>2, Kid
      <3>3. t[s][z] = b => b = NULL
        BY <2>6, <1>1, <1>2, OneLink DEF b
      <3> QED
        BY <2>6, <3>1, <3>2, <3>3, <1>12
    <2> QED
      BY <2>1, <2>2, <2>3, <2>4, <2>5, <2>6, <1>1
  <1>14. ASSUME NEW z \in S PROVE Attached(u, S, z)
    <2>1. CASE z = x
      <3>1. u.parent[x] = y /\ u[side][y] = x
        BY <1>2, <1>7
      <3>2. u.root # x
        BY <1>2, <1>7
      <3> QED
        BY <2>1, <3>1, <3>2, <1>2 DEF Attached
    <2>2. CASE z = y
      <3>1. u.parent[y] = p
        BY <1>2, <1>7
      <3>2. CASE x = t.root
        BY <2>2, <3>1, <3>2, <1>3, <1>7 DEF Attached
      <3>3. CASE x # t.root
        <4>1. u.root # y /\ p \in S /\ p \in Node
          BY <3>3, <1>2, <1>3, <1>6, <1>7
        <4>2. PICK s \in Sides : t[s][p] = x
          BY <4>1, <1>3, <1>6 DEF Placing
        <4>3. u[s][p] = y
          BY <4>1, <4>2, <1>1, <1>3, <1>5, <1>7
        <4> QED
          BY <2>2, <3>1, <4>1, <4>3 DEF Attached
      <3> QED
        BY <3>2, <3>3
    <2>3. CASE z = b
      <3>1. u.parent[b] = x /\ u[o][x] = b /\ u.root # b
        BY <2>3, <1>2, <1>4, <1>5, <1>6, <1>7, <1>9
      <3> QED
        BY <2>3, <3>1, <1>1 DEF Attached
    <2>4. CASE z \notin {x, y, b}
      <3>1. u.parent[z] = t.parent[z] /\ z \in Node
        BY <2>4, <1>7, <1>9
      <3>2. Attached(t, S, z)
        BY DEF Shape
      <3>3. CASE z = t.root
        <4>1. u.root = z
          BY <2>4, <3>3, <1>7
        <4> QED
          BY <3>1, <3>2, <3>3, <4>1 DEF Attached
      <3>4. CASE z # t.root
        <4>1. t.parent[z] \in S /\ \E s \in Sides : t[s][t.parent[z]] = z
          BY <3>2, <3>4 DEF Attached
        <4>2. PICK s \in Sides : t[s][t.parent[z]] = z
          BY <4>1
        <4>3. u[s][t.parent[z]] = z
          <5>1. t.parent[z] \in Node
            BY <4>1, <1>9
          <5>2. CASE s = side
            BY <2>4, <4>2, <5>1, <5>2, <1>7 DEF b
          <5>3. CASE s = o
            BY <2>4, <4>2, <5>1, <5>3, <1>7 DEF y
          <5> QED
            BY <5>2, <5>3, <1>1
        <4>4. u.root # z
          BY <2>4, <3>4, <1>7
        <4> QED
          BY <3>1, <4>1, <4>3, <4>4 DEF Attached
      <3> QED
        BY <3>3, <3>4
    <2> QED
      BY <2>1, <2>2, <2>3, <2>4
  <1>15. u.root \in S \cup {NULL} /\ (u.root = NULL => S = {})
    BY <1>2, <1>6, <1>7 DEF Shape
  <1>16. Shape(u, S, new)
    BY <1>6, <1>7, <1>8, <1>10, <1>11, <1>13, <1>14, <1>15 DEF Shape
  <1>17. \A z \in Node \ S : u.parent[z] = t.parent[z]
    BY <1>2, <1>4, <1>6, <1>7, Numbers
  <1> QED
    BY <1>16, <1>17 DEF u, new

LEMMA RotatedKids ==
  ASSUME NEW t, NEW S, NEW lab, Shape(t, S, lab), NEW side \in Sides, NEW x \in S,
         t[Other(side)][x] # NULL, NEW z \in S, NEW s \in Sides
  PROVE  LET u == Rotate(t, x, side)
             o == Other(side)
             y == t[o][x]
         IN \/ z = y /\ s = side /\ u[s][z] = x
            \/ z = x /\ s = o /\ u[s][z] = t[side][y]
            \/ z \notin {x, y} /\ t[s][z] = x /\ u[s][z] = y
            \/ /\ u[s][z] = t[s][z] /\ t[s][z] \notin {x, y}
               /\ (z = x => s = side) /\ (z = y => s = o)
  <1> DEFINE o == Other(side)
             y == t[o][x]
             b == t[side][y]
             p == t.parent[x]
             u == Rotate(t, x, side)
  <1>1. o \in Sides /\ Other(o) = side /\ o # side /\ Sides = {side, o}
    BY TwoSides
  <1>2. y \in S /\ y # x /\ y # NULL /\ x # NULL /\ z \in Node /\ t.parent[y] = x
    BY <1>1, Kid, Labels
  <1>3. /\ u[side][z] = IF z = y THEN x ELSE IF z = p /\ t[side][z] = x THEN y ELSE t[side][z]
        /\ u[o][z] = IF z = x THEN b ELSE IF z = p /\ t[o][z] = x THEN y ELSE t[o][z]
    <2>1. t[Other(side)][x] # NULL
      OBVIOUS
    <2> HIDE DEF u
    <2> QED
      BY <2>1, <1>2, Rotated DEF u
  <1>4. /\ t[s][z] = x => z = p
        /\ t[s][z] = y => z = x /\ s = o
    <2>1. t[s][z] = x => z = p
      BY <1>2, Kid
    <2>2. t[s][z] = y => z = x /\ s = o
      BY <1>1, <1>2, OneLink
    <2> QED
      BY <2>1, <2>2
  <1>5. p # x /\ p # y
    <2>1. p # x
      BY Places
    <2>2. SUFFICES ASSUME p = y PROVE FALSE
      BY <2>1
    <2>3. Placing(t, p, x)
      BY Places
    <2>4. PICK v \in Sides : t[v][y] = x
      BY <2>2, <2>3, <1>2 DEF Placing
    <2>5. Before(v, x, y) /\ lab[v][x] = lab[v][y] /\ lab[Other(v)][x] = y
      BY <2>4, <1>2, Kid
    <2>6. Before(o, y, x) /\ lab[o][y] = lab[o][x] /\ lab[side][y] = x
      BY <1>1, <1>2, Kid
    <2>7. x \in Int /\ y \in Int /\ lab[side][x] # x
      BY <1>2, Labels, Order
    <2>8. v # side
      BY <2>5, <2>6, <2>7
    <2>9. v # o
      BY <2>5, <2>6, <2>7, <1>1, Order
    <2> QED
      BY <2>8, <2>9, <1>1
  <1> HIDE DEF u, b, p, y
  <1>6. \/ z = y /\ s = side /\ u[s][z] = x
        \/ z = x /\ s = o /\ u[s][z] = b
        \/ z \notin {x, y} /\ t[s][z] = x /\ u[s][z] = y
        \/ /\ u[s][z] = t[s][z] /\ t[s][z] \notin {x, y}
           /\ (z = x => s = side) /\ (z = y => s = o)
    <2>1. CASE s = side
      <3>1. z = x => t[s][z] # x
        BY <1>2, Kid
      <3> QED
        BY <3>1, <2>1, <1>1, <1>2, <1>3, <1>4, <1>5
    <2>2. CASE s = o
      BY <2>2, <1>1, <1>2, <1>3, <1>4, <1>5
    <2> QED
      BY <2>1, <2>2, <1>1
  <1> QED
    BY <1>6 DEF u, b, y

-----------------------------------------------------------------------------
(* g gives, to each link, the number of black elements on the paths down   *)
(* from it; but those on one side below p have one less than they should.  *)
Black(t, x) == IF IsRed(t, x) THEN 0 ELSE 1

Lack(p, at, x, side) == IF x = p /\ side = at THEN 1 ELSE 0

Heights(t, S, g, p, at) ==
  /\ g \in [Link -> Nat] /\ g[NULL] = 0
  /\ \A x \in S : \A side \in Sides : g[x] = g[t[side][x]] + Black(t, x) + Lack(p, at, x, side)

(* A red element has no red child, unless it is up or the child is down. *)
RedRule(t, S, up, down) ==
  \A x \in S : \A side \in Sides :
    IsRed(t, x) /\ IsRed(t, t[side][x]) => x = up \/ t[side][x] = down

Recolored(t, v) == v \in RBTrees /\ v.root = t.root /\ v.left = t.left /\ v.right = t.right /\ v.parent = t.parent

Exchanged(t, v, x, y) ==
  /\ Recolored(t, v)
  /\ \A z \in Node : v.color[z] = IF z = x THEN t.color[y] ELSE IF z = y THEN t.color[x] ELSE t.color[z]

LEMMA ShapeRecolored ==
  ASSUME NEW t, NEW S, NEW lab, Shape(t, S, lab), NEW v, Recolored(t, v)
  PROVE  Shape(v, S, lab) /\ \A side \in Sides : v[side] = t[side]
  <1>1. \A side \in Sides : v[side] = t[side]
    BY DEF Recolored, Sides
  <1>2. v \in RBTrees /\ v.root = t.root /\ v.parent = t.parent
    BY DEF Recolored
  <1> QED
    BY <1>1, <1>2, ShapeSame

LEMMA ExchangeRotates ==
  ASSUME NEW t, NEW S, NEW lab, Shape(t, S, lab), NEW side \in Sides, NEW x \in S,
         NEW y, y = t[Other(side)][x], IsRed(t, y), NEW v, Exchanged(t, v, x, y),
         NEW g, NEW p, NEW at, Heights(t, S, g, p, at), p # y, p = x => at = side
  PROVE  LET u == Rotate(v, x, side)
         IN /\ \E l : Shape(u, S, l)
            /\ \A z \in Node \ S : u.parent[z] = t.parent[z]
            /\ u.root = IF x = t.root THEN y ELSE t.root
            /\ \A z \in S : IsRed(u, z) <=> z = x \/ (z = y /\ IsRed(t, x)) \/ (z \notin {x, y} /\ IsRed(t, z))
            /\ \E h : Heights(u, S, h, p, at)
  <1> DEFINE o == Other(side)
             b == t[side][y]
             u == Rotate(v, x, side)
             h == [g EXCEPT ![x] = g[y], ![y] = g[x]]
  <1>1. o \in Sides /\ Other(o) = side /\ o # side /\ Sides = {side, o}
    BY TwoSides
  <1>2. y \in S /\ y # x /\ y # NULL /\ x # NULL /\ x \in Node /\ y \in Node /\ S \subseteq Node
    <2>1. y # NULL /\ S \subseteq Node
      BY DEF IsRed, Shape
    <2> QED
      BY <2>1, <1>1, Kid, Labels
  <1>3. /\ Shape(v, S, lab) /\ v[side] = t[side] /\ v[o] = t[o] /\ v.root = t.root /\ v.parent = t.parent
        /\ \A s \in Sides : v[s] = t[s]
    BY <1>1, ShapeRecolored DEF Exchanged, Recolored
  <1>4. v[o][x] # NULL
    BY <1>2, <1>3
  <1>5. /\ \E l : Shape(u, S, l)
        /\ \A z \in Node \ S : u.parent[z] = t.parent[z]
    BY <1>3, <1>4, ShapeRotates
  <1>6. u.color = v.color /\ u.root = IF x = t.root THEN y ELSE t.root
    <2> HIDE DEF u
    <2> QED
      BY <1>3, <1>4, Rotated DEF u
  <1>7. \A z \in S : IsRed(u, z) <=> z = x \/ (z = y /\ IsRed(t, x)) \/ (z \notin {x, y} /\ IsRed(t, z))
    <2>1. \A z \in Node : u.color[z] = IF z = x THEN t.color[y] ELSE IF z = y THEN t.color[x] ELSE t.color[z]
      BY <1>6 DEF Exchanged
    <2>2. t.color[y] = "RB_RED"
      BY DEF IsRed
    <2>3. NULL \notin S
      BY <1>2, Numbers
    <2> HIDE DEF u
    <2> QED
      BY <2>1, <2>2, <2>3, <1>2 DEF IsRed
  <1>8. /\ g \in [Link -> Nat] /\ g[NULL] = 0 /\ Node \subseteq Link /\ t \in RBTrees
        /\ \A z \in S : \A s \in Sides : g[z] = g[t[s][z]] + Black(t, z) + Lack(p, at, z, s)
        /\ \A z \in S : \A s \in Sides : t[s][z] \in Link
    BY <1>2, RBType DEF Heights, Shape, Link
  <1>9. /\ h \in [Link -> Nat] /\ h[NULL] = 0
        /\ \A k \in Link : h[k] = IF k = x THEN g[y] ELSE IF k = y THEN g[x] ELSE g[k]
    BY <1>2, <1>8, Numbers DEF Link
  <1> HIDE DEF u, h
  <1>10. IsRed(t, y) /\ \A s \in Sides : g[y] = g[t[s][y]]
    <2>2. \A s \in Sides : Lack(p, at, y, s) = 0
      BY DEF Lack
    <2>3. \A s \in Sides : g[t[s][y]] \in Nat
      BY <1>2, <1>8
    <2> QED
      BY <2>2, <2>3, <1>2, <1>8 DEF Black
  <1>11. g[x] = g[y] + Black(t, x)
    <2>1. Lack(p, at, x, o) = 0
      BY <1>1 DEF Lack
    <2>2. g[y] \in Nat /\ Black(t, x) \in Nat
      BY <1>2, <1>8 DEF Black
    <2> QED
      BY <2>1, <2>2, <1>1, <1>8
  <1>12. ASSUME NEW z \in S, NEW s \in Sides
         PROVE h[z] = h[u[s][z]] + Black(u, z) + Lack(p, at, z, s)
    <2>1. \/ z = y /\ s = side /\ u[s][z] = x
          \/ z = x /\ s = o /\ u[s][z] = b
          \/ z \notin {x, y} /\ t[s][z] = x /\ u[s][z] = y
          \/ /\ u[s][z] = t[s][z] /\ t[s][z] \notin {x, y}
             /\ (z = x => s = side) /\ (z = y => s = o)
      BY <1>3, <1>4, RotatedKids DEF u
    <2>2. /\ z \in Node /\ g[z] \in Nat /\ g[x] \in Nat /\ g[y] \in Nat /\ t[s][z] \in Link /\ b \in Link
          /\ g[t[s][z]] \in Nat /\ g[b] \in Nat
      BY <1>1, <1>2, <1>8
    <2>3. Black(u, x) = 0 /\ Black(u, y) = Black(t, x) /\ (z \notin {x, y} => Black(u, z) = Black(t, z))
      BY <1>2, <1>7 DEF Black
    <2>4. Lack(p, at, y, s) = 0 /\ Lack(p, at, x, o) = 0
      BY <1>1 DEF Lack
    <2>5. CASE z = y /\ s = side /\ u[s][z] = x
      BY <2>2, <2>3, <2>4, <2>5, <1>2, <1>8, <1>9, <1>11 DEF Black
    <2>6. CASE z = x /\ s = o /\ u[s][z] = b
      <3>1. b # x /\ b # y
        <4>1. b # y
          BY <1>1, <1>2, Kid
        <4>2. b # x
          <5>1. SUFFICES ASSUME b = x PROVE FALSE
            OBVIOUS
          <5>2. lab[side][x] = lab[side][y] /\ lab[side][y] = x
            BY <5>1, <1>1, <1>2, Kid
          <5> QED
            BY <5>2, Labels, Order
        <4> QED
          BY <4>1, <4>2
      <3>2. h[b] = g[b] /\ h[x] = g[y] /\ g[y] = g[b]
        BY <3>1, <2>2, <1>1, <1>2, <1>8, <1>9, <1>10
      <3> QED
        BY <3>2, <2>2, <2>3, <2>4, <2>6
    <2>7. CASE z \notin {x, y} /\ t[s][z] = x /\ u[s][z] = y
      <3>1. h[z] = g[z] /\ h[y] = g[x]
        BY <2>2, <2>7, <1>2, <1>8, <1>9
      <3> QED
        BY <3>1, <2>3, <2>7, <1>8
    <2>8. CASE z \notin {x, y} /\ u[s][z] = t[s][z] /\ t[s][z] \notin {x, y}
      <3>1. h[z] = g[z] /\ h[t[s][z]] = g[t[s][z]]
        BY <2>2, <2>8, <1>8, <1>9
      <3> QED
        BY <3>1, <2>3, <2>8, <1>8
    <2>9. CASE z = x /\ s = side /\ u[s][z] = t[s][z] /\ t[s][z] \notin {x, y}
      <3>1. h[x] = g[y] /\ h[t[s][z]] = g[t[s][z]]
        BY <2>2, <2>9, <1>2, <1>8, <1>9
      <3>2. g[x] = g[t[s][z]] + Black(t, x) + Lack(p, at, x, s)
        BY <2>9, <1>8
      <3>3. Black(t, x) \in Nat /\ Lack(p, at, x, s) \in Nat
        BY DEF Black, Lack
      <3> QED
        BY <3>1, <3>2, <3>3, <2>2, <2>3, <2>9, <1>11
    <2>10. CASE z = y /\ s = o /\ u[s][z] = t[s][z] /\ t[s][z] \notin {x, y}
      <3>1. h[y] = g[x] /\ h[t[s][z]] = g[t[s][z]]
        BY <2>2, <2>10, <1>2, <1>8, <1>9
      <3>2. g[y] = g[t[s][z]]
        BY <2>10, <1>10
      <3>3. Black(t, x) \in Nat
        BY DEF Black
      <3> QED
        BY <3>1, <3>2, <3>3, <2>2, <2>3, <2>4, <2>10, <1>11
    <2> QED
      BY <2>1, <2>5, <2>6, <2>7, <2>8, <2>9, <2>10
  <1>13. Heights(u, S, h, p, at)
    BY <1>9, <1>12 DEF Heights
  <1> QED
    BY <1>5, <1>6, <1>7, <1>13 DEF u

LEMMA SiblingRotates ==
  ASSUME NEW t, NEW S, NEW lab, Shape(t, S, lab), NEW side \in Sides, NEW x \in S,
         NEW y, y = t[Other(side)][x], y # NULL, ~IsRed(t, y),
         NEW f, f = t[Other(side)][y], IsRed(t, f),
         NEW v, Recolored(t, v),
         \A z \in Node : v.color[z] = IF z \in {x, f} THEN "RB_BLACK"
                                      ELSE IF z = y THEN t.color[x] ELSE t.color[z],
         NEW g, Heights(t, S, g, x, side)
  PROVE  LET u == Rotate(v, x, side)
         IN /\ \E l : Shape(u, S, l)
            /\ \A z \in Node \ S : u.parent[z] = t.parent[z]
            /\ u.root = IF x = t.root THEN y ELSE t.root
            /\ \A z \in S : IsRed(u, z) <=> (z = y /\ IsRed(t, x)) \/ (z \notin {x, y, f} /\ IsRed(t, z))
            /\ \E h : Heights(u, S, h, NULL, side)
  <1> DEFINE o == Other(side)
             b == t[side][y]
             u == Rotate(v, x, side)
             h == [g EXCEPT ![x] = g[y], ![y] = g[x], ![f] = g[f] + 1]
  <1>1. o \in Sides /\ Other(o) = side /\ o # side /\ Sides = {side, o}
    BY TwoSides
  <1>2. y \in S /\ y # x /\ x # NULL /\ x \in Node /\ y \in Node /\ S \subseteq Node
    <2>1. S \subseteq Node
      BY DEF Shape
    <2> QED
      BY <2>1, <1>1, Kid, Labels
  <1>3. /\ Shape(v, S, lab) /\ v[side] = t[side] /\ v[o] = t[o] /\ v.root = t.root /\ v.parent = t.parent
        /\ \A s \in Sides : v[s] = t[s]
    BY <1>1, ShapeRecolored DEF Recolored
  <1>4. v[o][x] # NULL
    BY <1>2, <1>3
  <1>5. /\ \E l : Shape(u, S, l)
        /\ \A z \in Node \ S : u.parent[z] = t.parent[z]
    BY <1>3, <1>4, ShapeRotates
  <1>6. u.color = v.color /\ u.root = IF x = t.root THEN y ELSE t.root
    <2> HIDE DEF u
    <2> QED
      BY <1>3, <1>4, Rotated DEF u
  <1>7. \A z \in S : IsRed(u, z) <=> (z = y /\ IsRed(t, x)) \/ (z \notin {x, y, f} /\ IsRed(t, z))
    <2>1. \A z \in Node : u.color[z] = IF z \in {x, f} THEN "RB_BLACK"
                                       ELSE IF z = y THEN t.color[x] ELSE t.color[z]
      BY <1>6
    <2>3. NULL \notin S
      BY <1>2, Numbers
    <2> HIDE DEF u
    <2> QED
      BY <2>1, <2>3, <1>2 DEF IsRed
  <1>8. /\ g \in [Link -> Nat] /\ g[NULL] = 0 /\ Node \subseteq Link /\ t \in RBTrees
        /\ \A z \in S : \A s \in Sides : g[z] = g[t[s][z]] + Black(t, z) + Lack(x, side, z, s)
        /\ \A z \in S : \A s \in Sides : t[s][z] \in Link
    BY SMTT(30), <1>2, RBType DEF Heights, Shape, Link
  <1>9. f \in S /\ f \in Node /\ f # NULL /\ f # y /\ f # x /\ \A s \in Sides : t[s][f] \notin {x, y, f}
    <2>1. f # NULL
      BY DEF IsRed
    <2>2. f \in S /\ f # y /\ Room(lab, f) < Room(lab, y) /\ Room(lab, y) < Room(lab, x)
      BY <2>1, <1>1, <1>2, Kid, Narrower
    <2>3. Room(lab, f) \in Nat /\ Room(lab, y) \in Nat /\ Room(lab, x) \in Nat
      BY <2>2, <1>2, Labels
    <2>4. ASSUME NEW s \in Sides, t[s][f] # NULL PROVE t[s][f] \in S /\ Room(lab, t[s][f]) < Room(lab, f)
      BY <2>2, <2>4, Kid, Narrower
    <2>5. ASSUME NEW s \in Sides PROVE t[s][f] \notin {x, y, f}
      BY <2>1, <2>2, <2>3, <2>4, <1>2
    <2> QED
      BY <2>1, <2>2, <2>3, <2>5, <1>2
  <1>10. b # x /\ b # y /\ b # f
    <2>1. b # NULL => Room(lab, b) < Room(lab, y) /\ Room(lab, y) < Room(lab, x) /\ b \in S
      BY <1>1, <1>2, Kid, Narrower
    <2>2. b # f
      BY <1>1, <1>2, <1>9, OneLink
    <2>3. Room(lab, y) \in Nat /\ Room(lab, x) \in Nat
      BY <1>2, Labels
    <2> QED
      BY <2>1, <2>2, <2>3, <1>2
  <1>11. \A z \in S : \A s \in Sides : t[s][z] = f => z = y /\ s = o
    BY SMTT(30), <1>1, <1>2, <1>9, OneLink
  <1>12. /\ h \in [Link -> Nat] /\ h[NULL] = 0
         /\ \A k \in Link : h[k] = IF k = x THEN g[y] ELSE IF k = y THEN g[x]
                                   ELSE IF k = f THEN g[f] + 1 ELSE g[k]
    BY SMTT(30), <1>2, <1>8, <1>9, Numbers DEF Link
  <1> HIDE DEF u, h, b
  <1>13. /\ g[y] = g[b] + 1 /\ g[y] = g[f] + 1 /\ \A s \in Sides : g[f] = g[t[s][f]]
    <2>1. \A s \in Sides : Lack(x, side, y, s) = 0 /\ Lack(x, side, f, s) = 0
      BY <1>2, <1>9 DEF Lack
    <2>2. Black(t, y) = 1 /\ Black(t, f) = 0
      BY SMTT(30) DEF Black
    <2>3. g[b] \in Nat /\ g[f] \in Nat /\ \A s \in Sides : g[t[s][f]] \in Nat
      BY <1>1, <1>2, <1>8, <1>9 DEF b
    <2>4. g[y] = g[b] + Black(t, y) + Lack(x, side, y, side)
      BY <1>2, <1>8 DEF b
    <2>5. g[y] = g[f] + Black(t, y) + Lack(x, side, y, o)
      BY <1>1, <1>2, <1>8
    <2>6. \A s \in Sides : g[f] = g[t[s][f]] + Black(t, f) + Lack(x, side, f, s)
      BY SMTT(30), <1>8, <1>9
    <2>7. \A s \in Sides : g[f] = g[t[s][f]]
      BY <2>1, <2>2, <2>3, <2>6
    <2> QED
      BY <2>1, <2>2, <2>3, <2>4, <2>5, <2>7, <1>1
  <1>14. g[x] = g[y] + Black(t, x) /\ g[x] = g[t[side][x]] + Black(t, x) + 1
    <2>1. Lack(x, side, x, o) = 0 /\ Lack(x, side, x, side) = 1
      BY <1>1 DEF Lack
    <2>2. g[y] \in Nat /\ Black(t, x) \in Nat /\ g[t[side][x]] \in Nat
      BY <1>2, <1>8 DEF Black
    <2> QED
      BY <2>1, <2>2, <1>1, <1>8
  <1>15. ASSUME NEW z \in S, NEW s \in Sides
         PROVE h[z] = h[u[s][z]] + Black(u, z) + Lack(NULL, side, z, s)
    <2>1. \/ z = y /\ s = side /\ u[s][z] = x
          \/ z = x /\ s = o /\ u[s][z] = b
          \/ z \notin {x, y} /\ t[s][z] = x /\ u[s][z] = y
          \/ /\ u[s][z] = t[s][z] /\ t[s][z] \notin {x, y}
             /\ (z = x => s = side) /\ (z = y => s = o)
      BY <1>3, <1>4, RotatedKids DEF u, b
    <2>2. /\ z \in Node /\ g[z] \in Nat /\ g[x] \in Nat /\ g[y] \in Nat /\ t[s][z] \in Link /\ b \in Link
          /\ g[t[s][z]] \in Nat /\ g[b] \in Nat /\ g[f] \in Nat /\ y \in Link /\ x \in Link /\ f \in Link
          /\ Black(t, x) \in Nat /\ Black(t, z) \in Nat
      BY <1>1, <1>2, <1>8, <1>9 DEF b, Black
    <2>3. /\ Black(u, x) = 1 /\ Black(u, y) = Black(t, x) /\ Black(u, f) = 1
          /\ z \notin {x, y, f} => Black(u, z) = Black(t, z)
      BY <1>2, <1>7, <1>9 DEF Black
    <2>4. Lack(NULL, side, z, s) = 0 /\ (z # x => Lack(x, side, z, s) = 0)
      BY <1>2, <2>2, Numbers DEF Lack
    <2>5. CASE z = y /\ s = side /\ u[s][z] = x
      <3>1. h[z] = g[x] /\ h[x] = g[y]
        BY <2>2, <2>5, <1>2, <1>12
      <3> QED
        BY <3>1, <2>2, <2>3, <2>4, <2>5, <1>14
    <2>6. CASE z = x /\ s = o /\ u[s][z] = b
      <3>1. h[b] = g[b] /\ h[x] = g[y]
        BY <2>2, <1>10, <1>12
      <3> QED
        BY <3>1, <2>2, <2>3, <2>4, <2>6, <1>13
    <2>7. CASE z \notin {x, y} /\ t[s][z] = x /\ u[s][z] = y
      <3>0. z # f /\ z \in Link
        BY <2>2, <2>7, <1>8, <1>9
      <3>1. h[z] = g[z] /\ h[y] = g[x]
        BY <3>0, <2>2, <2>7, <1>2, <1>12
      <3>2. g[z] = g[x] + Black(t, z)
        BY <2>2, <2>4, <2>7, <1>8
      <3> QED
        BY <3>0, <3>1, <3>2, <2>2, <2>3, <2>4, <2>7
    <2>8. CASE z \notin {x, y, f} /\ u[s][z] = t[s][z] /\ t[s][z] \notin {x, y}
      <3>0. t[s][z] # f /\ z \in Link
        BY <2>2, <2>8, <1>8, <1>11
      <3>1. h[z] = g[z] /\ h[t[s][z]] = g[t[s][z]]
        BY <3>0, <2>2, <2>8, <1>12
      <3>2. g[z] = g[t[s][z]] + Black(t, z)
        BY <2>2, <2>4, <2>8, <1>8
      <3> QED
        BY <3>1, <3>2, <2>2, <2>3, <2>4, <2>8
    <2>9. CASE z = x /\ s = side /\ u[s][z] = t[s][z] /\ t[s][z] \notin {x, y}
      <3>1. h[x] = g[y] /\ h[t[s][z]] = g[t[s][z]]
        BY SMTT(30), <2>2, <2>9, <1>2, <1>11, <1>12
      <3> QED
        BY <3>1, <2>2, <2>3, <2>4, <2>9, <1>14
    <2>10. CASE z = y /\ s = o /\ u[s][z] = t[s][z]
      <3>1. h[y] = g[x] /\ h[f] = g[f] + 1
        BY SMTT(30), <2>2, <1>2, <1>9, <1>12
      <3> QED
        BY <3>1, <2>2, <2>3, <2>4, <2>10, <1>13, <1>14
    <2>11. CASE z = f /\ u[s][z] = t[s][z]
      <3>1. h[f] = g[f] + 1 /\ h[t[s][f]] = g[t[s][f]] /\ g[f] = g[t[s][f]]
        BY <2>2, <2>11, <1>9, <1>12, <1>13
      <3> QED
        BY <3>1, <2>2, <2>3, <2>4, <2>11
    <2> QED
      BY <2>1, <2>5, <2>6, <2>7, <2>8, <2>9, <2>10, <2>11, <1>1
  <1>16. Heights(u, S, h, NULL, side)
    BY <1>12, <1>15 DEF Heights
  <1> QED
    BY <1>5, <1>6, <1>7, <1>16 DEF u

(* A change of colors alone. *)
LEMMA HeightsRecolored ==
  ASSUME NEW t, NEW S, NEW lab, Shape(t, S, lab), NEW v, Recolored(t, v),
         NEW g, NEW h \in [Link -> Nat], h[NULL] = 0, NEW p, NEW at,
         \A x \in S : \A s \in Sides : h[x] = h[t[s][x]] + Black(v, x) + Lack(p, at, x, s)
  PROVE  Heights(v, S, h, p, at)
  BY ShapeRecolored DEF Heights

-----------------------------------------------------------------------------
(* The tree as RB_INSERT_COLOR finds it: all is well, but that elm, which  *)
(* is red, may have a red parent or be the root.                           *)
Grown(t, S, elm) ==
  /\ \E lab : Shape(t, S, lab)
  /\ \E g : Heights(t, S, g, NULL, "left")
  /\ elm \in S /\ IsRed(t, elm) /\ RedRule(t, S, NULL, elm)
  /\ IsRed(t, t.root) => t.root = elm

Beyond(t, u, S) == \A z \in Node \ S : u.parent[z] = t.parent[z]

LEMMA NoLack ==
  ASSUME NEW t, NEW S, NEW g, NEW a, Heights(t, S, g, NULL, a), S \subseteq Node, NEW b
  PROVE  Heights(t, S, g, NULL, b)
  <1>1. \A x \in S : \A side \in Sides : Lack(NULL, a, x, side) = Lack(NULL, b, x, side)
    BY Numbers DEF Lack
  <1> QED
    BY <1>1 DEF Heights

(* The last case: the parent of elm is turned up. *)
LEMMA OuterTurns ==
  ASSUME NEW t, NEW S, NEW elm, Grown(t, S, elm), NEW side \in Sides, NEW x \in S,
         NEW y, y = t[side][x], IsRed(t, y), ~IsRed(t, x), ~IsRed(t, t[Other(side)][x]),
         t[side][y] = elm
  PROVE  LET u == Rotate(SetBlackRed(t, y, x), x, Other(side))
         IN Grown(u, S, elm) /\ Beyond(t, u, S) /\ ~IsRed(u, u.parent[elm])
  <1> DEFINE o == Other(side)
             v == SetBlackRed(t, y, x)
             u == Rotate(v, x, o)
             b == t[o][y]
  <1>1. o \in Sides /\ Other(o) = side /\ o # side /\ Sides = {side, o}
    BY TwoSides
  <1>2. PICK lab : Shape(t, S, lab)
    BY DEF Grown
  <1>3. PICK g : Heights(t, S, g, NULL, "left")
    BY DEF Grown
  <1>4. t \in RBTrees /\ S \subseteq Node /\ NULL \notin S /\ elm \in S /\ y # NULL
    BY <1>2, Numbers DEF Shape, Grown, IsRed
  <1>5. y \in S /\ y # x /\ x # NULL /\ x \in Node /\ y \in Node
    BY <1>2, <1>4, Kid, Labels
  <1>6. elm # y /\ elm # x /\ t.parent[elm] = y
    <2>1. elm # y /\ t.parent[elm] = y /\ Room(lab, elm) < Room(lab, y) /\ Room(lab, y) < Room(lab, x)
      BY <1>2, <1>4, <1>5, Kid, Narrower
    <2>2. Room(lab, elm) \in Nat /\ Room(lab, y) \in Nat /\ Room(lab, x) \in Nat
      BY <1>2, <1>4, <1>5, Labels
    <2> QED
      BY <2>1, <2>2
  <1>7. Exchanged(t, v, x, y)
    <2>1. /\ v \in RBTrees /\ v.root = t.root /\ v.left = t.left /\ v.right = t.right /\ v.parent = t.parent
          /\ \A z \in Node : v.color[z] = IF z = y THEN "RB_BLACK"
                                          ELSE IF z = x THEN "RB_RED" ELSE t.color[z]
      BY <1>4, <1>5, BlackRedSet
    <2>2. t.color[y] = "RB_RED" /\ t.color[x] = "RB_BLACK"
      BY <1>4, <1>5 DEF IsRed, RBTrees
    <2> HIDE DEF v
    <2> QED
      BY <2>1, <2>2, <1>5 DEF Exchanged, Recolored
  <1> HIDE DEF v
  <1>8. /\ \E l : Shape(u, S, l)
        /\ \A z \in Node \ S : u.parent[z] = t.parent[z]
        /\ u.root = IF x = t.root THEN y ELSE t.root
        /\ \A z \in S : IsRed(u, z) <=> z = x \/ (z = y /\ IsRed(t, x)) \/ (z \notin {x, y} /\ IsRed(t, z))
        /\ \E h : Heights(u, S, h, NULL, "left")
    <2>1. /\ y = t[Other(o)][x] /\ NULL # y /\ NULL # x /\ o \in Sides
          /\ Shape(t, S, lab) /\ Heights(t, S, g, NULL, "left") /\ Exchanged(t, v, x, y) /\ IsRed(t, y)
      BY <1>1, <1>2, <1>3, <1>4, <1>5, <1>7
    <2> HIDE DEF o
    <2> QED
      BY <2>1, ExchangeRotates
  <1>9. v[Other(o)][x] # NULL /\ Shape(v, S, lab) /\ \A s \in Sides : v[s] = t[s]
    BY <1>1, <1>2, <1>4, <1>7, ShapeRecolored DEF Exchanged
  <1> HIDE DEF u
  <1>10. ASSUME NEW z \in S, NEW s \in Sides, IsRed(u, z), IsRed(u, u[s][z])
         PROVE u[s][z] = elm
    <2>1. \/ z = y /\ s = o /\ u[s][z] = x
          \/ z = x /\ s = side /\ u[s][z] = b
          \/ z \notin {x, y} /\ t[s][z] = x /\ u[s][z] = y
          \/ /\ u[s][z] = t[s][z] /\ t[s][z] \notin {x, y}
             /\ (z = x => s = o) /\ (z = y => s = side)
      BY <1>1, <1>9, RotatedKids DEF u
    <2>2. ~IsRed(u, y)
      BY <1>5, <1>8
    <2>3. ~IsRed(t, b) \/ b = elm
      BY <1>1, <1>4, <1>5 DEF RedRule, Grown
    <2>4. b # elm
      BY <1>1, <1>2, <1>4, <1>5, OneLink
    <2>5. \A k : IsRed(u, k) /\ k # x /\ k \in S => IsRed(t, k)
      BY <1>8, <2>2
    <2>6. \A w \in S, r \in Sides : t[r][w] # NULL => t[r][w] \in S
      BY <1>2, Kid
    <2>7. CASE z = x /\ u[s][z] = b
      <3>1. b # x /\ b \in S
        <4>1. b # NULL
          BY <2>7, <1>10 DEF IsRed
        <4>2. Room(lab, b) < Room(lab, y) /\ Room(lab, y) < Room(lab, x) /\ b \in S
          BY <4>1, <1>1, <1>2, <1>4, <1>5, Kid, Narrower
        <4>3. Room(lab, b) \in Nat /\ Room(lab, y) \in Nat /\ Room(lab, x) \in Nat
          BY <1>2, <4>2, <1>5, Labels
        <4> QED
          BY <4>2, <4>3
      <3> QED
        BY <3>1, <2>3, <2>4, <2>5, <2>7, <1>10
    <2>8. CASE u[s][z] = t[s][z] /\ t[s][z] \notin {x, y} /\ z = x /\ s = o
      <3>1. t[s][z] # NULL
        BY <2>8, <1>10 DEF IsRed
      <3> QED
        BY <3>1, <2>5, <2>6, <2>8, <1>1, <1>10
    <2>9. CASE u[s][z] = t[s][z] /\ t[s][z] \notin {x, y} /\ z # x
      <3>1. t[s][z] # NULL
        BY <2>9, <1>10 DEF IsRed
      <3>2. IsRed(t, z) /\ IsRed(t, t[s][z])
        BY <3>1, <2>5, <2>6, <2>9, <1>10
      <3> QED
        BY <3>2, <2>9, <1>4 DEF RedRule, Grown
    <2> QED
      BY <2>1, <2>2, <2>7, <2>8, <2>9, <1>10
  <1>11. IsRed(u, elm) /\ (IsRed(u, u.root) => u.root = elm)
    <2>1. IsRed(u, elm)
      BY <1>4, <1>6, <1>8 DEF Grown
    <2>2. CASE x = t.root
      BY <2>1, <2>2, <1>5, <1>8
    <2>3. CASE x # t.root
      <3>0. t.root \in S
        BY <1>2, <1>4 DEF Shape
      <3>1. u.root = t.root /\ t.root # y /\ t.root \in S
        BY <3>0, <2>3, <1>2, <1>4, <1>8, Kid
      <3>2. IsRed(u, t.root) => IsRed(t, t.root)
        BY <3>1, <2>3, <1>8
      <3> QED
        BY <3>1, <3>2, <2>1 DEF Grown
    <2> QED
      BY <2>1, <2>2, <2>3
  <1>12. ~IsRed(u, u.parent[elm])
    <2>1. u.parent[elm] = y
      <3>1. \A z \in Node : u.parent[z] = IF z = x THEN v[Other(o)][x] ELSE IF z = v[Other(o)][x] THEN v.parent[x]
                               ELSE IF z = v[o][v[Other(o)][x]] THEN x ELSE v.parent[z]
        BY <1>1, <1>9, Rotated DEF u
      <3>2. v[Other(o)][x] = y /\ v[o][y] = b /\ v.parent = t.parent
        BY <1>1, <1>7, <1>9 DEF Exchanged, Recolored
      <3>3. b # elm
        BY <1>1, <1>2, <1>4, <1>5, OneLink
      <3> QED
        BY <3>1, <3>2, <3>3, <1>4, <1>6
    <2> QED
      BY <2>1, <1>5, <1>8
  <1>13. RedRule(u, S, NULL, elm)
    BY <1>10 DEF RedRule
  <1> QED
    BY <1>4, <1>8, <1>11, <1>12, <1>13 DEF Grown, Beyond, u, v

(* The case before it: elm changes places with its parent.                 *)
LEMMA InnerTurns ==
  ASSUME NEW t, NEW S, NEW elm, Grown(t, S, elm), NEW side \in Sides, NEW x \in S,
         NEW y, y = t[side][x], IsRed(t, y), ~IsRed(t, x), ~IsRed(t, t[Other(side)][x]),
         t[Other(side)][y] = elm
  PROVE  LET u == Rotate(t, y, side)
         IN /\ Grown(u, S, y) /\ Beyond(t, u, S)
            /\ u[side][x] = elm /\ u[side][elm] = y /\ IsRed(u, elm) /\ ~IsRed(u, x)
            /\ ~IsRed(u, u[Other(side)][x])
  <1> DEFINE o == Other(side)
             u == Rotate(t, y, side)
             b == t[side][elm]
  <1>1. o \in Sides /\ Other(o) = side /\ o # side /\ Sides = {side, o}
    BY TwoSides
  <1>2. PICK lab : Shape(t, S, lab)
    BY DEF Grown
  <1>3. PICK g : Heights(t, S, g, NULL, "left")
    BY DEF Grown
  <1>4. t \in RBTrees /\ S \subseteq Node /\ NULL \notin S /\ elm \in S /\ y # NULL
    BY <1>2, Numbers DEF Shape, Grown, IsRed
  <1>5. /\ y \in S /\ y # x /\ x # NULL /\ elm # NULL /\ x \in Node /\ y \in Node /\ elm \in Node
        /\ y # t.root /\ elm # t.root /\ elm # y
    BY <1>1, <1>2, <1>4, Kid, Labels
  <1>6. elm # x /\ \A s \in Sides : t[s][elm] # elm /\ t[s][elm] # y
    <2>1. Room(lab, elm) < Room(lab, y) /\ Room(lab, y) < Room(lab, x)
      BY <1>1, <1>2, <1>4, <1>5, Kid, Narrower
    <2>2. Room(lab, elm) \in Nat /\ Room(lab, y) \in Nat /\ Room(lab, x) \in Nat
      BY <1>2, <1>4, <1>5, Labels
    <2>3. ASSUME NEW s \in Sides, t[s][elm] \in {elm, y} PROVE FALSE
      <3>1. Room(lab, t[s][elm]) < Room(lab, elm)
        BY <2>3, <1>2, <1>4, <1>5, Narrower
      <3> QED
        BY <3>1, <2>1, <2>2, <2>3
    <2> QED
      BY <2>1, <2>2, <2>3
  <1>7. IsRed(t, elm) /\ Exchanged(t, t, y, elm)
    <2>1. t.color[y] = t.color[elm]
      BY DEF IsRed, Grown
    <2> QED
      BY <2>1, <1>4 DEF Exchanged, Recolored, Grown
  <1>8. /\ \E l : Shape(u, S, l)
        /\ \A z \in Node \ S : u.parent[z] = t.parent[z]
        /\ u.root = t.root
        /\ \A z \in S : IsRed(u, z) <=> IsRed(t, z)
        /\ \E h : Heights(u, S, h, NULL, "left")
    <2>1. /\ elm = t[Other(side)][y] /\ NULL # elm /\ NULL # y
          /\ Shape(t, S, lab) /\ Heights(t, S, g, NULL, "left") /\ Exchanged(t, t, y, elm) /\ IsRed(t, elm)
          /\ y \in S
      BY <1>1, <1>2, <1>3, <1>4, <1>5, <1>7
    <2>2. /\ \E l : Shape(u, S, l)
          /\ \A z \in Node \ S : u.parent[z] = t.parent[z]
          /\ u.root = IF y = t.root THEN elm ELSE t.root
          /\ \A z \in S : IsRed(u, z) <=> z = y \/ (z = elm /\ IsRed(t, y)) \/ (z \notin {y, elm} /\ IsRed(t, z))
          /\ \E h : Heights(u, S, h, NULL, "left")
      BY <2>1, ExchangeRotates
    <2> QED
      BY <2>1, <2>2, <1>5
  <1>9. ASSUME NEW z \in S, NEW s \in Sides
        PROVE  \/ z = elm /\ s = side /\ u[s][z] = y
               \/ z = y /\ s = o /\ u[s][z] = b
               \/ z \notin {y, elm} /\ t[s][z] = y /\ u[s][z] = elm
               \/ /\ u[s][z] = t[s][z] /\ t[s][z] \notin {y, elm}
                  /\ (z = y => s = side) /\ (z = elm => s = o)
    BY <1>2, <1>5, RotatedKids
  <1> HIDE DEF u
  <1>10. \A w \in S, r \in Sides : t[r][w] # NULL => t[r][w] \in S
    BY <1>2, Kid
  <1>11. ASSUME NEW z \in S, NEW s \in Sides, IsRed(u, z), IsRed(u, u[s][z])
         PROVE u[s][z] = y
    <2>1. u[s][z] # NULL
      BY <1>11 DEF IsRed
    <2>2. CASE z = y /\ s = o /\ u[s][z] = b
      <3>1. b \in S /\ IsRed(t, b)
        BY <2>1, <2>2, <1>1, <1>4, <1>8, <1>10, <1>11
      <3>2. b = elm
        BY <3>1, <1>4, <1>7 DEF RedRule, Grown
      <3> QED
        BY <3>2, <1>6
    <2>3. CASE z \notin {y, elm} /\ t[s][z] = y /\ u[s][z] = elm
      <3>1. z = x
        BY <2>3, <1>2, <1>4, OneLink
      <3> QED
        BY <3>1, <1>8, <1>11
    <2>4. CASE u[s][z] = t[s][z] /\ t[s][z] \notin {y, elm}
      <3>1. IsRed(t, z) /\ IsRed(t, t[s][z])
        BY <2>1, <2>4, <1>8, <1>10, <1>11
      <3> QED
        BY <3>1, <2>4, <1>4 DEF RedRule, Grown
    <2> QED
      BY <2>2, <2>3, <2>4, <1>9
  <1>12. RedRule(u, S, NULL, y)
    BY <1>11 DEF RedRule
  <1>13. ~IsRed(u, u.root)
    <2>1. t.root \in S
      BY <1>2, <1>4 DEF Shape
    <2>2. ~IsRed(t, t.root)
      BY <1>5 DEF Grown
    <2> QED
      BY <2>1, <2>2, <1>8
  <1>14. Grown(u, S, y) /\ Beyond(t, u, S)
    BY <1>5, <1>8, <1>12, <1>13 DEF Grown, Beyond
  <1>15. u[side][x] = elm /\ u[side][elm] = y
    <2>1. u[side][elm] = y
      BY <1>1, <1>4, <1>9
    <2>2. u[side][x] = elm
      BY <1>1, <1>5, <1>6, <1>9
    <2> QED
      BY <2>1, <2>2
  <1>16. ~IsRed(u, u[o][x])
    <2>1. t[o][x] # y
      BY <1>1, <1>2, <1>4, Kid
    <2>2. u[o][x] = t[o][x]
      BY <2>1, <1>1, <1>5, <1>6, <1>9
    <2>3. CASE t[o][x] = NULL
      BY <2>2, <2>3 DEF IsRed
    <2>4. CASE t[o][x] # NULL
      BY <2>2, <2>4, <1>1, <1>8, <1>10
    <2> QED
      BY <2>3, <2>4
  <1>17. IsRed(u, elm) /\ ~IsRed(u, x)
    BY <1>4, <1>7, <1>8
  <1> QED
    BY <1>14, <1>15, <1>16, <1>17 DEF u

Colored(t, color) == {z \in Node : t.color[z] = color}

(* The first case: the parent and its sibling are red, and get the color   *)
(* of the element above.                                                   *)
LEMMA RedGoesUp ==
  ASSUME NEW t, NEW S, NEW elm, Grown(t, S, elm), NEW side \in Sides, NEW x \in S,
         NEW y, y = t[side][x], NEW w, w = t[Other(side)][x], IsRed(t, y), IsRed(t, w), ~IsRed(t, x),
         t.parent[elm] = y
  PROVE  LET u == SetBlackRed(SetColor(t, w, "RB_BLACK"), y, x)
         IN /\ Grown(u, S, x) /\ Beyond(t, u, S)
            /\ Cardinality(Colored(u, "RB_RED")) < Cardinality(Colored(t, "RB_RED"))
  <1> DEFINE o == Other(side)
             v == SetColor(t, w, "RB_BLACK")
             u == SetBlackRed(v, y, x)
  <1>1. o \in Sides /\ Other(o) = side /\ o # side /\ Sides = {side, o}
    BY TwoSides
  <1>2. PICK lab : Shape(t, S, lab)
    BY DEF Grown
  <1>3. PICK g : Heights(t, S, g, NULL, "left")
    BY DEF Grown
  <1>4. t \in RBTrees /\ S \subseteq Node /\ NULL \notin S /\ elm \in S /\ y # NULL /\ w # NULL
    BY <1>2, Numbers DEF Shape, Grown, IsRed
  <1>5. /\ y \in S /\ y # x /\ w \in S /\ w # x /\ x # NULL /\ y # w
        /\ x \in Node /\ y \in Node /\ w \in Node /\ t.parent[y] = x /\ t.parent[w] = x
    BY <1>1, <1>2, <1>4, Kid, Labels
  <1>6. /\ u \in RBTrees /\ u.root = t.root /\ u.left = t.left /\ u.right = t.right /\ u.parent = t.parent
        /\ \A z \in Node : u.color[z] = IF z \in {w, y} THEN "RB_BLACK" ELSE IF z = x THEN "RB_RED" ELSE t.color[z]
    <2>1. w \in Link
      BY <1>5 DEF Link
    <2>2. /\ v \in RBTrees /\ v.root = t.root /\ v.left = t.left /\ v.right = t.right /\ v.parent = t.parent
          /\ \A z \in Node : v.color[z] = IF z = w THEN "RB_BLACK" ELSE t.color[z]
      BY <2>1, <1>4, ColorSet
    <2> HIDE DEF v
    <2>3. /\ u \in RBTrees /\ u.root = v.root /\ u.left = v.left /\ u.right = v.right /\ u.parent = v.parent
          /\ \A z \in Node : u.color[z] = IF z = y THEN "RB_BLACK" ELSE IF z = x THEN "RB_RED" ELSE v.color[z]
      <3>1. v \in RBTrees /\ y \in Node /\ x \in Node /\ y # x
        BY <2>2, <1>5
      <3> QED
        BY <3>1, BlackRedSet
    <2> HIDE DEF u
    <2> QED
      BY <2>2, <2>3, <1>5
  <1> HIDE DEF u
  <1>7. Recolored(t, u) /\ Shape(u, S, lab) /\ \A s \in Sides : u[s] = t[s]
    BY <1>2, <1>6, ShapeRecolored DEF Recolored
  <1>8. \A z \in S : IsRed(u, z) <=> z = x \/ (z \notin {y, w} /\ IsRed(t, z))
    BY <1>4, <1>5, <1>6 DEF IsRed
  <1>9. \A z \in S : \A s \in Sides : /\ t[s][z] = y => z = x
                                      /\ t[s][z] = w => z = x
                                      /\ t[s][z] # NULL => t[s][z] \in S
    BY <1>2, <1>4, <1>5, Kid
  <1>10. ASSUME NEW s \in Sides PROVE t[s][x] \in {y, w}
    BY <1>1
  <1>11. RedRule(u, S, NULL, x)
    <2>1. ASSUME NEW z \in S, NEW s \in Sides, IsRed(u, z), IsRed(u, t[s][z]), t[s][z] # x PROVE FALSE
      <3>1. t[s][z] # NULL /\ t[s][z] \in S
        BY <2>1, <1>9 DEF IsRed
      <3>2. z # x
        BY <2>1, <3>1, <1>8, <1>10, <1>5
      <3>3. IsRed(t, z) /\ IsRed(t, t[s][z]) /\ z \notin {y, w}
        BY <2>1, <3>1, <3>2, <1>8
      <3>4. t[s][z] = elm
        BY <3>3, <1>4 DEF RedRule, Grown
      <3>5. t.parent[elm] = z
        BY <3>1, <3>4, <1>2, Kid
      <3> QED
        BY <3>3, <3>5
    <2> QED
      BY <2>1, <1>7 DEF RedRule
  <1>12. IsRed(u, u.root) => u.root = x
    <2>1. t.root \in S
      BY <1>2, <1>4 DEF Shape
    <2>2. t.root # elm
      BY <1>2, <1>4, Places
    <2> QED
      BY <2>1, <2>2, <1>6, <1>8 DEF Grown
  <1> DEFINE h == [g EXCEPT ![y] = g[y] + 1, ![w] = g[w] + 1]
  <1>13. /\ g \in [Link -> Nat] /\ g[NULL] = 0 /\ Node \subseteq Link
         /\ \A z \in S : \A s \in Sides : g[z] = g[t[s][z]] + Black(t, z) + Lack(NULL, "left", z, s)
         /\ \A z \in S : \A s \in Sides : t[s][z] \in Link /\ Lack(NULL, "left", z, s) = 0
    BY <1>3, <1>4, RBType DEF Heights, Link, Lack
  <1>14. /\ h \in [Link -> Nat] /\ h[NULL] = 0
         /\ \A k \in Link : h[k] = IF k \in {y, w} THEN g[k] + 1 ELSE g[k]
    BY <1>4, <1>5, <1>13 DEF Link
  <1> HIDE DEF h
  <1>15. ASSUME NEW z \in S, NEW s \in Sides
         PROVE  h[z] = h[t[s][z]] + Black(u, z) + Lack(NULL, "left", z, s)
    <2>1. /\ z \in Link /\ t[s][z] \in Link /\ g[z] \in Nat /\ g[t[s][z]] \in Nat
          /\ Lack(NULL, "left", z, s) = 0 /\ g[z] = g[t[s][z]] + Black(t, z)
          /\ Black(t, z) \in {0, 1}
      BY <1>4, <1>13 DEF Black
    <2>2. CASE z = x
      <3>1. Black(u, x) = 0 /\ Black(t, x) = 1
        BY <1>5, <1>8 DEF Black
      <3>2. h[x] = g[x] /\ h[t[s][x]] = g[t[s][x]] + 1
        BY <2>1, <2>2, <1>5, <1>10, <1>14
      <3> QED
        BY <3>1, <3>2, <2>1, <2>2
    <2>3. CASE z \in {y, w}
      <3>1. Black(u, z) = 1 /\ Black(t, z) = 0
        BY <2>3, <1>5, <1>8 DEF Black
      <3>2. t[s][z] \notin {y, w}
        BY <2>3, <1>5, <1>9
      <3>3. h[z] = g[z] + 1 /\ h[t[s][z]] = g[t[s][z]]
        BY <3>2, <2>1, <2>3, <1>14
      <3> QED
        BY <3>1, <3>3, <2>1
    <2>4. CASE z \notin {x, y, w}
      <3>1. Black(u, z) = Black(t, z)
        BY <2>4, <1>8 DEF Black
      <3>2. t[s][z] \notin {y, w}
        BY <2>4, <1>9
      <3>3. h[z] = g[z] /\ h[t[s][z]] = g[t[s][z]]
        BY <3>2, <2>1, <2>4, <1>14
      <3> QED
        BY <3>1, <3>3, <2>1
    <2> QED
      BY <2>2, <2>3, <2>4
  <1>16. Heights(u, S, h, NULL, "left")
    BY <1>2, <1>7, <1>14, <1>15, HeightsRecolored
  <1>17. Grown(u, S, x) /\ Beyond(t, u, S)
    BY <1>5, <1>6, <1>7, <1>8, <1>11, <1>12, <1>16 DEF Grown, Beyond
  <1>18. Cardinality(Colored(u, "RB_RED")) < Cardinality(Colored(t, "RB_RED"))
    <2> DEFINE R == Colored(t, "RB_RED")
               Q == R \ {y}
    <2>1. R \in SUBSET Node /\ y \in R /\ w \in R /\ x \notin R /\ x \in Node
      BY <1>5 DEF Colored, IsRed
    <2>2. Colored(u, "RB_RED") = (Q \ {w}) \cup {x}
      <3>1. \A z \in Node : u.color[z] = "RB_RED" <=> z \notin {y, w} /\ (z = x \/ t.color[z] = "RB_RED")
        BY <1>5, <1>6
      <3> QED
        BY <3>1, <1>5 DEF Colored
    <2> HIDE DEF R
    <2>3. w \in Q /\ x \notin Q \ {w}
      BY <2>1, <1>5
    <2>4. IsFiniteSet(R)
      BY <2>1, NodesFinite
    <2>5. IsFiniteSet(Q) /\ Cardinality(Q) = Cardinality(R) - 1
      BY <2>1, <2>4, FS_RemoveElement
    <2> HIDE DEF Q
    <2>6. IsFiniteSet(Q \ {w}) /\ Cardinality(Q \ {w}) = Cardinality(Q) - 1
      BY <2>3, <2>5, FS_RemoveElement
    <2>7. Cardinality((Q \ {w}) \cup {x}) = Cardinality(Q \ {w}) + 1
      BY <2>3, <2>6, FS_AddElement
    <2>8. Cardinality(R) \in Nat
      BY <2>4, FS_CardinalityType
    <2>9. Cardinality(Colored(u, "RB_RED")) < Cardinality(R)
      <3>1. Cardinality(Colored(u, "RB_RED")) = Cardinality((Q \ {w}) \cup {x})
        BY <2>2
      <3> QED
        BY <3>1, <2>5, <2>6, <2>7, <2>8
    <2> QED
      BY <2>9 DEF R
  <1> QED
    BY <1>17, <1>18 DEF u, v

Inserting(t0, S) == {s \in Insertions : Grown(s.tree, S, s.elm) /\ Beyond(t0, s.tree, S)}

LEMMA InsertingIs ==
  ASSUME NEW t0, NEW t, NEW S, NEW elm, NEW u, Beyond(t0, t, S), Beyond(t, u, S), Grown(u, S, elm)
  PROVE  [tree |-> u, elm |-> elm] \in Inserting(t0, S)
  <1>1. u \in RBTrees /\ elm \in Node
    BY DEF Grown, Shape
  <1>2. Beyond(t0, u, S)
    BY SMTT(30) DEF Beyond
  <1> QED
    BY <1>1, <1>2 DEF Inserting, Insertions

LEMMA InsertionEnds ==
  ASSUME NEW s \in Insertions, ~IsRed(s.tree, s.tree.parent[s.elm])
  PROVE  InsertColorStep[s] = s
  BY DEF InsertColorStep

LEMMA InsertColorKeeps ==
  ASSUME NEW t0, NEW S, NEW s \in Inserting(t0, S)
  PROVE  LET u == InsertColorStep[s]
         IN /\ u \in Inserting(t0, S)
            /\ \/ InsertColorStep[u] = u
               \/ Cardinality(Colored(u.tree, "RB_RED")) < Cardinality(Colored(s.tree, "RB_RED"))
            /\ u = s => ~IsRed(s.tree, s.tree.parent[s.elm])
  <1> DEFINE t == s.tree
             elm == s.elm
             y == t.parent[elm]
             x == t.parent[y]
             side == IF y = t.left[x] THEN "left" ELSE "right"
             w == t[Other(side)][x]
             t1 == SetBlackRed(SetColor(t, w, "RB_BLACK"), y, x)
             r == Rotate(t, y, side)
             t2 == Rotate(SetBlackRed(r, elm, x), x, Other(side))
             t3 == Rotate(SetBlackRed(t, y, x), x, Other(side))
             u == InsertColorStep[s]
  <1>1. s \in Insertions /\ Grown(t, S, elm) /\ Beyond(t0, t, S)
    BY DEF Inserting
  <1>2. u = IF ~IsRed(t, y) THEN s
            ELSE IF IsRed(t, w) THEN [tree |-> t1, elm |-> x]
            ELSE IF t[Other(side)][y] = elm THEN [tree |-> t2, elm |-> y]
            ELSE [tree |-> t3, elm |-> elm]
    BY <1>1 DEF InsertColorStep
  <1>3. PICK lab : Shape(t, S, lab)
    BY <1>1 DEF Grown
  <1>4. CASE ~IsRed(t, y)
    BY <1>1, <1>2, <1>4, InsertionEnds
  <1>5. CASE IsRed(t, y)
    <2>1. y # NULL /\ elm \in S /\ IsRed(t, elm) /\ NULL \notin S /\ S \subseteq Node
      BY <1>1, <1>3, <1>5, Numbers DEF IsRed, Grown, Shape
    <2>2. y \in S /\ elm # t.root /\ \E e \in Sides : t[e][y] = elm
      BY <1>3, <2>1, Places DEF Placing
    <2>3. y # elm
      BY <1>3, <2>1, Places
    <2>4. y # t.root
      BY SMTT(30), <1>1, <1>5, <2>2, <2>3 DEF Grown
    <2>5. x \in S /\ \E e \in Sides : t[e][x] = y
      BY SMTT(30), <1>3, <2>1, <2>2, <2>4, Numbers, Places DEF Placing
    <2>6. side \in Sides /\ t[side][x] = y
      BY <2>5 DEF Sides
    <2>7. ~IsRed(t, x)
      BY <1>1, <1>5, <2>1, <2>3, <2>5, <2>6 DEF Grown, RedRule
    <2>8. Other(side) \in Sides /\ Sides = {side, Other(side)}
      BY <2>6, TwoSides
    <2> HIDE DEF side, x, y, elm, t, w
    <2>9. CASE IsRed(t, w)
      <3>1. u = [tree |-> t1, elm |-> x]
        BY <1>2, <1>5, <2>9
      <3>2. /\ Grown(t1, S, x) /\ Beyond(t, t1, S)
            /\ Cardinality(Colored(t1, "RB_RED")) < Cardinality(Colored(t, "RB_RED"))
        <4>1. y = t[side][x] /\ w = t[Other(side)][x] /\ t.parent[elm] = y
          BY <2>6 DEF w, y
        <4> QED
          BY <4>1, <1>1, <1>5, <2>5, <2>6, <2>7, <2>9, RedGoesUp
      <3> HIDE DEF t1, u
      <3>3. u \in Inserting(t0, S)
        BY <1>1, <3>1, <3>2, InsertingIs
      <3>4. u.tree = t1
        BY <3>1
      <3>5. u # s
        <4>1. Cardinality(Colored(t, "RB_RED")) \in Nat
          BY NodesFinite DEF Colored
        <4>2. ~(Cardinality(Colored(t, "RB_RED")) < Cardinality(Colored(t, "RB_RED")))
          BY <4>1
        <4> QED
          BY <3>2, <3>4, <4>2 DEF t
      <3> QED
        BY <3>2, <3>3, <3>4, <3>5 DEF u, t
    <2>10. CASE ~IsRed(t, w) /\ t[Other(side)][y] = elm
      <3>1. u = [tree |-> t2, elm |-> y]
        BY <1>2, <1>5, <2>10
      <3>2. /\ Grown(r, S, y) /\ Beyond(t, r, S)
            /\ r[side][x] = elm /\ r[side][elm] = y /\ IsRed(r, elm) /\ ~IsRed(r, x)
            /\ ~IsRed(r, r[Other(side)][x])
        <4>1. y = t[side][x] /\ ~IsRed(t, t[Other(side)][x])
          BY <2>6, <2>10 DEF w
        <4> QED
          BY <4>1, <1>1, <1>5, <2>5, <2>6, <2>7, <2>10, InnerTurns
      <3> HIDE DEF r
      <3>3. Grown(t2, S, y) /\ Beyond(r, t2, S) /\ ~IsRed(t2, t2.parent[y])
        <4>1. elm = r[side][x]
          BY <3>2
        <4> QED
          BY <4>1, <3>2, <2>5, <2>6, OuterTurns
      <3> HIDE DEF t2, u
      <3>4. Beyond(t, t2, S)
        BY <3>2, <3>3 DEF Beyond
      <3>5. u \in Inserting(t0, S)
        BY <1>1, <3>1, <3>3, <3>4, InsertingIs
      <3>6. ~IsRed(u.tree, u.tree.parent[u.elm])
        BY <3>1, <3>3
      <3>7. InsertColorStep[u] = u
        BY <3>5, <3>6, InsertionEnds DEF Inserting
      <3> QED
        BY <3>5, <3>6, <3>7 DEF u
    <2>11. CASE ~IsRed(t, w) /\ t[Other(side)][y] # elm
      <3>1. u = [tree |-> t3, elm |-> elm]
        BY <1>2, <1>5, <2>11
      <3>2. t[side][y] = elm
        BY <2>2, <2>8, <2>11
      <3>3. Grown(t3, S, elm) /\ Beyond(t, t3, S) /\ ~IsRed(t3, t3.parent[elm])
        <4>1. y = t[side][x] /\ ~IsRed(t, t[Other(side)][x])
          BY <2>6, <2>11 DEF w
        <4> QED
          BY <4>1, <1>1, <1>5, <2>5, <2>6, <2>7, <3>2, OuterTurns
      <3> HIDE DEF t3, u
      <3>5. u \in Inserting(t0, S)
        BY <1>1, <3>1, <3>3, InsertingIs
      <3>6. ~IsRed(u.tree, u.tree.parent[u.elm])
        BY <3>1, <3>3
      <3>7. InsertColorStep[u] = u
        BY <3>5, <3>6, InsertionEnds DEF Inserting
      <3> QED
        BY <3>5, <3>6, <3>7 DEF u
    <2> QED
      BY <2>9, <2>10, <2>11
  <1> QED
    BY <1>4, <1>5

(* Between calls. *)
Sound(t, S) ==
  /\ \E lab : Shape(t, S, lab)
  /\ \E g : Heights(t, S, g, NULL, "left")
  /\ RedRule(t, S, NULL, NULL) /\ ~IsRed(t, t.root)

(* The root is colored black. *)
LEMMA RootBlack ==
  ASSUME NEW t, NEW S, NEW lab, Shape(t, S, lab), NEW g, Heights(t, S, g, NULL, "left"),
         RedRule(t, S, NULL, NULL)
  PROVE  LET u == SetColor(t, t.root, "RB_BLACK")
         IN Sound(u, S) /\ Beyond(t, u, S)
  <1> DEFINE x == t.root
             u == SetColor(t, x, "RB_BLACK")
  <1>1. t \in RBTrees /\ S \subseteq Node /\ NULL \notin S /\ x \in S \cup {NULL} /\ (x = NULL => S = {}) /\ x \in Link
    BY Numbers DEF Shape, Link
  <1>2. /\ u \in RBTrees /\ u.root = t.root /\ u.left = t.left /\ u.right = t.right /\ u.parent = t.parent
        /\ \A z \in Node : u.color[z] = IF z = x THEN "RB_BLACK" ELSE t.color[z]
    <2> HIDE DEF x
    <2> QED
      BY <1>1, ColorSet DEF x
  <1> HIDE DEF u, x
  <1>3. Recolored(t, u) /\ Shape(u, S, lab) /\ \A s \in Sides : u[s] = t[s]
    BY <1>2, ShapeRecolored DEF Recolored
  <1>4. \A z \in Link : IsRed(u, z) <=> z # x /\ IsRed(t, z)
    BY <1>1, <1>2 DEF IsRed, Link
  <1>5. CASE x = NULL
    <2>1. S = {} /\ ~IsRed(u, u.root)
      BY <1>1, <1>2, <1>5 DEF IsRed, x
    <2> QED
      BY <2>1, <1>2, <1>3 DEF Sound, Beyond, Heights, RedRule, u, x
  <1>6. CASE x # NULL
    <2>1. x \in S /\ x \in Node
      BY <1>1, <1>6
    <2> DEFINE h == IF IsRed(t, x) THEN [g EXCEPT ![x] = g[x] + 1] ELSE g
    <2>2. /\ g \in [Link -> Nat] /\ g[NULL] = 0 /\ Node \subseteq Link
          /\ \A z \in S : \A s \in Sides : g[z] = g[t[s][z]] + Black(t, z) + Lack(NULL, "left", z, s)
          /\ \A z \in S : \A s \in Sides : t[s][z] \in Link /\ t[s][z] # x
      BY <1>1, <1>6, RBType, Kid DEF Heights, Link, x
    <2>3. /\ h \in [Link -> Nat] /\ h[NULL] = 0
          /\ \A k \in Link : h[k] = IF k = x /\ IsRed(t, x) THEN g[k] + 1 ELSE g[k]
      BY <1>6, <2>1, <2>2 DEF Link
    <2> HIDE DEF h
    <2>4. ASSUME NEW z \in S, NEW s \in Sides
          PROVE  h[z] = h[t[s][z]] + Black(u, z) + Lack(NULL, "left", z, s)
      <3>1. /\ z \in Link /\ t[s][z] \in Link /\ t[s][z] # x /\ g[z] \in Nat /\ g[t[s][z]] \in Nat
            /\ g[z] = g[t[s][z]] + Black(t, z) + Lack(NULL, "left", z, s)
        BY <1>1, <2>2
      <3>2. Lack(NULL, "left", z, s) = 0
        BY <1>1 DEF Lack
      <3>3. h[t[s][z]] = g[t[s][z]]
        BY <3>1, <2>3
      <3>4. CASE z = x /\ IsRed(t, x)
        <4>1. Black(t, z) = 0 /\ Black(u, z) = 1 /\ h[z] = g[z] + 1
          BY <3>1, <3>4, <1>4, <2>3 DEF Black
        <4> QED
          BY <4>1, <3>1, <3>2, <3>3
      <3>5. CASE ~(z = x /\ IsRed(t, x))
        <4>1. Black(t, z) = Black(u, z) /\ h[z] = g[z]
          BY <3>1, <3>5, <1>4, <2>3 DEF Black
        <4> QED
          BY <4>1, <3>1, <3>2, <3>3
      <3> QED
        BY <3>4, <3>5
    <2>5. Heights(u, S, h, NULL, "left")
      BY <1>3, <2>3, <2>4, HeightsRecolored
    <2>6. RedRule(u, S, NULL, NULL)
      <3>1. ASSUME NEW z \in S, NEW s \in Sides, IsRed(u, z), IsRed(u, t[s][z]) PROVE FALSE
        <4>1. IsRed(t, z) /\ IsRed(t, t[s][z])
          BY <3>1, <1>1, <1>4, <2>2
        <4> QED
          BY <4>1, <1>1 DEF RedRule, IsRed
      <3> QED
        BY <3>1, <1>3 DEF RedRule
    <2>7. ~IsRed(u, u.root)
      BY <1>1, <1>2, <1>4 DEF x
    <2> QED
      BY <2>5, <2>6, <2>7, <1>2, <1>3 DEF Sound, Beyond, u, x
  <1> QED
    BY <1>5, <1>6

LEMMA InsertColored ==
  ASSUME NEW t, NEW S, NEW elm, Grown(t, S, elm)
  PROVE  LET u == InsertColor(t, elm)
         IN Sound(u, S) /\ Beyond(t, u, S)
  <1> DEFINE Inv == Inserting(t, S)
             state == [tree |-> t, elm |-> elm]
             size == [s \in Inv |-> Cardinality(Colored(s.tree, "RB_RED"))]
             s == Repeat(InsertColorStep, state)
             u == SetColor(s.tree, s.tree.root, "RB_BLACK")
  <1>1. Beyond(t, t, S)
    BY DEF Beyond
  <1>2. state \in Inv
    BY <1>1, InsertingIs
  <1>3. \A z : Cardinality(Colored(z, "RB_RED")) \in Nat /\ Cardinality(Colored(z, "RB_RED")) <= NumNodes
    BY NodesFinite DEF Colored
  <1>4. size \in [Inv -> Nat] /\ size[state] <= NumNodes
    BY <1>2, <1>3
  <1>5. ASSUME NEW z \in Inv
        PROVE  /\ InsertColorStep[z] \in Inv
               /\ \/ InsertColorStep[InsertColorStep[z]] = InsertColorStep[z]
                  \/ size[InsertColorStep[z]] < size[z]
    <2>1. /\ InsertColorStep[z] \in Inv
          /\ \/ InsertColorStep[InsertColorStep[z]] = InsertColorStep[z]
             \/ Cardinality(Colored(InsertColorStep[z].tree, "RB_RED")) < Cardinality(Colored(z.tree, "RB_RED"))
      BY <1>5, InsertColorKeeps
    <2> HIDE DEF Inv
    <2> QED
      BY <2>1
  <1> HIDE DEF Inv, state, size
  <1>6. s \in Inv /\ InsertColorStep[s] = s
    BY <1>2, <1>4, <1>5, RepeatEnds
  <1> HIDE DEF s
  <1>7. Grown(s.tree, S, s.elm) /\ Beyond(t, s.tree, S) /\ ~IsRed(s.tree, s.tree.parent[s.elm])
    BY <1>6, InsertColorKeeps DEF Inv, Inserting
  <1>8. PICK lab : Shape(s.tree, S, lab)
    BY <1>7 DEF Grown
  <1>9. PICK g : Heights(s.tree, S, g, NULL, "left")
    BY <1>7 DEF Grown
  <1>10. RedRule(s.tree, S, NULL, NULL)
    <2>1. ASSUME NEW z \in S, NEW e \in Sides, IsRed(s.tree, z), IsRed(s.tree, s.tree[e][z]) PROVE FALSE
      <3>1. s.tree[e][z] # NULL /\ z # NULL
        BY <2>1 DEF IsRed
      <3>2. s.tree[e][z] = s.elm
        BY <2>1, <3>1, <1>7 DEF Grown, RedRule
      <3>3. s.tree.parent[s.elm] = z
        BY <3>1, <3>2, <1>8, Kid
      <3> QED
        BY <2>1, <3>3, <1>7
    <2> QED
      BY <2>1 DEF RedRule
  <1>11. Sound(u, S) /\ Beyond(s.tree, u, S)
    BY <1>8, <1>9, <1>10, RootBlack
  <1>12. InsertColor(t, elm) = u
    BY DEF InsertColor, s, state
  <1> HIDE DEF u
  <1> QED
    BY <1>7, <1>11, <1>12 DEF Beyond

-----------------------------------------------------------------------------
(* The loops that go down from link to link. *)
Size(lab, x) == IF x = NULL THEN 0 ELSE Room(lab, x) - 1

LEMMA Sizes ==
  ASSUME NEW t, NEW S, NEW lab, Shape(t, S, lab)
  PROVE  /\ \A x \in S \cup {NULL} : Size(lab, x) \in Nat /\ Size(lab, x) <= NumNodes
         /\ \A x \in S : \A side \in Sides : /\ t[side][x] \in S \cup {NULL}
                                            /\ Size(lab, t[side][x]) < Size(lab, x)
  <1>1. ASSUME NEW x \in S \cup {NULL} PROVE Size(lab, x) \in Nat /\ Size(lab, x) <= NumNodes
    <2>1. CASE x = NULL
      BY <2>1, NodesAssumption DEF Size
    <2>2. CASE x # NULL
      <3>1. Room(lab, x) \in Nat /\ 2 <= Room(lab, x) /\ Room(lab, x) <= NumNodes + 1
        BY <2>2, Labels
      <3> QED
        BY <3>1, <2>2, NodesAssumption DEF Size
    <2> QED
      BY <2>1, <2>2
  <1>2. ASSUME NEW x \in S, NEW side \in Sides
        PROVE  t[side][x] \in S \cup {NULL} /\ Size(lab, t[side][x]) < Size(lab, x)
    <2>1. x # NULL /\ Room(lab, x) \in Nat /\ 2 <= Room(lab, x)
      BY Labels
    <2>2. CASE t[side][x] = NULL
      BY <2>1, <2>2 DEF Size
    <2>3. CASE t[side][x] # NULL
      <3>1. t[side][x] \in S /\ Room(lab, t[side][x]) < Room(lab, x)
        BY <2>3, Kid, Narrower
      <3>2. Room(lab, t[side][x]) \in Nat
        BY <3>1, Labels
      <3> QED
        BY <3>1, <3>2, <2>1, <2>3 DEF Size
    <2> QED
      BY <2>2, <2>3
  <1> QED
    BY <1>1, <1>2

Within(lab, x, elm) == \A side \in Sides : Before(side, lab[side][x], elm)

(* The search for elm goes on below x, or there elm would be. *)
LEMMA GoesDown ==
  ASSUME NEW t, NEW S, NEW lab, Shape(t, S, lab), NEW x \in S, NEW elm \in Node, elm # x,
         Within(lab, x, elm)
  PROVE  LET side == Side(elm, x)
         IN /\ side \in Sides /\ Before(side, elm, x)
            /\ t[side][x] # NULL => t[side][x] \in S /\ Within(lab, t[side][x], elm)
            /\ t[side][x] = NULL =>
                 /\ elm \notin S
                 /\ \A y \in S : ~(Before(side, lab[side][x], y) /\ Before(side, y, x))
  <1> DEFINE side == Side(elm, x)
             o == Other(side)
             c == t[side][x]
  <1>1. x \in Int /\ elm \in Int /\ side \in Sides /\ Before(side, elm, x)
    <2>1. x \in Int /\ elm \in Int
      BY Labels, Numbers
    <2> QED
      BY <2>1, SideOf
  <1> HIDE DEF side
  <1>2. o \in Sides /\ Other(o) = side /\ Sides = {side, o}
    BY <1>1, TwoSides
  <1>3. ASSUME c # NULL PROVE c \in S /\ Within(lab, c, elm)
    <2>1. c \in S /\ lab[side][c] = lab[side][x] /\ lab[o][c] = x
      BY <1>1, <1>3, Kid
    <2>2. Before(o, x, elm)
      BY <1>1, <1>2, Order
    <2>3. Before(side, lab[side][x], elm)
      BY <1>1 DEF Within
    <2> HIDE DEF c, o
    <2> QED
      BY <2>1, <2>2, <2>3, <1>2 DEF Within
  <1>4. ASSUME c = NULL
        PROVE elm \notin S /\ \A y \in S : ~(Before(side, lab[side][x], y) /\ Before(side, y, x))
    <2>1. NULL \notin S
      BY Numbers DEF Shape
    <2>2. \A y \in S : ~(Before(side, lab[side][x], y) /\ Before(side, y, x))
      BY <1>1, <1>4, <2>1 DEF Shape, KidOK
    <2>3. Before(side, lab[side][x], elm)
      BY <1>1 DEF Within
    <2> QED
      BY <2>2, <2>3, <1>1
  <1> QED
    BY <1>1, <1>3, <1>4 DEF side

(* What the search for elm ends with. *)
Sought(t, S, lab, elm, s) ==
  \/ s.elm \in S /\ Within(lab, s.elm, elm)
  \/ s.elm = NULL /\ s.parent = NULL /\ S = {} /\ t.root = NULL
  \/ /\ s.elm = NULL /\ s.parent \in S /\ Within(lab, s.parent, elm)
     /\ s.parent # elm /\ t[Side(elm, s.parent)][s.parent] = NULL

LEMMA Searches ==
  ASSUME NEW t, NEW S, NEW lab, Shape(t, S, lab), NEW elm \in Node
  PROVE  LET e == Search(t, elm)
         IN /\ e.elm = elm <=> elm \in S
            /\ e.elm \in {elm, NULL}
            /\ elm \notin S =>
                 \/ e.parent = NULL /\ S = {} /\ t.root = NULL
                 \/ /\ e.parent \in S /\ Within(lab, e.parent, elm)
                    /\ t[Side(elm, e.parent)][e.parent] = NULL
  <1> DEFINE States == [elm : Link, parent : Link]
             Down[s \in States] ==
               IF s.elm \in {NULL, elm} THEN s
               ELSE [elm |-> t[Side(elm, s.elm)][s.elm], parent |-> s.elm]
             Inv == {s \in States : Sought(t, S, lab, elm, s)}
             state == [elm |-> t.root, parent |-> NULL]
             size == [s \in Inv |-> Size(lab, s.elm)]
             e == Repeat(Down, state)
  <1>1. elm # NULL /\ S \subseteq Link /\ NULL \in Link /\ NULL \notin S /\ elm \in Int
    BY Numbers DEF Shape, Link
  <1>2. state \in Inv
    <2>1. t.root \in S \cup {NULL} /\ (t.root = NULL => S = {})
      BY DEF Shape
    <2>2. t.root \in S => Within(lab, t.root, elm)
      BY Numbers DEF Shape, Within
    <2> QED
      BY <2>1, <2>2, <1>1 DEF Sought
  <1>3. \A s \in Inv : s.elm \in S \cup {NULL}
    BY DEF Sought
  <1>4. size \in [Inv -> Nat] /\ size[state] <= NumNodes
    <2> HIDE DEF Inv, state
    <2> QED
      BY SMTT(30), <1>2, <1>3, Sizes
  <1>5. ASSUME NEW s \in Inv
        PROVE  Down[s] \in Inv /\ (Down[Down[s]] = Down[s] \/ size[Down[s]] < size[s])
    <2>1. s \in States
      OBVIOUS
    <2>2. CASE s.elm \in {NULL, elm}
      <3>1. Down[s] = s
        BY <2>1, <2>2
      <3> QED
        BY <3>1
    <2>3. CASE s.elm \notin {NULL, elm}
      <3> DEFINE side == Side(elm, s.elm)
                 n == [elm |-> t[side][s.elm], parent |-> s.elm]
      <3>1. s.elm \in S /\ Within(lab, s.elm, elm)
        BY <2>3 DEF Sought
      <3>2. Down[s] = n
        BY <2>1, <2>3
      <3>3. /\ side \in Sides
            /\ t[side][s.elm] # NULL => t[side][s.elm] \in S /\ Within(lab, t[side][s.elm], elm)
        BY <2>3, <3>1, GoesDown
      <3>4. n \in Inv
        BY <2>3, <3>1, <3>3, <1>1 DEF Sought
      <3>5. Size(lab, t[side][s.elm]) < Size(lab, s.elm)
        BY <3>1, <3>3, Sizes
      <3> HIDE DEF Inv, side
      <3>6. size[n] < size[s]
        BY <3>4, <3>5
      <3> QED
        BY <3>2, <3>4, <3>6
    <2> QED
      BY <2>2, <2>3
  <1> HIDE DEF Inv, state, size
  <1>6. e \in Inv /\ Down[e] = e
    <2> HIDE DEF Down
    <2> QED
      BY <1>2, <1>4, <1>5, RepeatEnds
  <1> HIDE DEF e
  <1>7. e \in States /\ Sought(t, S, lab, elm, e)
    BY <1>6 DEF Inv
  <1>8. e.elm \in {NULL, elm}
    <2>1. SUFFICES ASSUME e.elm \notin {NULL, elm} PROVE FALSE
      OBVIOUS
    <2>2. Down[e] = [elm |-> t[Side(elm, e.elm)][e.elm], parent |-> e.elm]
      BY <2>1, <1>7
    <2>3. e.elm = t[Side(elm, e.elm)][e.elm]
      <3>1. Down[e].elm = t[Side(elm, e.elm)][e.elm]
        BY <2>2
      <3> QED
        BY <3>1, <1>6
    <2>4. e.elm \in S /\ e.elm \in Int
      BY <2>1, <1>7, Labels DEF Sought
    <2>5. Side(elm, e.elm) \in Sides
      BY <2>4, <1>1, SideOf
    <2> QED
      BY <2>1, <2>3, <2>4, <2>5, Kid
  <1>9. e.elm = NULL => elm \notin S
    BY <1>1, <1>7, <1>8, GoesDown DEF Sought
  <1>10. /\ e.elm = elm <=> elm \in S
         /\ elm \notin S => \/ e.parent = NULL /\ S = {} /\ t.root = NULL
                            \/ /\ e.parent \in S /\ Within(lab, e.parent, elm)
                               /\ t[Side(elm, e.parent)][e.parent] = NULL
    BY <1>1, <1>7, <1>8, <1>9 DEF Sought
  <1>11. Search(t, elm) = e
    BY DEF Search, e, state
  <1> QED
    BY <1>8, <1>10, <1>11

-----------------------------------------------------------------------------
(* A new element is a red leaf where the search for it has ended. *)
AddLeaf(t, p, elm) ==
  IF p = NULL THEN [SetElm(t, elm, p) EXCEPT !.root = elm]
  ELSE [SetElm(t, elm, p) EXCEPT ![Side(elm, p)][p] = elm]

LEMMA LeafLinks ==
  ASSUME NEW t \in RBTrees, NEW p \in Link, NEW elm \in Node, p # elm
  PROVE  LET u == AddLeaf(t, p, elm)
         IN /\ u \in RBTrees /\ u.root = IF p = NULL THEN elm ELSE t.root
            /\ \A z \in Node :
                 /\ u.parent[z] = IF z = elm THEN p ELSE t.parent[z]
                 /\ u.color[z] = IF z = elm THEN "RB_RED" ELSE t.color[z]
                 /\ \A s \in Sides : u[s][z] = IF z = elm THEN NULL
                                               ELSE IF z = p /\ s = Side(elm, p) THEN elm ELSE t[s][z]
  <1> DEFINE t1 == SetElm(t, elm, p)
             u == AddLeaf(t, p, elm)
             side == Side(elm, p)
  <1>1. /\ t1 \in RBTrees /\ t1.root = t.root
        /\ \A z \in Node : /\ t1.parent[z] = IF z = elm THEN p ELSE t.parent[z]
                           /\ t1.color[z] = IF z = elm THEN "RB_RED" ELSE t.color[z]
                           /\ \A s \in Sides : t1[s][z] = IF z = elm THEN NULL ELSE t[s][z]
    <2>1. NULL \in Link
      BY DEF Link
    <2> QED
      BY <2>1 DEF SetElm, RBTrees, Sides
  <1> HIDE DEF t1
  <1>2. CASE p = NULL
    <2>1. u = [t1 EXCEPT !.root = elm]
      BY <1>2 DEF AddLeaf, t1
    <2>2. u \in RBTrees /\ u.root = elm /\ u.left = t1.left /\ u.right = t1.right /\ u.parent = t1.parent /\ u.color = t1.color
      BY <1>1, <2>1 DEF RBTrees, Link
    <2> HIDE DEF u
    <2>3. \A s \in Sides : u[s] = t1[s]
      BY <2>2 DEF Sides
    <2>4. \A z \in Node : z # p
      BY <1>2, Numbers
    <2> QED
      BY <1>1, <1>2, <2>2, <2>3, <2>4 DEF u
  <1>3. CASE p # NULL
    <2>1. p \in Node /\ side \in Sides /\ elm \in Link
      <3>1. p \in Node
        BY <1>3 DEF Link
      <3> QED
        BY <3>1 DEF Link, Side, Sides
    <2>2. u = SetSide(t1, side, p, elm)
      BY <1>3 DEF AddLeaf, SetSide, t1
    <2> HIDE DEF side, u
    <2>3. /\ u \in RBTrees /\ u.root = t1.root /\ u.parent = t1.parent /\ u.color = t1.color
          /\ u[Other(side)] = t1[Other(side)]
          /\ \A z \in Node : u[side][z] = IF z = p THEN elm ELSE t1[side][z]
      BY <1>1, <2>1, <2>2, SideSet
    <2>4. Sides = {side, Other(side)} /\ side # Other(side)
      BY <2>1, TwoSides
    <2> HIDE DEF u
    <2>5. ASSUME NEW z \in Node, NEW s \in Sides
          PROVE  u[s][z] = IF z = elm THEN NULL ELSE IF z = p /\ s = side THEN elm ELSE t[s][z]
      BY <1>1, <2>3, <2>4
    <2> QED
      BY <1>1, <1>3, <2>3, <2>5 DEF u, side
  <1> QED
    BY <1>2, <1>3

(* The new element is between no other two that have no element there. *)
LEMMA OneGap ==
  ASSUME NEW t, NEW S, NEW lab, Shape(t, S, lab), NEW elm \in Node \ S, NEW p \in S, NEW side \in Sides,
         Before(side, elm, p), t[side][p] = NULL, Within(lab, p, elm),
         NEW z \in S, NEW s \in Sides, t[s][z] = NULL, Before(s, lab[s][z], elm), Before(s, elm, z)
  PROVE  z = p /\ s = side
  <1> DEFINE o == Other(side)
  <1>1. o \in Sides /\ Other(o) = side /\ o # side /\ Sides = {side, o}
    BY TwoSides
  <1>2. /\ p \in Int /\ z \in Int /\ elm \in Int /\ NULL \notin S /\ S \subseteq Int
        /\ lab[side][p] \in Int /\ lab[s][z] \in Int /\ Before(side, lab[side][p], elm)
    BY Labels, Numbers DEF Shape, Within
  <1>3. /\ \A y \in S : ~(Before(side, lab[side][p], y) /\ Before(side, y, p))
        /\ \A y \in S : ~(Before(s, lab[s][z], y) /\ Before(s, y, z))
    BY <1>2 DEF Shape, KidOK
  <1>4. CASE s = side
    <2>1. CASE z = p
      BY <2>1, <1>4
    <2>2. CASE z # p
      <3>1. Before(side, z, p) \/ Before(side, p, z)
        BY <2>2, <1>2 DEF Before
      <3> QED
        BY <3>1, <1>2, <1>3, <1>4, Order
    <2> QED
      BY <2>1, <2>2
  <1>5. CASE s = o
    <2> DEFINE q == lab[side][p]
               r == lab[o][z]
    <2>1. Before(side, z, elm) /\ Before(side, elm, r) /\ Before(side, q, elm) /\ q \in Int /\ r \in Int
      BY <1>1, <1>2, <1>5, Order
    <2>2. q = Far(side) \/ (q \in S /\ Room(lab, p) < Room(lab, q))
      BY Nested
    <2>3. r = Far(o) \/ (r \in S /\ Room(lab, z) < Room(lab, r))
      BY <1>1, Nested
    <2>4. Before(side, Far(side), z) /\ Before(side, p, Far(o)) /\ Far(side) \in Int /\ Far(o) \in Int
      <3>1. z \in Node /\ p \in Node
        BY Labels
      <3> QED
        BY <3>1, <1>1, <1>2, Numbers, Order
    <2>5. /\ \A y \in S : ~(Before(side, q, y) /\ Before(side, y, p))
          /\ \A y \in S : ~(Before(side, z, y) /\ Before(side, y, r))
      BY <1>1, <1>2, <1>3, <1>5, <2>1, Order
    <2> HIDE DEF q, r
    <2>6. q = z
      <3>1. ~Before(side, q, z)
        BY <2>1, <2>5, <1>2, Order
      <3>2. q \in S
        BY <3>1, <2>2, <2>4
      <3>3. ~Before(side, z, q)
        BY <3>2, <2>1, <2>5, <1>2, Order
      <3> QED
        BY <3>1, <3>3, <2>1, <1>2 DEF Before
    <2>7. r = p
      <3>1. ~Before(side, p, r)
        BY <2>1, <2>5, <1>2, Order
      <3>2. r \in S
        BY <3>1, <2>3, <2>4
      <3>3. ~Before(side, r, p)
        BY <3>2, <2>1, <2>5, <1>2, Order
      <3> QED
        BY <3>1, <3>3, <2>1, <1>2 DEF Before
    <2>8. Room(lab, p) < Room(lab, z) /\ Room(lab, z) < Room(lab, p)
      <3>1. q # Far(side) /\ r # Far(o)
        BY <2>4, <2>6, <2>7, <1>1, <1>2, Order
      <3> QED
        BY <3>1, <2>2, <2>3, <2>6, <2>7
    <2>9. Room(lab, p) \in Nat /\ Room(lab, z) \in Nat
      BY Labels
    <2> QED
      BY <2>8, <2>9
  <1> QED
    BY <1>1, <1>4, <1>5

LEMMA LeafAdded ==
  ASSUME NEW t, NEW S, NEW lab, Shape(t, S, lab), NEW g, Heights(t, S, g, NULL, "left"),
         RedRule(t, S, NULL, NULL), ~IsRed(t, t.root), NEW elm \in Node \ S,
         NEW p, \/ p = NULL /\ S = {} /\ t.root = NULL
                \/ p \in S /\ Within(lab, p, elm) /\ t[Side(elm, p)][p] = NULL
  PROVE  LET u == AddLeaf(t, p, elm)
             T == S \cup {elm}
         IN Grown(u, T, elm) /\ Beyond(t, u, T)
  <1> DEFINE T == S \cup {elm}
             side == Side(elm, p)
             o == Other(side)
             u == AddLeaf(t, p, elm)
             new == [s \in Sides |-> [z \in Node |->
                       IF z = elm THEN (IF p = NULL THEN Far(s) ELSE IF s = side THEN lab[side][p] ELSE p)
                       ELSE lab[s][z]]]
             h == [g EXCEPT ![elm] = 0]
  <1>1. /\ t \in RBTrees /\ S \subseteq Node /\ NULL \notin S /\ lab \in [Sides -> [Node -> Int]]
        /\ p \in S \cup {NULL} /\ p \in Link /\ p # elm /\ NULL # elm /\ p \in Int /\ elm \in Int
    BY Numbers DEF Shape, Link
  <1>2. side \in Sides /\ o \in Sides /\ Other(o) = side /\ o # side /\ Sides = {side, o} /\ Before(side, elm, p)
    <2>1. side \in Sides /\ Before(side, elm, p)
      BY <1>1, SideOf
    <2> HIDE DEF side
    <2> QED
      BY <2>1, TwoSides
  <1>3. p # NULL => p \in S /\ Within(lab, p, elm) /\ t[side][p] = NULL
    BY <1>1
  <1>4. p = NULL => S = {} /\ t.root = NULL
    BY <1>1
  <1>5. /\ u \in RBTrees /\ u.root = IF p = NULL THEN elm ELSE t.root
        /\ \A z \in Node :
             /\ u.parent[z] = IF z = elm THEN p ELSE t.parent[z]
             /\ u.color[z] = IF z = elm THEN "RB_RED" ELSE t.color[z]
             /\ \A s \in Sides : u[s][z] = IF z = elm THEN NULL
                                           ELSE IF z = p /\ s = side THEN elm ELSE t[s][z]
    BY <1>1, LeafLinks
  <1> HIDE DEF u, side, o
  <1>6. /\ new \in [Sides -> [Node -> Int]]
        /\ \A s \in Sides : \A z \in Node :
             new[s][z] = IF z = elm THEN (IF p = NULL THEN Far(s) ELSE IF s = side THEN lab[side][p] ELSE p)
                         ELSE lab[s][z]
    <2>1. \A s \in Sides : Far(s) \in Int
      BY Numbers
    <2>2. p # NULL => lab[side][p] \in Int
      BY <1>2, <1>3, Labels
    <2> QED
      BY <1>1, <2>1, <2>2
  <1> HIDE DEF new
  <1>7. ASSUME NEW z \in S
        PROVE  /\ z # elm /\ z \in Node /\ z \in Int
               /\ \A s \in Sides : /\ lab[s][z] \in Int /\ Before(s, lab[s][z], z)
                                   /\ ~Before(s, lab[s][z], Far(s)) /\ KidOK(t, S, lab, s, z)
    BY Labels DEF Shape
  <1>8. ASSUME NEW z \in T, NEW s \in Sides
        PROVE  Before(s, new[s][z], z) /\ ~Before(s, new[s][z], Far(s))
    <2>1. CASE z # elm
      BY <2>1, <1>6, <1>7
    <2>2. CASE z = elm /\ p = NULL
      BY <2>2, <1>6, Numbers, Order
    <2>3. CASE z = elm /\ p # NULL /\ s = side
      BY <2>3, <1>3, <1>6, <1>7 DEF Within
    <2>4. CASE z = elm /\ p # NULL /\ s = o
      <3>1. new[s][z] = p /\ Before(o, p, elm)
        BY <2>4, <1>1, <1>2, <1>6, Order
      <3>2. Before(o, Far(o), p) /\ Far(o) \in Int
        BY <1>1, <1>2, <1>3, <2>4, Numbers
      <3> QED
        BY <3>1, <3>2, <2>4, <1>1, <1>2, Order
    <2> QED
      BY <2>1, <2>2, <2>3, <2>4, <1>2
  <1>9. ASSUME NEW s \in Sides PROVE new[s][u.root] = Far(s)
    <2>1. CASE p = NULL
      BY <2>1, <1>5, <1>6
    <2>2. CASE p # NULL
      <3>1. t.root \in S
        BY <2>2, <1>3 DEF Shape
      <3>2. lab[s][t.root] = Far(s)
        BY <3>1 DEF Shape
      <3> QED
        BY <2>2, <3>1, <3>2, <1>5, <1>6, <1>7
    <2> QED
      BY <2>1, <2>2
  <1>10. ASSUME NEW z \in T, NEW s \in Sides PROVE KidOK(u, T, new, s, z)
    <2>1. CASE z = elm
      <3>1. u[s][elm] = NULL
        BY <1>5
      <3>2. ASSUME NEW y \in T, Before(s, new[s][elm], y), Before(s, y, elm) PROVE FALSE
        <4>1. y \in S
          BY <3>2, <1>1, Order
        <4>2. p # NULL
          BY <4>1, <1>4
        <4>3. \A v \in S : ~(Before(side, lab[side][p], v) /\ Before(side, v, p))
          BY <4>2, <1>1, <1>2, <1>3, <1>7 DEF KidOK
        <4>4. lab[side][p] \in Int /\ Before(side, lab[side][p], elm) /\ y \in Int
          BY <4>1, <4>2, <1>2, <1>3, <1>7 DEF Within
        <4>5. CASE s = side
          <5>1. Before(side, lab[side][p], y)
            BY <4>2, <4>5, <3>2, <1>6
          <5>2. Before(side, y, p)
            BY <4>4, <4>5, <3>2, <1>1, <1>2, Order
          <5> QED
            BY <5>1, <5>2, <4>1, <4>3
        <4>6. CASE s = o
          <5>1. Before(o, p, y) /\ Before(o, y, elm)
            BY <4>2, <4>6, <3>2, <1>2, <1>6
          <5>2. Before(side, y, p) /\ Before(side, elm, y)
            BY <5>1, <4>4, <1>1, <1>2, Order
          <5>3. Before(side, lab[side][p], y)
            BY <5>2, <4>4, <1>1, <1>2, Order
          <5> QED
            BY <5>2, <5>3, <4>1, <4>3
        <4> QED
          BY <4>5, <4>6, <1>2
      <3> QED
        BY <2>1, <3>1, <3>2 DEF KidOK
    <2>2. CASE z = p /\ s = side
      <3>1. p # NULL /\ p \in S
        BY <2>2, <1>1
      <3>2. u[s][z] = elm /\ new[s][z] = lab[side][p]
        BY <2>2, <3>1, <1>1, <1>5, <1>6, <1>7
      <3>3. u.parent[elm] = p /\ new[side][elm] = lab[side][p] /\ new[o][elm] = p
        BY <3>1, <1>2, <1>5, <1>6
      <3> QED
        BY <2>2, <3>2, <3>3 DEF KidOK, o
    <2>3. CASE z \in S /\ ~(z = p /\ s = side)
      <3>1. u[s][z] = t[s][z] /\ new[s][z] = lab[s][z]
        BY <2>3, <1>5, <1>6, <1>7
      <3>2. CASE t[s][z] = NULL
        <4>1. \A y \in S : ~(Before(s, lab[s][z], y) /\ Before(s, y, z))
          BY <2>3, <3>2, <1>1, <1>7 DEF KidOK
        <4>2. ~(Before(s, lab[s][z], elm) /\ Before(s, elm, z))
          <5>1. p # NULL
            BY <2>3, <1>4
          <5> QED
            BY <5>1, <2>3, <3>2, <1>2, <1>3, OneGap
        <4> QED
          BY <3>1, <3>2, <4>1, <4>2 DEF KidOK
      <3>3. CASE t[s][z] # NULL
        <4> DEFINE k == t[s][z]
        <4>1. k \in S /\ t.parent[k] = z /\ lab[s][k] = lab[s][z] /\ lab[Other(s)][k] = z
          BY <2>3, <3>3, Kid
        <4>2. k # elm /\ k \in Node
          BY <4>1, <1>7
        <4>3. Other(s) \in Sides
          BY TwoSides
        <4>4. u.parent[k] = z /\ new[s][k] = lab[s][k] /\ new[Other(s)][k] = z
          BY <4>1, <4>2, <4>3, <1>5, <1>6
        <4> QED
          BY <3>1, <4>1, <4>4 DEF KidOK
      <3> QED
        BY <3>2, <3>3
    <2> QED
      BY <2>1, <2>2, <2>3
  <1>11. ASSUME NEW z \in T PROVE Attached(u, T, z)
    <2>1. CASE z = elm
      <3>1. CASE p = NULL
        BY <2>1, <3>1, <1>5 DEF Attached
      <3>2. CASE p # NULL
        <4>1. u.root # elm
          BY <3>2, <1>1, <1>5, Numbers DEF Shape
        <4>2. u.parent[elm] = p /\ p \in T /\ u[side][p] = elm
          BY <3>2, <1>1, <1>2, <1>3, <1>5, <1>7
        <4> QED
          BY <2>1, <4>1, <4>2, <1>2 DEF Attached
      <3> QED
        BY <3>1, <3>2
    <2>2. CASE z # elm
      <3>1. Attached(t, S, z) /\ z \in S /\ z \in Node
        BY <2>2, <1>7 DEF Shape
      <3>2. u.root = t.root /\ u.parent[z] = t.parent[z]
        BY <2>2, <3>1, <1>4, <1>5
      <3>3. CASE z = t.root
        BY <3>1, <3>2, <3>3 DEF Attached
      <3>4. CASE z # t.root
        <4>1. t.parent[z] \in S /\ \E s \in Sides : t[s][t.parent[z]] = z
          BY <3>1, <3>4 DEF Attached
        <4>2. PICK s \in Sides : t[s][t.parent[z]] = z
          BY <4>1
        <4>3. u[s][t.parent[z]] = z
          <5>1. t.parent[z] # elm /\ t.parent[z] \in Node /\ z # NULL /\ t.parent[z] # NULL
            BY <4>1, <3>1, <1>1, <1>7
          <5>2. ~(t.parent[z] = p /\ s = side)
            BY <5>1, <4>2, <1>3
          <5> QED
            BY <5>1, <5>2, <4>2, <1>5
        <4> QED
          BY <3>2, <3>4, <4>1, <4>3 DEF Attached
      <3> QED
        BY <3>3, <3>4
    <2> QED
      BY <2>1, <2>2
  <1>12. u.root \in T
    BY <1>3, <1>5 DEF Shape
  <1>13. Shape(u, T, new)
    <2>1. T \in SUBSET Node /\ u.root # NULL
      BY <1>1, <1>12, Numbers
    <2> HIDE DEF T
    <2> QED
      BY <2>1, <1>5, <1>6, <1>8, <1>9, <1>10, <1>11, <1>12 DEF Shape
  <1>14. \A z \in Node : z # elm => (IsRed(u, z) <=> IsRed(t, z))
    BY <1>5 DEF IsRed
  <1>15. IsRed(u, elm)
    BY <1>1, <1>5 DEF IsRed
  <1>16. /\ g \in [Link -> Nat] /\ g[NULL] = 0 /\ Node \subseteq Link
         /\ \A z \in S : \A s \in Sides : g[z] = g[t[s][z]] + Black(t, z) + Lack(NULL, "left", z, s)
         /\ \A z \in S : \A s \in Sides : t[s][z] \in S \cup {NULL} /\ t[s][z] # elm
    <2>1. ASSUME NEW z \in S, NEW s \in Sides PROVE t[s][z] \in S \cup {NULL} /\ t[s][z] # elm
      BY <1>1, Kid
    <2> QED
      BY <2>1 DEF Heights, Link
  <1>17. h \in [Link -> Nat] /\ h[NULL] = 0 /\ h[elm] = 0 /\ \A k \in Link : k # elm => h[k] = g[k]
    BY <1>1, <1>16
  <1> HIDE DEF h
  <1>18. ASSUME NEW z \in T, NEW s \in Sides
         PROVE  h[z] = h[u[s][z]] + Black(u, z) + Lack(NULL, "left", z, s)
    <2>0. Lack(NULL, "left", z, s) = 0
      BY <1>1 DEF Lack
    <2>1. CASE z = elm
      BY <2>0, <2>1, <1>5, <1>15, <1>17 DEF Black
    <2>2. CASE z # elm
      <3>1. /\ z \in S /\ z \in Node /\ z \in Link /\ h[z] = g[z] /\ Black(u, z) = Black(t, z)
            /\ g[z] = g[t[s][z]] + Black(t, z) + Lack(NULL, "left", z, s)
        BY <2>2, <1>1, <1>14, <1>16, <1>17 DEF Black
      <3>2. h[u[s][z]] = g[t[s][z]]
        <4>1. CASE z = p /\ s = side
          <5>1. u[s][z] = elm /\ t[s][z] = NULL
            BY <4>1, <3>1, <2>2, <1>1, <1>3, <1>5
          <5> QED
            BY <5>1, <1>16, <1>17
        <4>2. CASE ~(z = p /\ s = side)
          <5>1. u[s][z] = t[s][z]
            BY <4>2, <3>1, <2>2, <1>5
          <5>2. t[s][z] \in Link /\ t[s][z] # elm
            BY <3>1, <1>1, <1>16 DEF Link
          <5> QED
            BY <5>1, <5>2, <1>17
        <4> QED
          BY <4>1, <4>2
      <3> QED
        BY <3>1, <3>2
    <2> QED
      BY <2>1, <2>2
  <1>19. Heights(u, T, h, NULL, "left")
    BY <1>17, <1>18 DEF Heights
  <1>20. ASSUME NEW z \in T, NEW s \in Sides, IsRed(u, z), IsRed(u, u[s][z]) PROVE u[s][z] = elm
    <2>1. z # elm
      BY <1>5, <1>20 DEF IsRed
    <2>2. SUFFICES ASSUME u[s][z] # elm PROVE FALSE
      OBVIOUS
    <2>3. z \in S /\ z \in Node /\ u[s][z] = t[s][z]
      BY <2>1, <2>2, <1>5, <1>7
    <2>4. t[s][z] \in Node
      BY <2>3, <1>1, <1>16, <1>20 DEF IsRed
    <2>5. IsRed(t, z) /\ IsRed(t, t[s][z])
      BY <2>1, <2>2, <2>3, <2>4, <1>14, <1>20
    <2> QED
      BY <2>3, <2>5, <1>1 DEF RedRule, IsRed
  <1>21. IsRed(u, u.root) => u.root = elm
    <2>1. CASE p = NULL
      BY <2>1, <1>5
    <2>2. CASE p # NULL
      <3>1. u.root = t.root /\ t.root \in S
        BY <2>2, <1>3, <1>5 DEF Shape
      <3> QED
        BY <3>1, <1>7, <1>14
    <2> QED
      BY <2>1, <2>2
  <1>22. Grown(u, T, elm)
    BY <1>13, <1>15, <1>19, <1>20, <1>21 DEF Grown, RedRule
  <1>23. Beyond(t, u, T)
    BY <1>5 DEF Beyond
  <1> QED
    BY <1>22, <1>23 DEF u

(* What holds of the tree between calls. *)
IsRB(t, S) == Sound(t, S) /\ \A z \in Node \ S : t.parent[z] = NULL

LEMMA RBInserted ==
  ASSUME NEW t, NEW S, IsRB(t, S), NEW elm \in Node \ S
  PROVE  IsRB(InsertElm(t, Search(t, elm).parent, elm), S \cup {elm})
  <1> DEFINE p == Search(t, elm).parent
             T == S \cup {elm}
             v == AddLeaf(t, p, elm)
             u == InsertColor(v, elm)
  <1>1. PICK lab : Shape(t, S, lab)
    BY DEF IsRB, Sound
  <1>2. PICK g : Heights(t, S, g, NULL, "left")
    BY DEF IsRB, Sound
  <1>3. \/ p = NULL /\ S = {} /\ t.root = NULL
        \/ p \in S /\ Within(lab, p, elm) /\ t[Side(elm, p)][p] = NULL
    BY <1>1, Searches
  <1>4. InsertElm(t, p, elm) = u
    BY DEF InsertElm, AddLeaf
  <1> HIDE DEF p
  <1>5. Grown(v, T, elm) /\ Beyond(t, v, T)
    BY <1>1, <1>2, <1>3, LeafAdded DEF IsRB, Sound
  <1> HIDE DEF v, T
  <1>6. Sound(u, T) /\ Beyond(v, u, T)
    BY <1>5, InsertColored
  <1> HIDE DEF u
  <1>7. IsRB(u, T)
    BY <1>5, <1>6 DEF IsRB, Beyond, T
  <1> QED
    BY <1>4, <1>7 DEF p, T

-----------------------------------------------------------------------------
(* An element that has one child at most is taken out. *)
LEMMA TakeOutLinks ==
  ASSUME NEW t \in RBTrees, NEW elm \in Node, Placing(t, t.parent[elm], elm)
  PROVE  LET u == TakeOut(t, elm)
             c == ChildOf(t, elm)
             p == t.parent[elm]
         IN /\ u \in RBTrees /\ u.root = (IF p = NULL THEN c ELSE t.root) /\ u.color = t.color
            /\ \A z \in Node :
                 /\ u.parent[z] = IF z = c THEN p ELSE t.parent[z]
                 /\ \A s \in Sides : u[s][z] = IF z = p /\ t[s][z] = elm THEN c ELSE t[s][z]
  <1> DEFINE c == ChildOf(t, elm)
             p == t.parent[elm]
             v == SetParent(t, c, p)
             u == Relink(v, p, elm, c)
  <1>1. c \in Link /\ p \in Link
    BY DEF RBTrees, ChildOf
  <1>2. /\ v \in RBTrees /\ v.root = t.root /\ v.left = t.left /\ v.right = t.right /\ v.color = t.color
        /\ \A z \in Node : v.parent[z] = IF z = c THEN p ELSE t.parent[z]
    <2> HIDE DEF c, p
    <2> QED
      BY <1>1, ParentSet
  <1> HIDE DEF v
  <1>3. \A s \in Sides : v[s] = t[s]
    BY <1>2 DEF Sides
  <1>4. Placing(v, p, elm)
    BY <1>3, TwoSides DEF Placing
  <1>5. /\ u \in RBTrees /\ u.parent = v.parent /\ u.color = v.color
        /\ u.root = IF p = NULL THEN c ELSE v.root
        /\ \A s \in Sides : \A z \in Node : u[s][z] = IF z = p /\ v[s][z] = elm THEN c ELSE v[s][z]
    <2> HIDE DEF c, p
    <2> QED
      BY <1>1, <1>2, <1>4, Relinked
  <1>6. TakeOut(t, elm) = u
    BY DEF TakeOut, v
  <1> HIDE DEF u, c, p
  <1> QED
    BY <1>2, <1>3, <1>5, <1>6 DEF c, p

LEMMA ChildOfIs ==
  ASSUME NEW t, NEW S, NEW lab, Shape(t, S, lab), NEW elm \in S, NULL \in {t.left[elm], t.right[elm]}
  PROVE  \E side \in Sides : t[side][elm] = NULL /\ t[Other(side)][elm] = ChildOf(t, elm)
  <1>1. CASE t.left[elm] = NULL
    <2>1. "left" \in Sides /\ Other("left") = "right" /\ t["left"] = t.left /\ t["right"] = t.right
      BY DEF Sides, Other, Shape, RBTrees
    <2> QED
      BY <1>1, <2>1 DEF ChildOf
  <1>2. CASE t.left[elm] # NULL
    <2>1. "right" \in Sides /\ Other("right") = "left" /\ t["left"] = t.left /\ t["right"] = t.right
      BY DEF Sides, Other, Shape, RBTrees
    <2> QED
      BY <1>2, <2>1 DEF ChildOf
  <1> QED
    BY <1>1, <1>2

LEMMA ShapeTakenOut ==
  ASSUME NEW t, NEW S, NEW lab, Shape(t, S, lab), NEW elm \in S, NULL \in {t.left[elm], t.right[elm]}
  PROVE  LET u == TakeOut(t, elm)
         IN (\E l : Shape(u, S \ {elm}, l)) /\ Beyond(t, u, S)
  <1> DEFINE T == S \ {elm}
             u == TakeOut(t, elm)
             c == ChildOf(t, elm)
             p == t.parent[elm]
             new == [s \in Sides |-> [z \in Node |-> IF lab[s][z] = elm THEN lab[s][elm] ELSE lab[s][z]]]
  <1>1. PICK d \in Sides : t[d][elm] = NULL /\ t[Other(d)][elm] = c
    BY ChildOfIs
  <1>2. /\ t \in RBTrees /\ S \subseteq Node /\ NULL \notin S /\ elm \in Node /\ elm \in Int /\ elm # NULL
        /\ lab \in [Sides -> [Node -> Int]]
    BY Numbers DEF Shape
  <1>3. /\ Placing(t, p, elm) /\ p \in S \cup {NULL} /\ p # elm /\ (p = NULL <=> elm = t.root)
    BY Places
  <1>4. /\ u \in RBTrees /\ u.root = (IF p = NULL THEN c ELSE t.root)
        /\ \A z \in Node :
             /\ u.parent[z] = IF z = c THEN p ELSE t.parent[z]
             /\ \A s \in Sides : u[s][z] = IF z = p /\ t[s][z] = elm THEN c ELSE t[s][z]
    BY <1>2, <1>3, TakeOutLinks
  <1>5. ASSUME NEW z \in S
        PROVE  /\ z \in Node /\ z \in Int
               /\ \A s \in Sides : /\ lab[s][z] \in Int /\ Before(s, lab[s][z], z) /\ lab[s][z] # z
                                   /\ ~Before(s, lab[s][z], Far(s)) /\ KidOK(t, S, lab, s, z)
    <2>1. z \in Node /\ z \in Int /\ \A s \in Sides : lab[s][z] \in Int /\ Before(s, lab[s][z], z)
      BY Labels
    <2>2. \A s \in Sides : lab[s][z] # z
      BY <2>1, Order
    <2> QED
      BY <2>1, <2>2 DEF Shape
  <1>6. /\ new \in [Sides -> [Node -> Int]]
        /\ \A s \in Sides : \A z \in Node : new[s][z] = IF lab[s][z] = elm THEN lab[s][elm] ELSE lab[s][z]
    BY <1>2
  <1> HIDE DEF u, new, c, p
  <1>7. c # NULL => /\ c \in T /\ c \in Node /\ t.parent[c] = elm /\ c # t.root
                    /\ \A s \in Sides : new[s][c] = lab[s][elm]
    <2>1. SUFFICES ASSUME c # NULL
                   PROVE  /\ c \in T /\ c \in Node /\ t.parent[c] = elm /\ c # t.root
                          /\ \A s \in Sides : new[s][c] = lab[s][elm]
      OBVIOUS
    <2>2. Other(d) \in Sides /\ Other(Other(d)) = d /\ Sides = {d, Other(d)}
      BY TwoSides
    <2>3. /\ c \in S /\ c \in Node /\ c # elm /\ c # t.root /\ t.parent[c] = elm
          /\ lab[Other(d)][c] = lab[Other(d)][elm] /\ lab[d][c] = elm
      BY <1>1, <2>1, <2>2, Kid
    <2>4. lab[Other(d)][elm] # elm
      BY <2>2, <1>5
    <2> QED
      BY <2>2, <2>3, <2>4, <1>2, <1>6
  (* The gaps beside elm, if it has no child there. *)
  <1>8. ASSUME NEW s \in Sides, t[s][elm] = NULL, NEW y \in S
        PROVE  ~(Before(s, lab[s][elm], y) /\ Before(s, y, elm))
    BY <1>2, <1>5, <1>8 DEF KidOK
  (* elm is the label of what is below it. *)
  <1>9. ASSUME NEW z \in S, NEW s \in Sides, lab[s][z] = elm
        PROVE  t[s][elm] = NULL
    <2> DEFINE o == Other(s)
    <2>1. o \in Sides /\ Other(o) = s /\ Sides = {s, o}
      BY TwoSides
    <2>2. elm # Far(s)
      BY <1>2, Numbers DEF Before
    <2>3. ~Before(o, lab[o][z], lab[o][elm])
      BY <1>9, <2>2, Nested
    <2>4. Before(o, lab[o][z], z) /\ lab[o][z] \in Int /\ z \in Int /\ lab[o][elm] \in Int
      BY <2>1, <1>5
    <2> HIDE DEF o
    <2>5. Before(o, lab[o][elm], z)
      BY <2>1, <2>3, <2>4 DEF Before
    <2>6. Before(o, z, elm)
      <3>1. Before(s, elm, z)
        BY <1>5, <1>9
      <3> QED
        BY <3>1, <2>4, <1>2, Order DEF o
    <2>7. t[o][elm] # NULL
      BY <2>1, <2>5, <2>6, <1>8
    <2> QED
      BY <2>1, <2>7, <1>1
  <1>10. ASSUME NEW z \in T, NEW s \in Sides
         PROVE  Before(s, new[s][z], z) /\ ~Before(s, new[s][z], Far(s))
    <2>1. CASE lab[s][z] = elm
      <3>1. Before(s, lab[s][elm], elm) /\ Before(s, elm, z)
        BY <2>1, <1>5
      <3>2. Before(s, lab[s][elm], z)
        BY <3>1, <1>2, <1>5, Order
      <3> QED
        BY <3>2, <2>1, <1>5, <1>6
    <2>2. CASE lab[s][z] # elm
      BY <2>2, <1>5, <1>6
    <2> QED
      BY <2>1, <2>2
  <1>11. ASSUME NEW z \in T, NEW s \in Sides PROVE KidOK(u, T, new, s, z)
    <2> DEFINE k == t[s][z]
               o == Other(s)
    <2>1. o \in Sides /\ Other(o) = s /\ Sides = {s, o} /\ z \in S /\ z # elm
      BY TwoSides
    <2>2. CASE k = NULL
      <3>1. u[s][z] = NULL
        BY <2>1, <2>2, <1>2, <1>4, <1>5
      <3>2. \A y \in S : ~(Before(s, lab[s][z], y) /\ Before(s, y, z))
        BY <2>1, <2>2, <1>2, <1>5 DEF KidOK
      <3>3. ASSUME NEW y \in T, Before(s, new[s][z], y), Before(s, y, z) PROVE FALSE
        <4>1. CASE lab[s][z] # elm
          BY <4>1, <3>2, <3>3, <1>5, <1>6
        <4>2. CASE lab[s][z] = elm
          <5>1. t[s][elm] = NULL
            BY <2>1, <4>2, <1>9
          <5>2. Before(s, lab[s][elm], y)
            BY <2>1, <4>2, <3>3, <1>5, <1>6
          <5>3. ~Before(s, y, elm)
            BY <5>1, <5>2, <1>8
          <5>4. ~Before(s, elm, y)
            BY <3>2, <3>3, <4>2
          <5> QED
            BY <5>3, <5>4, <1>2, <1>5 DEF Before
        <4> QED
          BY <4>1, <4>2
      <3> QED
        BY <3>1, <3>3 DEF KidOK
    <2>3. CASE k # NULL /\ k # elm
      <3>1. k \in S /\ k \in Node /\ t.parent[k] = z /\ lab[s][k] = lab[s][z] /\ lab[o][k] = z
        BY <2>1, <2>3, Kid
      <3>2. u[s][z] = k
        BY <2>1, <2>3, <1>4, <1>5
      <3>3. u.parent[k] = z
        <4>1. k # c
          BY <2>1, <2>3, <3>1, <1>7
        <4> QED
          BY <4>1, <3>1, <1>4
      <3>4. new[s][k] = new[s][z] /\ new[o][k] = z
        BY <2>1, <3>1, <1>5, <1>6
      <3> QED
        BY <2>3, <3>1, <3>2, <3>3, <3>4 DEF KidOK
    <2>4. CASE k = elm
      <3>1. z = p /\ lab[s][elm] = lab[s][z] /\ lab[o][elm] = z
        BY <2>1, <2>4, <1>2, Kid DEF p
      <3>2. u[s][z] = c /\ new[s][z] = lab[s][elm]
        BY <2>4, <3>1, <2>1, <1>4, <1>5, <1>6
      <3>3. CASE c = NULL
        <4>1. t[s][elm] = NULL /\ t[o][elm] = NULL
          BY <3>3, <2>1, <1>1, TwoSides
        <4>2. ASSUME NEW y \in T, Before(s, lab[s][elm], y), Before(s, y, z) PROVE FALSE
          <5>1. ~Before(s, y, elm)
            BY <4>1, <4>2, <1>8
          <5>2. Before(o, lab[o][elm], y) /\ y \in Int
            BY <4>2, <3>1, <1>5, <2>1, Order
          <5>3. ~Before(o, y, elm)
            BY <5>2, <4>1, <2>1, <1>8
          <5>4. ~Before(s, elm, y)
            BY <5>2, <5>3, <2>1, <1>2, Order
          <5> QED
            BY <5>1, <5>2, <5>4, <1>2 DEF Before
        <4> QED
          BY <3>2, <3>3, <4>2 DEF KidOK
      <3>4. CASE c # NULL
        BY <3>1, <3>2, <3>4, <2>1, <1>4, <1>7 DEF KidOK
      <3> QED
        BY <3>3, <3>4
    <2> QED
      BY <2>2, <2>3, <2>4
  <1>12. ASSUME NEW z \in T PROVE Attached(u, T, z)
    <2>1. z \in S /\ z # elm /\ z \in Node
      BY <1>5
    <2>2. CASE z = c
      <3>1. u.parent[c] = p
        BY <2>1, <2>2, <1>4
      <3>2. CASE p = NULL
        BY <2>2, <3>1, <3>2, <1>4 DEF Attached
      <3>3. CASE p # NULL
        <4>1. u.root # c
          BY <2>1, <2>2, <3>3, <1>2, <1>4, <1>7
        <4>2. p \in T /\ p \in Node
          BY <3>3, <1>2, <1>3
        <4>3. PICK s \in Sides : t[s][p] = elm
          BY <3>3, <1>3 DEF Placing
        <4>4. u[s][p] = c
          BY <4>2, <4>3, <1>4
        <4> QED
          BY <2>2, <3>1, <4>1, <4>2, <4>4 DEF Attached
      <3> QED
        BY <3>2, <3>3
    <2>3. CASE z # c
      <3>1. u.parent[z] = t.parent[z] /\ Attached(t, S, z)
        BY <2>1, <2>3, <1>4 DEF Shape
      <3>2. CASE z = t.root
        <4>1. u.root = z
          BY <2>1, <3>2, <1>3, <1>4
        <4> QED
          BY <3>1, <3>2, <4>1 DEF Attached
      <3>3. CASE z # t.root
        <4>1. t.parent[z] \in S /\ \E s \in Sides : t[s][t.parent[z]] = z
          BY <3>1, <3>3 DEF Attached
        <4>2. PICK s \in Sides : t[s][t.parent[z]] = z
          BY <4>1
        <4>3. t.parent[z] # elm
          <5>1. SUFFICES ASSUME t.parent[z] = elm PROVE FALSE
            OBVIOUS
          <5>2. t[s][elm] = z /\ z # NULL
            BY <5>1, <4>2, <2>1, <1>2
          <5> QED
            BY <5>2, <2>3, <1>1, TwoSides
        <4>4. u[s][t.parent[z]] = z
          BY <4>1, <4>2, <2>1, <1>2, <1>4
        <4>5. u.root # z
          BY <2>3, <3>3, <1>4
        <4> QED
          BY <3>1, <4>1, <4>3, <4>4, <4>5 DEF Attached
      <3> QED
        BY <3>2, <3>3
    <2> QED
      BY <2>2, <2>3
  <1>13. u.root \in T \cup {NULL} /\ (u.root = NULL => T = {})
    <2>1. CASE p = NULL /\ c = NULL
      <3>1. ASSUME NEW y \in T PROVE FALSE
        <4>1. y \in Node /\ y \in Int /\ y # elm
          BY <1>5
        <4>2. ASSUME NEW s \in Sides PROVE ~Before(s, y, elm)
          <5>1. t[s][elm] = NULL
            BY <2>1, <1>1, TwoSides
          <5>2. lab[s][elm] = Far(s)
            BY <2>1, <1>3 DEF Shape
          <5>3. Before(s, lab[s][elm], y)
            BY <5>2, <4>1, Numbers
          <5> QED
            BY <5>1, <5>3, <1>8
        <4>3. ~(y < elm) /\ ~(elm < y)
          BY <4>2 DEF Before, Sides
        <4> QED
          BY <4>1, <4>3, <1>2
      <3> QED
        BY <3>1, <2>1, <1>4
    <2>2. CASE p = NULL /\ c # NULL
      BY <2>2, <1>4, <1>7
    <2>3. CASE p # NULL
      <3>1. t.root \in S /\ t.root # elm
        BY <2>3, <1>3 DEF Shape
      <3> QED
        BY <2>3, <3>1, <1>2, <1>4
    <2> QED
      BY <2>1, <2>2, <2>3
  <1>14. ASSUME NEW s \in Sides, u.root \in T PROVE new[s][u.root] = Far(s)
    <2>1. CASE p = NULL
      <3>1. lab[s][elm] = Far(s) /\ u.root = c /\ c # NULL
        BY <2>1, <1>2, <1>3, <1>4, <1>14 DEF Shape
      <3> QED
        BY <3>1, <1>7
    <2>2. CASE p # NULL
      <3>1. t.root \in S /\ u.root = t.root
        BY <2>2, <1>3, <1>4 DEF Shape
      <3>2. lab[s][t.root] = Far(s) /\ elm # Far(s)
        BY <3>1, <1>2, Numbers DEF Shape, Before
      <3> QED
        BY <3>1, <3>2, <1>5, <1>6
    <2> QED
      BY <2>1, <2>2
  <1>15. Shape(u, T, new)
    <2>1. T \in SUBSET Node
      BY <1>2
    <2> HIDE DEF T
    <2> QED
      BY <2>1, <1>4, <1>6, <1>10, <1>11, <1>12, <1>13, <1>14 DEF Shape
  <1>16. Beyond(t, u, S)
    <2>1. \A z \in Node \ S : z # c
      BY <1>7, Numbers
    <2> QED
      BY <2>1, <1>4 DEF Beyond
  <1> QED
    BY <1>15, <1>16 DEF u

(* The tree as RB_REMOVE_COLOR finds it: all is well, but that the paths   *)
(* through elm, below parent, may lack a black element, and that elm may   *)
(* be red below a red element, or above one, or be a red root.             *)
Shrunk(t, S, parent, elm) ==
  /\ \E lab : Shape(t, S, lab)
  /\ \E g : \/ elm = t.root /\ Heights(t, S, g, NULL, "left")
            \/ parent \in S /\ \E side \in Sides : t[side][parent] = elm /\ Heights(t, S, g, parent, side)
  /\ RedRule(t, S, elm, elm)
  /\ IsRed(t, t.root) => t.root = elm

LEMMA TakenOut ==
  ASSUME NEW t, NEW S, Sound(t, S), NEW elm \in S, NULL \in {t.left[elm], t.right[elm]}
  PROVE  LET u == TakeOut(t, elm)
             T == S \ {elm}
         IN /\ Beyond(t, u, S)
            /\ IsRed(t, elm) => Sound(u, T)
            /\ ~IsRed(t, elm) => Shrunk(u, T, t.parent[elm], ChildOf(t, elm))
  <1> DEFINE T == S \ {elm}
             u == TakeOut(t, elm)
             c == ChildOf(t, elm)
             p == t.parent[elm]
  <1>1. PICK lab : Shape(t, S, lab)
    BY DEF Sound
  <1>2. PICK g : Heights(t, S, g, NULL, "left")
    BY DEF Sound
  <1>3. PICK d \in Sides : t[d][elm] = NULL /\ t[Other(d)][elm] = c
    BY <1>1, ChildOfIs
  <1>4. (\E l : Shape(u, T, l)) /\ Beyond(t, u, S)
    BY <1>1, ShapeTakenOut
  <1>5. t \in RBTrees /\ S \subseteq Node /\ NULL \notin S /\ elm \in Node /\ elm # NULL
    BY <1>1, Numbers DEF Shape
  <1>6. Placing(t, p, elm) /\ p \in S \cup {NULL} /\ p # elm /\ (p = NULL <=> elm = t.root)
    BY <1>1, Places
  <1>7. /\ u.root = (IF p = NULL THEN c ELSE t.root) /\ u.color = t.color
        /\ \A z \in Node : \A s \in Sides : u[s][z] = IF z = p /\ t[s][z] = elm THEN c ELSE t[s][z]
    BY <1>5, <1>6, TakeOutLinks
  <1>8. Other(d) \in Sides /\ Other(Other(d)) = d /\ Sides = {d, Other(d)}
    BY TwoSides
  <1> HIDE DEF u, c, p, T
  <1>9. \A z : IsRed(u, z) <=> IsRed(t, z)
    BY <1>7 DEF IsRed
  <1>10. /\ g \in [Link -> Nat] /\ g[NULL] = 0 /\ Node \subseteq Link
         /\ \A z \in S : \A s \in Sides : /\ g[z] = g[t[s][z]] + Black(t, z) /\ t[s][z] \in Link
                                          /\ g[t[s][z]] \in Nat /\ g[z] \in Nat
    <2>1. /\ g \in [Link -> Nat] /\ g[NULL] = 0 /\ Node \subseteq Link
          /\ \A z \in S : \A s \in Sides : g[z] = g[t[s][z]] + Black(t, z) + Lack(NULL, "left", z, s)
      BY <1>2 DEF Heights, Link
    <2>2. ASSUME NEW z \in S, NEW s \in Sides
          PROVE  /\ g[z] = g[t[s][z]] + Black(t, z) /\ t[s][z] \in Link
                 /\ g[t[s][z]] \in Nat /\ g[z] \in Nat
      <3>1. t[s][z] \in Link /\ z \in Link
        BY <1>5, <2>1, RBType
      <3>2. g[t[s][z]] \in Nat /\ g[z] \in Nat /\ Black(t, z) \in Nat
        BY <3>1, <2>1 DEF Black
      <3>3. Lack(NULL, "left", z, s) = 0
        BY <1>5 DEF Lack
      <3> QED
        BY <3>1, <3>2, <3>3, <2>1
    <2> QED
      BY <2>1, <2>2
  <1>11. c \in Link /\ g[elm] = g[c] + Black(t, elm) /\ g[c] \in Nat
    BY <1>3, <1>8, <1>10
  <1>12. ASSUME NEW z \in T, NEW s \in Sides
         PROVE  /\ ~(z = p /\ t[s][z] = elm) => g[z] = g[u[s][z]] + Black(u, z)
                /\ z = p /\ t[s][z] = elm => g[z] = g[u[s][z]] + Black(u, z) + Black(t, elm)
    <2>1. z \in S /\ z \in Node /\ z # elm
      BY <1>5 DEF T
    <2>2. Black(u, z) = Black(t, z) /\ Black(t, z) \in Nat /\ Black(t, elm) \in Nat
      BY <1>9 DEF Black
    <2>3. u[s][z] = IF z = p /\ t[s][z] = elm THEN c ELSE t[s][z]
      BY <2>1, <1>7
    <2>4. CASE ~(z = p /\ t[s][z] = elm)
      BY <2>1, <2>2, <2>3, <2>4, <1>10
    <2>5. CASE z = p /\ t[s][z] = elm
      BY <2>1, <2>2, <2>3, <2>5, <1>10, <1>11
    <2> QED
      BY <2>4, <2>5
  <1>13. ASSUME NEW z \in T, NEW s \in Sides, IsRed(u, z), IsRed(u, u[s][z])
         PROVE  z = p /\ t[s][z] = elm /\ u[s][z] = c /\ ~IsRed(t, elm)
    <2>1. z \in S /\ z \in Node /\ IsRed(t, z)
      BY <1>5, <1>9, <1>13 DEF T
    <2>2. u[s][z] = IF z = p /\ t[s][z] = elm THEN c ELSE t[s][z]
      BY <2>1, <1>7
    <2>3. ASSUME NEW k, k = t[s][z] PROVE ~IsRed(t, k)
      BY <2>1, <2>3, <1>5 DEF Sound, RedRule, IsRed
    <2> QED
      BY <2>2, <2>3, <1>9, <1>13
  <1>14. IsRed(u, u.root) => p = NULL /\ u.root = c
    BY <1>7, <1>9 DEF Sound
  <1>15. ASSUME IsRed(t, elm) PROVE Sound(u, T)
    <2>1. p # NULL
      BY <1>6, <1>15 DEF Sound
    <2>2. ~IsRed(u, u.root)
      BY <2>1, <1>14
    <2>3. RedRule(u, T, NULL, NULL)
      BY <1>13, <1>15 DEF RedRule
    <2>4. ASSUME NEW z \in T, NEW s \in Sides
          PROVE  g[z] = g[u[s][z]] + Black(u, z) + Lack(NULL, "left", z, s)
      <3>1. Black(t, elm) = 0
        BY <1>15 DEF Black
      <3>2. Lack(NULL, "left", z, s) = 0 /\ z \in S /\ z \in Node
        BY <1>5 DEF Lack, T
      <3>3. u[s][z] \in Link
        BY <3>2, <1>7, <1>10, <1>11
      <3>4. g[u[s][z]] \in Nat /\ Black(u, z) \in Nat
        BY <3>3, <1>10 DEF Black
      <3> QED
        BY <3>1, <3>2, <3>4, <1>12
    <2>5. Heights(u, T, g, NULL, "left")
      BY <2>4, <1>10 DEF Heights
    <2> QED
      BY <2>2, <2>3, <2>5, <1>4 DEF Sound
  <1>16. ASSUME ~IsRed(t, elm) PROVE Shrunk(u, T, p, c)
    <2>1. RedRule(u, T, c, c)
      BY <1>13 DEF RedRule
    <2>2. IsRed(u, u.root) => u.root = c
      BY <1>14
    <2>3. CASE p = NULL
      <3>1. c = u.root
        BY <2>3, <1>7
      <3>2. ASSUME NEW z \in T, NEW s \in Sides
            PROVE  g[z] = g[u[s][z]] + Black(u, z) + Lack(NULL, "left", z, s)
        <4>2. Lack(NULL, "left", z, s) = 0 /\ z \in S /\ z \in Node /\ z # p
          BY <2>3, <1>5 DEF Lack, T
        <4>3. u[s][z] \in Link
          BY <4>2, <1>7, <1>10, <1>11
        <4>4. g[u[s][z]] \in Nat /\ Black(u, z) \in Nat
          BY <4>3, <1>10 DEF Black
        <4> QED
          BY <4>2, <4>4, <1>12
      <3>3. Heights(u, T, g, NULL, "left")
        BY <3>2, <1>10 DEF Heights
      <3> QED
        BY <2>1, <2>2, <3>1, <3>3, <1>4 DEF Shrunk
    <2>4. CASE p # NULL
      <3>1. PICK e \in Sides : t[e][p] = elm
        BY <2>4, <1>6 DEF Placing
      <3>2. p \in T /\ p \in Node /\ p \in S
        BY <2>4, <1>5, <1>6 DEF T
      <3>3. u[e][p] = c
        BY <3>1, <3>2, <1>7
      <3>4. ASSUME NEW z \in T, NEW s \in Sides
            PROVE  g[z] = g[u[s][z]] + Black(u, z) + Lack(p, e, z, s)
        <4>1. Black(t, elm) = 1
          BY <1>16 DEF Black
        <4>2. z \in S /\ z \in Node
          BY <1>5 DEF T
        <4>3. u[s][z] \in Link
          BY <4>2, <1>7, <1>10, <1>11
        <4>4. g[u[s][z]] \in Nat /\ Black(u, z) \in Nat
          BY <4>3, <1>10 DEF Black
        <4>5. z = p /\ t[s][z] = elm <=> z = p /\ s = e
          BY <3>1, <4>2, <1>1, <1>5, OneLink
        <4>6. Lack(p, e, z, s) = IF z = p /\ s = e THEN 1 ELSE 0
          BY DEF Lack
        <4> QED
          BY <4>1, <4>4, <4>5, <4>6, <1>12
      <3>5. Heights(u, T, g, p, e)
        BY <3>4, <1>10 DEF Heights
      <3> QED
        BY <2>1, <2>2, <3>2, <3>3, <3>5, <1>4 DEF Shrunk
    <2> QED
      BY <2>3, <2>4
  <1> QED
    BY <1>4, <1>15, <1>16 DEF u, T, c, p

-----------------------------------------------------------------------------
(* Inside RB_REMOVE_COLOR: nothing is wrong but that the paths through the *)
(* black child of x on the side lack a black element.                      *)
Lacking(t, S, x, side) ==
  /\ \E lab : Shape(t, S, lab)
  /\ \E g : Heights(t, S, g, x, side)
  /\ RedRule(t, S, NULL, NULL) /\ ~IsRed(t, t.root)
  /\ x \in S /\ side \in Sides /\ ~IsRed(t, t[side][x])

LEMMA LackingIs ==
  ASSUME NEW t, NEW S, NEW x, NEW side, Lacking(t, S, x, side), NEW y, y = t[Other(side)][x]
  PROVE  /\ t \in RBTrees /\ S \subseteq Node /\ NULL \notin S /\ x \in Node /\ x # NULL
         /\ y # NULL /\ y \in S /\ y \in Node /\ y # x /\ y # t.root /\ t.parent[y] = x /\ y # t[side][x]
         /\ \A s \in Sides : t[s][y] # x
         /\ \A z \in S : \A s \in Sides :
              /\ t[s][z] = y => z = x /\ s = Other(side)
              /\ t[s][z] # NULL => t[s][z] \in S
              /\ IsRed(t, z) => ~IsRed(t, t[s][z])
  <1> DEFINE o == Other(side)
  <1>1. side \in Sides /\ o \in Sides /\ Other(o) = side /\ o # side /\ Sides = {side, o}
    BY TwoSides DEF Lacking
  <1>2. PICK lab : Shape(t, S, lab)
    BY DEF Lacking
  <1>3. PICK g : Heights(t, S, g, x, side)
    BY DEF Lacking
  <1>4. t \in RBTrees /\ S \subseteq Node /\ NULL \notin S /\ x \in S /\ x \in Node /\ x # NULL
    BY <1>2, Numbers DEF Shape, Lacking
  <1>5. y # NULL
    <2>1. SUFFICES ASSUME y = NULL PROVE FALSE
      OBVIOUS
    <2>2. t[side][x] \in Link
      BY <1>1, <1>4, RBType
    <2>3. g[NULL] = 0 /\ g[t[side][x]] \in Nat
      BY <2>2, <1>3 DEF Heights
    <2>4. g[x] = g[t[side][x]] + Black(t, x) + 1 /\ g[x] = g[y] + Black(t, x) + 0
      BY <1>1, <1>3, <1>4 DEF Heights, Lack
    <2>5. Black(t, x) \in Nat
      BY DEF Black
    <2> QED
      BY <2>1, <2>3, <2>4, <2>5
  <1>6. y \in S /\ y \in Node /\ y # x /\ y # t.root /\ t.parent[y] = x /\ y # t[side][x]
    BY <1>1, <1>2, <1>4, <1>5, Kid
  <1>7. ASSUME NEW s \in Sides PROVE t[s][y] # x
    <2>1. SUFFICES ASSUME t[s][y] = x PROVE FALSE
      OBVIOUS
    <2>2. Room(lab, x) < Room(lab, y)
      BY <2>1, <1>2, <1>4, <1>6, Narrower
    <2>3. Room(lab, y) < Room(lab, x)
      BY <1>1, <1>2, <1>4, <1>5, Narrower
    <2>4. Room(lab, x) \in Nat /\ Room(lab, y) \in Nat
      BY <1>2, <1>4, <1>6, Labels
    <2> QED
      BY <2>2, <2>3, <2>4
  <1>8. ASSUME NEW z \in S, NEW s \in Sides
        PROVE  /\ t[s][z] = y => z = x /\ s = Other(side)
               /\ t[s][z] # NULL => t[s][z] \in S
               /\ IsRed(t, z) => ~IsRed(t, t[s][z])
    <2>1. t[s][z] = y => z = x /\ s = Other(side)
      BY <1>1, <1>2, <1>4, <1>5, OneLink
    <2>2. t[s][z] # NULL => t[s][z] \in S
      BY <1>2, Kid
    <2>3. IsRed(t, z) => ~IsRed(t, t[s][z])
      BY DEF Lacking, RedRule, IsRed
    <2> QED
      BY <2>1, <2>2, <2>3
  <1> QED
    BY <1>4, <1>5, <1>6, <1>7, <1>8

(* A red sibling is turned up, and x has a black one. *)
LEMMA RedRaised ==
  ASSUME NEW t, NEW S, NEW x, NEW side, Lacking(t, S, x, side)
  PROVE  LET u == RaiseRed(t, x, side)
         IN /\ Lacking(u, S, x, side) /\ Beyond(t, u, S) /\ ~IsRed(u, u[Other(side)][x])
            /\ u[side][x] = t[side][x] /\ (u = t \/ IsRed(u, x))
  <1> DEFINE o == Other(side)
             y == t[o][x]
             v == SetBlackRed(t, y, x)
             u == Rotate(v, x, side)
             e == t[side][x]
             b == t[side][y]
  <1>1. side \in Sides /\ o \in Sides /\ Other(o) = side /\ o # side /\ Sides = {side, o}
    BY TwoSides DEF Lacking
  <1>2. /\ t \in RBTrees /\ S \subseteq Node /\ NULL \notin S /\ x \in Node /\ x # NULL /\ x \in S
        /\ y # NULL /\ y \in S /\ y \in Node /\ y # x /\ y # t.root /\ y # e
        /\ \A s \in Sides : t[s][y] # x
        /\ \A z \in S : \A s \in Sides :
              /\ t[s][z] = y => z = x /\ s = o
              /\ t[s][z] # NULL => t[s][z] \in S
              /\ IsRed(t, z) => ~IsRed(t, t[s][z])
    <2>1. y = t[Other(side)][x] /\ e = t[side][x]
      OBVIOUS
    <2>2. x \in S
      BY DEF Lacking
    <2> HIDE DEF y, e
    <2> QED
      BY <2>1, <2>2, LackingIs
  <1>3. CASE ~IsRed(t, y)
    <2>1. RaiseRed(t, x, side) = t
      BY <1>3 DEF RaiseRed
    <2> QED
      BY <2>1, <1>3 DEF Beyond
  <1>4. CASE IsRed(t, y)
    <2>1. PICK lab : Shape(t, S, lab)
      BY DEF Lacking
    <2>2. PICK g : Heights(t, S, g, x, side)
      BY DEF Lacking
    <2>3. ~IsRed(t, x)
      BY <1>1, <1>2, <1>4
    <2>4. Exchanged(t, v, x, y)
      <3>1. /\ v \in RBTrees /\ v.root = t.root /\ v.left = t.left /\ v.right = t.right /\ v.parent = t.parent
            /\ \A z \in Node : v.color[z] = IF z = y THEN "RB_BLACK"
                                            ELSE IF z = x THEN "RB_RED" ELSE t.color[z]
        <4> HIDE DEF y
        <4> QED
          BY <1>2, BlackRedSet
      <3>2. t.color[y] = "RB_RED" /\ t.color[x] = "RB_BLACK"
        BY <1>2, <1>4, <2>3 DEF IsRed, RBTrees
      <3> HIDE DEF v, y
      <3> QED
        BY <3>1, <3>2, <1>2 DEF Exchanged, Recolored
    <2> HIDE DEF v
    <2>5. /\ \E l : Shape(u, S, l)
          /\ \A z \in Node \ S : u.parent[z] = t.parent[z]
          /\ u.root = IF x = t.root THEN y ELSE t.root
          /\ \A z \in S : IsRed(u, z) <=> z = x \/ (z = y /\ IsRed(t, x)) \/ (z \notin {x, y} /\ IsRed(t, z))
          /\ \E h : Heights(u, S, h, x, side)
      BY <1>1, <1>2, <1>4, <2>1, <2>2, <2>4, ExchangeRotates
    <2>6. v[o][x] # NULL /\ Shape(v, S, lab) /\ \A s \in Sides : v[s] = t[s]
      BY <1>1, <1>2, <2>1, <2>4, ShapeRecolored DEF Exchanged
    <2>7. ASSUME NEW z \in S, NEW s \in Sides
          PROVE  \/ z = y /\ s = side /\ u[s][z] = x
                 \/ z = x /\ s = o /\ u[s][z] = b
                 \/ z \notin {x, y} /\ t[s][z] = x /\ u[s][z] = y
                 \/ /\ u[s][z] = t[s][z] /\ t[s][z] \notin {x, y}
                    /\ (z = x => s = side) /\ (z = y => s = o)
      BY <1>1, <1>2, <2>6, RotatedKids
    <2> HIDE DEF u, o, y, e, b
    <2>8. \A z \in S : IsRed(u, z) <=> z = x \/ (z # y /\ IsRed(t, z))
      BY <2>3, <2>5, <1>2
    <2>9. ASSUME NEW k, k \in S \cup {NULL}, k # x, ~IsRed(t, k) PROVE ~IsRed(u, k)
      BY <2>8, <2>9 DEF IsRed
    <2>10. ~IsRed(t, b) /\ b # x /\ b \in S \cup {NULL} /\ e # x /\ e \in S \cup {NULL} /\ ~IsRed(t, e)
      <3>1. e # x
        BY <1>1, <1>2, <2>1, Kid DEF e
      <3> QED
        BY <3>1, <1>1, <1>2, <1>4 DEF b, e, Lacking
    <2>11. ~IsRed(u, b) /\ ~IsRed(u, e)
      BY <2>9, <2>10
    <2>12. u[o][x] = b /\ u[side][x] = e
      <3>1. u[o][x] = b
        BY <1>1, <1>2, <2>7
      <3>2. u[side][x] = e
        BY <1>1, <1>2, <2>7 DEF e
      <3> QED
        BY <3>1, <3>2
    <2>13. ASSUME NEW z \in S, NEW s \in Sides, IsRed(u, z), IsRed(u, u[s][z]) PROVE FALSE
      <3>1. ~IsRed(u, y)
        BY <2>8, <1>2
      <3>2. CASE z = x
        BY <3>2, <2>11, <2>12, <2>13, <1>1
      <3>3. CASE z # x
        <4>1. z # y /\ IsRed(t, z)
          BY <3>1, <3>3, <2>8, <2>13
        <4>2. u[s][z] = t[s][z] /\ t[s][z] # x
          BY <3>1, <3>3, <4>1, <2>7, <2>13
        <4>3. ~IsRed(t, t[s][z]) /\ t[s][z] \in S \cup {NULL}
          BY <4>1, <1>2
        <4> QED
          BY <4>2, <4>3, <2>9, <2>13
      <3> QED
        BY <3>2, <3>3
    <2>14. ~IsRed(u, u.root)
      <3>1. t.root \in S
        BY <1>2, <2>1 DEF Shape
      <3>2. ~IsRed(t, t.root)
        BY DEF Lacking
      <3> QED
        BY <3>1, <3>2, <2>3, <2>5, <2>8, <1>2
    <2>15. Lacking(u, S, x, side)
      BY <1>1, <1>2, <2>5, <2>11, <2>12, <2>13, <2>14 DEF Lacking, RedRule
    <2>16. IsRed(u, x)
      BY <1>2, <2>8
    <2>17. RaiseRed(t, x, side) = u
      BY <1>4 DEF RaiseRed, u, v, y, o
    <2> QED
      BY <2>5, <2>11, <2>12, <2>15, <2>16, <2>17 DEF Beyond, o, e
  <1> QED
    BY <1>3, <1>4

(* The sibling has no red child: it gets red, and x is what lacks one.     *)
LEMMA SiblingReddened ==
  ASSUME NEW t, NEW S, NEW x, NEW side, Lacking(t, S, x, side), NEW y, y = t[Other(side)][x],
         ~IsRed(t, y), ~IsRed(t, t.left[y]), ~IsRed(t, t.right[y])
  PROVE  LET u == SetColor(t, y, "RB_RED")
         IN /\ Shrunk(u, S, t.parent[x], x) /\ Beyond(t, u, S) /\ (IsRed(t, x) => IsRed(u, x))
            /\ Cardinality(Colored(u, "RB_BLACK")) < Cardinality(Colored(t, "RB_BLACK"))
  <1> DEFINE o == Other(side)
             u == SetColor(t, y, "RB_RED")
             p == t.parent[x]
  <1>1. side \in Sides /\ o \in Sides /\ Other(o) = side /\ o # side /\ Sides = {side, o}
    BY TwoSides DEF Lacking
  <1>2. /\ t \in RBTrees /\ S \subseteq Node /\ NULL \notin S /\ x \in Node /\ x # NULL /\ x \in S
        /\ y # NULL /\ y \in S /\ y \in Node /\ y # x /\ y # t.root /\ y # t[side][x] /\ t.parent[y] = x
        /\ \A s \in Sides : t[s][y] # x
        /\ \A z \in S : \A s \in Sides :
              /\ t[s][z] = y => z = x /\ s = o
              /\ t[s][z] # NULL => t[s][z] \in S
              /\ IsRed(t, z) => ~IsRed(t, t[s][z])
    <2>1. x \in S
      BY DEF Lacking
    <2> QED
      BY <2>1, LackingIs
  <1>3. PICK lab : Shape(t, S, lab)
    BY DEF Lacking
  <1>4. PICK g : Heights(t, S, g, x, side)
    BY DEF Lacking
  <1>5. /\ u \in RBTrees /\ u.root = t.root /\ u.left = t.left /\ u.right = t.right /\ u.parent = t.parent
        /\ \A z \in Node : u.color[z] = IF z = y THEN "RB_RED" ELSE t.color[z]
    <2>1. y \in Link
      BY <1>2 DEF Link
    <2> QED
      BY <2>1, <1>2, ColorSet
  <1> HIDE DEF u
  <1>6. Recolored(t, u) /\ Shape(u, S, lab) /\ \A s \in Sides : u[s] = t[s]
    BY <1>3, <1>5, ShapeRecolored DEF Recolored
  <1>7. \A z \in S : IsRed(u, z) <=> z = y \/ IsRed(t, z)
    BY <1>2, <1>5 DEF IsRed
  <1>8. \A s \in Sides : ~IsRed(t, t[s][y]) /\ t[s][y] # y
    BY <1>2 DEF Sides
  <1>9. RedRule(u, S, x, x)
    <2>1. ASSUME NEW z \in S, NEW s \in Sides, IsRed(u, z), IsRed(u, t[s][z]), z # x PROVE FALSE
      <3>1. t[s][z] # NULL /\ t[s][z] \in S
        BY <2>1, <1>2 DEF IsRed
      <3>2. t[s][z] # y
        BY <2>1, <1>2
      <3>3. IsRed(t, t[s][z])
        BY <2>1, <3>1, <3>2, <1>7
      <3> QED
        BY <2>1, <3>3, <1>2, <1>7, <1>8
    <2> QED
      BY <2>1, <1>6 DEF RedRule
  <1>10. ~IsRed(u, u.root)
    <2>1. t.root \in S /\ ~IsRed(t, t.root)
      BY <1>2, <1>3 DEF Shape, Lacking
    <2> QED
      BY <2>1, <1>2, <1>5, <1>7
  <1> DEFINE h == [g EXCEPT ![x] = g[x] - 1, ![y] = g[y] - 1]
  <1>11. /\ g \in [Link -> Nat] /\ g[NULL] = 0 /\ Node \subseteq Link
         /\ \A z \in S : \A s \in Sides : g[z] = g[t[s][z]] + Black(t, z) + Lack(x, side, z, s)
         /\ \A z \in S : \A s \in Sides : t[s][z] \in Link
    BY <1>2, <1>4, RBType DEF Heights, Link
  <1>12. g[x] \in Nat \ {0} /\ g[y] \in Nat \ {0} /\ Black(t, y) = 1
    <2>1. Black(t, y) = 1 /\ Black(t, x) \in Nat
      BY <1>2 DEF Black
    <2>2. g[x] = g[t[side][x]] + Black(t, x) + 1 /\ g[y] = g[t[side][y]] + 1 + 0
      BY <2>1, <1>1, <1>2, <1>11 DEF Lack
    <2>3. g[t[side][x]] \in Nat /\ g[t[side][y]] \in Nat
      BY <1>1, <1>2, <1>11
    <2> QED
      BY <2>1, <2>2, <2>3
  <1>13. /\ h \in [Link -> Nat] /\ h[NULL] = 0
         /\ \A k \in Link : h[k] = IF k \in {x, y} THEN g[k] - 1 ELSE g[k]
    BY <1>2, <1>11, <1>12 DEF Link
  <1> HIDE DEF h
  <1>14. p \in S \cup {NULL} /\ Placing(t, p, x) /\ p # x /\ (p = NULL <=> x = t.root)
    BY <1>2, <1>3, Places
  <1>15. ASSUME NEW z \in S, NEW s \in Sides
         PROVE  /\ t[s][z] # x => h[z] = h[t[s][z]] + Black(u, z)
                /\ t[s][z] = x => h[z] = h[t[s][z]] + Black(u, z) + 1
    <2>1. /\ z \in Link /\ t[s][z] \in Link /\ g[z] \in Nat /\ g[t[s][z]] \in Nat
          /\ g[z] = g[t[s][z]] + Black(t, z) + Lack(x, side, z, s) /\ Black(t, z) \in Nat
      BY <1>2, <1>11 DEF Black
    <2>2. CASE z = x
      <3>1. Black(u, x) = Black(t, x) /\ t[s][x] # x
        BY <1>2, <1>3, <1>7, Kid DEF Black
      <3>2. CASE s = side
        <4>1. h[t[s][x]] = g[t[s][x]] /\ h[x] = g[x] - 1
          BY <2>1, <2>2, <3>1, <3>2, <1>2, <1>13
        <4>2. Lack(x, side, z, s) = 1
          BY <2>2, <3>2 DEF Lack
        <4> QED
          BY <2>1, <2>2, <3>1, <4>1, <4>2
      <3>3. CASE s = o
        <4>1. h[t[s][x]] = g[t[s][x]] - 1 /\ h[x] = g[x] - 1
          BY <2>1, <2>2, <3>3, <1>13
        <4>2. Lack(x, side, z, s) = 0
          BY <1>1, <3>3 DEF Lack
        <4> QED
          BY <2>1, <2>2, <3>1, <4>1, <4>2, <1>12
      <3> QED
        BY <3>2, <3>3, <1>1
    <2>3. CASE z = y
      <3>1. Black(u, y) = 0 /\ Lack(x, side, z, s) = 0
        BY SMTT(30), <2>3, <1>2, <1>7 DEF Black, Lack
      <3>2. h[t[s][y]] = g[t[s][y]] /\ h[y] = g[y] - 1 /\ t[s][z] # x
        BY <2>1, <2>3, <1>2, <1>8, <1>13
      <3> QED
        BY <2>1, <2>3, <3>1, <3>2, <1>12
    <2>4. CASE z \notin {x, y}
      <3>1. Black(u, z) = Black(t, z) /\ Lack(x, side, z, s) = 0 /\ t[s][z] # y
        BY <2>4, <1>2, <1>7 DEF Black, Lack
      <3>2. h[z] = g[z] /\ h[t[s][z]] = IF t[s][z] = x THEN g[t[s][z]] - 1 ELSE g[t[s][z]]
        BY <2>1, <2>4, <3>1, <1>13
      <3> QED
        BY <2>1, <3>1, <3>2, <1>12
    <2> QED
      BY <2>2, <2>3, <2>4
  <1>16. ASSUME NEW z \in S, NEW s \in Sides
         PROVE  h[t[s][z]] \in Nat /\ Black(u, z) \in Nat
    BY <1>11, <1>13 DEF Black
  <1>17. Shrunk(u, S, p, x)
    <2>1. CASE p = NULL
      <3>1. \A z \in S, s \in Sides : h[z] = h[t[s][z]] + Black(u, z) + Lack(NULL, "left", z, s)
        <4>1. ASSUME NEW z \in S, NEW s \in Sides
              PROVE  h[z] = h[t[s][z]] + Black(u, z) + Lack(NULL, "left", z, s)
          <5>1. t[s][z] # x
            BY <2>1, <1>2, <1>3, <1>14, Kid
          <5>2. Lack(NULL, "left", z, s) = 0
            BY <1>2 DEF Lack
          <5> QED
            BY <5>1, <5>2, <1>15, <1>16
        <4> QED
          BY <4>1
      <3>2. Heights(u, S, h, NULL, "left")
        BY <3>1, <1>3, <1>6, <1>13, HeightsRecolored
      <3> QED
        BY <3>2, <2>1, <1>5, <1>6, <1>9, <1>10, <1>14 DEF Shrunk
    <2>2. CASE p # NULL
      <3>1. PICK e \in Sides : t[e][p] = x
        BY <2>2, <1>14 DEF Placing
      <3>2. p \in S
        BY <2>2, <1>14
      <3>3. \A z \in S, s \in Sides : h[z] = h[t[s][z]] + Black(u, z) + Lack(p, e, z, s)
        <4>1. ASSUME NEW z \in S, NEW s \in Sides
              PROVE  h[z] = h[t[s][z]] + Black(u, z) + Lack(p, e, z, s)
          <5>1. t[s][z] = x <=> z = p /\ s = e
            BY <3>1, <3>2, <1>2, <1>3, OneLink
          <5>2. Lack(p, e, z, s) = IF z = p /\ s = e THEN 1 ELSE 0
            BY DEF Lack
          <5> QED
            BY <5>1, <5>2, <1>15, <1>16
        <4> QED
          BY <4>1
      <3>4. Heights(u, S, h, p, e)
        BY <3>3, <1>3, <1>6, <1>13, HeightsRecolored
      <3>5. u[e][p] = x
        BY <3>1, <1>6
      <3> QED
        BY <3>2, <3>4, <3>5, <1>6, <1>9, <1>10 DEF Shrunk
    <2> QED
      BY <2>1, <2>2
  <1>18. Cardinality(Colored(u, "RB_BLACK")) < Cardinality(Colored(t, "RB_BLACK"))
    <2> DEFINE R == Colored(t, "RB_BLACK")
    <2>1. R \in SUBSET Node /\ y \in R
      BY <1>2 DEF Colored, IsRed, RBTrees
    <2>2. Colored(u, "RB_BLACK") = R \ {y}
      BY <1>2, <1>5 DEF Colored
    <2> HIDE DEF R
    <2>3. IsFiniteSet(R)
      BY <2>1, NodesFinite
    <2>4. Cardinality(R \ {y}) = Cardinality(R) - 1 /\ Cardinality(R) \in Nat
      BY <2>1, <2>3, FS_RemoveElement, FS_CardinalityType
    <2>5. Cardinality(Colored(u, "RB_BLACK")) < Cardinality(R)
      <3>1. Cardinality(Colored(u, "RB_BLACK")) = Cardinality(R \ {y})
        BY <2>2
      <3> QED
        BY <3>1, <2>4
    <2> QED
      BY <2>5 DEF R
  <1>19. Beyond(t, u, S) /\ (IsRed(t, x) => IsRed(u, x))
    BY <1>2, <1>5, <1>7 DEF Beyond
  <1> QED
    BY <1>17, <1>18, <1>19 DEF u, p

(* The sibling gets a red child on the far side, if one of both is red.    *)
LEMMA FarReddened ==
  ASSUME NEW t, NEW S, NEW x, NEW side, Lacking(t, S, x, side), NEW y, y = t[Other(side)][x],
         ~IsRed(t, y), IsRed(t, t.left[y]) \/ IsRed(t, t.right[y])
  PROVE  LET u == RedFarSide(t, x, side)
             n == u[Other(side)][x]
         IN /\ Lacking(u, S, x, side) /\ Beyond(t, u, S)
            /\ ~IsRed(u, n) /\ IsRed(u, u[Other(side)][n])
  <1> DEFINE o == Other(side)
             n == t[side][y]
             w == SetColor(t, n, "RB_BLACK")
             v == SetColor(w, y, "RB_RED")
             u == Rotate(v, y, o)
  <1>1. side \in Sides /\ o \in Sides /\ Other(o) = side /\ o # side /\ Sides = {side, o}
    BY TwoSides DEF Lacking
  <1>2. /\ t \in RBTrees /\ S \subseteq Node /\ NULL \notin S /\ x \in Node /\ x # NULL /\ x \in S
        /\ y # NULL /\ y \in S /\ y \in Node /\ y # x /\ y # t.root /\ y # t[side][x] /\ t.parent[y] = x
        /\ \A s \in Sides : t[s][y] # x
        /\ \A z \in S : \A s \in Sides :
              /\ t[s][z] = y => z = x /\ s = o
              /\ t[s][z] # NULL => t[s][z] \in S
              /\ IsRed(t, z) => ~IsRed(t, t[s][z])
    <2>1. x \in S
      BY DEF Lacking
    <2> QED
      BY <2>1, LackingIs
  <1>3. CASE IsRed(t, t[o][y])
    <2>1. RedFarSide(t, x, side) = t
      BY <1>3 DEF RedFarSide
    <2> QED
      BY <2>1, <1>3 DEF Beyond
  <1>4. CASE ~IsRed(t, t[o][y])
    <2>1. PICK lab : Shape(t, S, lab)
      BY DEF Lacking
    <2>2. PICK g : Heights(t, S, g, x, side)
      BY DEF Lacking
    <2>3. IsRed(t, n)
      <3>1. IsRed(t, t["left"][y]) \/ IsRed(t, t["right"][y])
        OBVIOUS
      <3> QED
        BY <3>1, <1>1, <1>4 DEF Sides
    <2>4. /\ n # NULL /\ n \in S /\ n \in Node /\ n # y /\ n # x
          /\ \A z \in S : \A s \in Sides : t[s][z] = n => z = y /\ s = side
      <3>1. n # NULL /\ n # x
        BY <2>3, <1>1, <1>2 DEF IsRed
      <3>2. n \in S /\ n \in Node /\ n # y
        BY <3>1, <2>1, <1>1, <1>2, Kid
      <3>3. \A z \in S : \A s \in Sides : t[s][z] = n => z = y /\ s = side
        BY <3>1, <2>1, <1>1, <1>2, OneLink
      <3> QED
        BY SMTT(30), <3>1, <3>2, <3>3
    <2>5. Exchanged(t, v, y, n)
      <3>1. n \in Link /\ y \in Link
        BY SMTT(30), <2>4, <1>2 DEF Link
      <3>2. t.color[y] = "RB_BLACK" /\ t.color[n] = "RB_RED"
        BY <2>3, <2>4, <1>2 DEF IsRed, RBTrees
      <3> HIDE DEF n
      <3>3. /\ w \in RBTrees /\ w.root = t.root /\ w.left = t.left /\ w.right = t.right /\ w.parent = t.parent
            /\ \A z \in Node : w.color[z] = IF z = n THEN "RB_BLACK" ELSE t.color[z]
        BY <3>1, <1>2, ColorSet
      <3> HIDE DEF w
      <3>4. /\ v \in RBTrees /\ v.root = w.root /\ v.left = w.left /\ v.right = w.right /\ v.parent = w.parent
            /\ \A z \in Node : v.color[z] = IF z = y THEN "RB_RED" ELSE w.color[z]
        <4>1. w \in RBTrees /\ y \in Link /\ "RB_RED" \in {"RB_BLACK", "RB_RED"}
          BY SMTT(30), <3>1, <3>3
        <4> QED
          BY <4>1, ColorSet
      <3> HIDE DEF v
      <3> QED
        BY <3>2, <3>3, <3>4, <2>4 DEF Exchanged, Recolored
    <2> HIDE DEF v
    <2>6. /\ \E l : Shape(u, S, l)
          /\ \A z \in Node \ S : u.parent[z] = t.parent[z]
          /\ u.root = IF y = t.root THEN n ELSE t.root
          /\ \A z \in S : IsRed(u, z) <=> z = y \/ (z = n /\ IsRed(t, y)) \/ (z \notin {y, n} /\ IsRed(t, z))
          /\ \E h : Heights(u, S, h, x, side)
      <3>1. n = t[Other(o)][y] /\ x # n /\ x # y
        BY <2>4, <1>1, <1>2
      <3> HIDE DEF n, o
      <3> QED
        BY <3>1, <1>1, <1>2, <2>1, <2>2, <2>3, <2>5, ExchangeRotates
    <2>7. v[Other(o)][y] # NULL /\ Shape(v, S, lab) /\ \A s \in Sides : v[s] = t[s]
      BY SMTT(30), <1>1, <1>2, <2>1, <2>4, <2>5, ShapeRecolored DEF Exchanged
    <2>8. ASSUME NEW z \in S, NEW s \in Sides
          PROVE  \/ z = n /\ s = o /\ u[s][z] = y
                 \/ z = y /\ s = side /\ u[s][z] = t[o][n]
                 \/ z \notin {y, n} /\ t[s][z] = y /\ u[s][z] = n
                 \/ /\ u[s][z] = t[s][z] /\ t[s][z] \notin {y, n}
                    /\ (z = y => s = o) /\ (z = n => s = side)
      BY SMTT(30), <1>1, <1>2, <2>7, RotatedKids
    <2> HIDE DEF u, o, n
    <2>9. \A z \in S : IsRed(u, z) <=> z = y \/ (z # n /\ IsRed(t, z))
      BY <2>6, <1>2
    <2>10. ASSUME NEW k, k \in S \cup {NULL}, k # y, ~IsRed(t, k) PROVE ~IsRed(u, k)
      BY <2>9, <2>10 DEF IsRed
    <2>11. ~IsRed(t, t[o][n]) /\ t[o][n] \in S \cup {NULL} /\ t[o][n] # y
      BY <2>3, <2>4, <1>1, <1>2
    <2>12. u[o][x] = n /\ u[side][x] = t[side][x] /\ u[o][n] = y
      <3>1. t[o][x] = y
        BY DEF o
      <3>2. u[o][x] = n
        BY <3>1, <1>1, <1>2, <2>4, <2>8
      <3>3. u[side][x] = t[side][x]
        BY <1>1, <1>2, <2>4, <2>8
      <3>4. u[o][n] = y
        BY <1>1, <1>2, <2>4, <2>8
      <3> QED
        BY <3>2, <3>3, <3>4
    <2>13. ASSUME NEW z \in S, NEW s \in Sides, IsRed(u, z), IsRed(u, u[s][z]) PROVE FALSE
      <3>1. ~IsRed(u, n) /\ z # n
        BY <2>9, <2>4, <2>13
      <3>2. CASE z = y /\ s = side
        BY <3>2, <2>4, <2>8, <2>10, <2>11, <2>13, <1>1
      <3>3. CASE z = y /\ s = o
        <4>1. u[s][z] = t[o][y] /\ t[o][y] # y /\ t[o][y] \in S \cup {NULL}
          BY <3>3, <2>4, <2>8, <1>1, <1>2
        <4> QED
          BY <4>1, <2>10, <2>13, <1>4 DEF o
      <3>4. CASE z # y
        <4>1. IsRed(t, z)
          BY <3>1, <3>4, <2>9, <2>13
        <4>2. u[s][z] = t[s][z] /\ t[s][z] # y
          BY <3>1, <3>4, <4>1, <2>8, <2>13
        <4>3. ~IsRed(t, t[s][z]) /\ t[s][z] \in S \cup {NULL}
          BY <4>1, <1>2
        <4> QED
          BY <4>2, <4>3, <2>10, <2>13
      <3> QED
        BY <3>2, <3>3, <3>4, <1>1
    <2>14. ~IsRed(u, u.root)
      <3>1. t.root \in S
        BY <1>2, <2>1 DEF Shape
      <3>2. ~IsRed(t, t.root)
        BY DEF Lacking
      <3> QED
        BY <3>1, <3>2, <2>6, <2>9, <1>2
    <2>15. ~IsRed(u, u[side][x])
      <3>1. ~IsRed(t, t[side][x]) /\ t[side][x] \in S \cup {NULL} /\ t[side][x] # y
        BY <1>1, <1>2 DEF Lacking
      <3> QED
        BY <3>1, <2>10, <2>12
    <2>16. Lacking(u, S, x, side)
      BY <1>1, <1>2, <2>6, <2>15, <2>13, <2>14 DEF Lacking, RedRule
    <2>17. ~IsRed(u, n) /\ IsRed(u, y)
      BY <1>2, <2>4, <2>9
    <2>18. RedFarSide(t, x, side) = u
      BY <1>4 DEF RedFarSide, u, v, w, n, o
    <2> QED
      BY <2>6, <2>12, <2>16, <2>17, <2>18 DEF Beyond, o
  <1> QED
    BY <1>3, <1>4

(* The sibling goes up, and all is well.                                   *)
LEMMA SiblingRaised ==
  ASSUME NEW t, NEW S, NEW x, NEW side, Lacking(t, S, x, side), NEW y, y = t[Other(side)][x],
         ~IsRed(t, y), IsRed(t, t[Other(side)][y])
  PROVE  LET u == RaiseSibling(t, x, side)
         IN Sound(u, S) /\ Beyond(t, u, S)
  <1> DEFINE o == Other(side)
             f == t[o][y]
             k == t.color[x]
             v1 == SetColor(t, y, k)
             v2 == SetColor(v1, x, "RB_BLACK")
             v == SetColor(v2, f, "RB_BLACK")
             u == Rotate(v, x, side)
             b == t[side][y]
  <1>1. side \in Sides /\ o \in Sides /\ Other(o) = side /\ o # side /\ Sides = {side, o}
    BY TwoSides DEF Lacking
  <1>2. /\ t \in RBTrees /\ S \subseteq Node /\ NULL \notin S /\ x \in Node /\ x # NULL /\ x \in S
        /\ y # NULL /\ y \in S /\ y \in Node /\ y # x /\ y # t.root /\ y # t[side][x] /\ t.parent[y] = x
        /\ \A s \in Sides : t[s][y] # x
        /\ \A z \in S : \A s \in Sides :
              /\ t[s][z] = y => z = x /\ s = o
              /\ t[s][z] # NULL => t[s][z] \in S
              /\ IsRed(t, z) => ~IsRed(t, t[s][z])
    <2>1. x \in S
      BY DEF Lacking
    <2> QED
      BY <2>1, LackingIs
  <1>3. PICK lab : Shape(t, S, lab)
    BY DEF Lacking
  <1>4. PICK g : Heights(t, S, g, x, side)
    BY DEF Lacking
  <1>5. f # NULL /\ f \in S /\ f \in Node /\ f # y /\ f # x /\ f # t.root
    <2>1. f # NULL /\ f # x
      BY <1>1, <1>2 DEF IsRed
    <2> QED
      BY <2>1, <1>1, <1>2, <1>3, Kid
  <1>6. /\ v \in RBTrees /\ v.root = t.root /\ v.left = t.left /\ v.right = t.right /\ v.parent = t.parent
        /\ \A z \in Node : v.color[z] = IF z \in {x, f} THEN "RB_BLACK"
                                        ELSE IF z = y THEN t.color[x] ELSE t.color[z]
    <2>1. x \in Link /\ y \in Link /\ f \in Link /\ k \in {"RB_BLACK", "RB_RED"}
      BY <1>2, <1>5 DEF Link, RBTrees
    <2> HIDE DEF f, k
    <2>2. /\ v1 \in RBTrees /\ v1.root = t.root /\ v1.left = t.left /\ v1.right = t.right /\ v1.parent = t.parent
          /\ \A z \in Node : v1.color[z] = IF z = y THEN k ELSE t.color[z]
      <3>1. t \in RBTrees /\ y \in Link /\ k \in {"RB_BLACK", "RB_RED"}
        BY <2>1, <1>2
      <3> QED
        BY <3>1, ColorSet
    <2> HIDE DEF v1
    <2>3. /\ v2 \in RBTrees /\ v2.root = v1.root /\ v2.left = v1.left /\ v2.right = v1.right /\ v2.parent = v1.parent
          /\ \A z \in Node : v2.color[z] = IF z = x THEN "RB_BLACK" ELSE v1.color[z]
      BY <2>1, <2>2, ColorSet
    <2> HIDE DEF v2
    <2>4. /\ v \in RBTrees /\ v.root = v2.root /\ v.left = v2.left /\ v.right = v2.right /\ v.parent = v2.parent
          /\ \A z \in Node : v.color[z] = IF z = f THEN "RB_BLACK" ELSE v2.color[z]
      BY <2>1, <2>3, ColorSet
    <2> HIDE DEF v
    <2> QED
      BY <2>2, <2>3, <2>4, <1>2 DEF k
  <1>7. RaiseSibling(t, x, side) = u
    BY DEF RaiseSibling
  <1> HIDE DEF v
  <1>8. Recolored(t, v) /\ Shape(v, S, lab) /\ \A s \in Sides : v[s] = t[s]
    BY <1>3, <1>6, ShapeRecolored DEF Recolored
  <1>9. /\ \E l : Shape(u, S, l)
        /\ \A z \in Node \ S : u.parent[z] = t.parent[z]
        /\ u.root = IF x = t.root THEN y ELSE t.root
        /\ \A z \in S : IsRed(u, z) <=> (z = y /\ IsRed(t, x)) \/ (z \notin {x, y, f} /\ IsRed(t, z))
        /\ \E h : Heights(u, S, h, NULL, side)
    <2>1. f = t[Other(side)][y] /\ IsRed(t, f)
      OBVIOUS
    <2> HIDE DEF f, o
    <2> QED
      BY <2>1, <1>1, <1>2, <1>3, <1>4, <1>6, <1>8, SiblingRotates
  <1>10. v[o][x] # NULL
    BY <1>1, <1>2, <1>8
  <1>11. ASSUME NEW z \in S, NEW s \in Sides
         PROVE  \/ z = y /\ s = side /\ u[s][z] = x
                \/ z = x /\ s = o /\ u[s][z] = b
                \/ z \notin {x, y} /\ t[s][z] = x /\ u[s][z] = y
                \/ /\ u[s][z] = t[s][z] /\ t[s][z] \notin {x, y}
                   /\ (z = x => s = side) /\ (z = y => s = o)
    BY <1>1, <1>2, <1>8, <1>10, RotatedKids
  <1> HIDE DEF u, f, b, o
  <1>12. ASSUME NEW z \in S, NEW s \in Sides, IsRed(u, z), IsRed(u, u[s][z]) PROVE FALSE
    <2>1. ~IsRed(u, x) /\ ~IsRed(u, f) /\ z # x
      BY <1>2, <1>5, <1>9, <1>12
    <2>2. CASE z = y
      <3>1. u[s][y] = x \/ (s = o /\ u[s][y] = f)
        BY <2>2, <1>1, <1>2, <1>11 DEF f
      <3> QED
        BY <3>1, <2>1, <2>2, <1>12
    <2>3. CASE z # y
      <3>1. IsRed(t, z) /\ z # f
        BY <2>1, <2>3, <1>9, <1>12
      <3>2. CASE t[s][z] = x /\ u[s][z] = y
        <4>1. IsRed(t, x)
          BY <3>2, <1>2, <1>9, <1>12
        <4> QED
          BY <3>1, <3>2, <4>1, <1>2
      <3>3. CASE u[s][z] = t[s][z] /\ t[s][z] \notin {x, y}
        <4>1. t[s][z] \in S
          BY <3>3, <1>2, <1>12 DEF IsRed
        <4> QED
          BY <3>1, <3>3, <4>1, <1>2, <1>9, <1>12
      <3> QED
        BY <2>1, <2>3, <3>2, <3>3, <1>11
    <2> QED
      BY <2>2, <2>3
  <1>13. ~IsRed(u, u.root)
    <2>1. t.root \in S /\ ~IsRed(t, t.root)
      BY <1>2, <1>3 DEF Shape, Lacking
    <2> QED
      BY <2>1, <1>2, <1>5, <1>9
  <1>14. \E h : Heights(u, S, h, NULL, "left")
    BY <1>2, <1>9, NoLack
  <1> QED
    BY <1>7, <1>9, <1>12, <1>13, <1>14 DEF Sound, RedRule, Beyond

Removing(t0, S) == {s \in Removals : Shrunk(s.tree, S, s.parent, s.elm) /\ Beyond(t0, s.tree, S)}

LEMMA RemovingIs ==
  ASSUME NEW t0, NEW t, NEW S, NEW p \in Link, NEW elm \in Link, NEW u, Beyond(t0, t, S), Beyond(t, u, S),
         Shrunk(u, S, p, elm)
  PROVE  [tree |-> u, parent |-> p, elm |-> elm] \in Removing(t0, S)
  <1>1. u \in RBTrees
    BY DEF Shrunk, Shape
  <1>2. Beyond(t0, u, S)
    BY DEF Beyond
  <1> QED
    BY <1>1, <1>2 DEF Removing, Removals

LEMMA RemovalEnds ==
  ASSUME NEW s \in Removals, IsRed(s.tree, s.elm) \/ s.elm = s.tree.root
  PROVE  RemoveColorStep[s] = s
  BY DEF RemoveColorStep

LEMMA ShrunkLacks ==
  ASSUME NEW t, NEW S, NEW p, NEW elm, Shrunk(t, S, p, elm), ~IsRed(t, elm), elm # t.root
  PROVE  LET side == IF t.left[p] = elm THEN "left" ELSE "right"
         IN Lacking(t, S, p, side) /\ t[side][p] = elm /\ elm # p
  <1> DEFINE side == IF t.left[p] = elm THEN "left" ELSE "right"
  <1>1. PICK lab : Shape(t, S, lab)
    BY DEF Shrunk
  <1>2. PICK e \in Sides : p \in S /\ t[e][p] = elm /\ \E g : Heights(t, S, g, p, e)
    BY DEF Shrunk
  <1>3. S \subseteq Node /\ NULL \notin S
    BY <1>1, Numbers DEF Shape
  <1>4. RedRule(t, S, NULL, NULL)
    <2>1. ASSUME NEW z \in S, NEW s \in Sides, IsRed(t, z), IsRed(t, t[s][z]) PROVE FALSE
      BY <2>1 DEF Shrunk, RedRule
    <2> QED
      BY <2>1 DEF RedRule
  <1>5. ~IsRed(t, t.root)
    BY DEF Shrunk
  <1>6. Lacking(t, S, p, e)
    BY <1>1, <1>2, <1>4, <1>5 DEF Lacking
  <1>7. t[Other(e)][p] # elm
    <2>1. t[Other(e)][p] # t[e][p]
      BY <1>6, LackingIs
    <2> QED
      BY <2>1, <1>2
  <1>8. side = e
    BY <1>2, <1>7 DEF Sides, Other
  <1>9. elm # p
    BY <1>1, <1>2, <1>3, Kid
  <1> HIDE DEF side
  <1>10. Lacking(t, S, p, side) /\ t[side][p] = elm /\ elm # p
    BY <1>2, <1>6, <1>8, <1>9
  <1> QED
    BY <1>10 DEF side

LEMMA SoundShrunk ==
  ASSUME NEW t, NEW S, Sound(t, S), NEW p
  PROVE  Shrunk(t, S, p, t.root)
  BY DEF Sound, Shrunk, RedRule, IsRed

LEMMA RemoveColorKeeps ==
  ASSUME NEW t0, NEW S, NEW s \in Removing(t0, S)
  PROVE  LET u == RemoveColorStep[s]
         IN /\ u \in Removing(t0, S)
            /\ \/ RemoveColorStep[u] = u
               \/ Cardinality(Colored(u.tree, "RB_BLACK")) < Cardinality(Colored(s.tree, "RB_BLACK"))
            /\ u = s => IsRed(s.tree, s.elm) \/ s.elm = s.tree.root
  <1> DEFINE t == s.tree
             p == s.parent
             side == IF t.left[p] = s.elm THEN "left" ELSE "right"
             t1 == RaiseRed(t, p, side)
             y == t1[Other(side)][p]
             r == SetColor(t1, y, "RB_RED")
             f == RedFarSide(t1, p, side)
             t2 == RaiseSibling(f, p, side)
             u == RemoveColorStep[s]
  <1>1. s \in Removals /\ Shrunk(t, S, p, s.elm) /\ Beyond(t0, t, S)
    BY DEF Removing
  <1>2. u = IF IsRed(t, s.elm) \/ s.elm = t.root THEN s
            ELSE IF ~IsRed(t1, t1.left[y]) /\ ~IsRed(t1, t1.right[y])
            THEN [tree |-> r, parent |-> t1.parent[p], elm |-> p]
            ELSE [tree |-> t2, parent |-> p, elm |-> t2.root]
    BY <1>1 DEF RemoveColorStep
  <1>3. CASE IsRed(t, s.elm) \/ s.elm = t.root
    BY <1>1, <1>2, <1>3, RemovalEnds
  <1>4. CASE ~IsRed(t, s.elm) /\ s.elm # t.root
    <2>1. Lacking(t, S, p, side) /\ s.elm # p
      BY <1>1, <1>4, ShrunkLacks
    <2> HIDE DEF side, p, t
    <2>2. /\ Lacking(t1, S, p, side) /\ Beyond(t, t1, S) /\ ~IsRed(t1, t1[Other(side)][p])
          /\ (t1 = t \/ IsRed(t1, p))
      BY <2>1, RedRaised
    <2>3. p \in S /\ p \in Link /\ Beyond(t0, t1, S)
      BY <1>1, <2>1, <2>2, LackingIs DEF Lacking, Beyond, Link
    <2> HIDE DEF t1
    <2>4. t1.parent[p] \in Link
      <3>1. t1 \in RBTrees /\ p \in Node
        BY <2>2, LackingIs
      <3> QED
        BY <3>1 DEF RBTrees
    <2>5. CASE ~IsRed(t1, t1.left[y]) /\ ~IsRed(t1, t1.right[y])
      <3>1. u = [tree |-> r, parent |-> t1.parent[p], elm |-> p]
        BY <1>2, <1>4, <2>5
      <3>2. /\ Shrunk(r, S, t1.parent[p], p) /\ Beyond(t1, r, S) /\ (IsRed(t1, p) => IsRed(r, p))
            /\ Cardinality(Colored(r, "RB_BLACK")) < Cardinality(Colored(t1, "RB_BLACK"))
        <4>1. y = t1[Other(side)][p] /\ ~IsRed(t1, y)
          BY <2>2
        <4> HIDE DEF y
        <4> QED
          BY <4>1, <2>2, <2>5, SiblingReddened
      <3> HIDE DEF r, u
      <3>3. u \in Removing(t0, S)
        BY <2>3, <2>4, <3>1, <3>2, RemovingIs
      <3>4. u # s
        BY <2>1, <3>1
      <3>5. CASE t1 = t
        <4>1. Cardinality(Colored(u.tree, "RB_BLACK")) < Cardinality(Colored(s.tree, "RB_BLACK"))
          BY <3>1, <3>2, <3>5 DEF t
        <4> QED
          BY <3>3, <3>4, <4>1 DEF u
      <3>6. CASE IsRed(t1, p)
        <4>1. u \in Removals /\ IsRed(u.tree, u.elm)
          BY <3>1, <3>2, <3>3, <3>6 DEF Removing
        <4>2. RemoveColorStep[u] = u
          BY <4>1, RemovalEnds
        <4> QED
          BY <3>3, <3>4, <4>2 DEF u
      <3> QED
        BY <2>2, <3>5, <3>6
    <2>6. CASE IsRed(t1, t1.left[y]) \/ IsRed(t1, t1.right[y])
      <3>1. u = [tree |-> t2, parent |-> p, elm |-> t2.root]
        BY <1>2, <1>4, <2>6
      <3>2. /\ Lacking(f, S, p, side) /\ Beyond(t1, f, S)
            /\ ~IsRed(f, f[Other(side)][p]) /\ IsRed(f, f[Other(side)][f[Other(side)][p]])
        <4>1. y = t1[Other(side)][p] /\ ~IsRed(t1, y)
          BY <2>2
        <4> HIDE DEF y
        <4> QED
          BY <4>1, <2>2, <2>6, FarReddened
      <3> HIDE DEF f
      <3>3. Sound(t2, S) /\ Beyond(f, t2, S)
        BY <3>2, SiblingRaised
      <3> HIDE DEF t2
      <3>4. Shrunk(t2, S, p, t2.root) /\ t2.root \in Link
        BY <3>3, SoundShrunk DEF Sound, Shape, Link
      <3>5. Beyond(t1, t2, S)
        BY <3>2, <3>3 DEF Beyond
      <3> HIDE DEF u
      <3>6. u \in Removing(t0, S)
        BY <2>3, <3>1, <3>4, <3>5, RemovingIs
      <3>7. u.elm = u.tree.root
        BY <3>1
      <3>8. RemoveColorStep[u] = u
        BY <3>6, <3>7, RemovalEnds DEF Removing
      <3> QED
        BY <3>6, <3>7, <3>8 DEF u
    <2> QED
      BY <2>5, <2>6
  <1> QED
    BY <1>3, <1>4

(* What the loop ends with is colored black, and no path lacks one.        *)
LEMMA ElmBlack ==
  ASSUME NEW t, NEW S, NEW p, NEW x, Shrunk(t, S, p, x), IsRed(t, x) \/ x = t.root
  PROVE  LET u == SetColor(t, x, "RB_BLACK")
         IN Sound(u, S) /\ Beyond(t, u, S)
  <1> DEFINE u == SetColor(t, x, "RB_BLACK")
  <1>1. PICK lab : Shape(t, S, lab)
    BY DEF Shrunk
  <1>2. PICK g : \/ x = t.root /\ Heights(t, S, g, NULL, "left")
                 \/ p \in S /\ \E side \in Sides : t[side][p] = x /\ Heights(t, S, g, p, side)
    BY DEF Shrunk
  <1>3. /\ t \in RBTrees /\ S \subseteq Node /\ NULL \notin S /\ t.root \in S \cup {NULL}
        /\ (t.root = NULL => S = {}) /\ x \in S \cup {NULL}
    <2>1. t \in RBTrees /\ S \subseteq Node /\ t.root \in S \cup {NULL} /\ (t.root = NULL => S = {})
      BY <1>1 DEF Shape
    <2>2. x \in S \cup {NULL}
      BY <1>1, <1>2, <2>1, Kid
    <2> QED
      BY <2>1, <2>2, Numbers
  <1>4. x \in Link
    BY <1>3 DEF Link
  <1>5. /\ u \in RBTrees /\ u.root = t.root /\ u.left = t.left /\ u.right = t.right /\ u.parent = t.parent
        /\ \A z \in Node : u.color[z] = IF z = x THEN "RB_BLACK" ELSE t.color[z]
    BY <1>3, <1>4, ColorSet
  <1> HIDE DEF u
  <1>6. Recolored(t, u) /\ Shape(u, S, lab) /\ \A s \in Sides : u[s] = t[s]
    BY <1>1, <1>5, ShapeRecolored DEF Recolored
  <1>7. \A z \in S \cup {NULL} : IsRed(u, z) <=> z # x /\ IsRed(t, z)
    BY <1>3, <1>5 DEF IsRed
  <1>8. RedRule(u, S, NULL, NULL)
    <2>1. ASSUME NEW z \in S, NEW s \in Sides, IsRed(u, z), IsRed(u, t[s][z]) PROVE FALSE
      <3>1. t[s][z] \in S \cup {NULL}
        BY <1>1, Kid
      <3>2. IsRed(t, z) /\ IsRed(t, t[s][z]) /\ z # x /\ t[s][z] # x
        BY <2>1, <3>1, <1>7
      <3> QED
        BY <3>2 DEF Shrunk, RedRule
    <2> QED
      BY <2>1, <1>6 DEF RedRule
  <1>9. ~IsRed(u, u.root)
    BY <1>3, <1>5, <1>7 DEF Shrunk
  <1>10. CASE ~IsRed(t, x)
    <2>1. ASSUME NEW z \in S PROVE Black(u, z) = Black(t, z)
      BY <1>7, <1>10 DEF Black
    <2>2. Heights(t, S, g, NULL, "left")
      <3>1. CASE x = NULL
        BY <3>1, <1>2, <1>3, <1>10 DEF Heights
      <3>2. CASE x # NULL
        BY <3>2, <1>1, <1>2, <1>10, Kid
      <3> QED
        BY <3>1, <3>2
    <2>3. Heights(u, S, g, NULL, "left")
      BY <2>1, <2>2, <1>6 DEF Heights
    <2> QED
      BY <2>3, <1>5, <1>6, <1>8, <1>9 DEF Sound, Beyond, u
  <1>11. CASE IsRed(t, x)
    <2>1. x # NULL /\ x \in S
      BY <1>3, <1>11 DEF IsRed
    <2> DEFINE h == [g EXCEPT ![x] = g[x] + 1]
    <2>2. g \in [Link -> Nat] /\ g[NULL] = 0 /\ Node \subseteq Link
      BY <1>2 DEF Heights, Link
    <2>3. /\ h \in [Link -> Nat] /\ h[NULL] = 0
          /\ \A k \in Link : h[k] = IF k = x THEN g[k] + 1 ELSE g[k]
      BY <1>4, <2>1, <2>2
    <2> HIDE DEF h
    <2>4. ASSUME NEW z \in S, NEW s \in Sides
          PROVE  g[z] = g[t[s][z]] + Black(t, z) + IF t[s][z] = x THEN 1 ELSE 0
      <3>1. z # NULL
        BY <1>3
      <3>2. CASE x = t.root
        <4>1. t[s][z] # x
          BY <2>1, <3>2, <1>1, Kid
        <4>2. Heights(t, S, g, NULL, "left")
          BY <2>1, <3>2, <1>1, <1>2, Kid
        <4>3. Lack(NULL, "left", z, s) = 0
          BY <3>1 DEF Lack
        <4> QED
          BY <4>1, <4>2, <4>3 DEF Heights
      <3>3. CASE x # t.root
        <4>1. PICK e \in Sides : p \in S /\ t[e][p] = x /\ Heights(t, S, g, p, e)
          BY <3>3, <1>2
        <4>2. t[s][z] = x <=> z = p /\ s = e
          BY <4>1, <2>1, <1>1, OneLink
        <4>3. Lack(p, e, z, s) = IF t[s][z] = x THEN 1 ELSE 0
          BY <4>2 DEF Lack
        <4> QED
          BY <4>1, <4>3 DEF Heights
      <3> QED
        BY <3>2, <3>3
    <2>5. ASSUME NEW z \in S, NEW s \in Sides
          PROVE  h[z] = h[t[s][z]] + Black(u, z) + Lack(NULL, "left", z, s)
      <3>1. /\ z \in Link /\ t[s][z] \in Link /\ g[z] \in Nat /\ g[t[s][z]] \in Nat
            /\ Black(t, z) \in Nat /\ Lack(NULL, "left", z, s) = 0
        BY <1>3, <2>2, RBType DEF Lack, Black
      <3>2. CASE z = x
        <4>1. Black(t, z) = 0 /\ Black(u, z) = 1 /\ t[s][z] # x
          BY <3>2, <1>1, <1>7, <1>11, <2>1, Kid DEF Black
        <4> QED
          BY <4>1, <3>1, <3>2, <2>3, <2>4
      <3>3. CASE z # x
        <4>1. Black(u, z) = Black(t, z)
          BY <3>3, <1>7 DEF Black
        <4> QED
          BY <4>1, <3>1, <3>3, <2>3, <2>4
      <3> QED
        BY <3>2, <3>3
    <2>6. Heights(u, S, h, NULL, "left")
      BY <1>1, <1>6, <2>3, <2>5, HeightsRecolored
    <2> QED
      BY <2>6, <1>5, <1>6, <1>8, <1>9 DEF Sound, Beyond, u
  <1> QED
    BY <1>10, <1>11

LEMMA RemoveColored ==
  ASSUME NEW t, NEW S, NEW p \in Link, NEW elm \in Link, Shrunk(t, S, p, elm)
  PROVE  LET u == RemoveColor(t, p, elm)
         IN Sound(u, S) /\ Beyond(t, u, S)
  <1> DEFINE Inv == Removing(t, S)
             state == [tree |-> t, parent |-> p, elm |-> elm]
             size == [s \in Inv |-> Cardinality(Colored(s.tree, "RB_BLACK"))]
             s == Repeat(RemoveColorStep, state)
             u == SetColor(s.tree, s.elm, "RB_BLACK")
  <1>1. Beyond(t, t, S)
    BY DEF Beyond
  <1>2. state \in Inv
    BY <1>1, RemovingIs
  <1>3. \A z : Cardinality(Colored(z, "RB_BLACK")) \in Nat /\ Cardinality(Colored(z, "RB_BLACK")) <= NumNodes
    BY NodesFinite DEF Colored
  <1>4. size \in [Inv -> Nat] /\ size[state] <= NumNodes
    BY <1>2, <1>3
  <1>5. ASSUME NEW z \in Inv
        PROVE  /\ RemoveColorStep[z] \in Inv
               /\ \/ RemoveColorStep[RemoveColorStep[z]] = RemoveColorStep[z]
                  \/ size[RemoveColorStep[z]] < size[z]
    <2>1. /\ RemoveColorStep[z] \in Inv
          /\ \/ RemoveColorStep[RemoveColorStep[z]] = RemoveColorStep[z]
             \/ Cardinality(Colored(RemoveColorStep[z].tree, "RB_BLACK")) < Cardinality(Colored(z.tree, "RB_BLACK"))
      BY <1>5, RemoveColorKeeps
    <2> HIDE DEF Inv
    <2> QED
      BY <2>1
  <1> HIDE DEF Inv, state, size
  <1>6. s \in Inv /\ RemoveColorStep[s] = s
    BY <1>2, <1>4, <1>5, RepeatEnds
  <1> HIDE DEF s
  <1>7. Shrunk(s.tree, S, s.parent, s.elm) /\ Beyond(t, s.tree, S) /\ (IsRed(s.tree, s.elm) \/ s.elm = s.tree.root)
    BY <1>6, RemoveColorKeeps DEF Inv, Removing
  <1>8. Sound(u, S) /\ Beyond(s.tree, u, S)
    BY <1>7, ElmBlack
  <1>9. RemoveColor(t, p, elm) = u
    BY DEF RemoveColor, s, state
  <1> HIDE DEF u
  <1> QED
    BY <1>7, <1>8, <1>9 DEF Beyond

-----------------------------------------------------------------------------
(* In the place of old comes elm, which lies beside it in the order.       *)
Renamed(old, elm, z) == IF z = old THEN elm ELSE z

IsRenamed(t, u, S, old, elm) ==
  /\ u \in RBTrees /\ u.root = Renamed(old, elm, t.root)
  /\ \A z \in S :
       /\ u.parent[Renamed(old, elm, z)] = Renamed(old, elm, t.parent[z])
       /\ u.color[Renamed(old, elm, z)] = t.color[z]
       /\ \A s \in Sides : u[s][Renamed(old, elm, z)] = Renamed(old, elm, t[s][z])

LEMMA ReplaceLinks ==
  ASSUME NEW t \in RBTrees, NEW old \in Node, NEW elm \in Node, elm # old,
         NEW p, p = t.parent[old], p # elm, Placing(t, p, old)
  PROVE  LET u == Replace(t, old, elm)
         IN /\ u \in RBTrees /\ u.root = (IF p = NULL THEN elm ELSE t.root)
            /\ \A z \in Node :
                 /\ u.parent[z] = IF z \in {t["left"][old], t["right"][old]} THEN elm
                                  ELSE IF z = elm THEN p ELSE t.parent[z]
                 /\ u.color[z] = IF z = elm THEN t.color[old] ELSE t.color[z]
                 /\ \A s \in Sides : u[s][z] = IF z = elm THEN t[s][old]
                                               ELSE IF z = p /\ t[s][z] = old THEN elm ELSE t[s][z]
  <1> DEFINE l == t.left[old]
             r == t.right[old]
             t1 == [t EXCEPT !.left[elm] = t.left[old], !.right[elm] = t.right[old],
                             !.parent[elm] = t.parent[old], !.color[elm] = t.color[old]]
             t2 == Relink(t1, p, old, elm)
             t3 == SetParent(t2, l, elm)
             u == SetParent(t3, r, elm)
  <1>1. l \in Link /\ r \in Link /\ p \in Link /\ elm \in Link /\ elm # NULL
    <2>1. l \in Link /\ r \in Link /\ p \in Link
      BY DEF RBTrees
    <2> QED
      BY <2>1, Numbers DEF Link
  <1>2. /\ t1 \in RBTrees /\ t1.root = t.root
        /\ \A z \in Node : /\ t1.left[z] = IF z = elm THEN l ELSE t.left[z]
                           /\ t1.right[z] = IF z = elm THEN r ELSE t.right[z]
                           /\ t1.parent[z] = IF z = elm THEN p ELSE t.parent[z]
                           /\ t1.color[z] = IF z = elm THEN t.color[old] ELSE t.color[z]
    BY DEF RBTrees
  <1>3. Replace(t, old, elm) = u
    BY DEF Replace
  <1> HIDE DEF l, r, t1
  <1>4. \A z \in Node : \A s \in Sides : t1[s][z] = IF z = elm THEN t[s][old] ELSE t[s][z]
    BY <1>2 DEF l, r, Sides
  <1>5. Placing(t1, p, old)
    <2>1. ASSUME p # NULL PROVE p \in Node /\ \A s \in Sides : t1[s][p] = t[s][p]
      BY <2>1, <1>4 DEF Placing
    <2> QED
      BY <2>1, TwoSides DEF Placing
  <1>6. /\ t2 \in RBTrees /\ t2.parent = t1.parent /\ t2.color = t1.color
        /\ t2.root = (IF p = NULL THEN elm ELSE t1.root)
        /\ \A s \in Sides : \A z \in Node : t2[s][z] = IF z = p /\ t1[s][z] = old THEN elm ELSE t1[s][z]
    BY <1>1, <1>2, <1>5, Relinked
  <1> HIDE DEF t2
  <1>7. /\ t3 \in RBTrees /\ t3.root = t2.root /\ t3.left = t2.left /\ t3.right = t2.right /\ t3.color = t2.color
        /\ \A z \in Node : t3.parent[z] = IF z = l THEN elm ELSE t2.parent[z]
    <2>1. t2 \in RBTrees /\ l \in Link /\ elm \in Link
      BY <1>1, <1>6
    <2> QED
      BY <2>1, ParentSet
  <1> HIDE DEF t3
  <1>8. /\ u \in RBTrees /\ u.root = t3.root /\ u.left = t3.left /\ u.right = t3.right /\ u.color = t3.color
        /\ \A z \in Node : u.parent[z] = IF z = r THEN elm ELSE t3.parent[z]
    BY <1>1, <1>7, ParentSet
  <1> HIDE DEF u
  <1>9. \A s \in Sides : u[s] = t2[s]
    BY <1>7, <1>8 DEF Sides
  <1>10. ASSUME NEW z \in Node
         PROVE  /\ u.parent[z] = IF z \in {t["left"][old], t["right"][old]} THEN elm
                                  ELSE IF z = elm THEN p ELSE t.parent[z]
                /\ u.color[z] = IF z = elm THEN t.color[old] ELSE t.color[z]
                /\ \A s \in Sides : u[s][z] = IF z = elm THEN t[s][old]
                                               ELSE IF z = p /\ t[s][z] = old THEN elm ELSE t[s][z]
    <2>1. l = t["left"][old] /\ r = t["right"][old]
      BY DEF l, r
    <2>2. u.parent[z] = IF z \in {t["left"][old], t["right"][old]} THEN elm
                                  ELSE IF z = elm THEN p ELSE t.parent[z]
      BY <2>1, <1>2, <1>6, <1>7, <1>8
    <2>3. u.color[z] = IF z = elm THEN t.color[old] ELSE t.color[z]
      BY <1>2, <1>6, <1>7, <1>8
    <2>4. ASSUME NEW s \in Sides
          PROVE  u[s][z] = IF z = elm THEN t[s][old]
                           ELSE IF z = p /\ t[s][z] = old THEN elm ELSE t[s][z]
      BY <1>4, <1>6, <1>9
    <2> QED
      BY <2>2, <2>3, <2>4
  <1> QED
    BY <1>2, <1>3, <1>6, <1>7, <1>8, <1>10

LEMMA ReplaceRenames ==
  ASSUME NEW t, NEW S, NEW lab, Shape(t, S, lab), NEW old \in S, NEW elm \in Node \ S
  PROVE  LET u == Replace(t, old, elm)
         IN IsRenamed(t, u, S, old, elm) /\ Beyond(t, u, S \cup {elm})
  <1> DEFINE u == Replace(t, old, elm)
             p == t.parent[old]
             r(z) == Renamed(old, elm, z)
  <1>1. t \in RBTrees /\ S \subseteq Node /\ NULL \notin S /\ old \in Node /\ elm # old /\ elm # NULL
    BY Numbers DEF Shape
  <1>2. Placing(t, p, old) /\ p \in S \cup {NULL} /\ p # old /\ (p = NULL <=> old = t.root)
    BY Places
  <1>3. p # elm
    BY <1>1, <1>2
  <1>4. /\ u \in RBTrees /\ u.root = (IF p = NULL THEN elm ELSE t.root)
        /\ \A z \in Node :
             /\ u.parent[z] = IF z \in {t["left"][old], t["right"][old]} THEN elm
                              ELSE IF z = elm THEN p ELSE t.parent[z]
             /\ u.color[z] = IF z = elm THEN t.color[old] ELSE t.color[z]
             /\ \A s \in Sides : u[s][z] = IF z = elm THEN t[s][old]
                                           ELSE IF z = p /\ t[s][z] = old THEN elm ELSE t[s][z]
    BY <1>1, <1>2, <1>3, ReplaceLinks
  <1> HIDE DEF u
  <1>5. \A s \in Sides : \A z \in S : /\ t[s][z] # NULL => t[s][z] \in S /\ t.parent[t[s][z]] = z /\ t[s][z] # z
                                      /\ t[s][z] # elm
    BY <1>1, Kid
  <1>6. \A z \in S : t.parent[z] = old <=> z \in {t["left"][old], t["right"][old]}
    <2>1. ASSUME NEW z \in S, t.parent[z] = old PROVE z \in {t["left"][old], t["right"][old]}
      <3>1. \E s \in Sides : t[s][old] = z
        BY <2>1, <1>1, Places DEF Placing
      <3> QED
        BY <3>1 DEF Sides
    <2>2. ASSUME NEW z \in S, NEW s \in Sides, t[s][old] = z PROVE t.parent[z] = old
      BY <2>2, <1>1, <1>5
    <2> QED
      BY <2>1, <2>2 DEF Sides
  <1>7. u.root = r(t.root)
    BY <1>2, <1>4 DEF Renamed
  <1>8. ASSUME NEW z \in S
        PROVE  /\ u.parent[r(z)] = r(t.parent[z])
               /\ u.color[r(z)] = t.color[z]
               /\ \A s \in Sides : u[s][r(z)] = r(t[s][z])
    <2>1. CASE z = old
      <3>1. r(z) = elm /\ r(p) = p
        BY <2>1, <1>2 DEF Renamed
      <3>2. \A s \in Sides : r(t[s][z]) = t[s][z]
        BY <2>1, <1>1, <1>5 DEF Renamed
      <3>3. elm \notin {t["left"][old], t["right"][old]}
        BY <1>5 DEF Sides
      <3> QED
        BY <2>1, <3>1, <3>2, <3>3, <1>1, <1>4
    <2>2. CASE z # old
      <3>1. r(z) = z /\ z # elm /\ z \in Node
        BY <2>2, <1>1 DEF Renamed
      <3>2. u.parent[z] = r(t.parent[z]) /\ u.color[z] = t.color[z]
        BY <2>2, <3>1, <1>4, <1>6 DEF Renamed
      <3>3. ASSUME NEW s \in Sides PROVE u[s][z] = r(t[s][z])
        <4>1. t[s][z] = old => z = p
          BY <1>1, <1>5
        <4> QED
          BY <3>1, <4>1, <1>4 DEF Renamed
      <3> QED
        BY <3>1, <3>2, <3>3
    <2> QED
      BY <2>1, <2>2
  <1>9. IsRenamed(t, u, S, old, elm)
    BY <1>4, <1>7, <1>8 DEF IsRenamed
  <1>10. Beyond(t, u, S \cup {elm})
    <2>1. \A z \in Node \ (S \cup {elm}) : z # elm /\ z \notin {t["left"][old], t["right"][old]}
      BY <1>1, <1>5, Numbers DEF Sides
    <2> QED
      BY <2>1, <1>4 DEF Beyond
  <1> QED
    BY <1>9, <1>10 DEF u

(* No other element lies between old and elm. *)
NextTo(S, old, elm) == \A y \in S \ {old} : \A s \in Sides : Before(s, y, old) <=> Before(s, y, elm)

LEMMA ShapeRenamed ==
  ASSUME NEW t, NEW S, NEW lab, Shape(t, S, lab), NEW old \in S, NEW elm \in Node \ S,
         NextTo(S, old, elm), NEW u, IsRenamed(t, u, S, old, elm)
  PROVE  \E l : Shape(u, (S \ {old}) \cup {elm}, l)
  <1> DEFINE r(z) == Renamed(old, elm, z)
             q(z) == IF z = elm THEN old ELSE z
             T == (S \ {old}) \cup {elm}
             new == [s \in Sides |-> [z \in Node |-> r(lab[s][q(z)])]]
  <1>1. /\ t \in RBTrees /\ S \subseteq Node /\ NULL \notin S /\ old \in Node /\ elm # old /\ elm # NULL
        /\ lab \in [Sides -> [Node -> Int]] /\ Node \subseteq Int /\ elm \in Int /\ old \in Int
        /\ T \subseteq Node /\ old # NULL
    BY Numbers DEF Shape
  <1>2. ASSUME NEW z \in S
        PROVE  r(z) \in T /\ r(z) \in Node /\ q(r(z)) = z /\ (r(z) = elm <=> z = old)
    BY <1>1 DEF Renamed
  <1>3. ASSUME NEW w \in T PROVE q(w) \in S /\ r(q(w)) = w
    BY <1>1 DEF Renamed
  <1>4. ASSUME NEW s \in Sides, NEW a \in S \cup {Far(s)}, NEW b \in S
        PROVE  Before(s, a, b) <=> Before(s, r(a), r(b))
    <2>1. a \in Int /\ b \in Int
      BY <1>1, Numbers
    <2>2. Far(s) # old /\ \A y \in Node : Before(s, Far(s), y)
      BY <1>1, Numbers DEF Before
    <2>3. ~Before(s, old, old) /\ ~Before(s, elm, elm)
      BY <1>1, Order
    <2>4. CASE a = Far(s)
      BY <2>2, <2>4, <1>1, <1>2 DEF Renamed
    <2>5. CASE a \in S /\ b = old
      BY <2>3, <2>5 DEF Renamed, NextTo
    <2>6. CASE a = old /\ b # old
      <3>1. Other(s) \in Sides
        BY TwoSides
      <3>2. Before(Other(s), b, old) <=> Before(Other(s), b, elm)
        BY <2>6, <3>1 DEF NextTo
      <3>3. Before(s, old, b) <=> Before(s, elm, b)
        BY <3>2, <2>1, <1>1, Order
      <3> QED
        BY <2>6, <3>3 DEF Renamed
    <2>7. CASE a # old /\ b # old
      BY <2>7 DEF Renamed
    <2> QED
      BY <2>4, <2>5, <2>6, <2>7
  <1>5. ASSUME NEW z \in S, NEW s \in Sides
        PROVE  /\ lab[s][z] \in S \cup {Far(s)} /\ Before(s, lab[s][z], z)
               /\ ~Before(s, lab[s][z], Far(s)) /\ KidOK(t, S, lab, s, z)
               /\ new[s][r(z)] = r(lab[s][z])
    <2>1. lab[s][z] \in S \cup {Far(s)}
      BY Nested
    <2>2. new[s][r(z)] = r(lab[s][z])
      <3>1. new[s][r(z)] = r(lab[s][q(r(z))])
        BY <1>2
      <3> QED
        BY <3>1, <1>2
    <2> QED
      BY <2>1, <2>2 DEF Shape
  <1>6. new \in [Sides -> [Node -> Int]]
    <2>1. ASSUME NEW s \in Sides, NEW z \in Node PROVE r(lab[s][q(z)]) \in Int
      <3>1. q(z) \in Node
        BY <1>1
      <3>2. lab[s][q(z)] \in Int
        BY <3>1, <1>1
      <3> QED
        BY <3>2, <1>1 DEF Renamed
    <2> HIDE DEF r, q
    <2> QED
      BY <2>1
  <1>7. /\ u \in RBTrees /\ u.root = r(t.root)
        /\ \A z \in S : /\ u.parent[r(z)] = r(t.parent[z])
                        /\ \A s \in Sides : u[s][r(z)] = r(t[s][z])
    BY DEF IsRenamed
  <1>8. r(NULL) = NULL
    BY <1>1 DEF Renamed
  <1>9. \A a, b \in S \cup {NULL} : r(a) = r(b) => a = b
    BY <1>1 DEF Renamed
  <1>10. \A s \in Sides : r(Far(s)) = Far(s)
    BY <1>1, Numbers DEF Renamed, Before
  <1>11. t.root \in S \cup {NULL} /\ (t.root = NULL => S = {})
    BY DEF Shape
  <1> HIDE DEF r, q, T, new
  <1>12. ASSUME NEW z \in S PROVE Attached(u, T, r(z))
    <2>1. Attached(t, S, z)
      BY DEF Shape
    <2>2. CASE z = t.root
      BY <2>1, <2>2, <1>7, <1>8 DEF Attached
    <2>3. CASE z # t.root
      <3>1. PICK s \in Sides : t.parent[z] \in S /\ t[s][t.parent[z]] = z
        BY <2>1, <2>3 DEF Attached
      <3>2. r(z) # u.root
        BY <2>3, <1>7, <1>9, <1>11
      <3>3. u.parent[r(z)] = r(t.parent[z]) /\ r(t.parent[z]) \in T /\ u[s][r(t.parent[z])] = r(z)
        BY <3>1, <1>2, <1>7
      <3> QED
        BY <3>2, <3>3 DEF Attached
    <2> QED
      BY <2>2, <2>3
  <1>13. ASSUME NEW z \in S, NEW s \in Sides
         PROVE  /\ Before(s, new[s][r(z)], r(z)) /\ ~Before(s, new[s][r(z)], Far(s))
                /\ KidOK(u, T, new, s, r(z))
    <2>1. Before(s, new[s][r(z)], r(z))
      BY <1>4, <1>5
    <2>2. ~Before(s, r(lab[s][z]), Far(s))
      <3>1. CASE lab[s][z] = Far(s)
        BY <3>1, <1>5, <1>10
      <3>2. CASE lab[s][z] \in S
        <4>1. r(lab[s][z]) \in Node
          BY <3>2, <1>2
        <4>2. Before(s, Far(s), r(lab[s][z])) /\ r(lab[s][z]) \in Int /\ Far(s) \in Int
          BY <4>1, Numbers
        <4> QED
          BY <4>2 DEF Before
      <3> QED
        BY <3>1, <3>2, <1>5
    <2>3. CASE t[s][z] = NULL
      <3>1. u[s][r(z)] = NULL
        BY <2>3, <1>7, <1>8
      <3>2. ASSUME NEW w \in T, Before(s, new[s][r(z)], w), Before(s, w, r(z)) PROVE FALSE
        <4>1. PICK y \in S : w = r(y)
          BY <1>3
        <4>2. Before(s, lab[s][z], y)
          BY <3>2, <4>1, <1>4, <1>5
        <4>3. Before(s, y, z)
          BY <3>2, <4>1, <1>4
        <4>4. \A k \in S : ~(Before(s, lab[s][z], k) /\ Before(s, k, z))
          BY <2>3, <1>1, <1>5 DEF KidOK
        <4> QED
          BY <4>2, <4>3, <4>4
      <3>3. KidOK(u, T, new, s, r(z))
        BY <3>1, <3>2 DEF KidOK
      <3> QED
        BY <3>3, <2>1, <2>2, <1>5
    <2>4. CASE t[s][z] # NULL
      <3> DEFINE c == t[s][z]
                 o == Other(s)
      <3>1. c \in S /\ t.parent[c] = z /\ lab[s][c] = lab[s][z] /\ lab[o][c] = z /\ o \in Sides
        BY <2>4, Kid, TwoSides
      <3>2. u[s][r(z)] = r(c)
        BY <1>7
      <3> HIDE DEF c, o
      <3>3. r(c) \in T /\ u.parent[r(c)] = r(z)
        BY <3>1, <1>2, <1>7
      <3>4. new[s][r(c)] = new[s][r(z)] /\ new[o][r(c)] = r(z)
        BY <3>1, <1>5
      <3>5. KidOK(u, T, new, s, r(z))
        BY <3>2, <3>3, <3>4 DEF KidOK, o
      <3> QED
        BY <3>5, <2>1, <2>2, <1>5
    <2> QED
      BY <2>3, <2>4
  <1>14. ASSUME NEW s \in Sides, u.root \in T PROVE new[s][u.root] = Far(s)
    <2>1. t.root \in S
      BY <1>1, <1>7, <1>8, <1>11, <1>14
    <2>2. lab[s][t.root] = Far(s)
      BY <2>1 DEF Shape
    <2> QED
      BY <2>1, <2>2, <1>5, <1>7, <1>10
  <1>15. u.root \in T \cup {NULL} /\ (u.root = NULL => T = {})
    <2>1. t.root \in S
      BY <1>1, <1>11
    <2>2. u.root \in T /\ u.root \in Node
      BY <2>1, <1>2, <1>7
    <2> QED
      BY <2>2, Numbers
  <1>16. \A w \in T : \E z \in S : w = r(z)
    BY <1>3
  <1>17. Shape(u, T, new)
    <2>1. \A w \in T : Attached(u, T, w)
      BY <1>12, <1>16
    <2>2. \A s \in Sides : \A w \in T : /\ Before(s, new[s][w], w) /\ ~Before(s, new[s][w], Far(s))
                                       /\ KidOK(u, T, new, s, w)
      BY <1>13, <1>16
    <2> QED
      BY <2>1, <2>2, <1>1, <1>6, <1>7, <1>14, <1>15 DEF Shape
  <1> QED
    BY <1>17 DEF T

LEMMA HeightsRenamed ==
  ASSUME NEW t, NEW S, NEW lab, Shape(t, S, lab), NEW old \in S, NEW elm \in Node \ S,
         NEW u, IsRenamed(t, u, S, old, elm), NEW g, NEW p \in S \cup {NULL}, NEW at, Heights(t, S, g, p, at)
  PROVE  \E h : Heights(u, (S \ {old}) \cup {elm}, h, Renamed(old, elm, p), at)
  <1> DEFINE r(z) == Renamed(old, elm, z)
             T == (S \ {old}) \cup {elm}
             h == [g EXCEPT ![elm] = g[old]]
  <1>1. t \in RBTrees /\ S \subseteq Node /\ NULL \notin S /\ elm # old /\ elm # NULL /\ elm \notin S /\ old # NULL
    BY Numbers DEF Shape
  <1>2. g \in [Link -> Nat] /\ g[NULL] = 0 /\ Node \subseteq Link /\ old \in Link /\ elm \in Link
    BY <1>1 DEF Heights, Link
  <1>3. /\ h \in [Link -> Nat] /\ h[NULL] = 0
        /\ \A k \in Link : h[k] = IF k = elm THEN g[old] ELSE g[k]
    BY <1>1, <1>2
  <1> HIDE DEF h
  <1>4. \A k \in S \cup {NULL} : h[r(k)] = g[k]
    BY <1>1, <1>2, <1>3 DEF Renamed
  <1>5. \A a, b \in S \cup {NULL} : r(a) = r(b) => a = b
    BY <1>1 DEF Renamed
  <1>6. \A w \in T : \E z \in S : w = r(z)
    BY <1>1 DEF Renamed
  <1>7. \A z \in S : /\ u.color[r(z)] = t.color[z]
                     /\ \A s \in Sides : u[s][r(z)] = r(t[s][z])
    BY DEF IsRenamed
  <1>8. \A z \in S : r(z) # NULL
    BY <1>1 DEF Renamed
  <1> HIDE DEF r, T
  <1>9. ASSUME NEW z \in S, NEW s \in Sides
        PROVE  h[r(z)] = h[u[s][r(z)]] + Black(u, r(z)) + Lack(r(p), at, r(z), s)
    <2>1. g[z] = g[t[s][z]] + Black(t, z) + Lack(p, at, z, s)
      BY DEF Heights
    <2>2. t[s][z] \in S \cup {NULL}
      BY Kid
    <2>3. h[r(z)] = g[z] /\ h[u[s][r(z)]] = g[t[s][z]]
      BY <2>2, <1>4, <1>7
    <2>4. Black(u, r(z)) = Black(t, z)
      BY <1>1, <1>7, <1>8 DEF Black, IsRed
    <2>5. Lack(r(p), at, r(z), s) = Lack(p, at, z, s)
      BY <1>5 DEF Lack
    <2> QED
      BY <2>1, <2>3, <2>4, <2>5
  <1>10. Heights(u, T, h, r(p), at)
    BY <1>3, <1>6, <1>9 DEF Heights
  <1> QED
    BY <1>10 DEF T, r

LEMMA RedRenamed ==
  ASSUME NEW t, NEW S, NEW lab, Shape(t, S, lab), NEW old \in S, NEW elm \in Node \ S,
         NEW u, IsRenamed(t, u, S, old, elm), NEW c \in S \cup {NULL}, c # old, RedRule(t, S, c, c)
  PROVE  /\ RedRule(u, (S \ {old}) \cup {elm}, c, c)
         /\ IsRed(u, u.root) <=> IsRed(t, t.root)
  <1> DEFINE r(z) == Renamed(old, elm, z)
             T == (S \ {old}) \cup {elm}
  <1>1. /\ t \in RBTrees /\ S \subseteq Node /\ NULL \notin S /\ elm # old /\ elm # NULL /\ elm \notin S /\ old # NULL
        /\ t.root \in S \cup {NULL}
    BY Numbers DEF Shape
  <1>2. \A w \in T : \E z \in S : w = r(z)
    BY <1>1 DEF Renamed
  <1>3. \A z \in S : /\ u.color[r(z)] = t.color[z]
                     /\ \A s \in Sides : u[s][r(z)] = r(t[s][z])
    BY DEF IsRenamed
  <1>4. \A z \in S : r(z) # NULL
    BY <1>1 DEF Renamed
  <1>5. r(NULL) = NULL /\ r(c) = c
    BY <1>1 DEF Renamed
  <1>6. u.root = r(t.root)
    BY DEF IsRenamed
  <1> HIDE DEF r, T
  <1>7. \A z \in S \cup {NULL} : IsRed(u, r(z)) <=> IsRed(t, z)
    BY <1>1, <1>3, <1>4, <1>5 DEF IsRed
  <1>8. ASSUME NEW w \in T, NEW s \in Sides, IsRed(u, w), IsRed(u, u[s][w])
        PROVE  w = c \/ u[s][w] = c
    <2>1. PICK z \in S : w = r(z)
      BY <1>2
    <2>2. t[s][z] \in S \cup {NULL} /\ u[s][w] = r(t[s][z])
      BY <2>1, <1>3, Kid
    <2>3. IsRed(t, z) /\ IsRed(t, t[s][z])
      BY <2>1, <2>2, <1>7, <1>8
    <2>4. z = c \/ t[s][z] = c
      BY <2>3 DEF RedRule
    <2> QED
      BY <2>1, <2>2, <2>4, <1>5
  <1>9. RedRule(u, T, c, c)
    BY <1>8 DEF RedRule
  <1>10. IsRed(u, u.root) <=> IsRed(t, t.root)
    BY <1>1, <1>6, <1>7
  <1> QED
    BY <1>9, <1>10 DEF T

LEMMA SoundRenamed ==
  ASSUME NEW t, NEW S, Sound(t, S), NEW old \in S, NEW elm \in Node \ S, NextTo(S, old, elm)
  PROVE  LET u == Replace(t, old, elm)
         IN Sound(u, (S \ {old}) \cup {elm}) /\ Beyond(t, u, S \cup {elm})
  <1> DEFINE u == Replace(t, old, elm)
             T == (S \ {old}) \cup {elm}
  <1>1. PICK lab : Shape(t, S, lab)
    BY DEF Sound
  <1>2. PICK g : Heights(t, S, g, NULL, "left")
    BY DEF Sound
  <1>3. IsRenamed(t, u, S, old, elm) /\ Beyond(t, u, S \cup {elm})
    BY <1>1, ReplaceRenames
  <1> HIDE DEF u
  <1>4. old # NULL /\ Renamed(old, elm, NULL) = NULL
    BY <1>1, Numbers DEF Shape, Renamed
  <1>5. \E l : Shape(u, T, l)
    BY <1>1, <1>3, ShapeRenamed
  <1>6. \E h : Heights(u, T, h, NULL, "left")
    <2>1. NULL \in S \cup {NULL}
      OBVIOUS
    <2>2. \E h : Heights(u, T, h, Renamed(old, elm, NULL), "left")
      BY <2>1, <1>1, <1>2, <1>3, HeightsRenamed
    <2> QED
      BY <2>2, <1>4
  <1>7. RedRule(u, T, NULL, NULL) /\ ~IsRed(u, u.root)
    <2>1. NULL \in S \cup {NULL} /\ NULL # old /\ RedRule(t, S, NULL, NULL) /\ ~IsRed(t, t.root)
      BY <1>4 DEF Sound
    <2> QED
      BY <2>1, <1>1, <1>3, RedRenamed
  <1> QED
    BY <1>3, <1>5, <1>6, <1>7 DEF Sound, u

LEMMA ShrunkRenamed ==
  ASSUME NEW t, NEW S, NEW p, NEW c, Shrunk(t, S, p, c), NEW old \in S, c # old,
         NEW elm \in Node \ S, NextTo(S, old, elm)
  PROVE  LET u == Replace(t, old, elm)
         IN Shrunk(u, (S \ {old}) \cup {elm}, Renamed(old, elm, p), c) /\ Beyond(t, u, S \cup {elm})
  <1> DEFINE u == Replace(t, old, elm)
             T == (S \ {old}) \cup {elm}
  <1>1. PICK lab : Shape(t, S, lab)
    BY DEF Shrunk
  <1>2. PICK g : \/ c = t.root /\ Heights(t, S, g, NULL, "left")
                 \/ p \in S /\ \E side \in Sides : t[side][p] = c /\ Heights(t, S, g, p, side)
    BY DEF Shrunk
  <1>3. IsRenamed(t, u, S, old, elm) /\ Beyond(t, u, S \cup {elm})
    BY <1>1, ReplaceRenames
  <1> HIDE DEF u
  <1>4. /\ old # NULL /\ elm # NULL /\ Renamed(old, elm, NULL) = NULL /\ NULL \notin S
        /\ t.root \in S \cup {NULL} /\ elm \notin S
    BY <1>1, Numbers DEF Shape, Renamed
  <1>5. \E l : Shape(u, T, l)
    BY <1>1, <1>3, ShapeRenamed
  <1>6. c \in S \cup {NULL}
    BY <1>1, <1>2, <1>4, Kid
  <1>7. RedRule(u, T, c, c) /\ (IsRed(u, u.root) <=> IsRed(t, t.root))
    <2>1. RedRule(t, S, c, c)
      BY DEF Shrunk
    <2> QED
      BY <2>1, <1>1, <1>3, <1>6, RedRenamed
  <1>8. c = t.root => c = u.root
    BY <1>3 DEF IsRenamed, Renamed
  <1>9. IsRed(u, u.root) => u.root = c
    BY <1>7, <1>8 DEF Shrunk
  <1>10. \E h : \/ c = u.root /\ Heights(u, T, h, NULL, "left")
                \/ Renamed(old, elm, p) \in T /\ \E side \in Sides : u[side][Renamed(old, elm, p)] = c
                                                                 /\ Heights(u, T, h, Renamed(old, elm, p), side)
    <2>1. CASE c = t.root /\ Heights(t, S, g, NULL, "left")
      <3>1. NULL \in S \cup {NULL}
        OBVIOUS
      <3>2. \E h : Heights(u, T, h, Renamed(old, elm, NULL), "left")
        BY <2>1, <3>1, <1>1, <1>3, HeightsRenamed
      <3> QED
        BY <2>1, <3>2, <1>4, <1>8
    <2>2. ASSUME NEW side \in Sides, p \in S, t[side][p] = c, Heights(t, S, g, p, side)
          PROVE  \E h : /\ Renamed(old, elm, p) \in T /\ u[side][Renamed(old, elm, p)] = c
                        /\ Heights(u, T, h, Renamed(old, elm, p), side)
      <3>1. p \in S \cup {NULL}
        BY <2>2
      <3>2. \E h : Heights(u, T, h, Renamed(old, elm, p), side)
        BY <2>2, <3>1, <1>1, <1>3, HeightsRenamed
      <3>3. Renamed(old, elm, p) \in T
        BY <2>2 DEF Renamed
      <3>4. u[side][Renamed(old, elm, p)] = Renamed(old, elm, c)
        BY <2>2, <1>3 DEF IsRenamed
      <3>5. Renamed(old, elm, c) = c
        BY DEF Renamed
      <3> QED
        BY <3>2, <3>3, <3>4, <3>5
    <2> QED
      BY <2>1, <2>2, <1>2
  <1> QED
    BY <1>3, <1>5, <1>7, <1>9, <1>10 DEF Shrunk, u

-----------------------------------------------------------------------------
(* The links to one side end at an element with the label of the first. *)
LEMMA ExtremeIs ==
  ASSUME NEW t, NEW S, NEW lab, Shape(t, S, lab), NEW start \in S, NEW side \in Sides
  PROVE  LET e == Extreme(t, start, side)
         IN /\ e \in S /\ t[side][e] = NULL /\ lab[side][e] = lab[side][start]
            /\ Room(lab, e) <= Room(lab, start)
            /\ \A y \in S : ~(Before(side, lab[side][start], y) /\ Before(side, y, e))
  <1> DEFINE Down[x \in Link] == IF x = NULL THEN x ELSE IF t[side][x] = NULL THEN x ELSE t[side][x]
             Inv == {x \in S : lab[side][x] = lab[side][start] /\ Room(lab, x) <= Room(lab, start)}
             size == [x \in Inv |-> Size(lab, x)]
             e == Repeat(Down, start)
  <1>1. S \subseteq Link /\ NULL \notin S
    BY Numbers DEF Shape, Link
  <1>2. start \in Inv
    BY Labels
  <1>3. size \in [Inv -> Nat] /\ size[start] <= NumNodes
    <2>1. \A x \in Inv : x \in S \cup {NULL}
      OBVIOUS
    <2> HIDE DEF Inv
    <2> QED
      BY <1>2, <2>1, Sizes
  <1>4. ASSUME NEW x \in Inv
        PROVE  Down[x] \in Inv /\ (Down[Down[x]] = Down[x] \/ size[Down[x]] < size[x])
    <2>1. x \in S /\ x \in Link /\ x # NULL
      BY <1>1
    <2>2. Down[x] = IF t[side][x] = NULL THEN x ELSE t[side][x]
      BY <2>1
    <2>3. CASE t[side][x] = NULL
      BY <2>2, <2>3
    <2>4. CASE t[side][x] # NULL
      <3> DEFINE c == t[side][x]
      <3>1. c \in S /\ lab[side][c] = lab[side][x] /\ Room(lab, c) < Room(lab, x)
        BY <2>1, <2>4, Kid, Narrower
      <3>2. Room(lab, c) \in Nat /\ Room(lab, x) \in Nat /\ Room(lab, start) \in Nat
        BY <2>1, <3>1, Labels
      <3>3. Size(lab, c) < Size(lab, x)
        BY <2>1, Sizes
      <3>4. Down[x] = c
        BY <2>2, <2>4
      <3> HIDE DEF c, Down
      <3>5. c \in Inv
        BY <3>1, <3>2
      <3> HIDE DEF Inv
      <3>6. size[c] < size[x]
        BY <3>3, <3>5
      <3> QED
        BY <3>4, <3>5, <3>6
    <2> QED
      BY <2>3, <2>4
  <1> HIDE DEF Inv, size
  <1>5. e \in Inv /\ Down[e] = e
    <2> HIDE DEF Down
    <2> QED
      BY <1>2, <1>3, <1>4, RepeatEnds
  <1> HIDE DEF e
  <1>6. e \in S /\ e # NULL /\ e \in Link /\ lab[side][e] = lab[side][start] /\ Room(lab, e) <= Room(lab, start)
    BY <1>1, <1>5 DEF Inv
  <1>7. t[side][e] = NULL
    <2>1. SUFFICES ASSUME t[side][e] # NULL PROVE FALSE
      OBVIOUS
    <2>2. t[side][e] = e
      <3>1. Down[e] = t[side][e]
        BY <2>1, <1>6
      <3> QED
        BY <3>1, <1>5
    <2> QED
      BY <2>1, <2>2, <1>6, Kid
  <1>8. \A y \in S : ~(Before(side, lab[side][start], y) /\ Before(side, y, e))
    BY <1>1, <1>6, <1>7 DEF Shape, KidOK
  <1>9. Extreme(t, start, side) = e
    BY DEF Extreme, e
  <1> QED
    BY <1>6, <1>7, <1>8, <1>9

LEMMA ExtremeNone ==
  ASSUME NEW t, NEW side
  PROVE  Extreme(t, NULL, side) = NULL
  <1> DEFINE Down[x \in Link] == IF x = NULL THEN x ELSE IF t[side][x] = NULL THEN x ELSE t[side][x]
             Inv == {NULL}
             size == [x \in Inv |-> 0]
  <1>1. NULL \in Link
    BY DEF Link
  <1>2. Down[NULL] = NULL
    BY <1>1
  <1>3. size \in [Inv -> Nat] /\ size[NULL] <= NumNodes /\ NULL \in Inv
    BY NodesAssumption
  <1>4. \A x \in Inv : Down[x] \in Inv /\ (Down[Down[x]] = Down[x] \/ size[Down[x]] < size[x])
    BY <1>2
  <1>5. Repeat(Down, NULL) \in Inv
    <2> HIDE DEF Down, Inv, size
    <2> QED
      BY <1>3, <1>4, RepeatEnds
  <1> QED
    BY <1>5 DEF Extreme

(* The successor of an element with two children lies beside it. *)
LEMMA SuccessorIs ==
  ASSUME NEW t, NEW S, NEW lab, Shape(t, S, lab), NEW old \in S, t.right[old] # NULL
  PROVE  LET elm == Extreme(t, t.right[old], "left")
         IN /\ elm \in S \ {old} /\ t.left[elm] = NULL /\ t.right[elm] # old
            /\ NextTo(S \ {elm}, old, elm)
  <1> DEFINE c == t.right[old]
             elm == Extreme(t, c, "left")
  <1>1. "right" \in Sides /\ "left" \in Sides /\ Other("right") = "left"
    BY DEF Sides, Other
  <1>2. c \in S /\ lab["left"][c] = old /\ Room(lab, c) < Room(lab, old) /\ S \subseteq Int
    <2>1. c = t["right"][old]
      OBVIOUS
    <2>2. c \in S /\ lab["left"][c] = old /\ Room(lab, c) < Room(lab, old)
      BY <2>1, <1>1, Kid, Narrower
    <2> QED
      BY <2>2, Numbers DEF Shape
  <1> HIDE DEF c
  <1>3. /\ elm \in S /\ t["left"][elm] = NULL /\ lab["left"][elm] = old /\ Room(lab, elm) <= Room(lab, c)
        /\ \A y \in S : ~(Before("left", old, y) /\ Before("left", y, elm))
    BY <1>1, <1>2, ExtremeIs
  <1> HIDE DEF elm
  <1>4. Room(lab, elm) \in Nat /\ Room(lab, c) \in Nat /\ Room(lab, old) \in Nat /\ Room(lab, elm) < Room(lab, old)
    BY <1>2, <1>3, Labels
  <1>5. old # elm /\ old < elm
    <2>1. Before("left", lab["left"][elm], elm)
      BY <1>1, <1>3, Labels
    <2> QED
      BY <2>1, <1>2, <1>3 DEF Before
  <1>6. t.right[elm] # old
    <2>1. SUFFICES ASSUME t["right"][elm] = old PROVE FALSE
      OBVIOUS
    <2>2. t["right"][elm] # NULL
      BY <2>1, Labels
    <2>3. Room(lab, old) < Room(lab, elm)
      BY <2>1, <2>2, <1>1, <1>3, Narrower
    <2> QED
      BY <2>3, <1>4
  <1>7. ASSUME NEW y \in (S \ {elm}) \ {old}, NEW s \in Sides
        PROVE  Before(s, y, old) <=> Before(s, y, elm)
    <2>1. ~(old < y /\ y < elm) /\ y \in Int /\ y # old /\ y # elm
      BY <1>2, <1>3 DEF Before
    <2> QED
      BY <2>1, <1>2, <1>3, <1>5 DEF Before
  <1> QED
    BY <1>3, <1>5, <1>6, <1>7 DEF NextTo, elm, c

LEMMA Unlinked ==
  ASSUME NEW t, NEW S, Sound(t, S), NEW old \in S
  PROVE  LET u == Unlink(t, old)
         IN Sound(u, S \ {old}) /\ Beyond(t, u, S)
  <1>1. PICK lab : Shape(t, S, lab)
    BY DEF Sound
  <1>2. t \in RBTrees /\ S \subseteq Node /\ NULL \notin S /\ old \in Node
    BY <1>1, Numbers DEF Shape
  <1>3. CASE NULL \in {t.left[old], t.right[old]}
    <2> DEFINE t1 == TakeOut(t, old)
               c == ChildOf(t, old)
               T == S \ {old}
               p == t.parent[old]
    <2>1. Unlink(t, old) = IF IsRed(t, old) THEN t1 ELSE RemoveColor(t1, p, c)
      BY <1>3 DEF Unlink
    <2>2. /\ Beyond(t, t1, S)
          /\ IsRed(t, old) => Sound(t1, T)
          /\ ~IsRed(t, old) => Shrunk(t1, T, p, c)
      BY <1>3, TakenOut
    <2>3. p \in Link /\ c \in Link
      BY <1>2 DEF RBTrees, ChildOf
    <2> HIDE DEF t1, c, p
    <2>4. ~IsRed(t, old) => Sound(RemoveColor(t1, p, c), T) /\ Beyond(t1, RemoveColor(t1, p, c), T)
      BY <2>2, <2>3, RemoveColored
    <2> QED
      BY <2>1, <2>2, <2>4 DEF Beyond
  <1>4. CASE t.left[old] # NULL /\ t.right[old] # NULL
    <2> DEFINE elm == Extreme(t, t.right[old], "left")
               t0 == TakeOut(t, elm)
               T0 == S \ {elm}
               t1 == Replace(t0, old, elm)
               c == ChildOf(t, elm)
               q == t.parent[elm]
               p == IF q = old THEN elm ELSE q
               T == (T0 \ {old}) \cup {elm}
    <2>1. Unlink(t, old) = IF IsRed(t, elm) THEN t1 ELSE RemoveColor(t1, p, c)
      BY <1>4 DEF Unlink
    <2>2. elm \in S \ {old} /\ t.left[elm] = NULL /\ t.right[elm] # old /\ NextTo(T0, old, elm)
      BY <1>1, <1>4, SuccessorIs
    <2> HIDE DEF elm
    <2>3. NULL \in {t.left[elm], t.right[elm]} /\ c = t.right[elm] /\ c # old /\ p = Renamed(old, elm, q)
      BY <2>2 DEF ChildOf, Renamed
    <2>4. /\ Beyond(t, t0, S)
          /\ IsRed(t, elm) => Sound(t0, T0)
          /\ ~IsRed(t, elm) => Shrunk(t0, T0, q, c)
      BY <2>2, <2>3, TakenOut
    <2>5. q \in Link /\ c \in Link /\ p \in Link
      BY <1>2, <2>2, <2>3 DEF RBTrees, Link
    <2>6. elm \in Node \ T0 /\ old \in T0 /\ T = S \ {old} /\ T0 \cup {elm} = S
      BY <1>2, <2>2
    <2> HIDE DEF t0, c, q, p, T0, T
    <2>7. ASSUME IsRed(t, elm) PROVE Sound(t1, T) /\ Beyond(t0, t1, S)
      BY <2>2, <2>4, <2>6, <2>7, SoundRenamed DEF T
    <2>8. ASSUME ~IsRed(t, elm) PROVE Shrunk(t1, T, p, c) /\ Beyond(t0, t1, S)
      <3>1. Shrunk(t1, T, Renamed(old, elm, q), c) /\ Beyond(t0, t1, T0 \cup {elm})
        BY <2>2, <2>3, <2>4, <2>6, <2>8, ShrunkRenamed DEF T
      <3> QED
        BY <3>1, <2>3, <2>6
    <2> HIDE DEF t1
    <2>9. ~IsRed(t, elm) => Sound(RemoveColor(t1, p, c), T) /\ Beyond(t1, RemoveColor(t1, p, c), T)
      BY <2>5, <2>8, RemoveColored
    <2>10. ASSUME NEW u, Beyond(t1, u, T), Beyond(t0, t1, S) PROVE Beyond(t, u, S)
      BY <2>4, <2>6, <2>10 DEF Beyond
    <2>11. Beyond(t1, t1, T)
      BY DEF Beyond
    <2>12. CASE IsRed(t, elm)
      BY <2>1, <2>6, <2>7, <2>10, <2>11, <2>12
    <2>13. CASE ~IsRed(t, elm)
      BY <2>1, <2>6, <2>8, <2>9, <2>10, <2>13
    <2> QED
      BY <2>12, <2>13
  <1> QED
    BY <1>3, <1>4

LEMMA RBRemoved ==
  ASSUME NEW t, NEW S, IsRB(t, S), NEW elm \in S
  PROVE  IsRB(RemoveElm(t, elm), S \ {elm})
  <1> DEFINE v == Unlink(t, elm)
             u == RemoveElm(t, elm)
             T == S \ {elm}
  <1>1. Sound(v, T) /\ Beyond(t, v, S)
    BY Unlinked DEF IsRB
  <1>2. u = [v EXCEPT !.left[elm] = NULL, !.right[elm] = NULL, !.parent[elm] = NULL, !.color[elm] = "RB_RED"]
    BY DEF RemoveElm
  <1> HIDE DEF v, u
  <1>3. PICK lab : Shape(v, T, lab)
    BY <1>1 DEF Sound
  <1>4. PICK g : Heights(v, T, g, NULL, "left")
    BY <1>1 DEF Sound
  <1>5. v \in RBTrees /\ T \subseteq Node /\ elm \in Node /\ NULL \notin T /\ NULL \in Link /\ v.root \in T \cup {NULL}
    <2>1. S \subseteq Node
      BY DEF IsRB, Sound, Shape
    <2> QED
      BY <2>1, <1>3, Numbers DEF Shape, Link
  <1>6. /\ u \in RBTrees /\ u.root = v.root
        /\ \A z \in Node : /\ u.left[z] = IF z = elm THEN NULL ELSE v.left[z]
                           /\ u.right[z] = IF z = elm THEN NULL ELSE v.right[z]
                           /\ u.parent[z] = IF z = elm THEN NULL ELSE v.parent[z]
                           /\ u.color[z] = IF z = elm THEN "RB_RED" ELSE v.color[z]
    BY <1>2, <1>5 DEF RBTrees
  <1>7. \A z \in T : /\ u.parent[z] = v.parent[z] /\ u.color[z] = v.color[z] /\ z # NULL
                     /\ \A s \in Sides : u[s][z] = v[s][z]
    BY <1>5, <1>6 DEF Sides
  <1>8. Shape(u, T, lab)
    BY <1>3, <1>6, <1>7, ShapeSame
  <1>9. \A z \in T \cup {NULL} : IsRed(u, z) <=> IsRed(v, z)
    BY <1>7 DEF IsRed
  <1>10. \A z \in T : \A s \in Sides : v[s][z] \in T \cup {NULL}
    BY <1>3, Kid
  <1>11. Heights(u, T, g, NULL, "left")
    <2>1. \A z \in T : Black(u, z) = Black(v, z)
      BY <1>9 DEF Black
    <2> QED
      BY <2>1, <1>4, <1>7 DEF Heights
  <1>12. RedRule(u, T, NULL, NULL)
    <2>1. ASSUME NEW z \in T, NEW s \in Sides, IsRed(u, z), IsRed(u, u[s][z]) PROVE FALSE
      <3>1. IsRed(v, z) /\ IsRed(v, v[s][z]) /\ v[s][z] # NULL /\ z # NULL
        BY <2>1, <1>7, <1>9, <1>10 DEF IsRed
      <3> QED
        BY <3>1, <1>1 DEF Sound, RedRule
    <2> QED
      BY <2>1 DEF RedRule
  <1>13. ~IsRed(u, u.root)
    BY <1>1, <1>5, <1>6, <1>9 DEF Sound
  <1>14. \A z \in Node \ T : u.parent[z] = NULL
    BY <1>1, <1>6 DEF Beyond, IsRB
  <1> QED
    BY <1>8, <1>11, <1>12, <1>13, <1>14 DEF IsRB, Sound, u

-----------------------------------------------------------------------------
(* The way up ends at the label. *)
LEMMA ClimbIs ==
  ASSUME NEW t, NEW S, NEW lab, Shape(t, S, lab), NEW elm \in S, NEW side \in Sides
  PROVE  Climb(t, elm, side) = IF lab[side][elm] = Far(side) THEN NULL ELSE lab[side][elm]
  <1> DEFINE Up[x \in Node] ==
               IF t.parent[x] = NULL THEN x ELSE IF t[side][t.parent[x]] = x THEN t.parent[x] ELSE x
             Inv == {x \in S : lab[side][x] = lab[side][elm]}
             size == [x \in Inv |-> NumNodes + 1 - Room(lab, x)]
             e == Repeat(Up, elm)
             o == Other(side)
  <1>1. S \subseteq Node /\ NULL \notin S /\ o \in Sides /\ Sides = {side, o} /\ Other(o) = side
    BY Numbers, TwoSides DEF Shape
  <1>2. elm \in Inv
    OBVIOUS
  <1>3. ASSUME NEW x \in Inv PROVE NumNodes + 1 - Room(lab, x) \in Nat /\ NumNodes + 1 - Room(lab, x) <= NumNodes
    <2>1. Room(lab, x) \in Nat /\ 2 <= Room(lab, x) /\ Room(lab, x) <= NumNodes + 1
      BY Labels
    <2> QED
      BY <2>1, NodesAssumption
  <1>4. size \in [Inv -> Nat] /\ size[elm] <= NumNodes
    <2> HIDE DEF Inv
    <2> QED
      BY <1>2, <1>3
  <1>5. ASSUME NEW x \in Inv
        PROVE  Up[x] \in Inv /\ (Up[Up[x]] = Up[x] \/ size[Up[x]] < size[x])
    <2> DEFINE p == t.parent[x]
    <2>1. x \in S /\ x \in Node
      BY <1>1
    <2>2. Up[x] = IF p = NULL THEN x ELSE IF t[side][p] = x THEN p ELSE x
      BY <2>1
    <2>3. CASE p = NULL \/ t[side][p] # x
      BY <2>2, <2>3
    <2>4. CASE p # NULL /\ t[side][p] = x
      <3>1. p \in S
        BY <2>1, <2>4, Places
      <3>2. t[side][p] # NULL
        BY <2>1, <2>4, Labels
      <3>3. lab[side][x] = lab[side][p] /\ Room(lab, x) < Room(lab, p)
        BY <2>4, <3>1, <3>2, Kid, Narrower
      <3>4. Room(lab, x) \in Nat /\ Room(lab, p) \in Nat
        BY <2>1, <3>1, Labels
      <3>5. Up[x] = p
        BY <2>2, <2>4
      <3>6. p \in Inv
        BY <3>1, <3>3
      <3> HIDE DEF p, Up, Inv
      <3>7. size[p] < size[x]
        BY <3>3, <3>4, <3>6, NodesAssumption
      <3> QED
        BY <3>5, <3>6, <3>7
    <2> QED
      BY <2>3, <2>4
  <1> HIDE DEF Inv, size
  <1>6. e \in Inv /\ Up[e] = e
    <2> HIDE DEF Up
    <2> QED
      BY <1>2, <1>4, <1>5, RepeatEnds
  <1>7. Climb(t, elm, side) = t.parent[e]
    BY DEF Climb
  <1> HIDE DEF e
  <1>8. e \in S /\ e \in Node /\ e # NULL /\ lab[side][e] = lab[side][elm]
    BY <1>1, <1>6 DEF Inv
  <1>9. t.parent[e] = NULL \/ (t.parent[e] \in S /\ t[side][t.parent[e]] # e)
    <2>1. t.parent[e] \in S \cup {NULL} /\ t.parent[e] # e
      BY <1>8, Places
    <2>2. Up[e] = IF t.parent[e] = NULL THEN e ELSE IF t[side][t.parent[e]] = e THEN t.parent[e] ELSE e
      BY <1>8
    <2> QED
      BY <2>1, <2>2, <1>6
  <1>10. CASE t.parent[e] = NULL
    <2>1. e = t.root
      BY <1>8, <1>10, Places
    <2>2. lab[side][e] = Far(side)
      BY <2>1, <1>8 DEF Shape
    <2> QED
      BY <2>2, <1>7, <1>8, <1>10
  <1>11. CASE t.parent[e] # NULL
    <2> DEFINE p == t.parent[e]
    <2>1. p \in S /\ t[side][p] # e /\ p \in Node
      BY <1>1, <1>9, <1>11
    <2>2. t[o][p] = e
      <3>1. \E s \in Sides : t[s][p] = e
        BY <1>8, <1>11, Places DEF Placing
      <3> QED
        BY <3>1, <2>1, <1>1
    <2>3. lab[side][e] = p
      BY <1>1, <1>8, <2>1, <2>2, Kid
    <2>4. p # Far(side)
      BY <2>1, NodesAssumption DEF Far, Node, NULL
    <2> QED
      BY <2>3, <2>4, <1>7, <1>8
  <1> QED
    BY <1>10, <1>11

(* RB_NEXT and RB_PREV, from an element of the tree. *)
LEMMA NeighbourIs ==
  ASSUME NEW t, NEW S, NEW lab, Shape(t, S, lab), NEW elm \in S, NEW side \in Sides
  PROVE  LET n == Neighbour(t, elm, side)
             o == Other(side)
         IN \/ n = NULL /\ \A y \in S : ~Before(side, y, elm)
            \/ /\ n \in S /\ Before(side, n, elm)
               /\ \A y \in S : ~(Before(side, y, elm) /\ Before(side, n, y))
  <1> DEFINE n == Neighbour(t, elm, side)
             o == Other(side)
             c == t[side][elm]
             l == lab[side][elm]
  <1>1. /\ o \in Sides /\ Other(o) = side /\ S \subseteq Int /\ S \subseteq Node
        /\ elm \in Int /\ l \in Int /\ Before(side, l, elm) /\ Far(side) \in Int
        /\ \A x \in Node : Before(side, Far(side), x)
    BY TwoSides, Numbers, Labels DEF Shape
  <1>2. CASE c # NULL
    <2>1. n = Extreme(t, c, o)
      BY <1>2 DEF Neighbour
    <2>2. c \in S /\ lab[o][c] = elm /\ Before(side, c, elm)
      BY <1>2, Kid
    <2> HIDE DEF n, c
    <2>3. n \in S /\ \A y \in S : ~(Before(o, elm, y) /\ Before(o, y, n))
      BY <1>1, <2>1, <2>2, ExtremeIs
    <2>4. lab[o][n] = elm /\ Before(o, lab[o][n], n)
      BY <1>1, <2>1, <2>2, ExtremeIs, Labels
    <2>5. Before(side, n, elm)
      BY <1>1, <2>3, <2>4, Order
    <2>6. \A y \in S : ~(Before(side, y, elm) /\ Before(side, n, y))
      BY <1>1, <2>3, Order
    <2> QED
      BY <2>3, <2>5, <2>6 DEF n
  <1>3. CASE c = NULL
    <2>1. n = IF l = Far(side) THEN NULL ELSE l
      BY <1>3, ClimbIs DEF Neighbour
    <2>2. \A y \in S : ~(Before(side, l, y) /\ Before(side, y, elm))
      <3>1. NULL \notin S
        BY <1>1, Numbers
      <3> QED
        BY <1>3, <3>1 DEF Shape, KidOK
    <2>3. CASE l = Far(side)
      <3>1. \A y \in S : Before(side, l, y)
        BY <1>1, <2>3
      <3> QED
        BY <2>1, <2>2, <2>3, <3>1
    <2>4. CASE l # Far(side)
      <3>1. l \in S
        BY <2>4, Nested
      <3> QED
        BY <2>1, <2>2, <2>4, <3>1, <1>1
    <2> QED
      BY <2>3, <2>4
  <1> QED
    BY <1>2, <1>3

(* RB_NFIND. *)
LEMMA CeilingIs ==
  ASSUME NEW t, NEW S, NEW lab, Shape(t, S, lab), NEW elm \in Node
  PROVE  LET n == Ceiling(t, elm)
         IN \/ n = NULL /\ \A y \in S : y < elm
            \/ n \in S /\ elm <= n /\ \A y \in S : elm <= y => n <= y
  <1> DEFINE States == [tmp : Link, res : Link]
             Down[s \in States] ==
               IF s.tmp \in {NULL, elm} THEN s
               ELSE [tmp |-> t[Side(elm, s.tmp)][s.tmp], res |-> IF elm < s.tmp THEN s.tmp ELSE s.res]
             Above(x) == IF x \in S /\ lab["right"][x] # Far("right") THEN lab["right"][x] ELSE NULL
             Gone(r) == \/ r = NULL /\ \A y \in S : y < elm
                        \/ r \in S /\ elm < r /\ \A y \in S : elm <= y => r <= y
             OK(s) == \/ s.tmp \in S /\ Within(lab, s.tmp, elm) /\ s.res = Above(s.tmp)
                      \/ s.tmp = NULL /\ Gone(s.res)
             Inv == {s \in States : OK(s)}
             state == [tmp |-> t.root, res |-> NULL]
             size == [s \in Inv |-> Size(lab, s.tmp)]
             e == Repeat(Down, state)
  <1>1. /\ elm # NULL /\ S \subseteq Link /\ NULL \in Link /\ NULL \notin S /\ elm \in Int /\ S \subseteq Int
        /\ "right" \in Sides /\ "left" \in Sides /\ Other("right") = "left" /\ Other("left") = "right"
    BY Numbers DEF Shape, Link, Sides, Other
  <1>2. state \in Inv
    <2>1. t.root \in S \cup {NULL} /\ (t.root = NULL => S = {})
      BY DEF Shape
    <2>2. t.root \in S => Within(lab, t.root, elm) /\ Above(t.root) = NULL
      BY <1>1, Numbers DEF Shape, Within
    <2>3. t.root = NULL => Gone(NULL)
      BY <2>1
    <2>4. state.tmp = t.root /\ state.res = NULL /\ state \in States
      BY <2>1, <1>1
    <2> HIDE DEF state, Gone, Above
    <2> QED
      BY <2>1, <2>2, <2>3, <2>4
  <1>3. \A s \in Inv : s.tmp \in S \cup {NULL}
    OBVIOUS
  <1>4. size \in [Inv -> Nat] /\ size[state] <= NumNodes
    <2> HIDE DEF Inv, state
    <2> QED
      BY <1>2, <1>3, Sizes
  <1>5. ASSUME NEW s \in Inv
        PROVE  Down[s] \in Inv /\ (Down[Down[s]] = Down[s] \/ size[Down[s]] < size[s])
    <2>1. s \in States /\ OK(s)
      OBVIOUS
    <2>2. CASE s.tmp \in {NULL, elm}
      <3>1. Down[s] = s
        BY <2>1, <2>2
      <3> QED
        BY <3>1
    <2>3. CASE s.tmp \notin {NULL, elm}
      <3> DEFINE x == s.tmp
                 side == Side(elm, x)
                 c == t[side][x]
                 r == IF elm < x THEN x ELSE s.res
                 n == [tmp |-> c, res |-> r]
      <3>1. x \in S /\ Within(lab, x, elm) /\ s.res = Above(x) /\ x # elm
        BY <2>1, <2>3
      <3>2. Down[s] = n
        BY <2>1, <2>3
      <3>3. /\ side \in Sides /\ Before(side, elm, x)
            /\ c # NULL => c \in S /\ Within(lab, c, elm)
            /\ c = NULL => elm \notin S /\ \A y \in S : ~(Before(side, lab[side][x], y) /\ Before(side, y, x))
        BY <3>1, GoesDown
      <3>4. side = IF elm < x THEN "left" ELSE "right"
        BY DEF Side
      <3>5. lab["right"][x] = Far("right") \/ lab["right"][x] \in S
        BY <1>1, <3>1, Nested
      <3>6. n \in States
        <4>1. r \in Link
          BY <1>1, <2>1, <3>1
        <4>2. c \in Link
          BY <1>1, <3>3
        <4> HIDE DEF c, r
        <4> QED
          BY <4>1, <4>2
      <3>7. OK(n)
        <4>1. n.tmp = c /\ n.res = r
          OBVIOUS
        <4>2. CASE c # NULL
          <5>1. r = Above(c)
            <6>1. CASE elm < x
              <7>1. side = "left" /\ t["left"][x] = c
                BY <6>1, <3>4
              <7>2. lab["right"][c] = x
                BY <7>1, <4>2, <3>1, <1>1, Kid
              <7>3. x # Far("right")
                BY <3>1, <1>1, NodesAssumption DEF Far, Link, Node
              <7> QED
                BY <7>2, <7>3, <6>1, <4>2, <3>3
            <6>2. CASE ~(elm < x)
              <7>1. side = "right" /\ t["right"][x] = c
                BY <6>2, <3>4
              <7>2. lab["right"][c] = lab["right"][x]
                BY <7>1, <4>2, <3>1, <1>1, Kid
              <7> QED
                BY <7>2, <6>2, <4>2, <3>1, <3>3
            <6> QED
              BY <6>1, <6>2
          <5> HIDE DEF n, c, r, Above, Gone
          <5> QED
            BY <5>1, <4>1, <4>2, <3>3
        <4>3. CASE c = NULL
          <5>1. elm \notin S /\ \A y \in S : ~(Before(side, lab[side][x], y) /\ Before(side, y, x))
            BY <4>3, <3>3
          <5>2. Gone(r)
            <6>1. CASE elm < x
              <7>1. \A y \in S : ~(lab["left"][x] < y /\ y < x)
                BY <5>1, <6>1, <3>4 DEF Before
              <7>2. lab["left"][x] < elm /\ lab["left"][x] \in Int
                BY <1>1, <3>1, Labels DEF Within, Before
              <7>3. ASSUME NEW y \in S, elm <= y PROVE x <= y
                <8>1. y \in Int /\ x \in Int /\ ~(lab["left"][x] < y /\ y < x)
                  BY <7>1, <1>1, <3>1
                <8> HIDE DEF x
                <8> QED
                  BY <8>1, <7>2, <7>3, <1>1
              <7> QED
                BY <7>3, <6>1, <3>1
            <6>2. CASE ~(elm < x)
              <7> DEFINE l == lab["right"][x]
              <7>1. \A y \in S : ~(y < l /\ x < y)
                BY <5>1, <6>2, <3>4 DEF Before
              <7>2. elm < l /\ l \in Int /\ x < elm
                BY <1>1, <3>1, <6>2, Labels DEF Within, Before
              <7>3. CASE l = Far("right")
                <8>1. \A y \in S : y < l
                  <9>1. l = NumNodes + 1 /\ NumNodes \in Nat
                    BY <7>3, NodesAssumption DEF Far
                  <9> HIDE DEF l
                  <9>2. SUFFICES ASSUME NEW y \in S PROVE y < l
                    OBVIOUS
                  <9>3. y \in Node
                    BY <1>1 DEF Link
                  <9>4. y \in Int /\ y <= NumNodes
                    BY <9>1, <9>3 DEF Node
                  <9> QED
                    BY <9>1, <9>4
                <8>2. ASSUME NEW y \in S PROVE y < elm
                  <9>1. y \in Int /\ x \in Int /\ y < l /\ ~(y < l /\ x < y)
                    BY <7>1, <8>1, <1>1, <3>1
                  <9> HIDE DEF x, l
                  <9> QED
                    BY <9>1, <7>2, <1>1
                <8>3. r = NULL
                  BY <3>1, <7>3, <6>2
                <8> HIDE DEF r
                <8> QED
                  BY <8>2, <8>3
              <7>4. CASE l # Far("right")
                <8>1. r = l /\ l \in S
                  BY <3>1, <3>5, <7>4, <6>2
                <8>2. ASSUME NEW y \in S, elm <= y PROVE l <= y
                  <9>1. y \in Int /\ x \in Int /\ ~(y < l /\ x < y)
                    BY <7>1, <1>1, <3>1
                  <9> HIDE DEF x, l
                  <9> QED
                    BY <9>1, <8>2, <7>2, <1>1
                <8> HIDE DEF r, l
                <8> QED
                  BY <8>1, <8>2, <7>2
              <7> QED
                BY <7>3, <7>4
            <6> QED
              BY <6>1, <6>2
          <5> HIDE DEF n, c, r, Above, Gone
          <5> QED
            BY <5>2, <4>1, <4>3
        <4> HIDE DEF OK, n
        <4> QED
          BY <4>2, <4>3
      <3>8. n \in Inv
        BY <3>6, <3>7
      <3>9. Size(lab, c) < Size(lab, x)
        BY <3>1, <3>3, Sizes
      <3>10. n.tmp = c
        OBVIOUS
      <3> HIDE DEF Inv, c, n
      <3>11. size[n] < size[s]
        BY <3>8, <3>9, <3>10
      <3> QED
        BY <3>2, <3>8, <3>11
    <2> QED
      BY <2>2, <2>3
  <1>6. Ceiling(t, elm) = IF e.tmp = NULL THEN e.res ELSE e.tmp
    BY DEF Ceiling
  <1> HIDE DEF Inv, state, size
  <1>7. e \in Inv /\ Down[e] = e
    <2> HIDE DEF Down
    <2> QED
      BY <1>2, <1>4, <1>5, RepeatEnds
  <1> HIDE DEF e
  <1>8. e \in States /\ OK(e)
    BY <1>7 DEF Inv
  <1>9. e.tmp \in {NULL, elm}
    <2>1. SUFFICES ASSUME e.tmp \notin {NULL, elm} PROVE FALSE
      OBVIOUS
    <2>2. Down[e].tmp = t[Side(elm, e.tmp)][e.tmp]
      BY <2>1, <1>8
    <2>3. e.tmp \in S /\ Side(elm, e.tmp) \in Sides
      BY <2>1, <1>8 DEF Side, Sides
    <2>4. t[Side(elm, e.tmp)][e.tmp] # e.tmp
      BY <2>3, <1>1, Kid
    <2> QED
      BY <2>2, <2>4, <1>7
  <1> HIDE DEF Down, Above
  <1>10. CASE e.tmp = NULL
    <2>1. Ceiling(t, elm) = e.res /\ Gone(e.res)
      BY <1>6, <1>8, <1>10, <1>1
    <2>2. ASSUME NEW r \in S, elm < r PROVE elm <= r
      <3>1. r \in Int /\ elm \in Int
        BY <1>1
      <3> QED
        BY <3>1, <2>2
    <2> QED
      BY <2>1, <2>2
  <1>11. CASE e.tmp = elm
    BY <1>6, <1>8, <1>11, <1>1
  <1> QED
    BY <1>9, <1>10, <1>11

-----------------------------------------------------------------------------
(* What is counted on the way up from x and what is left below it make the *)
(* height of the root.                                                     *)
LEMMA CountsUp ==
  ASSUME NEW t, NEW S, NEW lab, Shape(t, S, lab), NEW g, Heights(t, S, g, NULL, "left"), NEW x \in S
  PROVE  BlacksAbove(t, x) + g[x] = g[t.root] + Black(t, x) /\ BlacksAbove(t, x) \in Nat
  <1> DEFINE States == [at : Link, count : Nat]
             Up[s \in States] ==
               IF s.at = NULL THEN s
               ELSE [at |-> t.parent[s.at], count |-> s.count + (IF IsRed(t, s.at) THEN 0 ELSE 1)]
             OK(s) == \/ s.at \in S /\ s.count + g[x] + Black(t, s.at) = g[s.at] + Black(t, x)
                      \/ s.at = NULL /\ s.count + g[x] = g[t.root] + Black(t, x)
             Inv == {s \in States : OK(s)}
             state == [at |-> x, count |-> 0]
             Away(z) == IF z = NULL THEN 0 ELSE NumNodes + 2 - Room(lab, z)
             size == [s \in Inv |-> Away(s.at)]
             e == Repeat(Up, state)
  <1>1. S \subseteq Link /\ NULL \notin S /\ NULL \in Link /\ g \in [Link -> Nat] /\ t.root \in Link
    BY Numbers DEF Shape, Link, Heights
  <1>2. \A z \in S : g[z] \in Nat /\ Black(t, z) \in Nat
    BY <1>1 DEF Black
  <1>3. state \in Inv
    <2>1. state \in States
      BY <1>1
    <2>2. OK(state)
      BY <1>2
    <2> QED
      BY <2>1, <2>2
  <1>4. ASSUME NEW z \in S \cup {NULL}
        PROVE  Away(z) \in Nat /\ Away(z) <= NumNodes /\ (z # NULL => 0 < Away(z))
    <2>1. CASE z = NULL
      BY <2>1, NodesAssumption
    <2>2. CASE z # NULL
      <3>1. Room(lab, z) \in Nat /\ 2 <= Room(lab, z) /\ Room(lab, z) <= NumNodes + 1
        BY <2>2, Labels
      <3> QED
        BY <2>2, <3>1, NodesAssumption
    <2> QED
      BY <2>1, <2>2
  <1>5. \A s \in Inv : s.at \in S \cup {NULL}
    OBVIOUS
  <1>6. size \in [Inv -> Nat] /\ size[state] <= NumNodes
    <2> HIDE DEF Inv, state, Away
    <2> QED
      BY <1>3, <1>4, <1>5
  <1>7. ASSUME NEW s \in Inv
        PROVE  Up[s] \in Inv /\ (Up[Up[s]] = Up[s] \/ size[Up[s]] < size[s])
    <2>1. s \in States /\ OK(s)
      OBVIOUS
    <2>2. CASE s.at = NULL
      <3>1. Up[s] = s
        BY SMTT(30), <2>1, <2>2
      <3> QED
        BY <3>1
    <2>3. CASE s.at # NULL
      <3> DEFINE z == s.at
                 p == t.parent[z]
                 n == [at |-> p, count |-> s.count + Black(t, z)]
      <3>1. z \in S /\ s.count \in Nat /\ s.count + g[x] + Black(t, z) = g[z] + Black(t, x)
        BY <2>1, <2>3
      <3>2. Up[s] = n
        BY <2>1, <2>3 DEF Black
      <3>3. p \in S \cup {NULL} /\ (p = NULL <=> z = t.root) /\ Placing(t, p, z)
        BY <3>1, Places
      <3>4. g[z] \in Nat /\ Black(t, z) \in Nat /\ g[x] \in Nat /\ Black(t, x) \in Nat
        BY <1>2, <3>1
      <3>5. n \in States /\ n.at = p /\ n.count = s.count + Black(t, z)
        BY <1>1, <3>1, <3>3, <3>4
      <3> HIDE DEF n
      <3>6. OK(n) /\ Away(p) < Away(z)
        <4>1. CASE p = NULL
          <5>1. n.at = NULL /\ n.count = s.count + Black(t, z) /\ g[z] = g[t.root]
            BY <4>1, <3>3, <3>5
          <5>2. Away(p) = 0 /\ 0 < Away(z)
            BY <4>1, <2>3, <3>1, <1>4
          <5>3. n.count + g[x] = g[t.root] + Black(t, x)
            <6> HIDE DEF z
            <6> QED
              BY <5>1, <3>1, <3>4
          <5> QED
            BY <5>1, <5>2, <5>3
        <4>2. CASE p # NULL
          <5>1. p \in S
            BY <4>2, <3>3
          <5>2. PICK side \in Sides : t[side][p] = z
            BY <4>2, <3>3 DEF Placing
          <5>3. Lack(NULL, "left", p, side) = 0
            BY <5>1, <1>1 DEF Lack
          <5>4. g[p] = g[z] + Black(t, p) + 0
            BY <5>1, <5>2, <5>3 DEF Heights
          <5>5. Black(t, p) \in Nat
            BY <1>2, <5>1
          <5>6. OK(n)
            BY <5>1, <5>4, <5>5, <3>1, <3>4, <3>5
          <5>7. Room(lab, z) < Room(lab, p) /\ Room(lab, z) \in Nat /\ Room(lab, p) \in Nat
            BY <5>1, <5>2, <3>1, <1>1, Narrower, Labels
          <5>8. Away(p) < Away(z)
            BY <5>7, <4>2, <2>3, NodesAssumption
          <5> QED
            BY <5>6, <5>8
        <4> QED
          BY <4>1, <4>2
      <3> HIDE DEF OK, Away
      <3>7. n \in Inv
        BY <3>5, <3>6
      <3> HIDE DEF Inv
      <3>8. size[n] < size[s]
        BY <3>5, <3>6, <3>7
      <3> QED
        BY <3>2, <3>7, <3>8
    <2> QED
      BY <2>2, <2>3
  <1>8. BlacksAbove(t, x) = e.count
    BY DEF BlacksAbove
  <1> HIDE DEF Inv, state, size
  <1>9. e \in Inv /\ Up[e] = e
    <2> HIDE DEF Up
    <2> QED
      BY <1>3, <1>6, <1>7, RepeatEnds
  <1> HIDE DEF e
  <1>10. e \in States /\ OK(e)
    BY <1>9 DEF Inv
  <1>11. e.at = NULL
    <2>1. SUFFICES ASSUME e.at # NULL PROVE FALSE
      OBVIOUS
    <2>2. Up[e].at = t.parent[e.at]
      BY <2>1, <1>10
    <2>3. t.parent[e.at] # e.at
      BY <2>1, <1>10, Places
    <2> QED
      BY <2>2, <2>3, <1>9
  <1> QED
    BY <1>1, <1>8, <1>10, <1>11

LEMMA SameBlacks ==
  ASSUME NEW t, NEW S, NEW lab, Shape(t, S, lab), NEW g, Heights(t, S, g, NULL, "left"), NEW x \in S,
         NULL \in {t.left[x], t.right[x]}
  PROVE  BlacksAbove(t, x) = g[t.root]
  <1>1. PICK side \in Sides : t[side][x] = NULL
    BY DEF Sides
  <1>2. Lack(NULL, "left", x, side) = 0
    BY Labels DEF Lack
  <1>3. g[x] = 0 + Black(t, x) + 0
    BY <1>1, <1>2 DEF Heights
  <1>4. Black(t, x) \in Nat /\ g[t.root] \in Nat
    <2>1. t.root \in Link
      BY DEF Shape, Link
    <2> QED
      BY <2>1 DEF Black, Heights
  <1> QED
    BY <1>3, <1>4, CountsUp

LEMMA RBElementsAre ==
  ASSUME NEW t, NEW S, IsRB(t, S)
  PROVE  {x \in Node : x = t.root \/ t.parent[x] # NULL} = S
  <1>1. PICK lab : Shape(t, S, lab)
    BY DEF IsRB, Sound
  <1>2. S \subseteq Node /\ t.root \in S \cup {NULL} /\ NULL \notin Node /\ \A z \in Node \ S : t.parent[z] = NULL
    BY <1>1, Numbers DEF Shape, IsRB
  <1>3. \A x \in S : x = t.root \/ t.parent[x] # NULL
    BY <1>1, Places
  <1> QED
    BY <1>2, <1>3

LEMMA BalancedIs ==
  ASSUME IsRB(rb, RBElements)
  PROVE  Balanced
  <1> DEFINE S == RBElements
  <1>1. PICK lab : Shape(rb, S, lab)
    BY DEF IsRB, Sound
  <1>2. PICK g : Heights(rb, S, g, NULL, "left")
    BY DEF IsRB, Sound
  <1> HIDE DEF S
  <1>3. \A x \in S : NULL \in {rb.left[x], rb.right[x]} => BlacksAbove(rb, x) = g[rb.root]
    BY <1>1, <1>2, SameBlacks
  <1>4. ASSUME NEW elm \in Node, IsRed(rb, elm), rb.parent[elm] # NULL, IsRed(rb, rb.parent[elm]) PROVE FALSE
    <2>1. elm \in S
      BY <1>4 DEF IsRB, S
    <2>2. PICK side \in Sides : rb[side][rb.parent[elm]] = elm
      BY <2>1, <1>1, <1>4, Places DEF Placing
    <2>3. rb.parent[elm] \in S
      BY <2>1, <1>1, <1>4, Places
    <2>4. RedRule(rb, S, NULL, NULL) /\ elm # NULL
      BY Numbers DEF IsRB, Sound, S
    <2> QED
      BY <2>2, <2>3, <2>4, <1>4 DEF RedRule
  <1> QED
    BY <1>3, <1>4 DEF Balanced, S

-----------------------------------------------------------------------------
(* The elements of a set in the order of a walk to the side. *)
Listing(side, T) == IF side = "right" THEN Ordered(T) ELSE Reverse(Ordered(T))

LEMMA NthAbove ==
  ASSUME NEW T \in SUBSET Node, NEW x \in Node, \A y \in T : x < y
  PROVE  /\ Nth(T \cup {x}, 1) = x
         /\ \A k \in 1 .. Cardinality(T) : Nth(T \cup {x}, k + 1) = Nth(T, k)
         /\ Cardinality(T \cup {x}) = Cardinality(T) + 1 /\ Cardinality(T) \in Nat
  <1> DEFINE U == T \cup {x}
             UpTo(z) == {y \in U : y <= z}
             Low(z) == {y \in T : y <= z}
  <1>1. (\A y \in U : y \in Int) /\ x \in Int /\ x \notin T
    BY Numbers
  <1>2. IsFiniteSet(T) /\ Cardinality(T) \in Nat
    BY NodesFinite
  <1>3. ASSUME NEW z \in T
        PROVE  Cardinality(Low(z)) \in Nat \ {0} /\ Cardinality(UpTo(z)) = Cardinality(Low(z)) + 1
    <2>1. UpTo(z) = Low(z) \cup {x} /\ x \notin Low(z) /\ z \in Low(z) /\ Low(z) \in SUBSET Node
      <3>1. x <= z /\ z <= z
        BY <1>1
      <3> QED
        BY <3>1, <1>1
    <2> HIDE DEF UpTo, Low
    <2>2. IsFiniteSet(Low(z)) /\ Cardinality(Low(z)) \in Nat
      BY <2>1, NodesFinite
    <2>3. Cardinality(Low(z)) # 0
      BY <2>1, <2>2, FS_EmptySet
    <2>4. Cardinality(Low(z) \cup {x}) = Cardinality(Low(z)) + 1
      BY <2>1, <2>2, FS_AddElement
    <2> QED
      BY <2>1, <2>2, <2>3, <2>4
  <1>4. Cardinality(UpTo(x)) = 1
    <2>1. x <= x /\ \A y \in T : ~(y <= x)
      BY <1>1
    <2>2. UpTo(x) = {x}
      BY <2>1
    <2> QED
      BY <2>2, FS_Singleton
  <1>5. ASSUME NEW z PROVE (z \in U /\ Cardinality(UpTo(z)) = 1) <=> z = x
    <2>1. CASE z \in T
      <3>1. z # x
        BY <1>1, <2>1
      <3> HIDE DEF UpTo, Low
      <3>2. Cardinality(UpTo(z)) # 1
        BY <1>3, <2>1
      <3> QED
        BY <3>1, <3>2
    <2>2. CASE z = x
      BY <2>2, <1>4
    <2>3. CASE z \notin U
      BY <2>3
    <2> QED
      BY <2>1, <2>2, <2>3
  <1>6. ASSUME NEW k \in 1 .. Cardinality(T), NEW z
        PROVE  (z \in U /\ Cardinality(UpTo(z)) = k + 1) <=> (z \in T /\ Cardinality(Low(z)) = k)
    <2>0. k \in Int /\ 1 <= k
      BY <1>2
    <2>1. CASE z \in T
      <3>1. z \in U
        BY <2>1
      <3> HIDE DEF UpTo, Low, U
      <3> QED
        BY <3>1, <1>3, <2>0, <2>1
    <2>2. CASE z = x
      <3> HIDE DEF UpTo, Low
      <3> QED
        BY <2>0, <2>2, <1>1, <1>4
    <2>3. CASE z \notin U
      BY <2>3
    <2> QED
      BY <2>1, <2>2, <2>3
  <1>7. Cardinality(U) = Cardinality(T) + 1
    BY <1>1, <1>2, FS_AddElement
  <1> HIDE DEF U
  <1>8. Nth(U, 1) = x
    BY <1>5, Zenon DEF Nth
  <1>9. ASSUME NEW k \in 1 .. Cardinality(T) PROVE Nth(U, k + 1) = Nth(T, k)
    BY <1>6, Zenon DEF Nth
  <1> QED
    BY <1>2, <1>7, <1>8, <1>9 DEF U

LEMMA ReversedNext ==
  ASSUME NEW T \in SUBSET Node, NEW x \in Node, \A y \in T : x < y
  PROVE  Reverse(Ordered(T \cup {x})) = Append(Reverse(Ordered(T)), x)
  <1> DEFINE U == T \cup {x}
             n == Cardinality(T)
  <1>1. /\ Nth(U, 1) = x /\ n \in Nat /\ Cardinality(U) = n + 1
        /\ \A k \in 1 .. n : Nth(U, k + 1) = Nth(T, k)
    BY NthAbove
  <1> HIDE DEF U, n
  <1>2. Ordered(U) = [k \in 1 .. n + 1 |-> Nth(U, k)] /\ Ordered(T) = [k \in 1 .. n |-> Nth(T, k)]
    BY <1>1 DEF Ordered, n
  <1>3. Len(Ordered(U)) = n + 1 /\ Len(Ordered(T)) = n
    BY <1>1, <1>2
  <1>4. Reverse(Ordered(U)) = [i \in 1 .. n + 1 |-> Ordered(U)[(n + 1 - i) + 1]]
    BY <1>3 DEF Reverse
  <1>5. Reverse(Ordered(T)) = [i \in 1 .. n |-> Ordered(T)[(n - i) + 1]]
    BY <1>3 DEF Reverse
  <1>6. Len(Reverse(Ordered(T))) = n
    BY <1>1, <1>5
  <1>7. Append(Reverse(Ordered(T)), x) =
          [i \in 1 .. n + 1 |-> IF i = n + 1 THEN x ELSE Reverse(Ordered(T))[i]]
    <2>1. Reverse(Ordered(T)) = [i \in 1 .. n |-> Ordered(T)[(n - i) + 1]]
      BY <1>5
    <2> QED
      BY <2>1, <1>1, <1>6
  <1>8. ASSUME NEW i \in 1 .. n + 1
        PROVE  Ordered(U)[(n + 1 - i) + 1] = IF i = n + 1 THEN x ELSE Reverse(Ordered(T))[i]
    <2>1. CASE i = n + 1
      <3>1. (n + 1 - i) + 1 = 1 /\ 1 \in 1 .. n + 1
        BY <2>1, <1>1
      <3> QED
        BY <2>1, <3>1, <1>1, <1>2
    <2>2. CASE i # n + 1
      <3> DEFINE k == (n - i) + 1
      <3>1. (n + 1 - i) + 1 = k + 1 /\ k \in 1 .. n /\ k + 1 \in 1 .. n + 1 /\ i \in 1 .. n
        BY <2>2, <1>1
      <3> HIDE DEF k
      <3>2. Ordered(U)[k + 1] = Nth(U, k + 1) /\ Ordered(T)[k] = Nth(T, k)
        BY <3>1, <1>2
      <3>3. Reverse(Ordered(T))[i] = Ordered(T)[k]
        BY <3>1, <1>5 DEF k
      <3> QED
        BY <2>2, <3>1, <3>2, <3>3, <1>1
    <2> QED
      BY <2>1, <2>2
  <1>9. Reverse(Ordered(U)) = Append(Reverse(Ordered(T)), x)
    BY <1>4, <1>7, <1>8
  <1> QED
    BY <1>9 DEF U

LEMMA ListingNext ==
  ASSUME NEW side \in Sides, NEW T \in SUBSET Node, NEW x \in Node, \A y \in T : Before(Other(side), y, x)
  PROVE  Listing(side, T \cup {x}) = Append(Listing(side, T), x)
  <1>1. CASE side = "right"
    BY <1>1, OrderedNext DEF Listing, Before, Other
  <1>2. CASE side = "left"
    BY <1>2, ReversedNext DEF Listing, Before, Other
  <1> QED
    BY <1>1, <1>2 DEF Sides

LEMMA ListingNone ==
  ASSUME NEW side
  PROVE  Listing(side, {}) = <<>>
  <1>1. Reverse(<<>>) = <<>>
    BY DEF Reverse
  <1> QED
    BY <1>1, OrderedNone DEF Listing

(* How many steps to the side a walk has at most before it. *)
Onward(side, x) ==
  IF x = NULL THEN 0 ELSE IF side = "right" THEN NumNodes + 1 - x ELSE x

LEMMA OnwardType ==
  ASSUME NEW side \in Sides, NEW x \in Link
  PROVE  /\ Onward(side, x) \in Nat /\ Onward(side, x) <= NumNodes
         /\ \A y \in Link : y = NULL \/ Before(Other(side), x, y) => (x = NULL \/ Onward(side, y) < Onward(side, x))
  BY NodesAssumption DEF Onward, Link, Node, NULL, Before, Other, Sides

-----------------------------------------------------------------------------
(* The end of the tree, on a side. *)
LEMMA EndIs ==
  ASSUME NEW t, NEW S, IsRB(t, S), NEW side \in Sides
  PROVE  LET e == Extreme(t, t.root, side)
         IN /\ S = {} => e = NULL
            /\ S # {} => e \in S /\ \A y \in S : ~Before(side, y, e)
  <1>1. PICK lab : Shape(t, S, lab)
    BY DEF IsRB, Sound
  <1>2. S \subseteq Node /\ NULL \notin Node /\ t.root \in S \cup {NULL} /\ (t.root = NULL => S = {})
    BY <1>1, Numbers DEF Shape
  <1>3. CASE S = {}
    BY <1>2, <1>3, ExtremeNone
  <1>4. CASE S # {}
    <2>1. t.root \in S /\ lab[side][t.root] = Far(side)
      BY <1>1, <1>2, <1>4 DEF Shape
    <2>2. /\ Extreme(t, t.root, side) \in S
          /\ \A y \in S : ~(Before(side, Far(side), y) /\ Before(side, y, Extreme(t, t.root, side)))
      BY <1>1, <2>1, ExtremeIs
    <2>3. \A y \in S : Before(side, Far(side), y)
      BY <1>2, Numbers
    <2> QED
      BY <2>2, <2>3, <1>4
  <1> QED
    BY <1>3, <1>4

LEMMA RBNeighbourIs ==
  ASSUME NEW t, NEW S, IsRB(t, S), NEW elm \in S, NEW side \in Sides
  PROVE  LET n == Neighbour(t, elm, side)
         IN \/ n = NULL /\ \A y \in S : ~Before(side, y, elm)
            \/ /\ n \in S /\ Before(side, n, elm)
               /\ \A y \in S : ~(Before(side, y, elm) /\ Before(side, n, y))
  <1>1. PICK lab : Shape(t, S, lab)
    BY DEF IsRB, Sound
  <1> QED
    BY <1>1, NeighbourIs

(* What a walk to the side that is at x, or at its end, has passed. *)
Behind(S, side, x) == {y \in S : x = NULL \/ Before(Other(side), y, x)}

(* Next to x is n. *)
LEMMA Passed ==
  ASSUME NEW S \in SUBSET Node, NEW side \in Sides, NEW x \in S, NEW n,
         \/ n = NULL /\ \A y \in S : ~Before(side, y, x)
         \/ /\ n \in S /\ Before(side, n, x)
            /\ \A y \in S : ~(Before(side, y, x) /\ Before(side, n, y))
  PROVE  /\ Behind(S, side, n) = Behind(S, side, x) \cup {x}
         /\ \A y \in Behind(S, side, x) : Before(Other(side), y, x)
         /\ Behind(S, side, x) \in SUBSET Node
  <1> DEFINE o == Other(side)
  <1>1. \A y \in S : y \in Int /\ y # NULL
    BY Numbers
  <1>2. ASSUME NEW y \in S, NEW z \in S
        PROVE  /\ Before(o, y, z) <=> Before(side, z, y)
               /\ y = z \/ Before(side, y, z) \/ Before(side, z, y)
    <2>1. y \in Int /\ z \in Int
      BY <1>1
    <2> QED
      BY <2>1 DEF Before, Other, Sides
  <1>3. ASSUME NEW y \in S
        PROVE  (n = NULL \/ Before(o, y, n)) <=> (Before(o, y, x) \/ y = x)
    <2>1. CASE n = NULL
      BY <2>1, <1>1, <1>2
    <2>2. CASE n # NULL
      <3>1. n \in S /\ Before(side, n, x) /\ ~(Before(side, y, x) /\ Before(side, n, y))
        BY <2>2
      <3>2. Before(side, x, y) => Before(side, n, y)
        BY <3>1, <1>1, Order
      <3> QED
        BY <2>2, <3>1, <3>2, <1>2
    <2> QED
      BY <2>1, <2>2
  <1> QED
    BY <1>1, <1>3 DEF Behind

(* RB_FOREACH and RB_FOREACH_REVERSE. *)
LEMMA ForeachIs ==
  ASSUME NEW t, NEW S, IsRB(t, S), NEW side \in Sides
  PROVE  Foreach(t, Extreme(t, t.root, Other(side)), side) = Listing(side, S)
  <1> DEFINE o == Other(side)
             start == Extreme(t, t.root, o)
             States == [at : Link, visited : Seq(Node)]
             Step[w \in States] ==
               IF w.at = NULL THEN w
               ELSE [at |-> Neighbour(t, w.at, side), visited |-> Append(w.visited, w.at)]
             Inv == {w \in States : w.at \in S \cup {NULL} /\ w.visited = Listing(side, Behind(S, side, w.at))}
             state == [at |-> start, visited |-> <<>>]
             size == [w \in Inv |-> Onward(side, w.at)]
             e == Repeat(Step, state)
  <1>1. S \subseteq Node /\ NULL \notin S /\ S \subseteq Link /\ NULL \in Link /\ o \in Sides /\ S \subseteq Int
    BY TwoSides, Numbers DEF IsRB, Sound, Shape, Link
  <1>2. start \in S \cup {NULL} /\ Behind(S, side, start) = {}
    <2>1. /\ S = {} => start = NULL
          /\ S # {} => start \in S /\ \A y \in S : ~Before(o, y, start)
      BY <1>1, EndIs
    <2> HIDE DEF start
    <2> QED
      BY <2>1, <1>1 DEF Behind
  <1> HIDE DEF start
  <1>3. state \in Inv
    <2>1. state \in States /\ state.at = start /\ state.visited = <<>>
      BY <1>1, <1>2
    <2> HIDE DEF state
    <2> QED
      BY <2>1, <1>2, ListingNone
  <1>4. size \in [Inv -> Nat] /\ size[state] <= NumNodes
    <2>1. \A w \in Inv : w.at \in Link
      BY <1>1
    <2> HIDE DEF Inv, state
    <2> QED
      BY <2>1, <1>3, OnwardType
  <1>5. ASSUME NEW w \in Inv
        PROVE  Step[w] \in Inv /\ (Step[Step[w]] = Step[w] \/ size[Step[w]] < size[w])
    <2>1. w \in States /\ w.at \in S \cup {NULL} /\ w.visited = Listing(side, Behind(S, side, w.at))
      OBVIOUS
    <2>2. CASE w.at = NULL
      <3>1. Step[w] = w
        BY <2>1, <2>2
      <3> QED
        BY <3>1
    <2>3. CASE w.at # NULL
      <3> DEFINE x == w.at
                 n == Neighbour(t, x, side)
                 w2 == [at |-> n, visited |-> Append(w.visited, x)]
      <3>1. x \in S /\ x \in Node /\ Step[w] = w2
        BY <2>1, <2>3, <1>1
      <3>2. \/ n = NULL /\ \A y \in S : ~Before(side, y, x)
            \/ /\ n \in S /\ Before(side, n, x)
               /\ \A y \in S : ~(Before(side, y, x) /\ Before(side, n, y))
        BY <3>1, RBNeighbourIs
      <3> HIDE DEF n
      <3>3. n \in S \cup {NULL} /\ n \in Link
        BY <3>2, <1>1
      <3>4. /\ Behind(S, side, n) = Behind(S, side, x) \cup {x} /\ Behind(S, side, x) \in SUBSET Node
            /\ \A y \in Behind(S, side, x) : Before(o, y, x)
        <4>1. S \in SUBSET Node
          BY <1>1
        <4> HIDE DEF x, Inv, w2
        <4> QED
          BY <4>1, <3>1, <3>2, Passed
      <3>5. Append(w.visited, x) = Listing(side, Behind(S, side, n))
        <4>2. w.visited = Listing(side, Behind(S, side, x))
          BY <2>1
        <4> HIDE DEF x
        <4>3. Listing(side, Behind(S, side, x) \cup {x}) = Append(Listing(side, Behind(S, side, x)), x)
          BY SMTT(30), <3>1, <3>4, ListingNext
        <4> QED
          BY <4>2, <4>3, <3>4
      <3>6. w2 \in States /\ w2.at = n /\ w2.visited = Append(w.visited, x)
        BY <2>1, <3>1, <3>3
      <3> HIDE DEF w2
      <3>7. w2 \in Inv
        BY <3>3, <3>5, <3>6
      <3>8. Onward(side, n) < Onward(side, x)
        <4>1. n = NULL \/ Before(o, x, n)
          BY <3>1, <3>2, <1>1, Order
        <4>2. x \in Link
          BY <3>1, <1>1
        <4> HIDE DEF x
        <4> QED
          BY <4>1, <4>2, <3>1, <3>3, <1>1, OnwardType
      <3> HIDE DEF Inv
      <3>9. size[w2] < size[w]
        BY <3>6, <3>7, <3>8
      <3> QED
        BY <3>1, <3>7, <3>9
    <2> QED
      BY <2>2, <2>3
  <1>6. Foreach(t, start, side) = e.visited
    BY DEF Foreach
  <1> HIDE DEF Inv, state, size
  <1>7. e \in Inv /\ Step[e] = e
    <2> HIDE DEF Step
    <2> QED
      BY <1>3, <1>4, <1>5, RepeatEnds
  <1> HIDE DEF e
  <1>8. e \in States /\ e.at \in S \cup {NULL} /\ e.visited = Listing(side, Behind(S, side, e.at))
    BY <1>7 DEF Inv
  <1>9. e.at = NULL
    <2>1. SUFFICES ASSUME e.at # NULL PROVE FALSE
      OBVIOUS
    <2>2. Step[e].at = Neighbour(t, e.at, side)
      BY <2>1, <1>8
    <2>3. Neighbour(t, e.at, side) = NULL \/ Before(side, Neighbour(t, e.at, side), e.at)
      BY <2>1, <1>8, RBNeighbourIs
    <2>4. ~Before(side, e.at, e.at)
      BY <2>1, <1>8, <1>1, Order
    <2> QED
      BY <2>1, <2>2, <2>3, <2>4, <1>7
  <1>10. Behind(S, side, e.at) = S
    BY <1>9 DEF Behind
  <1> QED
    BY <1>6, <1>8, <1>10 DEF start

-----------------------------------------------------------------------------
(* What a walk to the side visits that begins at start. *)
From(S, side, start) == {y \in S : start # NULL /\ ~Before(Other(side), y, start)}

Safe == [tree : RBTrees, at : Link, visited : Seq(Node)]

(* A walk over A that removes what it visits. *)
Emptying(S, A, side) ==
  {w \in Safe : /\ w.at \in A \cup {NULL}
                /\ IsRB(w.tree, S \ Behind(A, side, w.at))
                /\ w.visited = Listing(side, Behind(A, side, w.at))}

LEMMA Empties ==
  ASSUME NEW S \in SUBSET Node, NEW side \in Sides, NEW start \in S, NEW A, A = From(S, side, start),
         NEW w \in Emptying(S, A, side), w.at # NULL
  PROVE  LET x == w.at
             n == Neighbour(w.tree, x, side)
             w2 == [tree |-> RemoveElm(w.tree, x), at |-> n, visited |-> Append(w.visited, x)]
         IN w2 \in Emptying(S, A, side) /\ Onward(side, n) < Onward(side, x)
  <1> DEFINE o == Other(side)
             x == w.at
             n == Neighbour(w.tree, x, side)
             t2 == RemoveElm(w.tree, x)
             w2 == [tree |-> t2, at |-> n, visited |-> Append(w.visited, x)]
             V == Behind(A, side, x)
  <1>1. /\ w \in Safe /\ x \in A /\ IsRB(w.tree, S \ V) /\ w.visited = Listing(side, V)
    BY DEF Emptying
  <1>2. /\ S \subseteq Node /\ NULL \notin S /\ S \subseteq Link /\ NULL \in Link /\ S \subseteq Int
        /\ o \in Sides /\ A \subseteq S /\ x \in Node /\ x \in Int /\ start \in Int /\ A \in SUBSET Node
    BY <1>1, Numbers, TwoSides DEF Link, From
  <1>3. \A y \in A : y \in V <=> Before(o, y, x)
    BY DEF Behind
  <1>4. \A y, z \in S : Before(o, y, z) <=> Before(side, z, y)
    BY <1>2, Order
  <1>5. \A y \in S : y \in A <=> ~Before(o, y, start)
    <2>1. start # NULL
      BY <1>2
    <2> QED
      BY <2>1 DEF From
  <1>6. x \in S \ V
    <2>1. ~Before(o, x, x)
      BY <1>2, Order
    <2> QED
      BY <2>1, <1>1, <1>2, <1>3
  <1>7. \/ n = NULL /\ \A y \in S \ V : ~Before(side, y, x)
        \/ /\ n \in S \ V /\ Before(side, n, x)
           /\ \A y \in S \ V : ~(Before(side, y, x) /\ Before(side, n, y))
    <2> HIDE DEF V, x
    <2> QED
      BY <1>1, <1>6, RBNeighbourIs DEF n
  <1> HIDE DEF n, V, t2
  <1>8. ASSUME NEW y \in A, Before(side, y, x) PROVE y \in S \ V
    <2>1. ~Before(o, y, x)
      BY <1>1, <1>2, <1>4, <1>8, Order
    <2> QED
      BY <2>1, <1>2, <1>3
  <1>9. n # NULL => n \in A
    <2>1. SUFFICES ASSUME n # NULL PROVE n \in A
      OBVIOUS
    <2>2. n \in S /\ Before(side, n, x) /\ n \in Int
      BY <2>1, <1>2, <1>7
    <2>3. ~Before(o, n, start)
      <3>1. SUFFICES ASSUME Before(o, n, start) PROVE FALSE
        OBVIOUS
      <3>2. Before(side, start, n)
        BY <3>1, <2>2, <1>4
      <3>3. Before(side, start, x)
        BY <3>2, <2>2, <1>2, Order
      <3>4. Before(o, x, start)
        BY <3>3, <1>1, <1>2, <1>4
      <3> QED
        BY <3>4, <1>1, <1>2, <1>5
    <2> QED
      BY <2>2, <2>3, <1>5
  <1>10. \/ n = NULL /\ \A y \in A : ~Before(side, y, x)
         \/ /\ n \in A /\ Before(side, n, x)
            /\ \A y \in A : ~(Before(side, y, x) /\ Before(side, n, y))
    <2>1. NULL \notin S
      BY <1>2
    <2> HIDE DEF x
    <2>2. CASE n = NULL
      BY <2>1, <2>2, <1>7, <1>8
    <2>3. CASE n # NULL
      BY <2>3, <1>7, <1>8, <1>9
    <2> QED
      BY <2>2, <2>3
  <1>11. /\ Behind(A, side, n) = V \cup {x} /\ V \in SUBSET Node
         /\ \A y \in V : Before(o, y, x)
    <2> HIDE DEF w2, x
    <2> QED
      BY <1>1, <1>2, <1>10, Passed DEF V
  <1>12. IsRB(t2, S \ Behind(A, side, n))
    <2>1. IsRB(t2, (S \ V) \ {x})
      <3> HIDE DEF x
      <3> QED
        BY <1>1, <1>6, RBRemoved DEF t2
    <2>2. (S \ V) \ {x} = S \ Behind(A, side, n)
      BY <1>11
    <2> QED
      BY <2>1, <2>2
  <1>13. Append(w.visited, x) = Listing(side, Behind(A, side, n))
    <2> HIDE DEF x, w2
    <2>1. Listing(side, V \cup {x}) = Append(Listing(side, V), x)
      BY ZenonT(40), <1>2, <1>11, ListingNext
    <2> QED
      BY <2>1, <1>1, <1>11
  <1>14. w2 \in Safe /\ w2.tree = t2 /\ w2.at = n /\ w2.visited = Append(w.visited, x)
    <2>1. t2 \in RBTrees
      BY <1>12 DEF IsRB, Sound, Shape
    <2>2. n \in Link
      BY <1>2, <1>9
    <2>3. w.visited \in Seq(Node)
      BY <1>1 DEF Safe
    <2>4. Append(w.visited, x) \in Seq(Node)
      BY <2>3, <1>2
    <2> HIDE DEF x
    <2> QED
      BY <2>1, <2>2, <2>4 DEF Safe
  <1>15. Onward(side, n) < Onward(side, x)
    <2>1. n = NULL \/ Before(o, x, n)
      BY <1>1, <1>2, <1>4, <1>7
    <2>2. x \in Link /\ n \in Link /\ x # NULL
      BY <1>1, <1>2, <1>9
    <2> HIDE DEF x
    <2> QED
      BY <2>1, <2>2, <1>2, OnwardType
  <1> HIDE DEF w2
  <1>16. w2 \in Emptying(S, A, side)
    BY <1>9, <1>12, <1>13, <1>14 DEF Emptying
  <1> QED
    BY <1>15, <1>16 DEF w2, n, t2

(* RB_FOREACH_SAFE and its like, from start on. *)
LEMMA ForeachSafeIs ==
  ASSUME NEW t, NEW S, IsRB(t, S), NEW side \in Sides, NEW start \in S
  PROVE  LET walk == ForeachSafe(t, start, side)
             A == From(S, side, start)
         IN IsRB(walk.tree, S \ A) /\ walk.visited = Listing(side, A)
  <1> DEFINE o == Other(side)
             A == From(S, side, start)
             Step[w \in Safe] ==
               IF w.at = NULL THEN w
               ELSE [tree |-> RemoveElm(w.tree, w.at), at |-> Neighbour(w.tree, w.at, side),
                     visited |-> Append(w.visited, w.at)]
             Inv == Emptying(S, A, side)
             state == [tree |-> t, at |-> start, visited |-> <<>>]
             size == [w \in Inv |-> Onward(side, w.at)]
             e == Repeat(Step, state)
  <1>1. S \in SUBSET Node /\ NULL \notin S /\ S \subseteq Link /\ NULL \in Link /\ o \in Sides /\ S \subseteq Int
    BY TwoSides, Numbers DEF IsRB, Sound, Shape, Link
  <1>2. start \in A /\ A \subseteq S
    BY <1>1, Order DEF From
  <1>3. state \in Inv
    <2>1. state \in Safe /\ state.at = start /\ state.visited = <<>> /\ state.tree = t
      BY <1>1 DEF Safe, IsRB, Sound, Shape
    <2>2. Behind(A, side, start) = {}
      BY <1>1, <1>2 DEF Behind, From
    <2>3. S \ {} = S
      OBVIOUS
    <2> HIDE DEF state, A
    <2> QED
      BY <2>1, <2>2, <2>3, <1>2, ListingNone DEF Emptying
  <1> HIDE DEF A
  <1>4. size \in [Inv -> Nat] /\ size[state] <= NumNodes
    <2>1. \A w \in Inv : w.at \in Link
      BY <1>1, <1>2 DEF Emptying
    <2> HIDE DEF Inv, state
    <2> QED
      BY <2>1, <1>3, OnwardType
  <1>5. ASSUME NEW w \in Inv
        PROVE  Step[w] \in Inv /\ (Step[Step[w]] = Step[w] \/ size[Step[w]] < size[w])
    <2>1. w \in Safe
      BY SMTT(30) DEF Emptying
    <2>2. CASE w.at = NULL
      <3>1. Step[w] = w
        BY <2>1, <2>2
      <3> QED
        BY <3>1
    <2>3. CASE w.at # NULL
      <3> DEFINE w2 == [tree |-> RemoveElm(w.tree, w.at), at |-> Neighbour(w.tree, w.at, side),
                        visited |-> Append(w.visited, w.at)]
      <3>1. Step[w] = w2
        BY <2>1, <2>3
      <3>2. w2 \in Inv /\ Onward(side, Neighbour(w.tree, w.at, side)) < Onward(side, w.at)
        <4> HIDE DEF Step, size, e
        <4> QED
          BY <2>3, <1>1, Empties DEF A
      <3>3. w2.at = Neighbour(w.tree, w.at, side)
        OBVIOUS
      <3> HIDE DEF w2, Inv, Step
      <3>4. size[w2] < size[w]
        BY <3>2, <3>3
      <3> QED
        BY <3>1, <3>2, <3>4
    <2> QED
      BY <2>2, <2>3
  <1>6. ForeachSafe(t, start, side) = e
    BY DEF ForeachSafe, Safe
  <1> HIDE DEF Inv, state, size
  <1>7. e \in Inv /\ Step[e] = e
    <2> HIDE DEF Step
    <2> QED
      BY <1>3, <1>4, <1>5, RepeatEnds
  <1> HIDE DEF e
  <1>8. /\ e \in Safe /\ e.at \in A \cup {NULL} /\ IsRB(e.tree, S \ Behind(A, side, e.at))
        /\ e.visited = Listing(side, Behind(A, side, e.at))
    BY <1>7 DEF Inv, Emptying
  <1>9. e.at = NULL
    <2>1. SUFFICES ASSUME e.at # NULL PROVE FALSE
      OBVIOUS
    <2>2. Step[e].at = Neighbour(e.tree, e.at, side)
      BY <2>1, <1>8
    <2>3. Onward(side, Neighbour(e.tree, e.at, side)) < Onward(side, e.at)
      BY <2>1, <1>1, <1>7, Empties DEF Inv, A
    <2>4. Onward(side, e.at) \in Nat
      BY <1>1, <1>2, <1>8, OnwardType
    <2> QED
      BY <2>2, <2>3, <2>4, <1>7
  <1>10. Behind(A, side, e.at) = A
    BY <1>9 DEF Behind
  <1> QED
    BY <1>6, <1>8, <1>10 DEF A

-----------------------------------------------------------------------------
(* The tree as an ordered set. *)
LEMMA EmptiesNone ==
  ASSUME NEW t \in RBTrees, NEW side \in Sides
  PROVE  LET walk == ForeachSafe(t, NULL, side)
         IN walk.tree = t /\ walk.visited = <<>>
  <1> DEFINE Step[w \in Safe] ==
               IF w.at = NULL THEN w
               ELSE [tree |-> RemoveElm(w.tree, w.at), at |-> Neighbour(w.tree, w.at, side),
                     visited |-> Append(w.visited, w.at)]
             state == [tree |-> t, at |-> NULL, visited |-> <<>>]
             Inv == {state}
             size == [w \in Inv |-> 0]
             e == Repeat(Step, state)
  <1>1. state \in Safe /\ state.at = NULL /\ state.tree = t /\ state.visited = <<>>
    BY DEF Safe, Link
  <1>2. ForeachSafe(t, NULL, side) = e
    BY DEF ForeachSafe, Safe
  <1>3. Step[state] = state
    <2> HIDE DEF state
    <2> QED
      BY <1>1
  <1>4. state \in Inv /\ size \in [Inv -> Nat] /\ size[state] <= NumNodes
    BY NodesAssumption
  <1>5. \A w \in Inv : Step[w] \in Inv /\ (Step[Step[w]] = Step[w] \/ size[Step[w]] < size[w])
    <2> HIDE DEF state, Step
    <2> QED
      BY <1>3
  <1>6. e \in Inv
    <2> HIDE DEF state, Step, Inv, size
    <2> QED
      BY <1>4, <1>5, RepeatEnds
  <1> HIDE DEF e, Step, state, size
  <1>7. e = state
    BY <1>6
  <1> QED
    BY <1>1, <1>2, <1>7

LEMMA RBLeastIs ==
  ASSUME NEW T \in SUBSET Int
  PROVE  /\ T = {} => RBSet!Least(T) = <<>> /\ RBSet!Greatest(T) = <<>>
         /\ \A m \in T : (\A y \in T : m <= y) => RBSet!Least(T) = <<m>>
         /\ \A m \in T : (\A y \in T : y <= m) => RBSet!Greatest(T) = <<m>>
  <1>1. ASSUME NEW m \in T, \A y \in T : m <= y PROVE RBSet!Min(T) = m
    <2>1. \A z \in T : (\A y \in T : z <= y) => z = m
      BY <1>1
    <2> QED
      BY <1>1, <2>1 DEF RBSet!Min
  <1>2. ASSUME NEW m \in T, \A y \in T : y <= m PROVE RBSet!Max(T) = m
    <2>1. \A z \in T : (\A y \in T : y <= z) => z = m
      BY <1>2
    <2> QED
      BY <1>2, <2>1 DEF RBSet!Max
  <1> QED
    BY <1>1, <1>2 DEF RBSet!Least, RBSet!Greatest

LEMMA RBListingIs ==
  ASSUME NEW T
  PROVE  /\ RBSet!InOrder(T) = Listing("right", T)
         /\ RBSet!Reverse(RBSet!InOrder(T)) = Listing("left", T)
  <1>1. \A U : RBSet!Cardinality(U) = Cardinality(U)
    BY DEF RBSet!Cardinality, Cardinality
  <1>2. ASSUME NEW k PROVE RBSet!Ranked(T, k) = Nth(T, k)
    BY <1>1, Zenon DEF RBSet!Ranked, Nth
  <1>3. RBSet!InOrder(T) = Ordered(T)
    BY <1>1, <1>2 DEF RBSet!InOrder, Ordered
  <1>4. RBSet!Reverse(Ordered(T)) = Reverse(Ordered(T))
    BY DEF RBSet!Reverse, Reverse
  <1> QED
    BY <1>3, <1>4 DEF Listing

LEMMA RBAnswerIs ==
  ASSUME NEW call, NEW arg, NEW val
  PROVE  RBSet!Answer(call, arg, val) = Answer(call, arg, val)
  BY DEF RBSet!Answer, Answer

LEMMA RBSearched ==
  ASSUME NEW t, NEW S, IsRB(t, S), NEW elm \in Node
  PROVE  LET e == Search(t, elm)
         IN /\ e.elm = elm <=> elm \in S
            /\ e.elm = NULL <=> elm \notin S
            /\ Ret(e.elm) = RBSet!Least(S \cap {elm})
  <1> DEFINE e == Search(t, elm)
  <1>1. PICK lab : Shape(t, S, lab)
    BY DEF IsRB, Sound
  <1>2. (e.elm = elm <=> elm \in S) /\ e.elm \in {elm, NULL}
    BY <1>1, Searches
  <1>3. elm # NULL /\ elm \in Int
    BY Numbers
  <1> HIDE DEF e
  <1>4. Ret(e.elm) = RBSet!Least(S \cap {elm})
    <2>1. CASE elm \in S
      <3>1. S \cap {elm} = {elm}
        BY <2>1
      <3>2. RBSet!Least({elm}) = <<elm>>
        BY <1>3, RBLeastIs
      <3> QED
        BY <1>2, <1>3, <2>1, <3>1, <3>2 DEF Ret
    <2>2. CASE elm \notin S
      <3>1. S \cap {elm} = {}
        BY <2>2
      <3>2. RBSet!Least({}) = <<>>
        BY RBLeastIs
      <3> QED
        BY <1>2, <1>3, <2>2, <3>1, <3>2 DEF Ret
    <2> QED
      BY <2>1, <2>2
  <1> QED
    BY <1>2, <1>3, <1>4 DEF e

LEMMA RBIntegers ==
  ASSUME NEW t, NEW S, IsRB(t, S)
  PROVE  S \in SUBSET Int /\ S \in SUBSET Node /\ NULL \notin S /\ t \in RBTrees
  BY Numbers DEF IsRB, Sound, Shape

(* The elements of the tree that a call leaves. *)
LEMMA RBLeaves ==
  ASSUME NEW S, IsRB(rb', S)
  PROVE  RBElements' = S /\ IsRB(rb', RBElements')
  <1>1. {x \in Node : x = rb'.root \/ rb'.parent[x] # NULL} = S
    BY RBElementsAre
  <1> QED
    BY <1>1 DEF RBElements

RBIsCall == IsRB(rb', RBElements') /\ RBSet!Call

LEMMA RBInsertStep ==
  ASSUME IsRB(rb, RBElements), NEW elm \in Node, RBInsert(elm)
  PROVE  RBIsCall
  <1> DEFINE S == RBElements
             path == Search(rb, elm)
  <1>1. /\ path.elm = NULL <=> elm \notin S
        /\ Ret(path.elm) = RBSet!Least(S \cap {elm})
    BY RBSearched
  <1>2. rbRet' = Answer("INSERT", elm, Ret(path.elm))
    BY DEF RBInsert, Returns
  <1>3. rb' = IF path.elm # NULL THEN rb ELSE InsertElm(rb, path.parent, elm)
    BY DEF RBInsert
  <1>4. elm \notin S => IsRB(InsertElm(rb, path.parent, elm), S \cup {elm})
    BY RBInserted
  <1> HIDE DEF path, S
  <1>5. IsRB(rb', S \cup {elm})
    <2>1. CASE elm \in S
      <3>1. S \cup {elm} = S /\ IsRB(rb, S)
        BY <2>1 DEF S
      <3> QED
        BY <1>1, <1>3, <2>1, <3>1
    <2>2. CASE elm \notin S
      BY <1>1, <1>3, <1>4, <2>2
    <2> QED
      BY <2>1, <2>2
  <1>6. RBElements' = S \cup {elm} /\ IsRB(rb', RBElements')
    BY <1>5, RBLeaves
  <1>7. RBSet!Inserts(elm)
    BY <1>1, <1>2, <1>6, RBAnswerIs DEF RBSet!Inserts, S
  <1> QED
    BY <1>6, <1>7 DEF RBIsCall, RBSet!Call

(* A call that leaves the tree as it is. *)
LEMMA RBKept ==
  ASSUME IsRB(rb, RBElements), UNCHANGED rb
  PROVE  RBElements' = RBElements /\ IsRB(rb', RBElements')
  BY DEF RBElements

LEMMA RBFindStep ==
  ASSUME IsRB(rb, RBElements), NEW elm \in Node, RBFind(elm)
  PROVE  RBIsCall
  <1>1. Ret(Search(rb, elm).elm) = RBSet!Least(RBElements \cap {elm})
    BY RBSearched
  <1>2. rbRet' = Answer("FIND", elm, Ret(Search(rb, elm).elm)) /\ UNCHANGED rb
    BY DEF RBFind, Returns
  <1>3. RBElements' = RBElements /\ IsRB(rb', RBElements')
    BY <1>2, RBKept
  <1>4. RBSet!Looks(elm)
    BY <1>1, <1>2, <1>3, RBAnswerIs DEF RBSet!Looks
  <1> QED
    BY <1>3, <1>4 DEF RBIsCall, RBSet!Call

LEMMA RBRemoveStep ==
  ASSUME IsRB(rb, RBElements), NEW elm \in Node, RBRemove(elm)
  PROVE  RBIsCall
  <1> DEFINE S == RBElements
  <1>1. elm \in S /\ Ret(elm) = RBSet!Least(S \cap {elm})
    BY RBSearched DEF RBRemove
  <1>2. rbRet' = Answer("REMOVE", elm, Ret(elm)) /\ rb' = RemoveElm(rb, elm)
    BY DEF RBRemove, Returns
  <1>3. IsRB(rb', S \ {elm})
    BY <1>1, <1>2, RBRemoved
  <1>4. RBElements' = S \ {elm} /\ IsRB(rb', RBElements')
    BY <1>3, RBLeaves
  <1>5. RBSet!Removes(elm)
    BY <1>1, <1>2, <1>4, RBAnswerIs DEF RBSet!Removes
  <1> QED
    BY <1>4, <1>5 DEF RBIsCall, RBSet!Call

LEMMA RBNFindStep ==
  ASSUME IsRB(rb, RBElements), NEW elm \in Node, RBNFind(elm)
  PROVE  RBIsCall
  <1> DEFINE S == RBElements
             n == Ceiling(rb, elm)
             T == {x \in S : x >= elm}
  <1>1. PICK lab : Shape(rb, S, lab)
    BY DEF IsRB, Sound
  <1>2. \/ n = NULL /\ \A y \in S : y < elm
        \/ n \in S /\ elm <= n /\ \A y \in S : elm <= y => n <= y
    BY <1>1, CeilingIs
  <1>3. S \in SUBSET Int /\ NULL \notin S /\ elm \in Int
    BY RBIntegers, Numbers
  <1>4. rbRet' = Answer("NFIND", elm, Ret(n)) /\ UNCHANGED rb
    BY DEF RBNFind, Returns
  <1> HIDE DEF n, S
  <1>5. Ret(n) = RBSet!Least(T)
    <2>1. CASE n = NULL
      <3>1. T = {}
        <4>1. ASSUME NEW y \in S PROVE ~(y >= elm)
          <5>1. y < elm /\ y \in Int
            BY <1>2, <1>3, <2>1
          <5> QED
            BY <5>1, <1>3
        <4> QED
          BY <4>1
      <3> QED
        BY <2>1, <3>1, RBLeastIs DEF Ret
    <2>2. CASE n # NULL
      <3>1. n \in T /\ T \in SUBSET Int /\ \A y \in T : n <= y
        BY <1>2, <1>3, <2>2
      <3> HIDE DEF T
      <3> QED
        BY <2>2, <3>1, RBLeastIs DEF Ret
    <2> QED
      BY <2>1, <2>2
  <1>6. RBElements' = RBElements /\ IsRB(rb', RBElements')
    BY <1>4, RBKept
  <1>7. RBSet!Looks(elm)
    BY <1>4, <1>5, <1>6, RBAnswerIs DEF RBSet!Looks, S
  <1> QED
    BY <1>6, <1>7 DEF RBIsCall, RBSet!Call

LEMMA RBNeighbourStep ==
  ASSUME IsRB(rb, RBElements), NEW elm \in Node, NEW side \in Sides, RBNeighbour(elm, side)
  PROVE  RBIsCall
  <1> DEFINE S == RBElements
             n == Neighbour(rb, elm, side)
             above == {x \in S : x > elm}
             below == {x \in S : x < elm}
  <1>1. elm \in S
    BY RBSearched DEF RBNeighbour
  <1>2. \/ n = NULL /\ \A y \in S : ~Before(side, y, elm)
        \/ /\ n \in S /\ Before(side, n, elm)
           /\ \A y \in S : ~(Before(side, y, elm) /\ Before(side, n, y))
    BY <1>1, RBNeighbourIs
  <1>3. S \in SUBSET Int /\ NULL \notin S /\ elm \in Int
    BY RBIntegers, Numbers
  <1>4. rbRet' = Answer(StepTo[side], elm, Ret(n)) /\ UNCHANGED rb
    BY DEF RBNeighbour, Returns
  <1>5. RBElements' = RBElements /\ IsRB(rb', RBElements')
    BY <1>4, RBKept
  <1> HIDE DEF n, S
  <1>6. CASE side = "right"
    <2>1. CASE n = NULL
      <3>1. above = {}
        BY <1>2, <1>3, <1>6, <2>1 DEF Before
      <3> QED
        BY <2>1, <3>1, <1>1, <1>4, <1>5, <1>6, RBLeastIs, RBAnswerIs
        DEF Ret, StepTo, RBSet!Looks, RBIsCall, RBSet!Call, S
    <2>2. CASE n # NULL
      <3>1. n \in S /\ elm < n /\ \A y \in S : ~(elm < y /\ y < n)
        BY <1>2, <1>6, <2>2 DEF Before
      <3>2. n \in above /\ above \in SUBSET Int /\ \A y \in above : n <= y
        <4>1. n > elm /\ n \in Int
          BY <1>3, <3>1
        <4>2. ASSUME NEW y \in S, y > elm PROVE n <= y
          <5>1. y \in Int /\ ~(elm < y /\ y < n)
            BY <1>3, <3>1
          <5> QED
            BY <4>1, <4>2, <5>1, <1>3
        <4> QED
          BY <4>1, <4>2, <3>1, <1>3
      <3>3. RBSet!Least(above) = Ret(n)
        <4> HIDE DEF above
        <4> QED
          BY <2>2, <3>2, RBLeastIs DEF Ret
      <3>4. RBSet!Looks(elm)
        BY <3>3, <1>1, <1>4, <1>5, <1>6, RBAnswerIs DEF StepTo, RBSet!Looks, S
      <3> QED
        BY <3>4, <1>5 DEF RBIsCall, RBSet!Call
    <2> QED
      BY <2>1, <2>2
  <1>7. CASE side = "left"
    <2>1. CASE n = NULL
      <3>1. below = {}
        BY <1>2, <1>3, <1>7, <2>1 DEF Before
      <3> QED
        BY <2>1, <3>1, <1>1, <1>4, <1>5, <1>7, RBLeastIs, RBAnswerIs
        DEF Ret, StepTo, RBSet!Looks, RBIsCall, RBSet!Call, S
    <2>2. CASE n # NULL
      <3>1. n \in S /\ n < elm /\ \A y \in S : ~(y < elm /\ n < y)
        BY <1>2, <1>7, <2>2 DEF Before
      <3>2. n \in below /\ below \in SUBSET Int /\ \A y \in below : y <= n
        <4>1. ASSUME NEW y \in S, y < elm PROVE y <= n
          <5>1. y \in Int /\ n \in Int /\ ~(y < elm /\ n < y)
            BY <1>3, <3>1
          <5> QED
            BY <4>1, <5>1, <1>3
        <4> QED
          BY <4>1, <3>1, <1>3
      <3>3. RBSet!Greatest(below) = Ret(n)
        <4> HIDE DEF below
        <4> QED
          BY <2>2, <3>2, RBLeastIs DEF Ret
      <3>4. RBSet!Looks(elm)
        BY <3>3, <1>1, <1>4, <1>5, <1>7, RBAnswerIs DEF StepTo, RBSet!Looks, S
      <3> QED
        BY <3>4, <1>5 DEF RBIsCall, RBSet!Call
    <2> QED
      BY <2>1, <2>2
  <1> QED
    BY <1>6, <1>7 DEF Sides

LEMMA RBMinMaxStep ==
  ASSUME IsRB(rb, RBElements), NEW side \in Sides, RBMinMax(side)
  PROVE  RBIsCall
  <1> DEFINE S == RBElements
             n == Extreme(rb, rb.root, side)
  <1>1. rbRet' = Answer(EndAt[side], NULL, Ret(n)) /\ UNCHANGED rb
    BY DEF RBMinMax, Returns
  <1>2. /\ S = {} => n = NULL
        /\ S # {} => n \in S /\ \A y \in S : ~Before(side, y, n)
    BY EndIs
  <1>3. S \in SUBSET Int /\ NULL \notin S
    BY RBIntegers
  <1>4. RBElements' = RBElements /\ IsRB(rb', RBElements')
    BY <1>1, RBKept
  <1> HIDE DEF n, S
  <1>5. CASE S = {}
    <2>1. Ret(n) = <<>> /\ RBSet!Least(S) = <<>> /\ RBSet!Greatest(S) = <<>>
      BY <1>2, <1>3, <1>5, RBLeastIs DEF Ret
    <2>2. EndAt[side] \in {"MIN", "MAX"}
      BY DEF EndAt, Sides
    <2>3. RBSet!LooksAtAll
      BY <2>1, <2>2, <1>1, <1>4, RBAnswerIs DEF RBSet!LooksAtAll, S, NULL
    <2> QED
      BY <2>3, <1>4 DEF RBIsCall, RBSet!Call
  <1>6. CASE S # {}
    <2>1. n \in S /\ n \in Int /\ Ret(n) = <<n>>
      BY <1>2, <1>3, <1>6 DEF Ret
    <2>2. CASE side = "left"
      <3>1. ASSUME NEW y \in S PROVE n <= y
        <4>1. ~(y < n) /\ y \in Int
          BY <1>2, <1>3, <1>6, <2>2 DEF Before
        <4> QED
          BY <4>1, <2>1
      <3>2. RBSet!Least(S) = Ret(n)
        BY <2>1, <3>1, <1>3, RBLeastIs
      <3>3. RBSet!LooksAtAll
        BY <2>2, <3>2, <1>1, <1>4, RBAnswerIs DEF RBSet!LooksAtAll, S, NULL, EndAt
      <3> QED
        BY <3>3, <1>4 DEF RBIsCall, RBSet!Call
    <2>3. CASE side = "right"
      <3>1. ASSUME NEW y \in S PROVE y <= n
        <4>1. ~(n < y) /\ y \in Int
          BY <1>2, <1>3, <1>6, <2>3 DEF Before
        <4> QED
          BY <4>1, <2>1
      <3>2. RBSet!Greatest(S) = Ret(n)
        BY <2>1, <3>1, <1>3, RBLeastIs
      <3>3. RBSet!LooksAtAll
        BY <2>3, <3>2, <1>1, <1>4, RBAnswerIs DEF RBSet!LooksAtAll, S, NULL, EndAt
      <3> QED
        BY <3>3, <1>4 DEF RBIsCall, RBSet!Call
    <2> QED
      BY <2>2, <2>3 DEF Sides
  <1> QED
    BY <1>5, <1>6

LEMMA RBForeachStep ==
  ASSUME IsRB(rb, RBElements), NEW side \in Sides, RBForeach(side)
  PROVE  RBIsCall
  <1>1. rbRet' = Answer(WalkTo[side], NULL, Listing(side, RBElements)) /\ UNCHANGED rb
    BY ForeachIs DEF RBForeach
  <1>2. RBElements' = RBElements /\ IsRB(rb', RBElements')
    BY <1>1, RBKept
  <1>3. RBSet!LooksAtAll
    <2>1. CASE side = "right"
      BY <2>1, <1>1, <1>2, RBListingIs, RBAnswerIs DEF RBSet!LooksAtAll, NULL, WalkTo
    <2>2. CASE side = "left"
      BY <2>2, <1>1, <1>2, RBListingIs, RBAnswerIs DEF RBSet!LooksAtAll, NULL, WalkTo
    <2> QED
      BY <2>1, <2>2 DEF Sides
  <1> QED
    BY <1>2, <1>3 DEF RBIsCall, RBSet!Call

LEMMA RBForeachSafeStep ==
  ASSUME IsRB(rb, RBElements), NEW side \in Sides, RBForeachSafe(side)
  PROVE  RBIsCall
  <1> DEFINE S == RBElements
             o == Other(side)
             start == Extreme(rb, rb.root, o)
             walk == ForeachSafe(rb, start, side)
  <1>1. rb' = walk.tree /\ rbRet' = Answer(SafeWalkTo[side], NULL, walk.visited)
    BY DEF RBForeachSafe, RBEmpties
  <1>2. /\ o \in Sides
        /\ S = {} => start = NULL
        /\ S # {} => start \in S /\ \A y \in S : ~Before(o, y, start)
    BY TwoSides, EndIs
  <1>3. S \in SUBSET Int /\ NULL \notin S /\ rb \in RBTrees
    BY RBIntegers
  <1>4. IsRB(rb, S)
    OBVIOUS
  <1> HIDE DEF start, S
  <1>5. IsRB(walk.tree, {}) /\ walk.visited = Listing(side, S)
    <2>1. CASE S = {}
      <3>1. walk.tree = rb /\ walk.visited = <<>>
        BY <2>1, <1>2, <1>3, EmptiesNone
      <3> QED
        BY <2>1, <3>1, <1>4, ListingNone
    <2>2. CASE S # {}
      <3>1. From(S, side, start) = S
        BY <2>2, <1>2, <1>3 DEF From
      <3>2. IsRB(walk.tree, S \ From(S, side, start)) /\ walk.visited = Listing(side, From(S, side, start))
        BY <2>2, <1>2, <1>4, ForeachSafeIs
      <3>3. S \ S = {}
        OBVIOUS
      <3> QED
        BY <3>1, <3>2, <3>3
    <2> QED
      BY <2>1, <2>2
  <1> HIDE DEF walk
  <1>6. RBElements' = {} /\ IsRB(rb', RBElements')
    BY <1>1, <1>5, RBLeaves
  <1>7. RBSet!RemovesAll
    <2>1. CASE side = "right"
      BY <2>1, <1>1, <1>5, <1>6, RBListingIs, RBAnswerIs DEF RBSet!RemovesAll, NULL, SafeWalkTo, S
    <2>2. CASE side = "left"
      BY <2>2, <1>1, <1>5, <1>6, RBListingIs, RBAnswerIs DEF RBSet!RemovesAll, NULL, SafeWalkTo, S
    <2> QED
      BY <2>1, <2>2 DEF Sides
  <1> QED
    BY <1>6, <1>7 DEF RBIsCall, RBSet!Call

LEMMA RBForeachFromStep ==
  ASSUME IsRB(rb, RBElements), NEW elm \in Node, NEW side \in Sides, RBForeachFrom(elm, side)
  PROVE  RBIsCall
  <1> DEFINE S == RBElements
             A == From(S, side, elm)
             walk == ForeachSafe(rb, elm, side)
             above == {x \in S : x >= elm}
             below == {x \in S : x <= elm}
  <1>1. rb' = walk.tree /\ rbRet' = Answer(WalkFrom[side], elm, walk.visited)
    BY DEF RBForeachFrom, RBEmpties
  <1>2. elm \in S
    BY RBSearched DEF RBForeachFrom
  <1>3. S \in SUBSET Int /\ NULL \notin S /\ elm \in Int
    BY RBIntegers, Numbers
  <1>4. IsRB(walk.tree, S \ A) /\ walk.visited = Listing(side, A)
    BY <1>2, ForeachSafeIs
  <1> HIDE DEF walk
  <1>5. RBElements' = S \ A /\ IsRB(rb', RBElements')
    BY <1>1, <1>4, RBLeaves
  <1>6. A = IF side = "right" THEN above ELSE below
    <2>1. elm # NULL
      BY <1>2, <1>3
    <2>2. ASSUME NEW y \in S
          PROVE  ~Before(Other(side), y, elm) <=> IF side = "right" THEN y >= elm ELSE y <= elm
      <3>1. y \in Int
        BY <1>3
      <3> QED
        BY <3>1, <1>3 DEF Before, Other, Sides
    <2> HIDE DEF S
    <2> QED
      BY <2>1, <2>2 DEF From
  <1>7. RBSet!RemovesFrom(elm)
    <2>1. CASE side = "right"
      <3>1. rbRet' = RBSet!Answer("FOREACH_FROM", elm, RBSet!InOrder(above)) /\ RBElements' = S \ above
        <4> HIDE DEF A, above, S
        <4> QED
          BY <2>1, <1>1, <1>4, <1>5, <1>6, RBListingIs, RBAnswerIs DEF WalkFrom
      <3> QED
        BY <3>1, <1>2 DEF RBSet!RemovesFrom
    <2>2. CASE side = "left"
      <3>1. /\ rbRet' = RBSet!Answer("FOREACH_REVERSE_FROM", elm, RBSet!Reverse(RBSet!InOrder(below)))
            /\ RBElements' = S \ below
        <4> HIDE DEF A, below, S
        <4> QED
          BY <2>2, <1>1, <1>4, <1>5, <1>6, RBListingIs, RBAnswerIs DEF WalkFrom
      <3> QED
        BY <3>1, <1>2 DEF RBSet!RemovesFrom
    <2> QED
      BY <2>1, <2>2 DEF Sides
  <1> QED
    BY <1>5, <1>7 DEF RBIsCall, RBSet!Call

LEMMA RBCallStep ==
  ASSUME IsRB(rb, RBElements), RBCall
  PROVE  RBIsCall
  BY RBInsertStep, RBFindStep, RBRemoveStep, RBNFindStep, RBNeighbourStep, RBMinMaxStep,
     RBForeachStep, RBForeachSafeStep, RBForeachFromStep DEF RBCall

LEMMA RBNextStep ==
  ASSUME IsRB(rb, RBElements), [RBNext]_rbVars
  PROVE  IsRB(rb', RBElements') /\ [RBSet!Next]_<<RBElements, rbRet>>
  <1>1. NoAnswer = RBSet!NoAnswer
    BY RBAnswerIs DEF NoAnswer, RBSet!NoAnswer, NULL
  <1>2. CASE rbRet = NoAnswer /\ RBCall
    <2>1. IsRB(rb', RBElements') /\ RBSet!Call
      BY <1>2, RBCallStep DEF RBIsCall
    <2> QED
      BY <2>1, <1>1, <1>2 DEF RBSet!Next
  <1>3. CASE rbRet # NoAnswer /\ rbRet' = NoAnswer /\ UNCHANGED rb
    BY RBKept, <1>1, <1>3 DEF RBSet!Next, RBSet!ResultTaken
  <1>4. CASE UNCHANGED rbVars
    BY RBKept, <1>4 DEF rbVars
  <1> QED
    BY <1>2, <1>3, <1>4 DEF RBNext

LEMMA RBStartsEmpty ==
  ASSUME RBInit
  PROVE  IsRB(rb, RBElements) /\ RBSet!Init
  <1> DEFINE none == [x \in Node |-> NULL]
             red == [x \in Node |-> "RB_RED"]
             lab == [side \in Sides |-> [x \in Node |-> 0]]
             g == [x \in Link |-> 0]
  <1>1. rb = [root |-> NULL, left |-> none, right |-> none, parent |-> none, color |-> red] /\ rbRet = NoAnswer
    BY DEF RBInit
  <1>2. none \in [Node -> Link] /\ red \in [Node -> {"RB_BLACK", "RB_RED"}] /\ \A x \in Node : none[x] = NULL
    BY DEF Link
  <1>3. lab \in [Sides -> [Node -> Int]] /\ g \in [Link -> Nat] /\ g[NULL] = 0
    BY DEF Link
  <1> HIDE DEF none, red, lab, g
  <1>4. rb.root = NULL /\ rb.parent = none /\ rb \in RBTrees
    BY <1>1, <1>2 DEF RBTrees, Link
  <1>5. Shape(rb, {}, lab)
    BY <1>3, <1>4 DEF Shape
  <1>6. Heights(rb, {}, g, NULL, "left")
    BY <1>3 DEF Heights
  <1>7. RedRule(rb, {}, NULL, NULL) /\ ~IsRed(rb, rb.root)
    BY <1>4 DEF RedRule, IsRed
  <1>8. IsRB(rb, {})
    BY <1>2, <1>4, <1>5, <1>6, <1>7 DEF IsRB, Sound
  <1>9. RBElements = {}
    BY <1>8, RBElementsAre DEF RBElements
  <1>10. NoAnswer = RBSet!NoAnswer
    BY RBAnswerIs DEF NoAnswer, RBSet!NoAnswer, NULL
  <1> QED
    BY <1>1, <1>8, <1>9, <1>10 DEF RBSet!Init

(* Between any two calls the red-black tree is a search tree with links up  *)
(* and down that agree, its root is black, and both rules of tree.h hold:   *)
(* so do the rotations and colors of RB_INSERT_COLOR and RB_REMOVE_COLOR    *)
(* put right whatever an insertion or a removal has disturbed.              *)
THEOREM RBIsSound == RBSpec => []IsRB(rb, RBElements)
  <1>1. RBInit => IsRB(rb, RBElements)
    BY RBStartsEmpty
  <1>2. IsRB(rb, RBElements) /\ [RBNext]_rbVars => IsRB(rb, RBElements)'
    BY RBNextStep
  <1> QED
    BY <1>1, <1>2, PTL DEF RBSpec

(* The tree is balanced, for any number of elements and after any calls:    *)
(* all paths down have the same number of black elements, and no red        *)
(* element has a red parent.                                                *)
THEOREM RBIsBalanced == RBSpec => []Balanced
  <1>1. IsRB(rb, RBElements) => Balanced
    BY BalancedIs
  <1> QED
    BY <1>1, RBIsSound, PTL

(* The red-black tree is an ordered set, for any number of elements: every  *)
(* call ends, does to the set what it should and returns what it should,    *)
(* the walks that remove what they visit too.                               *)
THEOREM RBRefines == RBSpec => RBIsOrderedSet
  <1>1. RBInit => RBSet!Init
    BY RBStartsEmpty
  <1>2. IsRB(rb, RBElements) /\ [RBNext]_rbVars => [RBSet!Next]_<<RBElements, rbRet>>
    BY RBNextStep
  <1> QED
    BY <1>1, <1>2, RBIsSound, PTL DEF RBSpec, RBIsOrderedSet, RBSet!Spec
=============================================================================
