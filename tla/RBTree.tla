-------------------------------- MODULE RBTree --------------------------------
(***************************************************************************)
(* The red-black tree of uv/tree.h (RB_GENERATE_INTERNAL), one action per  *)
(* operation.  A link of NULL has no value here: an operation that         *)
(* followed one would be found.                                            *)
(***************************************************************************)
EXTENDS TreeNodes, SequencesExt

VARIABLES
  rb,      (* the head and the elements                *)
  rbRet    (* what the last operation returned         *)

rbVars == <<rb, rbRet>>

RBInit ==
  LET none == [x \in Node |-> NULL]
  IN /\ rb = [root |-> NULL, left |-> none, right |-> none, parent |-> none,
              color |-> [x \in Node |-> "RB_RED"]]
     /\ rbRet = NoAnswer

SetParent(t, elm, parent) == IF elm = NULL THEN t ELSE [t EXCEPT !.parent[elm] = parent]

SetColor(t, elm, color) == IF elm = NULL THEN t ELSE [t EXCEPT !.color[elm] = color]

IsRed(t, elm) == elm # NULL /\ t.color[elm] = "RB_RED"

SetBlackRed(t, black, red) == [t EXCEPT !.color[black] = "RB_BLACK", !.color[red] = "RB_RED"]

(* The link of parent, or of the head, to elm becomes one to new. *)
Relink(t, parent, elm, new) ==
  IF parent = NULL THEN [t EXCEPT !.root = new]
  ELSE IF t.left[parent] = elm THEN [t EXCEPT !.left[parent] = new]
  ELSE [t EXCEPT !.right[parent] = new]

RBTrees ==
  [root : Link, left : [Node -> Link], right : [Node -> Link], parent : [Node -> Link],
   color : [Node -> {"RB_BLACK", "RB_RED"}]]

(* RB_ROTATE_LEFT and RB_ROTATE_RIGHT: elm goes down to the side. *)
Rotate(t, elm, side) ==
  LET tmp == t[Other(side)][elm]
      up == t.parent[elm]
      t1 == [SetParent(t, t[side][tmp], elm)
               EXCEPT ![Other(side)][elm] = t[side][tmp], !.parent[tmp] = up]
  IN [Relink(t1, up, elm, tmp) EXCEPT ![side][tmp] = elm, !.parent[elm] = tmp]

-----------------------------------------------------------------------------
(* The search for elm: the element it ends at, or NULL, and its parent. *)
Search(t, elm) ==
  LET Down[s \in [elm : Link, parent : Link]] ==
        IF s.elm \in {NULL, elm} THEN s
        ELSE [elm |-> t[Side(elm, s.elm)][s.elm], parent |-> s.elm]
  IN Repeat(Down, [elm |-> t.root, parent |-> NULL])

(* The end of the links to one side: RB_MINMAX, and a part of RB_NEXT. *)
Extreme(t, elm, side) ==
  LET Down[x \in Link] == IF x = NULL THEN x ELSE IF t[side][x] = NULL THEN x ELSE t[side][x]
  IN Repeat(Down, elm)

(* RB_INSERT_COLOR: the loop, which ends when the parent of elm is black. *)
Insertions == [tree : RBTrees, elm : Node]
InsertColorStep[s \in Insertions] ==
  LET t == s.tree
      parent == t.parent[s.elm]
      gparent == t.parent[parent]
      side == IF parent = t.left[gparent] THEN "left" ELSE "right"
      tmp == t[Other(side)][gparent]
  IN IF ~IsRed(t, parent) THEN s
     ELSE IF IsRed(t, tmp)
     THEN [tree |-> SetBlackRed(SetColor(t, tmp, "RB_BLACK"), parent, gparent), elm |-> gparent]
     ELSE IF t[Other(side)][parent] = s.elm
     THEN [tree |-> Rotate(SetBlackRed(Rotate(t, parent, side), s.elm, gparent), gparent, Other(side)),
           elm |-> parent]
     ELSE [tree |-> Rotate(SetBlackRed(t, parent, gparent), gparent, Other(side)), elm |-> s.elm]

InsertColor(t, elm) ==
  LET s == Repeat(InsertColorStep, [tree |-> t, elm |-> elm])
  IN SetColor(s.tree, s.tree.root, "RB_BLACK")

(* RB_REMOVE_COLOR, below parent on the side: a red sibling is turned up; a *)
(* sibling without a red child on the far side gets one; and it goes up.    *)
RaiseRed(t, parent, side) ==
  LET tmp == t[Other(side)][parent]
  IN IF IsRed(t, tmp) THEN Rotate(SetBlackRed(t, tmp, parent), parent, side) ELSE t

RedFarSide(t, parent, side) ==
  LET tmp == t[Other(side)][parent]
  IN IF IsRed(t, t[Other(side)][tmp]) THEN t
     ELSE Rotate(SetColor(SetColor(t, t[side][tmp], "RB_BLACK"), tmp, "RB_RED"), tmp, Other(side))

(* Mutant of RaiseSibling: its child stays red. *)
RaiseSibling_LeavesRed(t, parent, side) ==
  LET tmp == t[Other(side)][parent]
  IN Rotate(SetColor(SetColor(t, tmp, t.color[parent]), parent, "RB_BLACK"), parent, side)

RaiseSibling(t, parent, side) ==
  LET tmp == t[Other(side)][parent]
      t1 == SetColor(SetColor(t, tmp, t.color[parent]), parent, "RB_BLACK")
  IN Rotate(SetColor(t1, t[Other(side)][tmp], "RB_BLACK"), parent, side)

(* The loop: the paths through elm, below parent, lack a black element. *)
Removals == [tree : RBTrees, parent : Link, elm : Link]
RemoveColorStep[s \in Removals] ==
  LET t == s.tree
      side == IF t.left[s.parent] = s.elm THEN "left" ELSE "right"
      t1 == RaiseRed(t, s.parent, side)
      tmp == t1[Other(side)][s.parent]
      t2 == RaiseSibling(RedFarSide(t1, s.parent, side), s.parent, side)
  IN IF IsRed(t, s.elm) \/ s.elm = t.root THEN s
     ELSE IF ~IsRed(t1, t1.left[tmp]) /\ ~IsRed(t1, t1.right[tmp])
     THEN [tree |-> SetColor(t1, tmp, "RB_RED"), parent |-> t1.parent[s.parent], elm |-> s.parent]
     ELSE [tree |-> t2, parent |-> s.parent, elm |-> t2.root]

RemoveColor(t, parent, elm) ==
  LET s == Repeat(RemoveColorStep, [tree |-> t, parent |-> parent, elm |-> elm])
  IN SetColor(s.tree, s.elm, "RB_BLACK")

(* RB_REMOVE: elm, which has one child at most, is taken out. *)
ChildOf(t, elm) == IF t.left[elm] = NULL THEN t.right[elm] ELSE t.left[elm]
TakeOut(t, elm) ==
  Relink(SetParent(t, ChildOf(t, elm), t.parent[elm]), t.parent[elm], elm, ChildOf(t, elm))

(* RB_REMOVE: elm gets the links and the color of old. *)
Replace(t, old, elm) ==
  LET t1 == [t EXCEPT !.left[elm] = t.left[old], !.right[elm] = t.right[old],
                      !.parent[elm] = t.parent[old], !.color[elm] = t.color[old]]
      t2 == Relink(t1, t.parent[old], old, elm)
  IN SetParent(SetParent(t2, t.left[old], elm), t.right[old], elm)

(* RB_REMOVE: of an element with two children the successor takes the place. *)
Unlink(t, old) ==
  LET two == t.left[old] # NULL /\ t.right[old] # NULL
      elm == IF two THEN Extreme(t, t.right[old], "left") ELSE old
      parent == IF two /\ t.parent[elm] = old THEN elm ELSE t.parent[elm]
      t1 == IF two THEN Replace(TakeOut(t, elm), old, elm) ELSE TakeOut(t, elm)
  IN IF IsRed(t, elm) THEN t1 ELSE RemoveColor(t1, parent, ChildOf(t, elm))

RemoveElm(t, elm) ==
  [Unlink(t, elm) EXCEPT !.left[elm] = NULL, !.right[elm] = NULL, !.parent[elm] = NULL,
                         !.color[elm] = "RB_RED"]

(* RB_SET: a new element is a red leaf. *)
SetElm(t, elm, parent) ==
  [t EXCEPT !.parent[elm] = parent, !.left[elm] = NULL, !.right[elm] = NULL,
            !.color[elm] = "RB_RED"]

(* RB_INSERT of an element the search has not found. *)
InsertElm(t, parent, elm) ==
  LET t1 == SetElm(t, elm, parent)
  IN InsertColor(IF parent = NULL THEN [t1 EXCEPT !.root = elm]
                 ELSE [t1 EXCEPT ![Side(elm, parent)][parent] = elm], elm)

(* Up from elm to the first link that does not come from the side. *)
Climb(t, elm, side) ==
  LET Up[x \in Node] ==
        IF t.parent[x] = NULL THEN x ELSE IF t[side][t.parent[x]] = x THEN t.parent[x] ELSE x
  IN t.parent[Repeat(Up, elm)]

(* RB_NEXT and RB_PREV: the neighbour of elm on a side. *)
Neighbour(t, elm, side) ==
  IF t[side][elm] # NULL THEN Extreme(t, t[side][elm], Other(side)) ELSE Climb(t, elm, side)

(* Mutant of Ceiling: the last element on the search, be it below elm. *)
Ceiling_LastSeen(t, elm) ==
  LET Down[s \in [tmp : Link, res : Link]] ==
        IF s.tmp \in {NULL, elm} THEN s
        ELSE [tmp |-> t[Side(elm, s.tmp)][s.tmp], res |-> s.tmp]
      end == Repeat(Down, [tmp |-> t.root, res |-> NULL])
  IN IF end.tmp = NULL THEN end.res ELSE end.tmp

(* RB_NFIND: the last element on the search that is not below elm. *)
Ceiling(t, elm) ==
  LET Down[s \in [tmp : Link, res : Link]] ==
        IF s.tmp \in {NULL, elm} THEN s
        ELSE [tmp |-> t[Side(elm, s.tmp)][s.tmp], res |-> IF elm < s.tmp THEN s.tmp ELSE s.res]
      end == Repeat(Down, [tmp |-> t.root, res |-> NULL])
  IN IF end.tmp = NULL THEN end.res ELSE end.tmp

(* RB_FOREACH and RB_FOREACH_REVERSE, from x on. *)
Foreach(t, start, side) ==
  LET Step[w \in [at : Link, visited : Seq(Node)]] ==
        IF w.at = NULL THEN w
        ELSE [at |-> Neighbour(t, w.at, side), visited |-> Append(w.visited, w.at)]
  IN Repeat(Step, [at |-> start, visited |-> <<>>]).visited

(* RB_FOREACH_SAFE and its like, from x on, whose body removes x: the next *)
(* one is found before.                                                    *)
ForeachSafe(t, start, side) ==
  LET Step[w \in [tree : RBTrees, at : Link, visited : Seq(Node)]] ==
        IF w.at = NULL THEN w
        ELSE [tree |-> RemoveElm(w.tree, w.at), at |-> Neighbour(w.tree, w.at, side),
              visited |-> Append(w.visited, w.at)]
  IN Repeat(Step, [tree |-> t, at |-> start, visited |-> <<>>])

-----------------------------------------------------------------------------
Returns(call, arg, x) == rbRet' = Answer(call, arg, Ret(x))

RBInsert(elm) ==
  LET path == Search(rb, elm)
  IN /\ Returns("INSERT", elm, path.elm)
     /\ rb' = IF path.elm # NULL THEN rb ELSE InsertElm(rb, path.parent, elm)

RBFind(elm) == Returns("FIND", elm, Search(rb, elm).elm) /\ UNCHANGED rb

(* RB_REMOVE is for elements that are in the tree. *)
RBRemove(elm) ==
  /\ Search(rb, elm).elm = elm
  /\ Returns("REMOVE", elm, elm)
  /\ rb' = RemoveElm(rb, elm)

RBNFind(elm) == Returns("NFIND", elm, Ceiling(rb, elm)) /\ UNCHANGED rb

RBNeighbour(elm, side) ==
  /\ Search(rb, elm).elm = elm
  /\ Returns(StepTo[side], elm, Neighbour(rb, elm, side))
  /\ UNCHANGED rb

RBMinMax(side) == Returns(EndAt[side], NULL, Extreme(rb, rb.root, side)) /\ UNCHANGED rb

RBForeach(side) ==
  /\ rbRet' = Answer(WalkTo[side], NULL, Foreach(rb, Extreme(rb, rb.root, Other(side)), side))
  /\ UNCHANGED rb

RBEmpties(call, arg, start, side) ==
  LET walk == ForeachSafe(rb, start, side)
  IN rb' = walk.tree /\ rbRet' = Answer(call, arg, walk.visited)

RBForeachSafe(side) ==
  RBEmpties(SafeWalkTo[side], NULL, Extreme(rb, rb.root, Other(side)), side)

RBForeachFrom(elm, side) ==
  Search(rb, elm).elm = elm /\ RBEmpties(WalkFrom[side], elm, elm, side)

RBCall ==
  \/ \E elm \in Node :
       \/ RBInsert(elm) \/ RBRemove(elm) \/ RBFind(elm) \/ RBNFind(elm)
       \/ \E side \in Sides : RBNeighbour(elm, side) \/ RBForeachFrom(elm, side)
  \/ \E side \in Sides : RBMinMax(side) \/ RBForeach(side) \/ RBForeachSafe(side)

(* The program takes the result of a call before it makes the next. *)
RBNext ==
  \/ rbRet = NoAnswer /\ RBCall
  \/ rbRet # NoAnswer /\ rbRet' = NoAnswer /\ UNCHANGED rb

RBSpec == RBInit /\ [][RBNext]_rbVars

-----------------------------------------------------------------------------
RBElements == {x \in Node : x = rb.root \/ rb.parent[x] # NULL}

(* The number of black elements on the path from the root to elm. *)
BlacksAbove(t, elm) ==
  LET Up[s \in [at : Link, count : Nat]] ==
        IF s.at = NULL THEN s
        ELSE [at |-> t.parent[s.at], count |-> s.count + (IF IsRed(t, s.at) THEN 0 ELSE 1)]
  IN Repeat(Up, [at |-> elm, count |-> 0]).count

(* "every search path from the root to a leaf consists of the same number   *)
(* of black nodes, each red node (except for the root) has a black parent"  *)
(* (tree.h): so no path is more than twice as long as another, after any    *)
(* insertions and removals.                                                 *)
Balanced ==
  /\ \A x, y \in RBElements :
       NULL \in {rb.left[x], rb.right[x]} /\ NULL \in {rb.left[y], rb.right[y]}
         => BlacksAbove(rb, x) = BlacksAbove(rb, y)
  /\ \A elm \in Node : IsRed(rb, elm) /\ rb.parent[elm] # NULL => ~IsRed(rb, rb.parent[elm])

RBSet == INSTANCE OrderedSet WITH set <- RBElements, ret <- rbRet

(* The red-black tree is an ordered set: no insertion, removal or rotation  *)
(* loses an element or puts it out of order, and a walk that removes what   *)
(* it visits visits all (RB_INSERT ... RB_FOREACH_SAFE).                    *)
RBIsOrderedSet == RBSet!Spec
=============================================================================
