------------------------------ MODULE SplayTree ------------------------------
(***************************************************************************)
(* The splay tree of uv/tree.h (SPLAY_GENERATE), one action per operation. *)
(* The element __node of the stack, whose links collect the elements below *)
(* and above the one sought, is Stack.                                     *)
(***************************************************************************)
EXTENDS TreeNodes, SequencesExt

VARIABLES
  sph,       (* the head and the elements        *)
  splayRet   (* what the last operation returned *)

splayVars == <<sph, splayRet>>

Stack == NumNodes + 1

SplayInit ==
  LET none == [x \in Node \cup {Stack} |-> NULL]
  IN sph = [root |-> NULL, left |-> none, right |-> none] /\ splayRet = NoAnswer

SplayTrees ==
  [root : Link, left : [Node \cup {Stack} -> Link], right : [Node \cup {Stack} -> Link]]
Ends == [left : Node \cup {Stack}, right : Node \cup {Stack}]   (* __left, __right *)

(* SPLAY_ROTATE_RIGHT and SPLAY_ROTATE_LEFT: the child on the side becomes *)
(* the root.                                                              *)
RotateUp(t, side) ==
  LET tmp == t[side][t.root]
  IN [t EXCEPT ![side][t.root] = t[Other(side)][tmp], ![Other(side)][tmp] = t.root, !.root = tmp]

(* SPLAY_ASSEMBLE *)
Assemble(t, ends) ==
  LET t1 == [t EXCEPT !.right[ends.left] = t.left[t.root], !.left[ends.right] = t.right[t.root]]
  IN [t1 EXCEPT !.left[t.root] = t1.right[Stack], !.right[t.root] = t1.left[Stack],
                !.left[Stack] = NULL, !.right[Stack] = NULL]

(* SPLAY_LINKLEFT and SPLAY_LINKRIGHT: the root joins what lies beyond elm. *)
LinkRoot(t, ends, side) ==
  [t EXCEPT ![side][ends[Other(side)]] = t.root, !.root = t[side][t.root]]

(* The root is turned down if elm lies beyond its child. *)
TurnedDown(t, elm) ==
  LET side == Side(elm, t.root)
      tmp == t[side][t.root]
  IN IF elm = t.root \/ tmp \in {NULL, elm} \/ Side(elm, tmp) # side THEN t ELSE RotateUp(t, side)

(* The loop of SPLAY, which ends at elm or where there is nothing below. *)
SplayStates == [tree : {t \in SplayTrees : t.root # NULL}, ends : Ends, elm : Link \cup {Stack}]
SplayStep[s \in SplayStates] ==
  LET side == Side(s.elm, s.tree.root)
      t == TurnedDown(s.tree, s.elm)
  IN IF s.elm = s.tree.root \/ t[side][t.root] = NULL THEN [s EXCEPT !.tree = t]
     ELSE [s EXCEPT !.tree = LinkRoot(t, s.ends, side), !.ends[Other(side)] = t.root]

Splay(t, elm) ==
  LET s == Repeat(SplayStep, [tree |-> t, ends |-> [left |-> Stack, right |-> Stack], elm |-> elm])
  IN Assemble(s.tree, s.ends)

(* SPLAY_MINMAX goes to one side always, as if for an element beyond all. *)
MinMax(t, side) == IF t.root = NULL THEN t ELSE Splay(t, IF side = "left" THEN NULL ELSE Stack)

(* The element at the end of the links to the left from elm. *)
Leftmost(t, elm) ==
  LET Down[x \in Link] == IF x = NULL THEN x ELSE IF t.left[x] = NULL THEN x ELSE t.left[x]
  IN Repeat(Down, elm)

(* SPLAY_INSERT into a tree with another root: elm between its halves. *)
InsertAtRoot(t, elm) ==
  LET side == Side(elm, t.root)
  IN [t EXCEPT ![side][elm] = t[side][t.root], ![Other(side)][elm] = t.root,
               ![side][t.root] = NULL, !.root = elm]

(* Mutant of RemoveRoot: the right half is not put below the new root. *)
RemoveRoot_DropsRight(t) ==
  LET elm == t.root
      t1 == Splay([t EXCEPT !.root = t.left[elm]], elm)
      t2 == IF t.left[elm] = NULL THEN [t EXCEPT !.root = t.right[elm]] ELSE t1
  IN [t2 EXCEPT !.left[elm] = NULL, !.right[elm] = NULL]

(* SPLAY_REMOVE of the root: what is left of it is splayed to its maximum, *)
(* which gets what is right of it.                                         *)
RemoveRoot(t) ==
  LET elm == t.root
      t1 == Splay([t EXCEPT !.root = t.left[elm]], elm)
      t2 == IF t.left[elm] = NULL THEN [t EXCEPT !.root = t.right[elm]]
            ELSE [t1 EXCEPT !.right[t1.root] = t.right[elm]]
  IN [t2 EXCEPT !.left[elm] = NULL, !.right[elm] = NULL]

(* SPLAY_FOREACH: every SPLAY_NEXT splays the element it starts from. *)
Walks == [tree : SplayTrees, at : Link, visited : Seq(Node)]
ForeachStep[w \in Walks] ==
  LET t == Splay(w.tree, w.at)
  IN IF w.at = NULL THEN w
     ELSE [tree |-> t, at |-> Leftmost(t, t.right[w.at]), visited |-> Append(w.visited, w.at)]

(* The program empties the tree, as a FOREACH_SAFE of the other tree does: *)
(* SPLAY_REMOVE of each SPLAY_MIN.                                         *)
Drains == [tree : SplayTrees, visited : Seq(Node)]
DrainStep[w \in Drains] ==
  LET t == MinMax(w.tree, "left")
  IN IF w.tree.root = NULL THEN w
     ELSE [tree |-> RemoveRoot(Splay(t, t.root)), visited |-> Append(w.visited, t.root)]

-----------------------------------------------------------------------------
Gives(call, arg, x) == splayRet' = Answer(call, arg, Ret(x))
Found(t, elm) == IF t.root = elm THEN elm ELSE NULL

SplayInsert(elm) ==
  LET t == IF sph.root = NULL THEN sph ELSE Splay(sph, elm)
  IN /\ Gives("INSERT", elm, Found(t, elm))
     /\ sph' = IF t.root = NULL THEN [t EXCEPT !.root = elm]
               ELSE IF t.root = elm THEN t ELSE InsertAtRoot(t, elm)

SplayFind(elm) ==
  LET t == IF sph.root = NULL THEN sph ELSE Splay(sph, elm)
  IN Gives("FIND", elm, Found(t, elm)) /\ sph' = t

SplayRemove(elm) ==
  LET t == IF sph.root = NULL THEN sph ELSE Splay(sph, elm)
  IN /\ Gives("REMOVE", elm, Found(t, elm))
     /\ sph' = IF t.root # elm THEN t
               ELSE RemoveRoot(t)

(* SPLAY_NEXT is for elements that are in the tree. *)
SplayAfter(elm) ==
  LET t == Splay(sph, elm)
  IN /\ sph.root # NULL /\ t.root = elm
     /\ Gives("NEXT", elm, Leftmost(t, t.right[elm]))
     /\ sph' = t

SplayMinMax(side) == sph' = MinMax(sph, side) /\ Gives(EndAt[side], NULL, sph'.root)

SplayForeach ==
  LET t == MinMax(sph, "left")
      walk == Repeat(ForeachStep, [tree |-> t, at |-> t.root, visited |-> <<>>])
  IN sph' = walk.tree /\ splayRet' = Answer("FOREACH", NULL, walk.visited)

SplayDrain ==
  LET walk == Repeat(DrainStep, [tree |-> sph, visited |-> <<>>])
  IN sph' = walk.tree /\ splayRet' = Answer("FOREACH_SAFE", NULL, walk.visited)

SplayCall ==
  \/ \E elm \in Node : SplayInsert(elm) \/ SplayRemove(elm) \/ SplayFind(elm) \/ SplayAfter(elm)
  \/ \E side \in Sides : SplayMinMax(side)
  \/ SplayForeach \/ SplayDrain

(* The program takes the result of a call before it makes the next. *)
SplayNext ==
  \/ splayRet = NoAnswer /\ SplayCall
  \/ splayRet # NoAnswer /\ splayRet' = NoAnswer /\ UNCHANGED sph

SplaySpec == SplayInit /\ [][SplayNext]_splayVars

-----------------------------------------------------------------------------
SplayElements == ({sph.root} \cup Range(sph.left) \cup Range(sph.right)) \ {NULL}

SplaySet == INSTANCE OrderedSet WITH set <- SplayElements, ret <- splayRet

(* The splay tree is an ordered set, though every call, a search too,       *)
(* rebuilds it: none loses an element or puts it out of order, and each     *)
(* returns what it should (SPLAY_INSERT ... SPLAY_FOREACH).                 *)
SplayIsOrderedSet == SplaySet!Spec
=============================================================================
