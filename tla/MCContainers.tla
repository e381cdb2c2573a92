----------------------------- MODULE MCContainers -----------------------------
(***************************************************************************)
(* The containers of the library for TLC: the ring of uv_utils.h and the   *)
(* trees of uv/tree.h.  They share nothing, so a behaviour is of one of    *)
(* them.  With eight elements a removal from the red-black tree has to     *)
(* repair it more than once, and the splay tree has more shapes than can   *)
(* be checked.                                                             *)
(***************************************************************************)
EXTENDS CircularBuffer, RBTree, SplayTree

CONSTANT SplayNodes   (* bound on the elements in the splay tree *)

VARIABLE container   (* which of them this behaviour is of *)

(* Only the ring starts in more than one state. *)
MCInit ==
  /\ container \in {"ring", "rb", "splay"}
  /\ Init /\ (container = "ring" \/ \A i, j \in Index : buf[i] = buf[j])
  /\ RBInit
  /\ SplayInit

MCNext ==
  /\ UNCHANGED container
  /\ \/ container = "ring" /\ Next /\ UNCHANGED <<rbVars, splayVars>>
     \/ container = "rb" /\ RBNext /\ UNCHANGED <<vars, splayVars>>
     \/ /\ container = "splay" /\ SplayNext /\ UNCHANGED <<vars, rbVars>>
        /\ SplayElements' \subseteq 1 .. SplayNodes

MCSpec == MCInit /\ [][MCNext]_<<vars, rbVars, splayVars, container>>
=============================================================================
