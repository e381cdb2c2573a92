----------------------------- MODULE BoundedFifo -----------------------------
(***************************************************************************)
(* What PodCircularBuffer promises: a queue of at most Capacity elements.  *)
(* A write appends as much of its argument as there is room for, a read    *)
(* removes as much as there is of what it asks for, and both tell how much *)
(* that was.                                                               *)
(***************************************************************************)
EXTENDS Integers, Sequences

CONSTANTS
  Elem,       (* what is stored                                            *)
  Capacity,   (* how many elements fit                                     *)
  MaxCount    (* bound on the count a call is given                        *)

VARIABLES
  content,    (* the elements stored, oldest first                         *)
  call,       (* the last call and what it was given                       *)
  result      (* the value the last call returned and the elements it read *)

vars == <<content, call, result>>

Lesser(m, n) == IF m < n THEN m ELSE n

Init ==
  /\ content = <<>>
  /\ call = [op |-> "none", given |-> <<>>, count |-> 0]
  /\ result = [ret |-> 0, got |-> <<>>]

Write(s) ==
  LET n == Lesser(Len(s), Capacity - Len(content))
  IN  /\ content' = content \o SubSeq(s, 1, n)
      /\ call' = [op |-> "write", given |-> s, count |-> Len(s)]
      /\ result' = [ret |-> n, got |-> <<>>]

(* A count of zero or less reads nothing. *)
Read(count) ==
  LET n == IF count <= 0 THEN 0 ELSE Lesser(count, Len(content))
  IN  /\ content' = SubSeq(content, n + 1, Len(content))
      /\ call' = [op |-> "read", given |-> <<>>, count |-> count]
      /\ result' = [ret |-> n, got |-> SubSeq(content, 1, n)]

Clear ==
  /\ content' = <<>>
  /\ call' = [op |-> "clear", given |-> <<>>, count |-> 0]
  /\ result' = [ret |-> 0, got |-> <<>>]

Next ==
  \/ \E n \in 0 .. MaxCount : \E s \in [1 .. n -> Elem] : Write(s)
  \/ \E count \in -1 .. MaxCount : Read(count)
  \/ Clear

Spec == Init /\ [][Next]_vars
=============================================================================
