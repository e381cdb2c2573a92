---------------------------- MODULE CircularBuffer ----------------------------
(***************************************************************************)
(* uv::PodCircularBuffer (uv_utils.h): a ring of Capacity elements with a  *)
(* read and a write position.  Equal positions mean an empty or a full     *)
(* ring, which m_bEmpty and m_bFull tell apart; write and read look only   *)
(* at the positions to choose among three layouts of the ring.             *)
(***************************************************************************)
EXTENDS Integers, Sequences

CONSTANTS
  Elem,       (* T                                                         *)
  Capacity,   (* m_nBufSize, > 0                                           *)
  MaxCount    (* bound on the count a call is given                        *)

ASSUME CircularBufferAssumption ==
  /\ Capacity \in Nat \ {0}
  /\ MaxCount \in Nat
  /\ Elem # {}

VARIABLES
  buf,        (* m_pBuf                                                    *)
  readPos,    (* m_nReadPos                                                *)
  writePos,   (* m_nWritePos                                               *)
  isEmpty,    (* m_bEmpty                                                  *)
  isFull,     (* m_bFull                                                   *)
  call,       (* history: the last call and what it was given              *)
  result      (* the value the last call returned and the elements it read *)

vars == <<buf, readPos, writePos, isEmpty, isFull, call, result>>

Index == 0 .. Capacity - 1

(* The ring as the constructor leaves it, its elements uninitialised. *)
Init ==
  /\ buf \in [Index -> Elem]
  /\ readPos = 0
  /\ writePos = 0
  /\ isEmpty = TRUE
  /\ isFull = FALSE
  /\ call = [op |-> "none", given |-> <<>>, count |-> 0]
  /\ result = [ret |-> 0, got |-> <<>>]

(* memcpy of the first n elements of s to position p of the ring, and of n *)
(* elements from position p of it.                                         *)
Stored(b, p, s, n) == [i \in Index |-> IF i \in p .. p + n - 1 THEN s[i - p + 1] ELSE b[i]]
Fetched(p, n) == [i \in 1 .. n |-> buf[p + i - 1]]

(* Both ends of the ring: n elements of s from p to the end, the rest of s *)
(* from the start up to position m.                                        *)
StoredAround(p, s, n, m) ==
  Stored(Stored(buf, p, s, n), 0, [i \in 1 .. m |-> s[n + i]], m)

Size ==
  CASE isEmpty -> 0
    [] ~isEmpty /\ isFull -> Capacity
    [] ~isEmpty /\ ~isFull /\ readPos < writePos -> writePos - readPos
    [] OTHER -> Capacity - readPos + writePos

-----------------------------------------------------------------------------
Clear ==
  /\ readPos' = 0
  /\ writePos' = 0
  /\ isEmpty' = TRUE
  /\ isFull' = FALSE
  /\ call' = [op |-> "clear", given |-> <<>>, count |-> 0]
  /\ result' = [ret |-> 0, got |-> <<>>]
  /\ UNCHANGED buf

Wrote(n) == result' = [ret |-> n, got |-> <<>>]

(* Nothing to write, or no room. *)
WriteNothing(s) ==
  /\ Len(s) <= 0 \/ isFull
  /\ Wrote(0)
  /\ UNCHANGED <<buf, readPos, writePos, isEmpty, isFull>>

CanWrite(s) == Len(s) > 0 /\ ~isFull /\ isEmpty' = FALSE /\ UNCHANGED readPos

(* n elements are written in one piece. *)
WritePiece(s, n) ==
  /\ buf' = Stored(buf, writePos, s, n)
  /\ writePos' = writePos + n
  /\ isFull' = (writePos + n = readPos)
  /\ Wrote(n)

(* There is room from writePos to the end and from the start to readPos;   *)
(* what reaches the end goes on from the start up to over.                 *)
WriteEnds(s, over) ==
  LET left == Capacity - writePos
  IN  \/ left > Len(s) /\ WritePiece(s, Len(s))
      \/ /\ left <= Len(s)
         /\ buf' = StoredAround(writePos, s, left, over)
         /\ writePos' = over
         /\ isFull' = (over = readPos)
         /\ Wrote(left + over)

(* How far count elements reach past the end of the ring from pos. *)
Over(count, pos) == count - (Capacity - pos)

(* The ring is empty. *)
WriteEmpty(s) ==
  /\ CanWrite(s)
  /\ readPos = writePos
  /\ WriteEnds(s, IF readPos > Over(Len(s), writePos) THEN Over(Len(s), writePos) ELSE writePos)

(* The data lie between readPos and writePos. *)
WriteAhead(s) ==
  /\ CanWrite(s)
  /\ readPos < writePos
  /\ WriteEnds(s, IF readPos >= Over(Len(s), writePos) THEN Over(Len(s), writePos) ELSE readPos)

(* Mutant of WriteBehind: the write may run past readPos. *)
WriteBehind_Overrun(s) ==
  /\ CanWrite(s)
  /\ readPos > writePos
  /\ WritePiece(s, IF Capacity - 1 - writePos > Len(s) THEN Len(s) ELSE Capacity - 1 - writePos)

(* The free space lies between writePos and readPos. *)
WriteBehind(s) ==
  /\ CanWrite(s)
  /\ readPos > writePos
  /\ WritePiece(s, IF readPos - writePos > Len(s) THEN Len(s) ELSE readPos - writePos)

-----------------------------------------------------------------------------
(* Nothing asked for, or nothing there. *)
ReadNothing(count) ==
  /\ count <= 0 \/ isEmpty
  /\ result' = [ret |-> 0, got |-> <<>>]
  /\ UNCHANGED <<buf, readPos, writePos, isEmpty, isFull>>

CanRead(count) == count > 0 /\ ~isEmpty /\ isFull' = FALSE /\ UNCHANGED <<buf, writePos>>

(* n elements are read in one piece. *)
ReadPiece(n) ==
  /\ readPos' = readPos + n
  /\ isEmpty' = (readPos + n = writePos)
  /\ result' = [ret |-> n, got |-> Fetched(readPos, n)]

(* The data run from readPos to the end and on from the start; the first   *)
(* over of these are read once the end is reached.                         *)
ReadEnds(count, over) ==
  LET left == Capacity - readPos
  IN  \/ left > count /\ ReadPiece(count)
      \/ /\ left <= count
         /\ readPos' = over
         /\ isEmpty' = (over = writePos)
         /\ result' = [ret |-> left + over, got |-> Fetched(readPos, left) \o Fetched(0, over)]

(* The ring is full. *)
ReadFull(count) ==
  /\ CanRead(count)
  /\ readPos = writePos
  /\ ReadEnds(count, IF writePos > Over(count, readPos) THEN Over(count, readPos) ELSE writePos)

(* Mutant of ReadAhead: m_bEmpty is not set by the last element. *)
ReadAhead_NeverEmpty(count) ==
  LET n == IF writePos - readPos > count THEN count ELSE writePos - readPos
  IN  /\ CanRead(count)
      /\ readPos < writePos
      /\ readPos' = readPos + n
      /\ result' = [ret |-> n, got |-> Fetched(readPos, n)]
      /\ UNCHANGED isEmpty

(* The data lie between readPos and writePos. *)
ReadAhead(count) ==
  /\ CanRead(count)
  /\ readPos < writePos
  /\ ReadPiece(IF writePos - readPos > count THEN count ELSE writePos - readPos)

(* The free space lies between writePos and readPos. *)
ReadBehind(count) ==
  /\ CanRead(count)
  /\ readPos > writePos
  /\ ReadEnds(count, IF writePos >= Over(count, readPos) THEN Over(count, readPos) ELSE writePos)

-----------------------------------------------------------------------------
Write(s) ==
  /\ call' = [op |-> "write", given |-> s, count |-> Len(s)]
  /\ WriteNothing(s) \/ WriteEmpty(s) \/ WriteAhead(s) \/ WriteBehind(s)

Read(count) ==
  /\ call' = [op |-> "read", given |-> <<>>, count |-> count]
  /\ ReadNothing(count) \/ ReadFull(count) \/ ReadAhead(count) \/ ReadBehind(count)

Next ==
  \/ \E n \in 0 .. MaxCount : \E s \in [1 .. n -> Elem] : Write(s)
  \/ \E count \in -1 .. MaxCount : Read(count)
  \/ Clear

Spec == Init /\ [][Next]_vars

TypeOK ==
  /\ buf \in [Index -> Elem]
  /\ readPos \in Index
  /\ writePos \in Index
  /\ isEmpty \in BOOLEAN
  /\ isFull \in BOOLEAN

(* The two flags never disagree with the positions, on which alone write    *)
(* and read decide where the data lie: an empty ring is not full, and the   *)
(* positions are equal exactly when it is one or the other (write, read).   *)
FlagsMatchPositions ==
  /\ ~(isEmpty /\ isFull)
  /\ readPos = writePos <=> isEmpty \/ isFull

(* Whatever the calls, the ring is a bounded queue: its elements come out   *)
(* once, in order, unchanged, and size and the values returned by write and *)
(* read are those of the queue.                                             *)
Content == [i \in 1 .. Size |-> buf[(readPos + i - 1) % Capacity]]

Fifo == INSTANCE BoundedFifo WITH content <- Content

ImplementsFifo == Fifo!Spec
=============================================================================
