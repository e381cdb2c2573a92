------------------------ MODULE CircularBuffer_proofs ------------------------
(***************************************************************************)
(* Theorems about module CircularBuffer, for every capacity and count.     *)
(***************************************************************************)
EXTENDS CircularBuffer, SequenceTheorems, TLAPS

RingInv == TypeOK /\ FlagsMatchPositions

LEMMA StoredType ==
  ASSUME NEW b \in [Index -> Elem], NEW p \in Int, NEW n \in Int, NEW s,
         \A i \in 1 .. n : s[i] \in Elem
  PROVE  Stored(b, p, s, n) \in [Index -> Elem]
  BY DEF Stored, Index

LEMMA WriteStep ==
  ASSUME RingInv, NEW n \in Nat, NEW s \in [1 .. n -> Elem], Write(s)
  PROVE  RingInv'
  <1>1. Len(s) = n /\ Capacity \in Nat \ {0}
    BY CircularBufferAssumption
  <1>2. CASE WriteNothing(s)
    BY <1>2 DEF WriteNothing, RingInv, TypeOK, FlagsMatchPositions
  <1> USE <1>1 DEF RingInv, TypeOK, FlagsMatchPositions, Index
  <1>3. CASE WriteEmpty(s)
    <2>1. readPos' \in Index /\ writePos' \in Index
      BY <1>3 DEF WriteEmpty, CanWrite, WriteEnds, WritePiece, Over
    <2>2. isEmpty' \in BOOLEAN /\ isFull' \in BOOLEAN
      BY <1>3 DEF WriteEmpty, CanWrite, WriteEnds, WritePiece, Over
    <2>3. ~(isEmpty' /\ isFull') /\ (readPos' = writePos' <=> isEmpty' \/ isFull')
      BY <1>3 DEF WriteEmpty, CanWrite, WriteEnds, WritePiece, Over
    <2>4. CASE Capacity - writePos > Len(s)
      <3>1. buf' \in [Index -> Elem]
        BY <1>3, <2>4, StoredType DEF WriteEmpty, CanWrite, WriteEnds, WritePiece, Over
      <3>. QED  BY <2>1, <2>2, <2>3, <3>1
    <2>5. CASE Capacity - writePos <= Len(s)
      <3> DEFINE left == Capacity - writePos
      <3>1. PICK m \in 0 .. Len(s) - left : buf' = StoredAround(writePos, s, left, m)
        BY <1>3, <2>5 DEF WriteEmpty, CanWrite, WriteEnds, WritePiece, Over
      <3>2. Stored(buf, writePos, s, left) \in [Index -> Elem]
        BY <2>5, StoredType
      <3> DEFINE first == Stored(buf, writePos, s, left)
                 rest == [j \in 1 .. m |-> s[left + j]]
      <3>3. m \in Int /\ \A i \in 1 .. m : rest[i] \in Elem
        BY <2>5
      <3>4. buf' \in [Index -> Elem]
        <4>1. buf' = Stored(first, 0, rest, m)
          BY <3>1 DEF StoredAround
        <4> HIDE DEF first, rest
        <4>2. Stored(first, 0, rest, m) \in [Index -> Elem]
          BY <3>2, <3>3, StoredType DEF first
        <4>. QED  BY <4>1, <4>2
      <3>. QED  BY <2>1, <2>2, <2>3, <3>4
    <2>. QED  BY <2>1, <2>2, <2>3, <2>4, <2>5
  <1>4. CASE WriteAhead(s)
    <2>1. readPos' \in Index /\ writePos' \in Index
      BY <1>4 DEF WriteAhead, CanWrite, WriteEnds, WritePiece, Over
    <2>2. isEmpty' \in BOOLEAN /\ isFull' \in BOOLEAN
      BY <1>4 DEF WriteAhead, CanWrite, WriteEnds, WritePiece, Over
    <2>3. ~(isEmpty' /\ isFull') /\ (readPos' = writePos' <=> isEmpty' \/ isFull')
      BY <1>4 DEF WriteAhead, CanWrite, WriteEnds, WritePiece, Over
    <2>4. CASE Capacity - writePos > Len(s)
      <3>1. buf' \in [Index -> Elem]
        BY <1>4, <2>4, StoredType DEF WriteAhead, CanWrite, WriteEnds, WritePiece, Over
      <3>. QED  BY <2>1, <2>2, <2>3, <3>1
    <2>5. CASE Capacity - writePos <= Len(s)
      <3> DEFINE left == Capacity - writePos
      <3>1. PICK m \in 0 .. Len(s) - left : buf' = StoredAround(writePos, s, left, m)
        BY <1>4, <2>5 DEF WriteAhead, CanWrite, WriteEnds, WritePiece, Over
      <3>2. Stored(buf, writePos, s, left) \in [Index -> Elem]
        BY <2>5, StoredType
      <3> DEFINE first == Stored(buf, writePos, s, left)
                 rest == [j \in 1 .. m |-> s[left + j]]
      <3>3. m \in Int /\ \A i \in 1 .. m : rest[i] \in Elem
        BY <2>5
      <3>4. buf' \in [Index -> Elem]
        <4>1. buf' = Stored(first, 0, rest, m)
          BY <3>1 DEF StoredAround
        <4> HIDE DEF first, rest
        <4>2. Stored(first, 0, rest, m) \in [Index -> Elem]
          BY <3>2, <3>3, StoredType DEF first
        <4>. QED  BY <4>1, <4>2
      <3>. QED  BY <2>1, <2>2, <2>3, <3>4
    <2>. QED  BY <2>1, <2>2, <2>3, <2>4, <2>5
  <1>5. CASE WriteBehind(s)
    <2>1. readPos' \in Index /\ writePos' \in Index
      BY <1>5 DEF WriteBehind, CanWrite, WritePiece
    <2>2. isEmpty' \in BOOLEAN /\ isFull' \in BOOLEAN
      BY <1>5 DEF WriteBehind, CanWrite, WritePiece
    <2>3. ~(isEmpty' /\ isFull') /\ (readPos' = writePos' <=> isEmpty' \/ isFull')
      BY <1>5 DEF WriteBehind, CanWrite, WritePiece
    <2>4. buf' \in [Index -> Elem]
      BY <1>5, StoredType DEF WriteBehind, CanWrite, WritePiece
    <2>. QED  BY <2>1, <2>2, <2>3, <2>4
  <1>. QED  BY <1>2, <1>3, <1>4, <1>5 DEF Write

LEMMA ReadStep ==
  ASSUME RingInv, NEW count \in Int, Read(count)
  PROVE  RingInv'
  <1>1. Capacity \in Nat \ {0}
    BY CircularBufferAssumption
  <1>2. CASE ReadNothing(count)
    BY <1>2 DEF ReadNothing, RingInv, TypeOK, FlagsMatchPositions
  <1> USE <1>1 DEF RingInv, TypeOK, FlagsMatchPositions, Index
  <1>3. CASE ReadFull(count)
    <2>1. readPos' \in Index /\ writePos' \in Index
      BY <1>3 DEF ReadFull, CanRead, ReadPiece, ReadEnds, Over
    <2>2. isEmpty' \in BOOLEAN /\ isFull' \in BOOLEAN
      BY <1>3 DEF ReadFull, CanRead, ReadPiece, ReadEnds, Over
    <2>3. ~(isEmpty' /\ isFull') /\ (readPos' = writePos' <=> isEmpty' \/ isFull')
      BY <1>3 DEF ReadFull, CanRead, ReadPiece, ReadEnds, Over
    <2>4. buf' \in [Index -> Elem]
      BY <1>3 DEF ReadFull, CanRead
    <2>. QED  BY <2>1, <2>2, <2>3, <2>4
  <1>4. CASE ReadAhead(count)
    <2>1. readPos' \in Index /\ writePos' \in Index
      BY <1>4 DEF ReadAhead, CanRead, ReadPiece
    <2>2. isEmpty' \in BOOLEAN /\ isFull' \in BOOLEAN
      BY <1>4 DEF ReadAhead, CanRead, ReadPiece
    <2>3. ~(isEmpty' /\ isFull') /\ (readPos' = writePos' <=> isEmpty' \/ isFull')
      BY <1>4 DEF ReadAhead, CanRead, ReadPiece
    <2>4. buf' \in [Index -> Elem]
      BY <1>4 DEF ReadAhead, CanRead
    <2>. QED  BY <2>1, <2>2, <2>3, <2>4
  <1>5. CASE ReadBehind(count)
    <2>1. readPos' \in Index /\ writePos' \in Index
      BY <1>5 DEF ReadBehind, CanRead, ReadPiece, ReadEnds, Over
    <2>2. isEmpty' \in BOOLEAN /\ isFull' \in BOOLEAN
      BY <1>5 DEF ReadBehind, CanRead, ReadPiece, ReadEnds, Over
    <2>3. ~(isEmpty' /\ isFull') /\ (readPos' = writePos' <=> isEmpty' \/ isFull')
      BY <1>5 DEF ReadBehind, CanRead, ReadPiece, ReadEnds, Over
    <2>4. buf' \in [Index -> Elem]
      BY <1>5 DEF ReadBehind, CanRead
    <2>. QED  BY <2>1, <2>2, <2>3, <2>4
  <1>. QED  BY <1>2, <1>3, <1>4, <1>5 DEF Read

LEMMA RingInvariant == Spec => []RingInv
  <1>0. 0 \in Index
    BY CircularBufferAssumption DEF Index
  <1>1. Init => RingInv
    BY <1>0 DEF Init, RingInv, TypeOK, FlagsMatchPositions
  <1>2. RingInv /\ [Next]_vars => RingInv'
    <2> SUFFICES ASSUME RingInv, [Next]_vars PROVE RingInv'
      OBVIOUS
    <2>1. CASE Next
      <3>1. CASE Clear
        BY <1>0, <3>1 DEF Clear, RingInv, TypeOK, FlagsMatchPositions
      <3>. QED  BY <2>1, <3>1, WriteStep, ReadStep, CircularBufferAssumption DEF Next
    <2>2. CASE UNCHANGED vars
      BY <2>2 DEF vars, RingInv, TypeOK, FlagsMatchPositions
    <2>. QED  BY <2>1, <2>2
  <1>. QED  BY <1>1, <1>2, PTL DEF Spec

(* The positions stay inside the ring.                                      *)
THEOREM RingTypeCorrect == Spec => []TypeOK
  BY RingInvariant, PTL DEF RingInv

(* The flags tell an empty ring from a full one, and never contradict the   *)
(* positions: write and read always find the layout they expect.            *)
THEOREM FlagsCorrect == Spec => []FlagsMatchPositions
  BY RingInvariant, PTL DEF RingInv

-----------------------------------------------------------------------------
(* The ring as a queue.  A position past the end wraps around once; SizeOf  *)
(* is size() on the values of the fields, and Ring(b, r, n) the n elements  *)
(* from position r on, in the order read takes them.                        *)
Wrap(x) == IF x < Capacity THEN x ELSE x - Capacity
SizeOf(r, w, e, f) ==
  IF e THEN 0 ELSE IF f THEN Capacity ELSE IF r < w THEN w - r ELSE Capacity - r + w
Ring(b, r, n) == [i \in 1 .. n |-> b[Wrap(r + i - 1)]]

LEMMA WrapMod ==
  ASSUME NEW x \in 0 .. 2 * Capacity - 1
  PROVE  x % Capacity = Wrap(x)
  <1>1. Capacity \in Nat \ {0}
    BY CircularBufferAssumption
  <1>2. CASE x < Capacity
    <2>1. x % Capacity = x
      BY <1>1, <1>2
    <2>. QED BY <2>1, <1>2 DEF Wrap
  <1>3. CASE x >= Capacity
    <2> DEFINE y == x - Capacity
    <2>1. y \in 0 .. Capacity - 1 /\ x = y + Capacity
      BY <1>1, <1>3
    <2>2. x % Capacity = y
      BY <1>1, <2>1
    <2>3. Wrap(x) = y
      BY <1>1, <1>3 DEF Wrap
    <2>. QED BY <2>2, <2>3
  <1>. QED BY <1>1, <1>2, <1>3

LEMMA SizeFacts ==
  ASSUME NEW r \in Index, NEW w \in Index, NEW e \in BOOLEAN, NEW f \in BOOLEAN,
         ~(e /\ f), r = w <=> e \/ f
  PROVE  /\ SizeOf(r, w, e, f) \in 0 .. Capacity
         /\ w = Wrap(r + SizeOf(r, w, e, f))
         /\ Capacity = SizeOf(r, w, e, f) <=> f
         /\ 0 = SizeOf(r, w, e, f) <=> e
  BY CircularBufferAssumption DEF SizeOf, Wrap, Index

LEMMA SizeIs ==
  ASSUME isEmpty \in BOOLEAN, isFull \in BOOLEAN
  PROVE Size = SizeOf(readPos, writePos, isEmpty, isFull)
  BY DEF Size, SizeOf

LEMMA SizeIsNext ==
  ASSUME isEmpty' \in BOOLEAN, isFull' \in BOOLEAN
  PROVE Size' = SizeOf(readPos', writePos', isEmpty', isFull')
  BY DEF Size, SizeOf

(* m elements stored after the k that are there make a ring of k + m, and   *)
(* nothing of the first k is lost.                                          *)
LEMMA RingWrite ==
  ASSUME NEW b \in [Index -> Elem], NEW c \in [Index -> Elem], NEW r \in Index,
         NEW k \in Nat, NEW m \in Nat, k + m <= Capacity,
         NEW s \in Seq(Elem), m <= Len(s),
         \A j \in 1 .. m : c[Wrap(Wrap(r + k) + j - 1)] = s[j],
         \A i \in 1 .. k : c[Wrap(r + i - 1)] = b[Wrap(r + i - 1)]
  PROVE  Ring(c, r, k + m) = Ring(b, r, k) \o SubSeq(s, 1, m)
  <1>1. Capacity \in Nat \ {0}
    BY CircularBufferAssumption
  <1>2. \A i \in 1 .. Capacity : Wrap(r + i - 1) \in Index
    BY <1>1 DEF Wrap, Index
  <1>3. Ring(b, r, k) \in Seq(Elem) /\ Len(Ring(b, r, k)) = k
    <2>1. \A i \in 1 .. k : b[Wrap(r + i - 1)] \in Elem
      BY <1>1, <1>2
    <2>. QED BY <2>1 DEF Ring
  <1>4. SubSeq(s, 1, m) \in Seq(Elem) /\ Len(SubSeq(s, 1, m)) = m
        /\ \A j \in 1 .. m : SubSeq(s, 1, m)[j] = s[j]
    OBVIOUS
  <1>5. Ring(c, r, k + m) \in Seq(Elem) /\ Len(Ring(c, r, k + m)) = k + m
    <2>1. \A i \in 1 .. k + m : c[Wrap(r + i - 1)] \in Elem
      BY <1>1, <1>2
    <2>. QED BY <2>1 DEF Ring
  <1> DEFINE old == Ring(b, r, k)
             new == SubSeq(s, 1, m)
             all == Ring(c, r, k + m)
  <1>6. \A i \in 1 .. k : all[i] = old[i]
    BY DEF Ring
  <1>7. \A i \in k + 1 .. k + m : all[i] = new[i - k]
    <2> SUFFICES ASSUME NEW i \in k + 1 .. k + m PROVE all[i] = new[i - k]
      OBVIOUS
    <2>1. i - k \in 1 .. m
      OBVIOUS
    <2>2. Wrap(Wrap(r + k) + (i - k) - 1) = Wrap(r + i - 1)
      BY <1>1 DEF Wrap, Index
    <2>3. c[Wrap(r + i - 1)] = s[i - k]
      BY <2>1, <2>2
    <2>4. all[i] = c[Wrap(r + i - 1)]
      BY DEF Ring
    <2>. QED BY <2>1, <2>3, <2>4, <1>4
  <1> HIDE DEF old, new, all
  <1>8. old \in Seq(Elem) /\ Len(old) = k /\ new \in Seq(Elem) /\ Len(new) = m
        /\ all \in Seq(Elem) /\ Len(all) = k + m
    BY <1>3, <1>4, <1>5 DEF old, new, all
  <1>9. all = old \o new
    <2> DEFINE cat == old \o new
    <2>1. cat \in Seq(Elem) /\ Len(cat) = k + m
      BY <1>8, ConcatProperties
    <2>2. \A i \in 1 .. k + m : cat[i] = IF i <= k THEN old[i] ELSE new[i - k]
      BY <1>8, ConcatProperties
    <2> HIDE DEF cat
    <2>3. ASSUME NEW i \in 1 .. k + m PROVE cat[i] = all[i]
      <3>1. i <= k => i \in 1 .. k
        OBVIOUS
      <3>2. ~(i <= k) => i \in k + 1 .. k + m
        OBVIOUS
      <3>. QED BY <1>6, <1>7, <2>2, <3>1, <3>2
    <2>4. cat = all
      BY <1>8, <2>1, <2>3, SeqEqual
    <2>. QED BY <2>4 DEF cat
  <1>. QED BY <1>9 DEF old, new, all

(* Taking n elements off the front leaves the others in place.              *)
LEMMA RingRead ==
  ASSUME NEW b \in [Index -> Elem], NEW r \in Index,
         NEW k \in 0 .. Capacity, NEW n \in 0 .. k
  PROVE  /\ Ring(b, Wrap(r + n), k - n) = SubSeq(Ring(b, r, k), n + 1, k)
         /\ Ring(b, r, n) = SubSeq(Ring(b, r, k), 1, n)
         /\ Len(Ring(b, r, k)) = k
  <1>1. Capacity \in Nat \ {0}
    BY CircularBufferAssumption
  <1>2. \A i \in 1 .. Capacity : Wrap(r + i - 1) \in Index
    BY <1>1 DEF Wrap, Index
  <1> DEFINE all == Ring(b, r, k)
  <1>3. all \in Seq(Elem) /\ Len(all) = k
    <2>1. \A i \in 1 .. k : b[Wrap(r + i - 1)] \in Elem
      BY <1>1, <1>2
    <2>. QED BY <2>1 DEF Ring
  <1>4. \A i \in 1 .. k : all[i] = b[Wrap(r + i - 1)]
    BY DEF Ring
  <1> HIDE DEF all
  <1>5. Ring(b, Wrap(r + n), k - n) = SubSeq(all, n + 1, k)
    <2>1. \A i \in 1 .. k - n : Wrap(Wrap(r + n) + i - 1) = Wrap(r + (n + i) - 1)
      BY <1>1 DEF Wrap, Index
    <2>2. Ring(b, Wrap(r + n), k - n) = [i \in 1 .. k - n |-> all[n + i]]
      BY <2>1, <1>4 DEF Ring
    <2>3. SubSeq(all, n + 1, k) = [i \in 1 .. k - n |-> all[n + i]]
      BY <1>3
    <2>. QED BY <2>2, <2>3
  <1>6. Ring(b, r, n) = SubSeq(all, 1, n)
    BY <1>3, <1>4 DEF Ring
  <1>. QED BY <1>3, <1>5, <1>6 DEF all

(* m elements of s fit behind the k in the ring b, from position w on; c is *)
(* the ring with them stored.                                               *)
Room(b, r, w, k, m, s) ==
  /\ b \in [Index -> Elem] /\ r \in Index /\ w \in Index /\ k \in Nat /\ m \in Nat
  /\ k + m <= Capacity /\ w = Wrap(r + k) /\ s \in Seq(Elem) /\ m <= Len(s)

Grows(b, c, r, w, k, m, s) ==
  /\ c \in [Index -> Elem]
  /\ \A j \in 1 .. m : c[Wrap(w + j - 1)] = s[j]
  /\ \A i \in 1 .. k : c[Wrap(r + i - 1)] = b[Wrap(r + i - 1)]

Appended(b, c, r, k, m, s) == Ring(c, r, k + m) = Ring(b, r, k) \o SubSeq(s, 1, m)

LEMMA GrowsRing ==
  ASSUME NEW b, NEW c, NEW r, NEW w, NEW k, NEW m, NEW s,
         Room(b, r, w, k, m, s), Grows(b, c, r, w, k, m, s)
  PROVE  Appended(b, c, r, k, m, s)
  <1>1. b \in [Index -> Elem] /\ r \in Index /\ w \in Index /\ k \in Nat /\ m \in Nat
        /\ k + m <= Capacity /\ w = Wrap(r + k) /\ s \in Seq(Elem) /\ m <= Len(s)
    BY DEF Room
  <1>2. /\ c \in [Index -> Elem]
        /\ \A j \in 1 .. m : c[Wrap(Wrap(r + k) + j - 1)] = s[j]
        /\ \A i \in 1 .. k : c[Wrap(r + i - 1)] = b[Wrap(r + i - 1)]
    BY <1>1 DEF Grows
  <1>3. Ring(c, r, k + m) = Ring(b, r, k) \o SubSeq(s, 1, m)
    BY <1>1, <1>2, RingWrite, ZenonT(200)
  <1>. QED BY <1>3 DEF Appended

LEMMA PieceGrows ==
  ASSUME NEW b, NEW c, NEW r, NEW w, NEW k, NEW m, NEW s,
         Room(b, r, w, k, m, s), w + m <= Capacity, c = Stored(b, w, s, m),
         c \in [Index -> Elem]
  PROVE  Grows(b, c, r, w, k, m, s)
  <1>1. b \in [Index -> Elem] /\ r \in Index /\ w \in Index /\ k \in Nat /\ m \in Nat
        /\ k + m <= Capacity /\ w = Wrap(r + k) /\ s \in Seq(Elem) /\ m <= Len(s)
    BY DEF Room
  <1>2. Capacity \in Nat \ {0}
    BY CircularBufferAssumption
  <1>3. ASSUME NEW j \in 1 .. m PROVE c[Wrap(w + j - 1)] = s[j]
    <2>1. Wrap(w + j - 1) = w + j - 1 /\ w + j - 1 \in Index
      BY <1>1, <1>2 DEF Wrap, Index
    <2>2. w + j - 1 \in w .. w + m - 1 /\ (w + j - 1) - w + 1 = j
      BY <1>1, <1>2 DEF Index
    <2>. QED BY <2>1, <2>2 DEF Stored
  <1>4. ASSUME NEW i \in 1 .. k PROVE c[Wrap(r + i - 1)] = b[Wrap(r + i - 1)]
    <2>1. Wrap(r + i - 1) \in Index /\ Wrap(r + i - 1) \notin w .. w + m - 1
      BY <1>1, <1>2 DEF Wrap, Index
    <2>. QED BY <2>1 DEF Stored
  <1>. QED BY <1>3, <1>4 DEF Grows
Around(b, w, s, m) ==
  Stored(Stored(b, w, s, Capacity - w), 0,
         [i \in 1 .. m - (Capacity - w) |-> s[(Capacity - w) + i]], m - (Capacity - w))

LEMMA EndsWritten ==
  ASSUME NEW b \in [Index -> Elem], NEW r \in Index, NEW w \in Index,
         NEW k \in Nat, NEW m \in Nat, k + m <= Capacity, w = Wrap(r + k),
         Capacity - w <= m, NEW s \in Seq(Elem), m <= Len(s),
         NEW c, c = Around(b, w, s, m)
  PROVE  Grows(b, c, r, w, k, m, s)
  <1>0. c = Stored(Stored(b, w, s, Capacity - w), 0,
                   [i \in 1 .. m - (Capacity - w) |-> s[(Capacity - w) + i]],
                   m - (Capacity - w))
    BY DEF Around
  <1>1. Capacity \in Nat \ {0}
    BY CircularBufferAssumption
  <1> DEFINE left == Capacity - w
             over == m - left
             rest == [i \in 1 .. over |-> s[left + i]]
             first == Stored(b, w, s, left)
  <1>2. left \in 1 .. Capacity /\ over \in Nat /\ left + over = m /\ over <= w
    BY <1>1 DEF Index, Wrap
  <1>3. \A x \in Index : c[x] = IF x < over THEN s[left + x + 1]
                               ELSE IF x >= w THEN s[x - w + 1] ELSE b[x]
    <2> SUFFICES ASSUME NEW x \in Index
                 PROVE  c[x] = IF x < over THEN s[left + x + 1]
                               ELSE IF x >= w THEN s[x - w + 1] ELSE b[x]
      OBVIOUS
    <2>1. first[x] = IF x >= w THEN s[x - w + 1] ELSE b[x]
      BY <1>1 DEF Stored, Index
    <2>2. c[x] = IF x \in 0 .. 0 + over - 1 THEN rest[x - 0 + 1] ELSE first[x]
      BY <1>0 DEF Stored
    <2>3. x < over => rest[x - 0 + 1] = s[left + x + 1]
      <3>1. x < over => x + 1 \in 1 .. over /\ x - 0 + 1 = x + 1
        BY <1>1, <1>2 DEF Index
      <3>2. x + 1 \in 1 .. over => rest[x + 1] = s[left + (x + 1)]
        OBVIOUS
      <3>3. left + (x + 1) = left + x + 1
        BY <1>1 DEF Index
      <3>. QED BY <3>1, <3>2, <3>3
    <2> HIDE DEF first, rest, over, left
    <2>. QED BY <1>1, <1>2, <2>1, <2>2, <2>3 DEF Index
  <1>4. ASSUME NEW j \in 1 .. m PROVE c[Wrap(w + j - 1)] = s[j]
    <2>1. CASE j <= left
      <3>1. Wrap(w + j - 1) = w + j - 1 /\ w + j - 1 \in Index /\ ~(w + j - 1 < over)
            /\ w + j - 1 >= w /\ (w + j - 1) - w + 1 = j
        BY <1>1, <1>2, <2>1 DEF Wrap, Index
      <3>. QED BY <3>1, <1>3
    <2>2. CASE j > left
      <3>1. Wrap(w + j - 1) = j - left - 1 /\ j - left - 1 \in Index /\ j - left - 1 < over
            /\ left + (j - left - 1) + 1 = j
        BY <1>1, <1>2, <2>2 DEF Wrap, Index
      <3>. QED BY <3>1, <1>3
    <2>. QED BY <1>2, <2>1, <2>2
  <1>5. ASSUME NEW i \in 1 .. k PROVE c[Wrap(r + i - 1)] = b[Wrap(r + i - 1)]
    <2>1. Wrap(r + i - 1) \in Index /\ ~(Wrap(r + i - 1) < over) /\ ~(Wrap(r + i - 1) >= w)
      BY <1>1, <1>2 DEF Wrap, Index
    <2>. QED BY <2>1, <1>3
  <1>6. c \in [Index -> Elem]
    <2>0. ASSUME NEW x \in Index
          PROVE  (x < over => left + x + 1 \in 1 .. m) /\ (x >= w => x - w + 1 \in 1 .. m)
      <3>0. w \in Int /\ m \in Int /\ x \in Int /\ 0 <= x /\ x <= Capacity - 1 /\ left = Capacity - w
            /\ left \in Int /\ over \in Int /\ left + over = m /\ left >= 1 /\ left <= m
        BY <1>1, <1>2 DEF Index
      <3> HIDE DEF left, over
      <3>1. ASSUME x < over PROVE left + x + 1 \in 1 .. m
        <4>1. left + x + 1 >= 1 /\ left + x + 1 <= m
          BY <3>0, <3>1
        <4>. QED BY <3>0, <4>1
      <3>2. ASSUME x >= w PROVE x - w + 1 \in 1 .. m
        <4>1. x - w + 1 >= 1 /\ x - w + 1 <= m
          BY <1>1, <3>0, <3>2
        <4>. QED BY <3>0, <4>1
      <3>. QED BY <3>1, <3>2
    <2>1. \A x \in Index : c[x] \in Elem
      <3> SUFFICES ASSUME NEW x \in Index PROVE c[x] \in Elem
        OBVIOUS
      <3>3. \A i \in 1 .. m : s[i] \in Elem
        BY Len(s) \in Nat
      <3> HIDE DEF left, over
      <3>4. CASE x < over
        <4>1. s[left + x + 1] \in Elem
          BY <1>1, <1>2, <2>0, <3>3, <3>4 DEF Index
        <4>2. c[x] = s[left + x + 1]
          BY <1>3, <3>4
        <4>. QED BY <4>1, <4>2
      <3>5. CASE ~(x < over) /\ x >= w
        <4>1. s[x - w + 1] \in Elem
          BY <1>1, <1>2, <2>0, <3>3, <3>5 DEF Index
        <4>2. c[x] = s[x - w + 1]
          BY <1>3, <3>5
        <4>. QED BY <4>1, <4>2
      <3>6. CASE ~(x < over) /\ ~(x >= w)
        BY <1>3, <3>6
      <3>. QED BY <3>4, <3>5, <3>6
    <2>2. c = [x \in Index |-> c[x]]
      BY <1>0 DEF Stored
    <2>. QED BY <2>1, <2>2
  <1>. QED BY <1>4, <1>5, <1>6 DEF Grows

LEMMA EndsGrow ==
  ASSUME NEW b, NEW c, NEW r, NEW w, NEW k, NEW m, NEW s,
         Room(b, r, w, k, m, s), Capacity - w <= m, c = Around(b, w, s, m)
  PROVE  Grows(b, c, r, w, k, m, s)
  <1>1. b \in [Index -> Elem] /\ r \in Index /\ w \in Index /\ k \in Nat /\ m \in Nat
        /\ k + m <= Capacity /\ w = Wrap(r + k) /\ s \in Seq(Elem) /\ m <= Len(s)
    BY DEF Room
  <1>. QED BY <1>1, EndsWritten, ZenonT(200)

Lesser(m, n) == IF m < n THEN m ELSE n

LEMMA RingMod ==
  ASSUME NEW b, NEW r \in Index, NEW k \in 0 .. Capacity
  PROVE  [i \in 1 .. k |-> b[(r + i - 1) % Capacity]] = Ring(b, r, k)
  <1>1. Capacity \in Nat \ {0}
    BY CircularBufferAssumption
  <1>2. \A i \in 1 .. k : r + i - 1 \in 0 .. 2 * Capacity - 1
    BY <1>1 DEF Index
  <1>3. \A i \in 1 .. k : (r + i - 1) % Capacity = Wrap(r + i - 1)
    BY <1>2, WrapMod
  <1>. QED BY <1>3 DEF Ring

(* Each of the layouts in which write finds the ring stores as many         *)
(* elements as there is room for, in one piece or around the end.           *)
LEMMA WriteShape ==
  ASSUME RingInv, NEW s \in Seq(Elem), Write(s), ~WriteNothing(s),
         NEW m, m = Lesser(Len(s), Capacity - Size)
  PROVE  /\ m \in Nat /\ readPos' = readPos
         /\ result' = [ret |-> m, got |-> <<>>]
         /\ SizeOf(readPos', writePos', isEmpty', isFull') = Size + m
         /\ \/ /\ writePos + m <= Capacity
               /\ buf' = Stored(buf, writePos, s, m)
            \/ /\ Capacity - writePos <= m
               /\ buf' = StoredAround(writePos, s, Capacity - writePos, m - (Capacity - writePos))
  <1>1. Capacity \in Nat \ {0} /\ Len(s) \in Nat
    BY CircularBufferAssumption
  <1>2. readPos \in Index /\ writePos \in Index /\ isEmpty \in BOOLEAN /\ isFull \in BOOLEAN
        /\ ~(isEmpty /\ isFull) /\ (readPos = writePos <=> isEmpty \/ isFull)
    BY DEF RingInv, TypeOK, FlagsMatchPositions
  <1>3. Size = SizeOf(readPos, writePos, isEmpty, isFull)
    BY <1>2, SizeIs
  <1> DEFINE past == Over(Len(s), writePos)
             over4 == IF readPos > past THEN past ELSE writePos
             over5 == IF readPos >= past THEN past ELSE readPos
  <1>4. CASE WriteEmpty(s)
    <2>1. /\ ~isFull /\ isEmpty' = FALSE /\ readPos' = readPos /\ Len(s) > 0
          /\ WriteEnds(s, over4)
      BY <1>4 DEF WriteEmpty, CanWrite
    <2>2. Size = 0 /\ m \in Nat /\ m <= Len(s)
      BY <1>1, <1>2, <1>3, <1>4, <2>1 DEF WriteEmpty, SizeOf, Lesser, Index
    <2>3. CASE Capacity - writePos > Len(s)
      <3>1. WritePiece(s, Len(s)) /\ m = Len(s) /\ writePos + m <= Capacity
        BY <1>1, <1>2, <1>4, <2>1, <2>2, <2>3 DEF WriteEmpty, WriteEnds, Lesser, Index
      <3>2. /\ buf' = Stored(buf, writePos, s, m)
            /\ result' = [ret |-> m, got |-> <<>>]
            /\ writePos' = writePos + m /\ isFull' = (writePos + m = readPos)
        BY <3>1 DEF WritePiece, Wrote
      <3>3. SizeOf(readPos', writePos', isEmpty', isFull') = Size + m
        BY SMTT(60), <1>1, <1>2, <1>4, <2>1, <2>2, <2>3, <3>1, <3>2 DEF WriteEmpty, SizeOf, Index
      <3>. QED BY <2>1, <2>2, <3>1, <3>2, <3>3
    <2>4. CASE ~(Capacity - writePos > Len(s))
      <3> DEFINE left == Capacity - writePos
      <3>1. over4 = m - left /\ left + over4 = m /\ left <= m
        BY <1>1, <1>2, <1>4, <2>1, <2>2, <2>4 DEF WriteEmpty, Over, Lesser, Index
      <3>2. /\ buf' = StoredAround(writePos, s, left, over4)
            /\ writePos' = over4 /\ isFull' = (over4 = readPos)
            /\ result' = [ret |-> left + over4, got |-> <<>>]
        BY <1>1, <1>2, <2>1, <2>4 DEF WriteEnds, Wrote, WritePiece, Index
      <3>3. SizeOf(readPos', writePos', isEmpty', isFull') = Size + m
        BY SMTT(60), <1>1, <1>2, <1>4, <2>1, <2>2, <2>4, <3>1, <3>2 DEF WriteEmpty, Over, SizeOf, Index
      <3>. QED BY <2>1, <2>2, <3>1, <3>2, <3>3
    <2>. QED BY <2>3, <2>4
  <1>5. CASE WriteAhead(s)
    <2>1. /\ ~isFull /\ isEmpty' = FALSE /\ readPos' = readPos /\ Len(s) > 0
          /\ WriteEnds(s, over5)
      BY <1>5 DEF WriteAhead, CanWrite
    <2>2. Size = writePos - readPos /\ m \in Nat /\ m <= Len(s)
      BY <1>1, <1>2, <1>3, <1>5, <2>1 DEF WriteAhead, SizeOf, Lesser, Index
    <2>3. CASE Capacity - writePos > Len(s)
      <3>1. WritePiece(s, Len(s)) /\ m = Len(s) /\ writePos + m <= Capacity
        BY <1>1, <1>2, <1>5, <2>1, <2>2, <2>3 DEF WriteAhead, WriteEnds, Lesser, Index
      <3>2. /\ buf' = Stored(buf, writePos, s, m)
            /\ result' = [ret |-> m, got |-> <<>>]
            /\ writePos' = writePos + m /\ isFull' = (writePos + m = readPos)
        BY <3>1 DEF WritePiece, Wrote
      <3>3. SizeOf(readPos', writePos', isEmpty', isFull') = Size + m
        BY SMTT(60), <1>1, <1>2, <1>5, <2>1, <2>2, <2>3, <3>1, <3>2 DEF WriteAhead, SizeOf, Index
      <3>. QED BY <2>1, <2>2, <3>1, <3>2, <3>3
    <2>4. CASE ~(Capacity - writePos > Len(s))
      <3> DEFINE left == Capacity - writePos
      <3>1. over5 = m - left /\ left + over5 = m /\ left <= m
        BY <1>1, <1>2, <1>5, <2>1, <2>2, <2>4 DEF WriteAhead, Over, Lesser, Index
      <3>2. /\ buf' = StoredAround(writePos, s, left, over5)
            /\ writePos' = over5 /\ isFull' = (over5 = readPos)
            /\ result' = [ret |-> left + over5, got |-> <<>>]
        BY <1>1, <1>2, <2>1, <2>4 DEF WriteEnds, Wrote, WritePiece, Index
      <3>3. SizeOf(readPos', writePos', isEmpty', isFull') = Size + m
        <4>1. writePos' <= readPos /\ Size + m = Capacity - readPos + writePos'
          BY <1>1, <1>2, <1>5, <2>1, <2>2, <2>4, <3>1, <3>2 DEF WriteAhead, Over, Index
        <4>2. isFull' <=> writePos' = readPos
          BY <3>2, Zenon
        <4>3. ASSUME isFull' PROVE SizeOf(readPos', writePos', isEmpty', isFull') = Size + m
          <5>1. SizeOf(readPos', writePos', isEmpty', isFull') = Capacity
            BY <2>1, <4>3 DEF SizeOf
          <5>2. Size + m = Capacity
            BY <1>1, <1>2, <4>1, <4>2, <4>3 DEF Index
          <5>. QED BY <5>1, <5>2
        <4>4. ASSUME ~isFull' PROVE SizeOf(readPos', writePos', isEmpty', isFull') = Size + m
          <5>1. ~(readPos' < writePos')
            BY <1>1, <1>2, <2>1, <3>1, <3>2, <4>1 DEF Over, Index
          <5>2. SizeOf(readPos', writePos', isEmpty', isFull') = Capacity - readPos + writePos'
            BY <2>1, <4>4, <5>1 DEF SizeOf
          <5>. QED BY <4>1, <5>2
        <4>. QED BY <4>3, <4>4
      <3>. QED BY <2>1, <2>2, <3>1, <3>2, <3>3
    <2>. QED BY <2>3, <2>4
  <1>6. CASE WriteBehind(s)
    <2>1. ~isFull /\ ~isEmpty /\ isEmpty' = FALSE /\ readPos' = readPos
      BY <1>1, <1>2, <1>6 DEF WriteBehind, CanWrite, Index
    <2>2. Size = Capacity - readPos + writePos /\ m \in Nat /\ m <= Len(s)
          /\ m = IF readPos - writePos > Len(s) THEN Len(s) ELSE readPos - writePos
      BY <1>1, <1>2, <1>3, <1>6, <2>1 DEF WriteBehind, SizeOf, Lesser, Index
    <2>3. WritePiece(s, m)
      BY <1>6, <2>2 DEF WriteBehind
    <2>4. /\ buf' = Stored(buf, writePos, s, m)
          /\ result' = [ret |-> m, got |-> <<>>]
          /\ writePos' = writePos + m /\ isFull' = (writePos + m = readPos)
      BY <2>3 DEF WritePiece, Wrote
    <2>5. SizeOf(readPos', writePos', isEmpty', isFull') = Size + m /\ writePos + m <= Capacity
      BY SMTT(60), <1>1, <1>2, <1>6, <2>1, <2>2, <2>4 DEF WriteBehind, SizeOf, Index
    <2>. QED BY <2>1, <2>2, <2>4, <2>5
  <1>. QED BY <1>4, <1>5, <1>6 DEF Write

LEMMA FetchedPiece ==
  ASSUME NEW n \in Nat, readPos \in Index, readPos + n <= Capacity
  PROVE  Fetched(readPos, n) = Ring(buf, readPos, n)
  <1>1. \A i \in 1 .. n : Wrap(readPos + i - 1) = readPos + i - 1
    BY CircularBufferAssumption DEF Wrap, Index
  <1>. QED BY <1>1 DEF Fetched, Ring

LEMMA FetchedEnds ==
  ASSUME buf \in [Index -> Elem], readPos \in Index, NEW n \in 0 .. Capacity,
         Capacity - readPos <= n
  PROVE  Fetched(readPos, Capacity - readPos) \o Fetched(0, n - (Capacity - readPos))
           = Ring(buf, readPos, n)
  <1> DEFINE left == Capacity - readPos
             over == n - left
             a == Fetched(readPos, left)
             b == Fetched(0, over)
             all == Ring(buf, readPos, n)
  <1>1. Capacity \in Nat \ {0}
    BY CircularBufferAssumption
  <1>2. left \in 1 .. Capacity /\ over \in Nat /\ over <= Capacity /\ left + over = n
    BY <1>1 DEF Index
  <1>3. a \in Seq(Elem) /\ Len(a) = left
    <2>1. \A i \in 1 .. left : buf[readPos + i - 1] \in Elem
      BY <1>1 DEF Index
    <2>. QED BY <1>2, <2>1 DEF Fetched
  <1>4. b \in Seq(Elem) /\ Len(b) = over
    <2>1. \A i \in 1 .. over : buf[0 + i - 1] \in Elem
      BY <1>1, <1>2 DEF Index
    <2>. QED BY <1>2, <2>1 DEF Fetched
  <1>5. all \in Seq(Elem) /\ Len(all) = n
    <2>1. \A i \in 1 .. n : buf[Wrap(readPos + i - 1)] \in Elem
      BY <1>1 DEF Index, Wrap
    <2>. QED BY <2>1 DEF Ring
  <1>6. \A i \in 1 .. left : all[i] = a[i]
    <2>1. \A i \in 1 .. left : Wrap(readPos + i - 1) = readPos + i - 1
      BY <1>1 DEF Wrap, Index
    <2>. QED BY <1>1, <1>2, <2>1 DEF Ring, Fetched
  <1>7. \A i \in 1 .. n : ~(i <= left) => all[i] = b[i - left]
    <2> SUFFICES ASSUME NEW i \in 1 .. n, ~(i <= left) PROVE all[i] = b[i - left]
      OBVIOUS
    <2>1. Wrap(readPos + i - 1) = 0 + (i - left) - 1 /\ i - left \in 1 .. over
      BY <1>1, <1>2 DEF Wrap, Index
    <2>2. all[i] = buf[Wrap(readPos + i - 1)]
      BY DEF Ring
    <2>3. b[i - left] = buf[0 + (i - left) - 1]
      BY <2>1 DEF Fetched
    <2>. QED BY <2>1, <2>2, <2>3
  <1> HIDE DEF left, over, a, b, all
  <1> DEFINE cat == a \o b
  <1>8. cat \in Seq(Elem) /\ Len(cat) = n
    BY <1>2, <1>3, <1>4, ConcatProperties
  <1>9. \A i \in 1 .. n : cat[i] = IF i <= left THEN a[i] ELSE b[i - left]
    BY <1>2, <1>3, <1>4, ConcatProperties
  <1> HIDE DEF cat
  <1>10. ASSUME NEW i \in 1 .. n PROVE cat[i] = all[i]
    <2>1. i <= left => i \in 1 .. left
      BY <1>2
    <2>. QED BY <1>2, <1>6, <1>7, <1>9, <2>1
  <1>11. cat = all
    BY <1>5, <1>8, <1>10, SeqEqual
  <1>. QED BY <1>11 DEF cat, a, b, all, left, over

(* Each of the layouts in which read finds the ring takes as many elements  *)
(* as are there, in one piece or around the end.                            *)
LEMMA ReadShape ==
  ASSUME RingInv, NEW count \in Int, Read(count), ~ReadNothing(count),
         NEW n, n = Lesser(count, Size)
  PROVE  /\ n \in Nat /\ buf' = buf /\ readPos' = Wrap(readPos + n)
         /\ SizeOf(readPos', writePos', isEmpty', isFull') = Size - n
         /\ \/ /\ readPos + n <= Capacity
               /\ result' = [ret |-> n, got |-> Fetched(readPos, n)]
            \/ /\ Capacity - readPos <= n
               /\ result' = [ret |-> n, got |-> Fetched(readPos, Capacity - readPos)
                                                 \o Fetched(0, n - (Capacity - readPos))]
  <1>1. Capacity \in Nat \ {0}
    BY CircularBufferAssumption
  <1>2. readPos \in Index /\ writePos \in Index /\ isEmpty \in BOOLEAN /\ isFull \in BOOLEAN
        /\ ~(isEmpty /\ isFull) /\ (readPos = writePos <=> isEmpty \/ isFull)
    BY DEF RingInv, TypeOK, FlagsMatchPositions
  <1>3. Size = SizeOf(readPos, writePos, isEmpty, isFull)
    BY <1>2, SizeIs
  <1> DEFINE past == Over(count, readPos)
             over4 == IF writePos > past THEN past ELSE writePos
             over5 == IF writePos >= past THEN past ELSE writePos
  <1>4. CASE ReadFull(count)
    <2>1. /\ ~isEmpty /\ count > 0 /\ isFull' = FALSE /\ buf' = buf /\ writePos' = writePos
          /\ ReadEnds(count, over4)
      BY <1>4 DEF ReadFull, CanRead
    <2>2. Size = Capacity /\ n \in Nat /\ n <= count
      BY <1>1, <1>2, <1>3, <1>4, <2>1 DEF ReadFull, SizeOf, Lesser, Index
    <2>3. CASE Capacity - readPos > count
      <3>1. ReadPiece(count) /\ n = count /\ readPos + n < Capacity
        BY <1>1, <1>2, <1>4, <2>1, <2>2, <2>3 DEF ReadFull, ReadEnds, Lesser, Index
      <3>2. /\ result' = [ret |-> n, got |-> Fetched(readPos, n)]
            /\ readPos' = readPos + n /\ isEmpty' = (readPos + n = writePos)
        BY <3>1 DEF ReadPiece
      <3>3. /\ SizeOf(readPos', writePos', isEmpty', isFull') = Size - n
            /\ readPos' = Wrap(readPos + n)
        BY SMTT(60), <1>1, <1>2, <1>4, <2>1, <2>2, <2>3, <3>1, <3>2 DEF ReadFull, SizeOf, Index, Wrap
      <3>. QED BY <1>1, <1>2, <2>1, <2>2, <3>1, <3>2, <3>3 DEF Index
    <2>4. CASE ~(Capacity - readPos > count)
      <3> DEFINE left == Capacity - readPos
      <3>1. over4 = n - left /\ left + over4 = n /\ left <= n
        BY <1>1, <1>2, <1>4, <2>1, <2>2, <2>4 DEF ReadFull, Over, Lesser, Index
      <3>2. /\ result' = [ret |-> left + over4,
                          got |-> Fetched(readPos, left) \o Fetched(0, over4)]
            /\ readPos' = over4 /\ isEmpty' = (over4 = writePos)
        BY <1>1, <1>2, <2>1, <2>4 DEF ReadEnds, ReadPiece, Index
      <3>3. /\ SizeOf(readPos', writePos', isEmpty', isFull') = Size - n
            /\ readPos' = Wrap(readPos + n)
        BY SMTT(60), <1>1, <1>2, <1>4, <2>1, <2>2, <2>4, <3>1, <3>2 DEF ReadFull, Over, SizeOf, Index, Wrap
      <3>. QED BY <2>1, <2>2, <3>1, <3>2, <3>3
    <2>. QED BY <2>3, <2>4
  <1>5. CASE ReadBehind(count)
    <2>1. /\ ~isEmpty /\ count > 0 /\ isFull' = FALSE /\ buf' = buf /\ writePos' = writePos
          /\ ReadEnds(count, over5)
      BY <1>5 DEF ReadBehind, CanRead
    <2>2. Size = Capacity - readPos + writePos /\ n \in Nat /\ n <= count
      BY <1>1, <1>2, <1>3, <1>5, <2>1 DEF ReadBehind, SizeOf, Lesser, Index
    <2>3. CASE Capacity - readPos > count
      <3>1. ReadPiece(count) /\ n = count /\ readPos + n < Capacity
        BY <1>1, <1>2, <1>5, <2>1, <2>2, <2>3 DEF ReadBehind, ReadEnds, Lesser, Index
      <3>2. /\ result' = [ret |-> n, got |-> Fetched(readPos, n)]
            /\ readPos' = readPos + n /\ isEmpty' = (readPos + n = writePos)
        BY <3>1 DEF ReadPiece
      <3>3. /\ SizeOf(readPos', writePos', isEmpty', isFull') = Size - n
            /\ readPos' = Wrap(readPos + n)
        BY SMTT(60), <1>1, <1>2, <1>5, <2>1, <2>2, <2>3, <3>1, <3>2 DEF ReadBehind, SizeOf, Index, Wrap
      <3>. QED BY <1>1, <1>2, <2>1, <2>2, <3>1, <3>2, <3>3 DEF Index
    <2>4. CASE ~(Capacity - readPos > count)
      <3> DEFINE left == Capacity - readPos
      <3>1. over5 = n - left /\ left + over5 = n /\ left <= n
        BY <1>1, <1>2, <1>5, <2>1, <2>2, <2>4 DEF ReadBehind, Over, Lesser, Index
      <3>2. /\ result' = [ret |-> left + over5,
                          got |-> Fetched(readPos, left) \o Fetched(0, over5)]
            /\ readPos' = over5 /\ isEmpty' = (over5 = writePos)
        BY <1>1, <1>2, <2>1, <2>4 DEF ReadEnds, ReadPiece, Index
      <3>3. readPos' = Wrap(readPos + n) /\ readPos' <= writePos' /\ writePos' - readPos' = Size - n
        BY <1>1, <1>2, <1>5, <2>1, <2>2, <2>4, <3>1, <3>2 DEF ReadBehind, Over, Index, Wrap
      <3>4. isEmpty' <=> readPos' = writePos'
        BY <2>1, <3>2, Zenon
      <3>5. SizeOf(readPos', writePos', isEmpty', isFull') = Size - n
        <4>1. ASSUME isEmpty' PROVE SizeOf(readPos', writePos', isEmpty', isFull') = Size - n
          BY SMTT(60), <1>1, <1>2, <2>1, <2>2, <3>2, <3>3, <3>4, <4>1 DEF SizeOf, Index
        <4>2. ASSUME ~isEmpty' PROVE SizeOf(readPos', writePos', isEmpty', isFull') = Size - n
          <5>1. readPos' < writePos'
            BY <1>1, <1>2, <1>5, <2>1, <2>2, <2>4, <3>1, <3>2, <3>3, <3>4, <4>2 DEF Over, Index
          <5>2. SizeOf(readPos', writePos', isEmpty', isFull') = writePos' - readPos'
            BY <2>1, <4>2, <5>1 DEF SizeOf
          <5>. QED BY <3>3, <5>2
        <4>. QED BY <4>1, <4>2
      <3>. QED BY <2>1, <2>2, <3>1, <3>2, <3>3, <3>5
    <2>. QED BY <2>3, <2>4
  <1>6. CASE ReadAhead(count)
    <2>1. ~isEmpty /\ ~isFull /\ count > 0 /\ isFull' = FALSE /\ buf' = buf /\ writePos' = writePos
      BY <1>1, <1>2, <1>6 DEF ReadAhead, CanRead, Index
    <2>2. Size = writePos - readPos /\ n \in Nat
          /\ n = IF writePos - readPos > count THEN count ELSE writePos - readPos
      BY <1>1, <1>2, <1>3, <1>6, <2>1 DEF ReadAhead, SizeOf, Lesser, Index
    <2>3. ReadPiece(n)
      BY <1>6, <2>2 DEF ReadAhead
    <2>4. /\ result' = [ret |-> n, got |-> Fetched(readPos, n)]
          /\ readPos' = readPos + n /\ isEmpty' = (readPos + n = writePos)
      BY <2>3 DEF ReadPiece
    <2>5. readPos + n <= Capacity /\ readPos' = Wrap(readPos + n)
      BY <1>1, <1>2, <1>6, <2>2, <2>4 DEF ReadAhead, Index, Wrap
    <2>6. isEmpty' <=> n = Size
      <3>1. readPos + n = writePos <=> n = Size
        BY <1>1, <1>2, <2>2 DEF Index
      <3>. QED BY <2>4, <3>1, Zenon
    <2> DEFINE size == SizeOf(readPos', writePos', isEmpty', isFull')
    <2>7. ASSUME isEmpty' PROVE size = Size - n
      BY SMTT(60), <1>1, <1>2, <2>2, <2>6, <2>7 DEF SizeOf, Index
    <2>8. ASSUME ~isEmpty' PROVE size = Size - n
      <3>1. readPos' < writePos' /\ writePos' - readPos' = Size - n
        BY <1>1, <1>2, <1>6, <2>1, <2>2, <2>4, <2>6, <2>8 DEF ReadAhead, Index
      <3>2. SizeOf(readPos', writePos', isEmpty', isFull') = writePos' - readPos'
        BY <2>1, <2>8, <3>1 DEF SizeOf
      <3>. QED BY <3>1, <3>2
    <2>. QED BY <2>1, <2>2, <2>4, <2>5, <2>7, <2>8
  <1>. QED BY <1>4, <1>5, <1>6 DEF Read

LEMMA SizeInRange ==
  ASSUME RingInv
  PROVE  /\ Size \in 0 .. Capacity /\ writePos = Wrap(readPos + Size)
         /\ Content = Ring(buf, readPos, Size) /\ Len(Content) = Size
         /\ (Size = Capacity <=> isFull) /\ (Size = 0 <=> isEmpty)
  <1>1. readPos \in Index /\ writePos \in Index /\ isEmpty \in BOOLEAN /\ isFull \in BOOLEAN
        /\ ~(isEmpty /\ isFull) /\ (readPos = writePos <=> isEmpty \/ isFull)
        /\ buf \in [Index -> Elem]
    BY DEF RingInv, TypeOK, FlagsMatchPositions
  <1>2. Size = SizeOf(readPos, writePos, isEmpty, isFull)
    BY <1>1, SizeIs
  <1>3. Size \in 0 .. Capacity /\ writePos = Wrap(readPos + Size)
        /\ (Capacity = Size <=> isFull) /\ (0 = Size <=> isEmpty)
    BY <1>1, <1>2, SizeFacts
  <1>4. Content = Ring(buf, readPos, Size)
    BY <1>1, <1>3, RingMod DEF Content
  <1>5. Len(Ring(buf, readPos, Size)) = Size
    BY <1>3 DEF Ring
  <1>. QED BY <1>3, <1>4, <1>5

LEMMA NextContent ==
  ASSUME RingInv', NEW k \in 0 .. Capacity,
         SizeOf(readPos', writePos', isEmpty', isFull') = k
  PROVE  Content' = Ring(buf', readPos', k)
  <1>1. readPos' \in Index /\ isEmpty' \in BOOLEAN /\ isFull' \in BOOLEAN
    BY DEF RingInv, TypeOK
  <1>2. Size' = k
    BY <1>1, SizeIsNext
  <1>3. Content' = [i \in 1 .. k |-> buf'[(readPos' + i - 1) % Capacity]]
    BY <1>2 DEF Content
  <1>. QED BY <1>1, <1>3, RingMod

LEMMA WriteIsFifo ==
  ASSUME RingInv, RingInv', NEW s \in Seq(Elem), Write(s)
  PROVE  Fifo!Write(s)
  <1> DEFINE m == Lesser(Len(s), Capacity - Size)
  <1>1. Capacity \in Nat \ {0} /\ Len(s) \in Nat
    BY CircularBufferAssumption
  <1>2. /\ Size \in 0 .. Capacity /\ writePos = Wrap(readPos + Size)
        /\ Content = Ring(buf, readPos, Size) /\ Len(Content) = Size
        /\ (Size = Capacity <=> isFull) /\ (Size = 0 <=> isEmpty)
    BY SizeInRange
  <1>3. m \in Nat /\ m <= Len(s) /\ Size + m <= Capacity
    BY <1>1, <1>2 DEF Lesser
  <1>4. SUFFICES /\ Content' = Content \o SubSeq(s, 1, m)
                 /\ result' = [ret |-> m, got |-> <<>>]
    BY <1>2 DEF Write, Fifo!Write, Fifo!Lesser, Lesser
  <1>5. readPos \in Index /\ writePos \in Index /\ buf \in [Index -> Elem] /\ buf' \in [Index -> Elem]
    BY DEF RingInv, TypeOK
  <1> HIDE DEF m
  <1>6. CASE WriteNothing(s)
    <2>1. m = 0
      BY <1>1, <1>2, <1>6 DEF WriteNothing, m, Lesser
    <2>2. result' = [ret |-> m, got |-> <<>>]
      BY <1>6, <2>1 DEF WriteNothing, Wrote
    <2>3. Content' = Content
      BY <1>6 DEF WriteNothing, Content, Size
    <2>4. Content \in Seq(Elem)
      <3>1. \A i \in 1 .. Size : buf[Wrap(readPos + i - 1)] \in Elem
        BY <1>1, <1>2, <1>5 DEF Wrap, Index
      <3>. QED BY <1>2, <3>1 DEF Ring
    <2>5. SubSeq(s, 1, m) = <<>>
      BY <2>1
    <2>. QED BY <2>2, <2>3, <2>4, <2>5, ConcatEmptySeq
  <1>7. CASE ~WriteNothing(s)
    <2>1. /\ readPos' = readPos
          /\ result' = [ret |-> m, got |-> <<>>]
          /\ SizeOf(readPos', writePos', isEmpty', isFull') = Size + m
          /\ \/ /\ writePos + m <= Capacity
                /\ buf' = Stored(buf, writePos, s, m)
             \/ /\ Capacity - writePos <= m
                /\ buf' = StoredAround(writePos, s, Capacity - writePos, m - (Capacity - writePos))
      BY <1>7, WriteShape DEF m
    <2>2. Content' = Ring(buf', readPos, Size + m)
      <3>1. Size + m \in 0 .. Capacity
        BY <1>1, <1>2, <1>3
      <3>. QED BY <2>1, <3>1, NextContent
    <2>4. Ring(buf', readPos, Size + m) = Ring(buf, readPos, Size) \o SubSeq(s, 1, m)
      <3>1. Room(buf, readPos, writePos, Size, m, s)
        BY <1>1, <1>2, <1>3, <1>5 DEF Room
      <3>2. Grows(buf, buf', readPos, writePos, Size, m, s)
        <4>1. CASE writePos + m <= Capacity /\ buf' = Stored(buf, writePos, s, m)
          BY <1>5, <3>1, <4>1, PieceGrows, Zenon
        <4>2. CASE /\ Capacity - writePos <= m
                   /\ buf' = StoredAround(writePos, s, Capacity - writePos, m - (Capacity - writePos))
          <5>1. buf' = Around(buf, writePos, s, m)
            BY <4>2 DEF StoredAround, Around
          <5>. QED BY <3>1, <4>2, <5>1, EndsGrow, Zenon
        <4>. QED BY <2>1, <4>1, <4>2
      <3>3. Appended(buf, buf', readPos, Size, m, s)
        BY <3>1, <3>2, GrowsRing, Zenon
      <3>. QED BY <3>3 DEF Appended
    <2>. QED BY <1>2, <2>1, <2>2, <2>4
  <1>. QED BY <1>6, <1>7

LEMMA ReadIsFifo ==
  ASSUME RingInv, RingInv', NEW count \in Int, Read(count)
  PROVE  Fifo!Read(count)
  <1> DEFINE n == IF count <= 0 THEN 0 ELSE Lesser(count, Size)
  <1>1. Capacity \in Nat \ {0}
    BY CircularBufferAssumption
  <1>2. /\ Size \in 0 .. Capacity /\ Content = Ring(buf, readPos, Size) /\ Len(Content) = Size
        /\ (Size = 0 <=> isEmpty)
    BY SizeInRange
  <1>3. n \in 0 .. Size
    BY <1>1, <1>2 DEF Lesser
  <1>4. SUFFICES /\ Content' = SubSeq(Content, n + 1, Len(Content))
                 /\ result' = [ret |-> n, got |-> SubSeq(Content, 1, n)]
    BY <1>2 DEF Read, Fifo!Read, Fifo!Lesser, Lesser
  <1>5. readPos \in Index /\ buf \in [Index -> Elem]
    BY DEF RingInv, TypeOK
  <1>6. /\ Ring(buf, Wrap(readPos + n), Size - n) = SubSeq(Content, n + 1, Size)
        /\ Ring(buf, readPos, n) = SubSeq(Content, 1, n)
    BY <1>2, <1>3, <1>5, RingRead
  <1> HIDE DEF n
  <1>7. CASE ReadNothing(count)
    <2>1. n = 0
      BY <1>1, <1>2, <1>7 DEF ReadNothing, n, Lesser
    <2>2. Content' = Content
      BY <1>7 DEF ReadNothing, Content, Size
    <2>3. Wrap(readPos + n) = readPos /\ Size - n = Size
      BY <1>1, <1>2, <1>5, <2>1 DEF Wrap, Index
    <2>4. SubSeq(Content, 1, n) = <<>>
      BY <2>1
    <2>. QED BY <1>2, <1>6, <1>7, <2>1, <2>2, <2>3, <2>4 DEF ReadNothing
  <1>8. CASE ~ReadNothing(count)
    <2>1. count > 0 /\ n = Lesser(count, Size)
      BY <1>8 DEF ReadNothing, Read, ReadFull, ReadAhead, ReadBehind, CanRead, n
    <2>2. /\ buf' = buf /\ readPos' = Wrap(readPos + n)
          /\ SizeOf(readPos', writePos', isEmpty', isFull') = Size - n
          /\ \/ /\ readPos + n <= Capacity
                /\ result' = [ret |-> n, got |-> Fetched(readPos, n)]
             \/ /\ Capacity - readPos <= n
                /\ result' = [ret |-> n, got |-> Fetched(readPos, Capacity - readPos)
                                                  \o Fetched(0, n - (Capacity - readPos))]
      BY <1>8, <2>1, ReadShape
    <2>3. Content' = Ring(buf, Wrap(readPos + n), Size - n)
      <3>1. Size - n \in 0 .. Capacity
        BY <1>1, <1>2, <1>3
      <3>. QED BY <2>2, <3>1, NextContent
    <2>4. result' = [ret |-> n, got |-> Ring(buf, readPos, n)]
      <3>1. n \in Nat /\ n \in 0 .. Capacity
        BY <1>1, <1>2, <1>3
      <3>2. CASE readPos + n <= Capacity /\ result' = [ret |-> n, got |-> Fetched(readPos, n)]
        BY <1>5, <3>1, <3>2, FetchedPiece
      <3>3. CASE /\ Capacity - readPos <= n
                 /\ result' = [ret |-> n, got |-> Fetched(readPos, Capacity - readPos)
                                                   \o Fetched(0, n - (Capacity - readPos))]
        BY <1>5, <3>1, <3>3, FetchedEnds
      <3>. QED BY <2>2, <3>2, <3>3
    <2>. QED BY <1>2, <1>6, <2>3, <2>4
  <1>. QED BY <1>7, <1>8

(* The ring is a bounded queue for every capacity: whatever the calls, each *)
(* write appends to its content what there is room for, each read returns   *)
(* and removes the oldest elements, and both return the right count.        *)
THEOREM RingIsFifo == Spec => ImplementsFifo
  <1>1. Init => Fifo!Init
    <2> SUFFICES ASSUME Init PROVE Fifo!Init
      OBVIOUS
    <2>1. Size = 0
      BY DEF Init, Size
    <2>2. Content = <<>>
      BY <2>1 DEF Content
    <2>. QED BY <2>2 DEF Init, Fifo!Init
  <1>2. RingInv /\ RingInv' /\ [Next]_vars => [Fifo!Next]_(Fifo!vars)
    <2> SUFFICES ASSUME RingInv, RingInv', [Next]_vars PROVE Fifo!Next \/ UNCHANGED Fifo!vars
      OBVIOUS
    <2>1. MaxCount \in Nat
      BY CircularBufferAssumption
    <2>2. ASSUME NEW n \in 0 .. MaxCount, NEW s \in [1 .. n -> Elem], Write(s)
          PROVE  Fifo!Next
      <3>1. s \in Seq(Elem)
        BY <2>1
      <3>2. Fifo!Write(s)
        BY <2>2, <3>1, WriteIsFifo
      <3>. QED BY <3>2 DEF Fifo!Next
    <2>3. ASSUME NEW count \in -1 .. MaxCount, Read(count)
          PROVE  Fifo!Next
      <3>1. Fifo!Read(count)
        BY <2>1, <2>3, ReadIsFifo
      <3>. QED BY <3>1 DEF Fifo!Next
    <2>4. ASSUME Clear PROVE Fifo!Next
      <3>1. isEmpty' /\ result' = [ret |-> 0, got |-> <<>>]
        BY <2>4 DEF Clear
      <3>2. Size' = 0
        BY <3>1 DEF Size
      <3>3. Content' = <<>>
        BY <3>2 DEF Content
      <3>. QED BY <2>4, <3>1, <3>3 DEF Clear, Fifo!Next, Fifo!Clear
    <2>5. ASSUME UNCHANGED vars PROVE UNCHANGED Fifo!vars
      BY <2>5 DEF vars, Fifo!vars, Content, Size
    <2>. QED BY <2>2, <2>3, <2>4, <2>5 DEF Next
  <1>. QED BY <1>1, <1>2, RingInvariant, PTL DEF Spec, ImplementsFifo, Fifo!Spec
=============================================================================
