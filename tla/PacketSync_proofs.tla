-------------------------- MODULE PacketSync_proofs --------------------------
(***************************************************************************)
(* PacketSync for every stream, header length, width of integers and size  *)
(* of pieces: the buffer never loses, repeats or overtakes a byte, and     *)
(* packets are cut off in order.                                           *)
(***************************************************************************)
EXTENDS PacketSync, SequenceTheorems, WellFoundedInduction, TLAPS

(* The parts of TypeOK, which need different provers. *)
Flags == calling \in BOOLEAN /\ callback \in BOOLEAN
Data ==
  /\ stream \in Streams
  /\ fed \in 0 .. Len(stream)
  /\ taken \in 0 .. fed
  /\ buffer \in Seq(Byte)
  /\ room \in Nat
  /\ packets \in Seq(Packet)

LEMMA TypeParts == TypeOK <=> Flags /\ Data
  BY DEF TypeOK, Flags, Data

(* Where each packet lies depends on what is in the buffer now. *)
PInv == Flags /\ Data /\ BufferIsInput /\ PacketsInOrder

(* Two adjacent parts of a stream make one. *)
LEMMA Adjacent ==
  ASSUME NEW s \in Seq(Byte), NEW a \in Nat, NEW b \in a .. Len(s), NEW c \in b .. Len(s)
  PROVE  /\ SubSeq(s, a + 1, b) \o SubSeq(s, b + 1, c) = SubSeq(s, a + 1, c)
         /\ SubSeq(s, b + 1, c) \in Seq(Byte)
         /\ Len(SubSeq(s, b + 1, c)) = c - b
  OBVIOUS

(* The first byte of the buffer is the next byte of the stream. *)
LEMMA FirstByte ==
  ASSUME Data, BufferIsInput, buffer # <<>>
  PROVE  /\ taken < fed
         /\ Len(buffer) = fed - taken
         /\ buffer[1] = stream[taken + 1]
         /\ buffer[1] \in Byte
  <1> USE PacketSyncAssumption DEF Data, BufferIsInput
  <1>1. stream \in Seq(Byte)
    OBVIOUS
  <1>2. Len(SubSeq(stream, taken + 1, fed)) = IF taken + 1 <= fed THEN fed - taken ELSE 0
    BY <1>1
  <1>3. taken < fed
    BY <1>1, <1>2
  <1> QED
    BY <1>1, <1>2, <1>3

(* pack_size is a number. *)
LEMMA PackSizeType ==
  ASSUME Data, BufferIsInput, buffer # <<>>, buffer[1] # Plain
  PROVE  PackSize \in Nat
  BY FirstByte, PacketSyncAssumption DEF PackSize, Byte, Plain

(* Dropping n bytes from the front advances the window by n. *)
LEMMA DropKeepsInput ==
  ASSUME Data, BufferIsInput, NEW n \in 0 .. Len(buffer), Drop(n),
         UNCHANGED <<stream, fed, room>>
  PROVE  /\ taken' \in taken .. fed
         /\ buffer' \in Seq(Byte)
         /\ BufferIsInput'
  <1> USE PacketSyncAssumption DEF Data, BufferIsInput
  <1>1. stream \in Seq(Byte) /\ buffer \in Seq(Byte)
    OBVIOUS
  <1>2. Len(buffer) = fed - taken
    BY <1>1
  <1>3. taken' = taken + n /\ buffer' = SubSeq(buffer, n + 1, Len(buffer))
    BY DEF Drop
  <1>4. buffer' = SubSeq(stream, taken' + 1, fed')
    BY <1>1, <1>2, <1>3
  <1> QED
    BY <1>1, <1>2, <1>3, <1>4

LEMMA PInvInit == Init => PInv
  <1> SUFFICES ASSUME Init PROVE PInv
    OBVIOUS
  <1> USE PacketSyncAssumption DEF Init
  <1>1. stream \in Seq(Byte)
    OBVIOUS
  <1>2. Flags
    BY DEF Flags
  <1>4. Data
    BY <1>1 DEF Data
  <1>3. SubSeq(stream, taken + 1, fed) = <<>>
    BY <1>1, SubSeqEmpty
  <1> QED
    BY <1>2, <1>3, <1>4 DEF PInv, BufferIsInput, PacketsInOrder

LEMMA PInvNext == PInv /\ [Next]_vars => PInv'
  <1> SUFFICES ASSUME PInv, [Next]_vars PROVE PInv'
    OBVIOUS
  <1> USE PacketSyncAssumption DEF PInv
  <1>1. CASE OnPackageCBEvent
    <2>1. Flags'
      BY <1>1 DEF OnPackageCBEvent, Flags
    <2>2. Data' /\ BufferIsInput' /\ PacketsInOrder'
      BY <1>1 DEF OnPackageCBEvent, Data, BufferIsInput, PacketsInOrder, WellCut
    <2> QED
      BY <2>1, <2>2
  <1>2. ASSUME NEW len \in 0 .. Len(stream) - fed, OnRecvData(len) PROVE PInv'
    <2>1. /\ stream \in Seq(Byte) /\ buffer \in Seq(Byte)
          /\ taken \in Nat /\ fed \in taken .. Len(stream) /\ fed + len \in fed .. Len(stream)
          /\ room \in Nat
      BY DEF Data
    <2> DEFINE piece == SubSeq(stream, fed + 1, fed + len)
    <2>2. buffer = SubSeq(stream, taken + 1, fed) /\ Len(buffer) <= room
      BY DEF BufferIsInput
    <2>8. Flags'
      BY <1>2 DEF OnRecvData, Flags
    <2>3. /\ buffer' = buffer \o piece /\ fed' = fed + len
          /\ room' = IF Len(buffer) + len > room THEN Len(buffer) + len ELSE room
          /\ UNCHANGED <<stream, taken, packets>>
      BY <1>2 DEF OnRecvData
    <2>4. buffer \o piece = SubSeq(stream, taken + 1, fed + len) /\ piece \in Seq(Byte)
          /\ Len(piece) = len
      BY <2>1, <2>2, Adjacent
    <2> HIDE DEF piece
    <2>5. buffer' \in Seq(Byte) /\ Len(buffer') = Len(buffer) + len
      BY <2>1, <2>3, <2>4
    <2>6. Data'
      BY <2>1, <2>3, <2>5 DEF Data
    <2>7. BufferIsInput'
      BY <2>1, <2>2, <2>3, <2>4, <2>5 DEF BufferIsInput
    <2>9. PacketsInOrder'
      BY <2>3 DEF PacketsInOrder, WellCut
    <2> QED
      BY <2>6, <2>7, <2>8, <2>9
  <1>3. CASE CutPacket
    <2>1. /\ Looks /\ buffer[1] # Plain /\ PackSize <= Len(buffer)
          /\ Drop(PackSize) /\ Record
          /\ UNCHANGED <<stream, fed, room>>
      BY <1>3 DEF CutPacket
    <2>2. Flags'
      BY <1>3 DEF CutPacket, Flags
    <2>3. buffer # <<>> /\ PackSize \in 0 .. Len(buffer)
      BY <2>1, PackSizeType DEF Looks, Data
    <2>4. taken < fed /\ buffer[1] = stream[taken + 1] /\ fed <= Len(stream) /\ taken \in Nat
      BY <2>3, FirstByte DEF Data
    <2>5. taken' \in taken .. fed /\ buffer' \in Seq(Byte) /\ BufferIsInput'
      BY <2>1, <2>3, DropKeepsInput
    <2>6. taken' = taken + PackSize
      BY <2>1 DEF Drop
    <2> DEFINE p == [at |-> taken, len |-> PackSize, heard |-> callback]
    <2>7. packets' = Append(packets, p) \/ packets' = packets
      BY <2>1 DEF Record
    <2>8. p \in Packet /\ p.at = taken /\ p.len = PackSize
      BY <2>3, <2>4 DEF Packet, Flags
    <2>15. PackSize = (stream[taken + 1] + HeadLen) % Width
      BY <2>4 DEF PackSize
    <2> HIDE DEF p
    <2>9. WellCut(p, taken')
      <3>1. stream[p.at + 1] # Plain /\ p.len = (stream[p.at + 1] + HeadLen) % Width
        BY <2>1, <2>4, <2>8, <2>15
      <3>2. p.at < Len(stream) /\ p.at + p.len <= taken'
        BY <2>4, <2>5, <2>6, <2>8 DEF Data
      <3> QED
        BY <3>1, <3>2 DEF WellCut
    <2>10. packets \in Seq(Packet) /\ packets' \in Seq(Packet)
      BY <2>7, <2>8 DEF Data
    <2>11. Data'
      BY <2>1, <2>5, <2>10 DEF Data
    <2>12. \A q, n : WellCut(q, n)' <=> WellCut(q, n)
      BY <2>1 DEF WellCut
    <2>14. \A q \in Packet : WellCut(q, taken) => WellCut(q, taken')
      BY <2>1, <2>4, <2>5 DEF WellCut, Packet
    <2>13. PacketsInOrder'
      <3> DEFINE End(i) == IF i < Len(packets) THEN packets[i + 1].at ELSE taken
      <3>1. \A i \in 1 .. Len(packets) : packets[i] \in Packet /\ WellCut(packets[i], End(i))
        BY <2>10 DEF PacketsInOrder
      <3>2. SUFFICES ASSUME NEW i \in 1 .. Len(packets')
                     PROVE  WellCut(packets'[i], End(i)')
        BY <2>12 DEF PacketsInOrder
      <3>3. CASE packets' = packets
        <4>1. CASE i < Len(packets)
          BY <3>1, <3>3, <4>1
        <4>2. CASE i = Len(packets)
          BY <3>1, <3>3, <4>2, <2>10, <2>14
        <4> QED
          BY <3>3, <4>1, <4>2, <2>10
      <3>4. CASE packets' = Append(packets, p)
        <4>1. /\ Len(packets') = Len(packets) + 1
              /\ packets'[Len(packets) + 1] = p
              /\ \A j \in 1 .. Len(packets) : packets'[j] = packets[j]
          BY <3>4, <2>8, <2>10
        <4>2. CASE i = Len(packets) + 1
          BY <4>1, <4>2, <2>9, <2>10
        <4>3. CASE i \in 1 .. Len(packets)
          BY <4>1, <4>3, <3>1, <2>8, <2>10
        <4> QED
          BY <4>1, <4>2, <4>3, <2>10
      <3> QED
        BY <3>3, <3>4, <2>7
    <2> QED
      BY <2>2, <2>5, <2>11, <2>13
  <1>4. CASE Resync
    <2>1. Drop(Len(buffer)) /\ UNCHANGED <<stream, fed, room, packets>>
      BY <1>4 DEF Resync
    <2>2. Flags'
      BY <1>4 DEF Resync, Flags
    <2>3. taken' \in taken .. fed /\ buffer' \in Seq(Byte) /\ BufferIsInput'
      BY <2>1, DropKeepsInput DEF Data
    <2>4. Data'
      BY <2>1, <2>3 DEF Data
    <2>5. \A q, n : WellCut(q, n)' <=> WellCut(q, n)
      BY <2>1 DEF WellCut
    <2>6. \A q \in Packet : WellCut(q, taken) => WellCut(q, taken')
      BY <2>3 DEF WellCut, Packet, Data
    <2>7. PacketsInOrder'
      BY <2>1, <2>5, <2>6 DEF PacketsInOrder, Data
    <2> QED
      BY <2>2, <2>3, <2>4, <2>7
  <1>5. CASE Return
    <2>1. Flags'
      BY <1>5 DEF Return, Flags
    <2>2. Data' /\ BufferIsInput' /\ PacketsInOrder'
      BY <1>5 DEF Return, Data, BufferIsInput, PacketsInOrder, WellCut
    <2> QED
      BY <2>1, <2>2
  <1>6. CASE UNCHANGED vars
    <2>1. Flags'
      BY <1>6 DEF vars, Flags
    <2>2. Data' /\ BufferIsInput' /\ PacketsInOrder'
      BY <1>6 DEF vars, Data, BufferIsInput, PacketsInOrder, WellCut
    <2> QED
      BY <2>1, <2>2
  <1> QED
    BY <1>1, <1>2, <1>3, <1>4, <1>5, <1>6 DEF Next, Loop

LEMMA PInvAlways == SafeSpec => []PInv
  BY PInvInit, PInvNext, PTL DEF SafeSpec

(* No more is taken out of the buffer than came in. *)
THEOREM PacketTypeCorrect == SafeSpec => []TypeOK
  <1>1. PInv => TypeOK
    BY TypeParts DEF PInv
  <1> QED
    BY <1>1, PInvAlways, PTL

(* The buffer is always the part of the stream that came and was not taken, *)
(* and fits in read_data, whatever the lengths of the pieces (OnRecvData).  *)
THEOREM NoByteLost == SafeSpec => []BufferIsInput
  BY PInvAlways, PTL DEF PInv

(* Packets never overlap, and each starts at a header that gives its length *)
(* in Width (OnRecvData).                                                   *)
THEOREM PacketsOrdered == SafeSpec => []PacketsInOrder
  BY PInvAlways, PTL DEF PInv
-----------------------------------------------------------------------------
(* The borders of a stream.                                                 *)

(* A non-empty set of numbers has a least one: the form in which these      *)
(* proofs use induction.                                                    *)
LEMMA LeastOf ==
  ASSUME NEW T, T \subseteq Nat, T # {}
  PROVE  \E x \in T : \A y \in T : x <= y
  <1>1. PICK x \in T : \A y \in T : ~ (<<y, x>> \in OpToRel(<, Nat))
    BY WFMin, NatLessThanWellFounded, Zenon
  <1>2. \A y \in T : ~(y < x)
    BY <1>1 DEF OpToRel
  <1>. QED  BY <1>2

(* The numbers i up to the end of the stream that are the start or lie      *)
(* behind a packet at a member of T.                                        *)
Reaches(T, i) == i = 0 \/ \E j \in T : j < i /\ Header(j) /\ Behind(j) = i

Positions == 0 .. Len(stream)

(* The least set of positions closed under Reaches. *)
Closed(T) == \A i \in Positions : Reaches(T, i) => i \in T
Reached == {i \in Positions : \A T \in SUBSET Positions : Closed(T) => i \in T}

LEMMA ReachedFixpoint ==
  ASSUME NEW i \in Positions
  PROVE  i \in Reached <=> Reaches(Reached, i)
  <1>1. ASSUME Reaches(Reached, i), NEW T \in SUBSET Positions, Closed(T) PROVE i \in T
    <2>1. Reached \subseteq T
      BY <1>1 DEF Reached
    <2>2. Reaches(T, i)
      BY <1>1, <2>1 DEF Reaches
    <2>. QED  BY <1>1, <2>2 DEF Closed
  <1>2. ASSUME i \in Reached, ~Reaches(Reached, i) PROVE FALSE
    <2> DEFINE T == Reached \ {i}
    <2>1. ASSUME NEW k \in Positions, Reaches(T, k) PROVE k \in T
      <3>1. Reaches(Reached, k)
        BY <2>1 DEF Reaches
      <3>2. k # i
        BY <3>1, <1>2
      <3>3. \A U \in SUBSET Positions : Closed(U) => k \in U
        <4>1. SUFFICES ASSUME NEW U \in SUBSET Positions, Closed(U) PROVE k \in U
          OBVIOUS
        <4>2. Reached \subseteq U
          BY <4>1 DEF Reached
        <4>3. Reaches(U, k)
          BY <3>1, <4>2 DEF Reaches
        <4>. QED  BY <4>1, <4>3 DEF Closed
      <3>. QED  BY <3>2, <3>3 DEF Reached
    <2>2. Closed(T)
      BY <2>1 DEF Closed
    <2>3. T \in SUBSET Positions
      BY DEF Reached
    <2>. QED  BY <1>2, <2>2, <2>3 DEF Reached
  <1>. QED  BY <1>1, <1>2 DEF Reached

(* The equation that defines Border. *)
LEMMA BorderEquation ==
  ASSUME Data, NEW i \in Positions
  PROVE  Border[i] <=> i = 0 \/ \E j \in 0 .. i - 1 : Border[j] /\ Header(j) /\ Behind(j) = i
  <1> DEFINE Eq(b) == b = [k \in 0 .. Len(stream) |->
                             k = 0 \/ \E j \in 0 .. k - 1 : b[j] /\ Header(j) /\ Behind(j) = k]
  <1>l. Len(stream) \in Nat
    BY DEF Data
  <1>1. Eq([k \in 0 .. Len(stream) |-> k \in Reached])
    <2> DEFINE b == [k \in 0 .. Len(stream) |-> k \in Reached]
    <2>1. ASSUME NEW k \in 0 .. Len(stream)
          PROVE  (k \in Reached) = (k = 0 \/ \E j \in 0 .. k - 1 : b[j] /\ Header(j) /\ Behind(j) = k)
      <3>1. Reached \subseteq 0 .. Len(stream)
        BY DEF Reached, Positions
      <3>2. \A j \in 0 .. k - 1 : j \in 0 .. Len(stream) /\ b[j] = (j \in Reached)
        BY <1>l
      <3>4. \A j \in Reached : j < k <=> j \in 0 .. k - 1
        BY <1>l, <3>1
      <3> HIDE DEF b
      <3>3. Reaches(Reached, k) <=> (k = 0 \/ \E j \in 0 .. k - 1 : b[j] /\ Header(j) /\ Behind(j) = k)
        BY <3>2, <3>4, Zenon DEF Reaches
      <3>. QED  BY <3>3, ReachedFixpoint DEF Positions
    <2>. QED  BY <2>1
  <1>2. Eq(Border)
    BY <1>1 DEF Border
  <1>. QED  BY <1>2 DEF Positions

(* The bytes of a stream are numbers or Plain. *)
LEMMA HeaderSize ==
  ASSUME Data, NEW j \in Nat, j < Len(stream), Header(j)
  PROVE  /\ stream[j + 1] \in Nat
         /\ Behind(j) \in Nat /\ Behind(j) >= j + HeadLen /\ Behind(j) > j
  <1>1. stream[j + 1] \in Byte
    BY PacketSyncAssumption DEF Data
  <1>. QED  BY <1>1, PacketSyncAssumption DEF Header, Behind, Byte, Plain

(* Behind a packet that begins at a border lies a border. *)
LEMMA NextBorder ==
  ASSUME Data, NEW j \in Nat, j < Len(stream), Border[j], Header(j), Behind(j) <= Len(stream)
  PROVE  Border[Behind(j)]
  <1>1. Behind(j) \in Positions /\ j \in 0 .. Behind(j) - 1
    BY HeaderSize DEF Positions, Data
  <1>. QED  BY <1>1, BorderEquation

(* A border that is not the last is followed by a whole packet, and the     *)
(* next border is behind that packet.                                       *)
Crossed(x, y) == Border[x] /\ Border[y] /\ x < y /\ ~(Header(x) /\ Behind(x) <= y)

LEMMA NoneCrossed ==
  ASSUME Data, NEW x \in Positions, NEW y \in Positions
  PROVE  ~Crossed(x, y)
  <1> DEFINE T == {v \in Positions : \E u \in Positions : Crossed(u, v)}
  <1>1. SUFFICES ASSUME T # {} PROVE FALSE
    BY Zenon
  <1>2. T \subseteq Nat
    BY DEF Positions
  <1>3. PICK v \in T : \A w \in T : v <= w
    BY <1>1, <1>2, LeastOf
  <1>4. PICK u \in Positions : Crossed(u, v)
    OBVIOUS
  <1>5. v \in Positions /\ v # 0 /\ u < v /\ Border[u]
    BY <1>4 DEF Crossed, Positions
  <1>6. PICK z \in 0 .. v - 1 : Border[z] /\ Header(z) /\ Behind(z) = v
    BY <1>4, <1>5, BorderEquation DEF Crossed
  <1>7. z \in Positions /\ z < v
    BY <1>5 DEF Positions
  <1>8. CASE u = z
    BY <1>4, <1>6, <1>8 DEF Crossed, Positions
  <1>9. CASE u < z
    <2>1. z \notin T
      BY <1>3, <1>5, <1>7 DEF Positions
    <2>2. ~Crossed(u, z)
      BY <2>1, <1>7
    <2>3. Header(u) /\ Behind(u) <= z
      BY <2>2, <1>5, <1>6, <1>9 DEF Crossed
    <2>4. Behind(u) \in Nat
      BY <2>3, <1>5, HeaderSize DEF Positions, Data
    <2>5. Behind(u) <= v
      BY <2>3, <2>4, <1>5, <1>7 DEF Positions
    <2>. QED  BY <2>3, <2>5, <1>4 DEF Crossed
  <1>10. CASE z < u
    <2>1. u \notin T
      BY <1>3, <1>5 DEF Positions
    <2>2. ~Crossed(z, u)
      BY <2>1, <1>7, <1>5
    <2>3. Behind(z) <= u
      BY <2>2, <1>5, <1>6, <1>10 DEF Crossed
    <2>. QED  BY <2>3, <1>5, <1>6 DEF Positions
  <1>. QED  BY <1>5, <1>7, <1>8, <1>9, <1>10 DEF Positions

-----------------------------------------------------------------------------
(* The cutting of a stream that consists of packets.                        *)

BordersBefore(n) == {j \in 0 .. n - 1 : Border[j]}

(* All borders up to taken have been cut at, and the loop stops only for    *)
(* want of the rest of a packet.                                            *)
CutSoFar ==
  Border[Len(stream)] =>
    /\ Border[taken]
    /\ {packets[i].at : i \in 1 .. Len(packets)} = BordersBefore(taken)
    /\ Len(packets) <= taken
    /\ \A j \in BordersBefore(taken) : j + HeadLen < fed
    /\ ~calling /\ fed - taken > HeadLen => Behind(taken) > fed

CInv == PInv /\ CutSoFar

LEMMA SmallMod ==
  ASSUME NEW n \in Nat, NEW w \in Nat, n < w PROVE n % w = n
  OBVIOUS

(* At a border of such a stream, short of its end, stands a header. *)
LEMMA AtBorder ==
  ASSUME Data, Border[Len(stream)], NEW j \in Nat, j < Len(stream), Border[j]
  PROVE  /\ Header(j) /\ stream[j + 1] # Plain
         /\ Behind(j) \in j + HeadLen .. Len(stream)
         /\ (stream[j + 1] + HeadLen) % Width = Behind(j) - j
         /\ Border[Behind(j)]
         /\ BordersBefore(Behind(j)) = BordersBefore(j) \cup {j}
  <1>1. Len(stream) \in Nat
    BY DEF Data
  <1>2. Header(j) /\ Behind(j) <= Len(stream)
    BY <1>1, NoneCrossed DEF Crossed, Positions
  <1>3. stream[j + 1] \in Nat /\ Behind(j) \in Nat /\ Behind(j) >= j + HeadLen /\ Behind(j) > j
    BY <1>2, HeaderSize
  <1>4. Border[Behind(j)]
    BY <1>2, NextBorder
  <1>5. ASSUME NEW k \in 0 .. Behind(j) - 1, Border[k], k > j PROVE FALSE
    BY <1>1, <1>2, <1>3, <1>5, NoneCrossed DEF Crossed, Positions
  <1>6. BordersBefore(Behind(j)) = BordersBefore(j) \cup {j}
    BY <1>3, <1>5 DEF BordersBefore
  <1>7. (stream[j + 1] + HeadLen) % Width = stream[j + 1] + HeadLen
    BY <1>2, <1>3, SmallMod, PacketSyncAssumption DEF Header
  <1>. QED  BY <1>1, <1>2, <1>3, <1>4, <1>6, <1>7, PacketSyncAssumption DEF Behind, Header

LEMMA CutSoFarInit == Init => CutSoFar
  <1> SUFFICES ASSUME Init PROVE CutSoFar
    OBVIOUS
  <1>1. Data
    BY PInvInit DEF PInv
  <1>2. Border[0]
    <2>1. 0 \in Positions
      BY <1>1 DEF Data, Positions
    <2>. QED  BY <1>1, <2>1, BorderEquation
  <1>3. ~(fed - taken > HeadLen)
    BY PacketSyncAssumption DEF Init
  <1>. QED  BY <1>2, <1>3 DEF Init, CutSoFar, BordersBefore

LEMMA CutSoFarStep == CInv /\ [Next]_vars => CutSoFar'
  <1> SUFFICES ASSUME CInv, [Next]_vars PROVE CutSoFar'
    OBVIOUS
  <1>a. UNCHANGED stream
    <2>1. ASSUME Next PROVE UNCHANGED stream
      BY <2>1, Zenon DEF Next, OnPackageCBEvent, OnRecvData, Loop, CutPacket, Resync, Return
    <2>. QED  BY <2>1 DEF vars
  <1>b. Border' = Border /\ (\A n : BordersBefore(n)' = BordersBefore(n)) /\ (\A j : Behind(j)' = Behind(j))
    BY <1>a DEF Border, Header, Behind, BordersBefore
  <1> HIDE DEF Border
  <1> SUFFICES ASSUME Border[Len(stream)] PROVE CutSoFar'
    BY <1>a, <1>b DEF CutSoFar
  <1>d. /\ Data /\ BufferIsInput /\ CutSoFar /\ Len(stream) \in Nat /\ HeadLen \in Nat
        /\ taken \in Nat /\ fed \in taken .. Len(stream)
    BY PacketSyncAssumption DEF CInv, PInv, Data
  <1>1. CASE OnPackageCBEvent
    BY <1>1, <1>b, <1>d DEF OnPackageCBEvent, CutSoFar
  <1>2. ASSUME NEW len \in 0 .. Len(stream) - fed, OnRecvData(len) PROVE CutSoFar'
    <2>1. fed' \in Nat /\ fed' >= fed /\ calling' /\ UNCHANGED <<taken, packets>>
      BY <1>2, <1>d DEF OnRecvData
    <2>2. ASSUME NEW j \in BordersBefore(taken) PROVE j + HeadLen < fed'
      <3>1. j \in Nat /\ j + HeadLen < fed
        BY <1>d, <2>2 DEF CutSoFar, BordersBefore
      <3>. QED  BY <2>1, <1>d, <3>1
    <2>. QED  BY <2>1, <2>2, <1>b, <1>d DEF CutSoFar
  <1>3. CASE CutPacket
    <2>1. /\ calling' /\ Len(buffer) > HeadLen /\ buffer # <<>>
          /\ taken' = taken + PackSize /\ fed' = fed
      BY <1>3, <1>d DEF CutPacket, Looks, Drop
    <2>2. Len(buffer) = fed - taken /\ buffer[1] = stream[taken + 1] /\ taken < fed
      BY <1>d, <2>1, FirstByte
    <2>3. Border[taken] /\ taken < Len(stream)
      BY <1>d, <2>2 DEF CutSoFar
    <2>4. PackSize = Behind(taken) - taken
      BY <1>d, <2>2, <2>3, AtBorder DEF PackSize
    <2>5. /\ taken' = Behind(taken) /\ taken' \in Nat /\ taken' > taken
          /\ Border[taken'] /\ BordersBefore(taken') = BordersBefore(taken) \cup {taken}
      BY <1>d, <2>1, <2>3, <2>4, AtBorder, PacketSyncAssumption
    <2> DEFINE p == [at |-> taken, len |-> PackSize, heard |-> callback]
    <2>6. packets' = Append(packets, p) /\ packets \in Seq(Packet) /\ p \in Packet /\ p.at = taken
      <3>1. packets \in Seq(Packet) /\ Len(packets) <= Len(stream)
        BY <1>d DEF CutSoFar, Data
      <3>2. PackSize \in Nat /\ callback \in BOOLEAN
        BY <1>d, <2>4, <2>5 DEF CInv, PInv, Flags
      <3>. QED  BY <3>1, <3>2, <1>3, <1>d DEF CutPacket, Record, Packet
    <2> HIDE DEF p
    <2>7. /\ Len(packets') = Len(packets) + 1 /\ Len(packets) \in Nat
          /\ packets'[Len(packets) + 1] = p
          /\ \A i \in 1 .. Len(packets) : packets'[i] = packets[i]
      BY <2>6
    <2>8. {packets'[i].at : i \in 1 .. Len(packets')} = {packets[i].at : i \in 1 .. Len(packets)} \cup {taken}
      <3>1. 1 .. Len(packets') = (1 .. Len(packets)) \cup {Len(packets) + 1}
        BY <2>7
      <3>. QED  BY <3>1, <2>6, <2>7
    <2>9. {packets'[i].at : i \in 1 .. Len(packets')} = BordersBefore(taken') /\ Len(packets') <= taken'
      <3>1. {packets'[i].at : i \in 1 .. Len(packets')} = BordersBefore(taken')
        BY <2>5, <2>8, <1>d, Zenon DEF CutSoFar
      <3>2. Len(packets) <= taken
        BY <1>d DEF CutSoFar
      <3>3. Len(packets') <= taken'
        BY <2>5, <2>7, <3>2, <1>d
      <3>. QED  BY <3>1, <3>3
    <2>10. \A j \in BordersBefore(taken') : j + HeadLen < fed'
      BY <2>1, <2>2, <2>5, <1>d DEF CutSoFar
    <2>. QED  BY <2>1, <2>5, <2>9, <2>10, <1>b DEF CutSoFar
  <1>4. CASE Resync
    <2>1. Len(buffer) > HeadLen /\ buffer # <<>> /\ buffer[1] = Plain
      BY <1>4, <1>d DEF Resync, Looks
    <2>2. stream[taken + 1] = Plain /\ taken < Len(stream) /\ Border[taken]
      BY <2>1, <1>d, FirstByte DEF CutSoFar
    <2>. QED  BY <2>2, <1>d, AtBorder
  <1>5. CASE Return
    <2>1. ~calling' /\ UNCHANGED <<taken, fed, packets>>
      BY <1>5 DEF Return
    <2>2. ASSUME fed - taken > HeadLen PROVE Behind(taken) > fed
      <3>1. Len(SubSeq(stream, taken + 1, fed)) = fed - taken
        BY <1>d, <2>2, PacketSyncAssumption DEF Data
      <3>2. Len(buffer) = fed - taken /\ buffer # <<>>
        BY <3>1, <1>d, <2>2 DEF BufferIsInput
      <3>3. buffer[1] = stream[taken + 1] /\ taken < fed /\ PackSize > Len(buffer)
        BY <1>5, <1>d, <2>2, <3>2, FirstByte DEF Return
      <3>4. Border[taken] /\ taken < Len(stream)
        BY <1>d, <3>3 DEF CutSoFar
      <3>5. PackSize = Behind(taken) - taken /\ Behind(taken) \in Nat
        BY <1>d, <3>3, <3>4, AtBorder DEF PackSize
      <3>. QED  BY <1>d, <3>2, <3>3, <3>5
    <2>. QED  BY <2>1, <2>2, <1>b, <1>d DEF CutSoFar
  <1>6. CASE UNCHANGED vars
    BY <1>6, <1>b, <1>d DEF vars, CutSoFar
  <1>. QED
    BY <1>1, <1>2, <1>3, <1>4, <1>5, <1>6 DEF Next, Loop

(* A stream of packets is cut at its packets, however it was cut into the   *)
(* pieces that arrived: of what has come every whole packet, and nothing    *)
(* else, has been cut off when OnRecvData returns.                          *)
THEOREM PacketsAtBorders == SafeSpec => []CutsAtBorders
  <1>1. CInv => CutsAtBorders
    <2> SUFFICES ASSUME CInv, Border[Len(stream)], ~calling
                 PROVE  {packets[i].at : i \in 1 .. Len(packets)} =
                          {j \in 0 .. fed - 1 : Border[j] /\ Behind(j) <= fed /\ j + HeadLen < fed}
      BY DEF CutsAtBorders
    <2>1. /\ Data /\ CutSoFar /\ Len(stream) \in Nat /\ HeadLen \in Nat
          /\ taken \in Nat /\ fed \in taken .. Len(stream)
      BY PacketSyncAssumption DEF CInv, PInv, Data
    <2>2. ASSUME NEW j \in BordersBefore(taken)
          PROVE  j \in 0 .. fed - 1 /\ Border[j] /\ Behind(j) <= fed /\ j + HeadLen < fed
      <3>1. j \in Nat /\ j < taken /\ Border[j] /\ j + HeadLen < fed
        BY <2>1 DEF BordersBefore, CutSoFar
      <3>2. Behind(j) <= taken /\ Behind(j) \in Nat
        BY <2>1, <3>1, NoneCrossed, AtBorder DEF CutSoFar, Crossed, Positions
      <3>. QED  BY <2>1, <3>1, <3>2
    <2>3. ASSUME NEW j \in 0 .. fed - 1, Border[j], Behind(j) <= fed, j + HeadLen < fed, j >= taken
          PROVE  FALSE
      <3>1. CASE j = taken
        <4>1. fed - taken > HeadLen
          BY <2>1, <2>3, <3>1
        <4>2. Behind(taken) > fed /\ Behind(taken) \in Int
          <5>1. Border[taken] /\ taken < Len(stream)
            BY <2>1, <2>3, <3>1
          <5>2. Behind(taken) \in taken + HeadLen .. Len(stream)
            BY <2>1, <5>1, AtBorder
          <5>. QED  BY <2>1, <4>1, <5>2 DEF CutSoFar
        <4>. QED  BY <2>1, <2>3, <3>1, <4>2
      <3>2. CASE j > taken
        <4>1. Border[taken] /\ taken < Len(stream)
          BY <2>1, <2>3, <3>2 DEF CutSoFar
        <4>2. Behind(taken) \in taken + HeadLen .. j
          BY <2>1, <2>3, <3>2, <4>1, AtBorder, NoneCrossed DEF Crossed, Positions
        <4>. QED  BY <2>1, <2>3, <3>2, <4>2 DEF CutSoFar
      <3>. QED  BY <2>1, <2>3, <3>1, <3>2
    <2>4. BordersBefore(taken) =
            {j \in 0 .. fed - 1 : Border[j] /\ Behind(j) <= fed /\ j + HeadLen < fed}
      BY <2>1, <2>2, <2>3 DEF BordersBefore
    <2>. QED  BY <2>1, <2>4 DEF CutSoFar
  <1>2. Init => CInv
    BY PInvInit, CutSoFarInit DEF CInv
  <1>3. CInv /\ [Next]_vars => CInv'
    BY PInvNext, CutSoFarStep DEF CInv
  <1>. QED  BY <1>1, <1>2, <1>3, PTL DEF SafeSpec
=============================================================================
