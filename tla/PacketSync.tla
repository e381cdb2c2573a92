------------------------------ MODULE PacketSync ------------------------------
(***************************************************************************)
(* PacketSync (Packet.h): cuts a stream of bytes, which arrives in pieces  *)
(* of any length, into packets.  A packet is a header of HeadLen bytes     *)
(* (flag, type, dataSize) and dataSize bytes of data.                      *)
(*                                                                         *)
(* The byte a header starts with is represented by the dataSize of that    *)
(* header, any other byte by Plain; data may contain what looks like a     *)
(* header.                                                                 *)
(***************************************************************************)
EXTENDS Integers, Sequences

CONSTANTS
  Streams,      (* the streams that may arrive                             *)
  HeadLen,      (* NET_PACKAGE_HEADLEN                                     *)
  Width,        (* 2^32, the number of values of a uint32_t                *)
  BufferSize    (* PACK_BUFFER_SIZE                                        *)

Plain == -1
Byte == 0 .. Width - 1 \cup {Plain}
Packet == [at : Nat, len : Nat, heard : BOOLEAN]

ASSUME PacketSyncAssumption ==
  /\ HeadLen \in Nat \ {0}
  /\ Width \in Nat /\ HeadLen < Width
  /\ BufferSize \in Nat
  /\ Streams \subseteq Seq(Byte)

VARIABLES
  stream,       (* all that will ever arrive                               *)
  fed,          (* how much of it has been passed to OnRecvData            *)
  taken,        (* how much of that has left the buffer                    *)
  buffer,       (* read_data, up to real_packet_len                        *)
  room,         (* read_data.len                                           *)
  calling,      (* OnRecvData is running                                   *)
  callback,     (* _func_package_cb is set                                 *)
  packets       (* history: where each packet cut off began, how long it   *)
                (* was and whether the callback got it                     *)

vars == <<stream, fed, taken, buffer, room, calling, callback, packets>>

Init ==
  /\ stream \in Streams
  /\ fed = 0
  /\ taken = 0
  /\ buffer = <<>>
  /\ room = BufferSize
  /\ calling = FALSE
  /\ callback = FALSE
  /\ packets = <<>>

OnPackageCBEvent ==
  /\ ~calling
  /\ callback' = TRUE
  /\ UNCHANGED <<stream, fed, taken, buffer, room, calling, packets>>

(* Mutant of OnRecvData: the buffer grows to the length of the new piece. *)
OnRecvData_GrowsToPiece(len) ==
  /\ ~calling
  /\ calling' = TRUE
  /\ fed' = fed + len
  /\ buffer' = buffer \o SubSeq(stream, fed + 1, fed + len)
  /\ room' = IF len > room THEN len ELSE room
  /\ UNCHANGED <<stream, taken, callback, packets>>

(* The next len bytes arrive and are put behind what is left of earlier    *)
(* ones.                                                                   *)
OnRecvData(len) ==
  /\ ~calling
  /\ calling' = TRUE
  /\ fed' = fed + len
  /\ buffer' = buffer \o SubSeq(stream, fed + 1, fed + len)
  /\ room' = IF Len(buffer) + len > room THEN Len(buffer) + len ELSE room
  /\ UNCHANGED <<stream, taken, callback, packets>>

(* The loop looks for a packet only behind more than a header's length. *)
Looks == calling /\ Len(buffer) > HeadLen

(* Mutant of PackSize: the header is left out. *)
PackSize_DataOnly == buffer[1] % Width

(* pack_size, a sum of 32 bits. *)
PackSize == (buffer[1] + HeadLen) % Width

Drop(n) ==
  /\ taken' = taken + n
  /\ buffer' = SubSeq(buffer, n + 1, Len(buffer))

(* The history is kept finite: with a PackSize of 0 the loop goes on for    *)
(* ever.                                                                   *)
Record ==
  packets' = IF Len(packets) <= Len(stream)
               THEN Append(packets, [at |-> taken, len |-> PackSize, heard |-> callback])
               ELSE packets

(* Mutant of CutPacket: a packet is cut off before all of it has come. *)
CutPacket_TooSoon ==
  /\ Looks
  /\ buffer[1] # Plain
  /\ Drop(PackSize)
  /\ Record
  /\ UNCHANGED <<stream, fed, room, calling, callback>>

(* A whole packet is there: the callback, if set, gets it. *)
CutPacket ==
  /\ Looks
  /\ buffer[1] # Plain
  /\ PackSize <= Len(buffer)
  /\ Drop(PackSize)
  /\ Record
  /\ UNCHANGED <<stream, fed, room, calling, callback>>

(* No header where one should be: all that was received is thrown away. *)
Resync ==
  /\ Looks
  /\ buffer[1] = Plain
  /\ Drop(Len(buffer))
  /\ UNCHANGED <<stream, fed, room, calling, callback, packets>>

(* Mutant of Return: a packet that has come to its last byte is left. *)
Return_Early ==
  /\ calling
  /\ Len(buffer) > HeadLen => buffer[1] # Plain /\ PackSize >= Len(buffer)
  /\ calling' = FALSE
  /\ UNCHANGED <<stream, fed, taken, buffer, room, callback, packets>>

(* Mutant of Return: the loop waits for the rest of a packet. *)
Return_NeverMidPacket ==
  /\ calling
  /\ Len(buffer) <= HeadLen
  /\ calling' = FALSE
  /\ UNCHANGED <<stream, fed, taken, buffer, room, callback, packets>>

(* What is left is no longer than a header, or the start of a packet. *)
Return ==
  /\ calling
  /\ Len(buffer) > HeadLen => buffer[1] # Plain /\ PackSize > Len(buffer)
  /\ calling' = FALSE
  /\ UNCHANGED <<stream, fed, taken, buffer, room, callback, packets>>

Loop == CutPacket \/ Resync \/ Return

Next ==
  \/ OnPackageCBEvent
  \/ \E len \in 0 .. Len(stream) - fed : OnRecvData(len)
  \/ Loop

SafeSpec == Init /\ [][Next]_vars

(* A call that has begun goes on. *)
Spec == SafeSpec /\ WF_vars(Loop)

TypeOK ==
  /\ stream \in Streams
  /\ fed \in 0 .. Len(stream)
  /\ taken \in 0 .. fed
  /\ buffer \in Seq(Byte)
  /\ room \in Nat
  /\ calling \in BOOLEAN
  /\ callback \in BOOLEAN
  /\ packets \in Seq(Packet)

-----------------------------------------------------------------------------
(* The buffer holds what was received and not yet taken, in its order, and  *)
(* read_data is large enough for it (OnRecvData: realloc, memcpy, memmove). *)
BufferIsInput ==
  /\ buffer = SubSeq(stream, taken + 1, fed)
  /\ Len(buffer) <= room

(* Packet p begins with a header, has the length the header says, in 32     *)
(* bits, and ends where what follows it begins, or before.                  *)
WellCut(p, next) ==
  /\ p.at < Len(stream)
  /\ stream[p.at + 1] # Plain
  /\ p.len = (stream[p.at + 1] + HeadLen) % Width
  /\ p.at + p.len <= next

(* Packets are cut off where their headers say, in order and without        *)
(* overlap (OnRecvData).                                                    *)
PacketsInOrder ==
  \A i \in 1 .. Len(packets) :
    WellCut(packets[i], IF i < Len(packets) THEN packets[i + 1].at ELSE taken)

(* Behind j bytes of the stream stands a header whose packet has a length   *)
(* that fits in pack_size; Behind(j) is the end of that packet.             *)
Header(j) == stream[j + 1] # Plain /\ stream[j + 1] + HeadLen < Width
Behind(j) == j + HeadLen + stream[j + 1]

(* Reference: a packet border lies at the start, and behind each packet     *)
(* that begins at a border.                                                 *)
Border[i \in 0 .. Len(stream)] ==
  i = 0 \/ \E j \in 0 .. i - 1 : Border[j] /\ Header(j) /\ Behind(j) = i

(* How a stream of packets was cut into pieces makes no difference: when    *)
(* OnRecvData returns, each packet that has come completely has been cut    *)
(* off, but for a packet without data at the end of what came (OnRecvData). *)
CutsAtBorders ==
  Border[Len(stream)] /\ ~calling =>
    {packets[i].at : i \in 1 .. Len(packets)} =
      {j \in 0 .. fed - 1 : Border[j] /\ Behind(j) <= fed /\ j + HeadLen < fed}

(* OnRecvData returns, but for one dataSize, whose pack_size wraps to 0.    *)
Returns == calling ~> ~calling \/ (Looks /\ PackSize = 0)
=============================================================================
