------------------------------- MODULE Storage -------------------------------
(***************************************************************************)
(* What the code takes from malloc and gives back: the events and the      *)
(* parameters of requests (Packet.h), the buffer of PacketSync, the pool   *)
(* SendEventPlus_ (UDPImp.h), UDPCTX (UDPImp.cc) and BaseKits::Format.     *)
(* Every malloc may fail; the code looks at some of the results.           *)
(*                                                                         *)
(* There is at most one object of a kind at a time.  A block is counted    *)
(* for the member it was allocated for; what the member points to may      *)
(* change without the block being freed.  Objects made with new are not    *)
(* counted; new does not fail.                                             *)
(***************************************************************************)
EXTENDS Naturals

CONSTANTS
  PoolSize,   (* event_count of SetCount; the code says 10 *)
  MaxPools    (* bound on the pools made one after the other *)

ASSUME StorageAssumption == PoolSize \in Nat \ {0} /\ MaxPools \in Nat

Objects == {"UvEvent", "write_param", "send_param", "PacketSync", "UDPCTX", "SendEventPlus", "Format"}

(* A member that is a pointer: of which object, its name, and for a member  *)
(* of an event of the pool the number of the event.  "self" is the pointer  *)
(* to the object.                                                           *)
Events == 1 .. PoolSize
Buff(i) == <<"SendEventPlus", "_buff", i>>
Data(i) == <<"SendEventPlus", "_data", i>>
Buffs == {Buff(i) : i \in Events}
Datas == {Data(i) : i \in Events}
M(o, name) == <<o, name, 0>>
Member ==
  {M("UvEvent", "_buff"), M("write_param", "self"), M("write_param", "base"),
   M("send_param", "self"), M("send_param", "base"), M("PacketSync", "base"),
   M("UDPCTX", "self"), M("UDPCTX", "read_buf_"), M("UDPCTX", "send_buf_"), M("Format", "pbuf")}
  \cup Buffs \cup Datas

VARIABLES
  live,       (* the objects there are                                      *)
  pointer,    (* of each member: what it points to                          *)
  blocks,     (* of each member: the blocks malloc gave for it, not freed   *)
  pools,      (* pools made so far                                          *)
  badFree,    (* history: free was given what malloc did not give           *)
  crashed     (* history: a write where malloc had given nothing            *)

storageVars == <<live, pointer, blocks, pools, badFree, crashed>>

StorageInit ==
  /\ live = {}
  /\ pointer = [m \in Member |-> "none"]
  /\ blocks = [m \in Member |-> 0]
  /\ pools = 0
  /\ badFree = FALSE
  /\ crashed = FALSE

-----------------------------------------------------------------------------
(* o is made, and of its mallocs those for got succeed. *)
Make(o, got) ==
  /\ o \notin live
  /\ live' = live \cup {o}
  /\ pointer' = [m \in Member |-> IF m \in got THEN "block"
                                  ELSE IF m[1] = o THEN "null" ELSE pointer[m]]
  /\ blocks' = [m \in Member |-> IF m \in got THEN blocks[m] + 1 ELSE blocks[m]]
  /\ UNCHANGED badFree

(* free of each of ms; free(NULL) does nothing. *)
Free(ms) ==
  /\ blocks' = [m \in Member |-> IF m \in ms /\ pointer[m] = "block" THEN blocks[m] - 1 ELSE blocks[m]]
  /\ badFree' = (\E m \in ms : pointer[m] \notin {"null", "block"})

(* o is no more, nor are its members. *)
Delete(o) ==
  /\ o \in live
  /\ live' = live \ {o}
  /\ pointer' = [m \in Member |-> IF m[1] = o THEN "none" ELSE pointer[m]]
  /\ UNCHANGED <<pools, crashed>>

NotNull(ms) == {m \in ms : pointer[m] # "null"}

-----------------------------------------------------------------------------
(* Packet.h.  With pBuff, CreateUvEvent copies it into _buff untested. *)
CreateUvEvent ==
  /\ \/ Make("UvEvent", {}) /\ crashed' \in BOOLEAN
     \/ Make("UvEvent", {M("UvEvent", "_buff")}) /\ UNCHANGED crashed
  /\ UNCHANGED pools

(* Mutant of FreeUvEvent: the event goes without its _buff. *)
FreeUvEvent_KeepsBuff ==
  /\ Delete("UvEvent")
  /\ UNCHANGED <<blocks, badFree>>

FreeUvEvent ==
  /\ Delete("UvEvent")
  /\ Free(NotNull({M("UvEvent", "_buff")}))

(* AllocWriteParam and AllocSendParam look at no result; buf_ is a member   *)
(* of the block param points to.  Without memory for buf_ they return all   *)
(* the same.                                                                *)
AllocParam(o) ==
  /\ \/ \E got \in SUBSET {M(o, "base")} : Make(o, got \cup {M(o, "self")}) /\ UNCHANGED crashed
     \/ Make(o, {}) /\ crashed' = TRUE
  /\ UNCHANGED pools

FreeParam(o) ==
  /\ Delete(o)
  /\ Free({M(o, "base"), M(o, "self")})

NewPacketSync ==
  /\ \E got \in SUBSET {M("PacketSync", "base")} : Make("PacketSync", got)
  /\ UNCHANGED <<pools, crashed>>

DeletePacketSync ==
  /\ Delete("PacketSync")
  /\ Free({M("PacketSync", "base")})

(* OnRecvData copies what it is given to the buffer.  To make that longer   *)
(* realloc gives another and takes the old one; if it fails the old one     *)
(* stays, and the pointer to it is overwritten.                             *)
OnRecvDataCopies ==
  LET base == M("PacketSync", "base") IN
  /\ "PacketSync" \in live
  /\ \/ UNCHANGED <<pointer, blocks>>
     \/ pointer' = [pointer EXCEPT ![base] = "block"] /\ blocks' = [blocks EXCEPT ![base] = 1]
     \/ pointer' = [pointer EXCEPT ![base] = "null"] /\ UNCHANGED blocks
  /\ crashed' = (pointer'[base] = "null")
  /\ UNCHANGED <<live, pools, badFree>>

-----------------------------------------------------------------------------
(* UDPImp.h.  SetCount, which the constructor calls, gives each event a     *)
(* _buff, cleared untested, and a byte for _data.                           *)
SetCount ==
  /\ pools < MaxPools
  /\ pools' = pools + 1
  /\ \E got \in SUBSET (Buffs \cup Datas) :
       Make("SendEventPlus", got) /\ crashed' = ~(Buffs \subseteq got)

(* UDPImp::Send puts its handle into _data, where the byte was. *)
SendSetsData ==
  /\ "SendEventPlus" \in live
  /\ \E i \in Events : pointer' = [pointer EXCEPT ![Data(i)] = "handle"]
  /\ UNCHANGED <<live, blocks, pools, badFree, crashed>>

(* Mutant of PoolUnInit: _data is freed with _buff. *)
PoolUnInit_FreesData ==
  /\ Delete("SendEventPlus")
  /\ Free(NotNull(Buffs) \cup {Data(i) : i \in {j \in Events : pointer[Buff(j)] # "null"}})

(* SendEventPlus_::UnInit frees _buff and forgets _data, and with the map   *)
(* the events go.                                                           *)
PoolUnInit ==
  /\ Delete("SendEventPlus")
  /\ Free(NotNull(Buffs))

(* UDPImp.cc.  The buffers are given to libuv or written only if they are   *)
(* there.  Without a block of its own there is no UDPCTX: nothing happens.  *)
NewUDPCTX ==
  /\ \E got \in SUBSET {M("UDPCTX", "read_buf_"), M("UDPCTX", "send_buf_")} :
       Make("UDPCTX", got \cup {M("UDPCTX", "self")})
  /\ UNCHANGED <<pools, crashed>>

DelUDPCTX ==
  /\ Delete("UDPCTX")
  /\ Free(NotNull({M("UDPCTX", "read_buf_"), M("UDPCTX", "send_buf_")}) \cup {M("UDPCTX", "self")})

-----------------------------------------------------------------------------
(* BaseKits::Format, as an object that lives while the call does.  An empty *)
(* text needs no buffer, and without a buffer the text is empty.  If        *)
(* vsnprintf fails the end of the text is put before the buffer, and a      *)
(* format with arguments has them read a second time without va_start, so   *)
(* the call need not come to its end.                                       *)
FormatBegin ==
  /\ \E got \in SUBSET {M("Format", "pbuf")} : Make("Format", got)
  /\ UNCHANGED <<pools, crashed>>

FormatEnd ==
  \/ Delete("Format") /\ Free(NotNull({M("Format", "pbuf")}))
  \/ /\ pointer[M("Format", "pbuf")] = "block"
     /\ crashed' = TRUE
     /\ UNCHANGED <<live, pointer, blocks, pools, badFree>>

-----------------------------------------------------------------------------
StorageNext ==
  /\ ~crashed /\ ~badFree
  /\ \/ CreateUvEvent \/ FreeUvEvent
     \/ \E o \in {"write_param", "send_param"} : AllocParam(o) \/ FreeParam(o)
     \/ NewPacketSync \/ OnRecvDataCopies \/ DeletePacketSync
     \/ SetCount \/ SendSetsData \/ PoolUnInit \/ NewUDPCTX \/ DelUDPCTX
     \/ FormatBegin \/ FormatEnd

StorageSpec == StorageInit /\ [][StorageNext]_storageVars

-----------------------------------------------------------------------------
(* Whatever was sent and whichever malloc failed, free is given only what   *)
(* malloc gave and nothing twice; above all, never the handle that Send     *)
(* leaves in _data (Free..., DelUDPCTX, SendEventPlus_::UnInit, Send).      *)
FreesOnlyBlocks == ~badFree

(* As long as the program runs, no block is lost but the bytes of _data:    *)
(* any other still allocated is one a member of a live object points to     *)
(* (Free..., DelUDPCTX, SendEventPlus_::UnInit, ~PacketSync, OnRecvData).   *)
OnlyDataLost ==
  ~crashed => \A m \in Member \ Datas : blocks[m] = IF pointer[m] = "block" THEN 1 ELSE 0
=============================================================================
