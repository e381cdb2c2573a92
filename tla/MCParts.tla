------------------------------- MODULE MCParts -------------------------------
(***************************************************************************)
(* The parts of the library that UDPImp does not run, for TLC: PacketSync, *)
(* CUVThread with BaseKits, and the storage.  They share nothing, so a     *)
(* behaviour is of one of them.                                            *)
(*                                                                         *)
(* Every stream of at most MaxStream bytes over some sizes: with a header  *)
(* of 2 bytes and integers below 8, the sizes 6 and 7 make pack_size wrap  *)
(* to 0 and 1.  Two addresses of IPv4, so that their order tells, one of   *)
(* IPv6, and an interface with neither.                                    *)
(***************************************************************************)
EXTENDS PacketSync, Kits, Storage

CONSTANT MaxStream

VARIABLE part   (* which of them this behaviour is of *)

MCInit ==
  /\ part \in {"packet", "kits", "storage"}
  /\ Init /\ (part = "packet" \/ stream = <<>>)
  /\ KitsInit
  /\ StorageInit

MCNext ==
  /\ UNCHANGED part
  /\ \/ part = "packet" /\ Next /\ UNCHANGED <<kitsVars, storageVars>>
     \/ part = "kits" /\ KitsNext /\ UNCHANGED <<vars, storageVars>>
     \/ part = "storage" /\ StorageNext /\ UNCHANGED <<vars, kitsVars>>

(* Fair as PacketSync is. *)
MCSpec == MCInit /\ [][MCNext]_<<vars, kitsVars, storageVars, part>> /\ WF_vars(Loop)

ShortStreams == UNION {[1 .. n -> {Plain, 0, 2, 6, 7}] : n \in 0 .. MaxStream}

MCInterfaces ==
  {[name |-> "eth0", sin_family |-> "AF_INET"], [name |-> "lo", sin_family |-> "AF_INET"],
   [name |-> "lo", sin_family |-> "AF_INET6"], [name |-> "eth0", sin_family |-> "AF_PACKET"]}
=============================================================================
