--------------------------------- MODULE Kits ---------------------------------
(***************************************************************************)
(* Two helpers no other part of the library uses: CUVThread (uv_utils.h),  *)
(* which starts and joins a thread, and BaseKits (icommonunication.cc),    *)
(* which lists the addresses of the interfaces.  The function given to the *)
(* CUVThread is BaseKits::IPAll over the list of the owner; so the owner   *)
(* that has joined the thread may read the list.                           *)
(***************************************************************************)
EXTENDS Integers, SequencesExt

CONSTANTS
  Interfaces,   (* what uv_interface_addresses may report: a name, a family *)
  MaxCount,     (* bound on the interfaces it reports at once               *)
  MaxStarts     (* bound on the threads created                             *)

ASSUME KitsAssumption ==
  /\ \A a \in Interfaces : a.sin_family \in {"AF_INET", "AF_INET6", "AF_PACKET"}
  /\ MaxCount \in Nat
  /\ MaxStarts \in Nat

VARIABLES
  isrunning_,   (* CUVThread: the flag                                      *)
  thread_,      (* CUVThread: the thread it would join, 0 = never written   *)
  starts,       (* threads created; they are 1, 2 ...                       *)
  joined,       (* threads joined                                           *)
  gone,         (* the CUVThread is destroyed                               *)
  pc,           (* where the thread's function is: its end is "ended"       *)
  info, i,      (* IPV4, IPV6: the interfaces, and how many are to do       *)
  buf,          (* IPV4, IPV6: a text, here the interface it is of           *)
  out_list,     (* the list of the owner                                    *)
  failed,       (* history: a call of libuv failed                          *)
  undefined,    (* history: something was used that was never written, or   *)
                (* a thread was joined that is no more                      *)
  wanted        (* history: what the list should hold                       *)

threadVars == <<isrunning_, thread_, joined, gone>>
listVars == <<info, i, buf, out_list, wanted>>
kitsVars == <<threadVars, listVars, starts, pc, failed, undefined>>

NoText == [name |-> "", sin_family |-> "none"]   (* buf[0] = 0 *)

Item(a) == [m_name |-> a.name, m_value |-> a]

(* The items of the interfaces at the positions T, the last one first: at n *)
(* stands the one that T has n positions from, up to the last.             *)
LastFirst(table, T) ==
  [n \in 1 .. Cardinality(T) |->
     Item(table[CHOOSE k \in T : Cardinality({m \in T : m >= k}) = n])]

(* The reference: the addresses of a family, last interface first. *)
Addresses(table, family) ==
  LastFirst(table, {k \in DOMAIN table : table[k].sin_family = family})

KitsInit ==
  /\ isrunning_ = FALSE
  /\ thread_ = 0
  /\ starts = 0
  /\ joined = {}
  /\ gone = FALSE
  /\ pc = "ended"
  /\ info = <<>> /\ i = 0
  /\ buf = NoText
  /\ out_list = <<>>
  /\ failed = FALSE
  /\ undefined = FALSE
  /\ wanted = <<>>

-----------------------------------------------------------------------------
(* The owner of the CUVThread.                                              *)

Live == ~gone /\ ~undefined

(* Start: if uv_thread_create fails there is no thread, and the flag is set. *)
Start ==
  /\ Live /\ ~isrunning_
  /\ isrunning_' = TRUE
  /\ \/ /\ starts < MaxStarts
        /\ starts' = starts + 1
        /\ thread_' = starts'
        /\ pc' = "IPV4"
        /\ UNCHANGED failed
     \/ failed' = TRUE /\ UNCHANGED <<starts, thread_, pc>>
  /\ UNCHANGED <<joined, gone, listVars, undefined>>

(* uv_thread_join waits for the end of the thread. *)
UvThreadJoin ==
  /\ pc = "ended" \/ thread_ # starts
  /\ joined' = joined \cup {thread_}
  /\ undefined' = (thread_ = 0 \/ thread_ \in joined)

(* Mutant of Stop: the flag stays. *)
Stop_StaysRunning ==
  /\ Live /\ isrunning_
  /\ UvThreadJoin
  /\ UNCHANGED <<isrunning_, starts, thread_, gone, pc, listVars, failed>>

Stop ==
  /\ Live /\ isrunning_
  /\ UvThreadJoin
  /\ isrunning_' = FALSE
  /\ UNCHANGED <<starts, thread_, gone, pc, listVars, failed>>

(* ~CUVThread *)
Destroy ==
  /\ Live
  /\ \/ isrunning_ /\ UvThreadJoin
     \/ ~isrunning_ /\ UNCHANGED <<joined, undefined>>
  /\ isrunning_' = FALSE
  /\ gone' = TRUE
  /\ UNCHANGED <<starts, thread_, pc, listVars, failed>>

-----------------------------------------------------------------------------
(* The thread: IPAll is IPV4, then IPV6.                                    *)

FamilyOf(step) == IF step \in {"IPV4", "while4"} THEN "AF_INET" ELSE "AF_INET6"

(* uv_interface_addresses, with its result ignored: when it fails count is *)
(* 0, or was never written.                                                *)
UvInterfaceAddresses ==
  /\ ~undefined
  /\ pc \in {"IPV4", "IPV6"}
  /\ pc' = IF pc = "IPV4" THEN "while4" ELSE "while6"
  /\ \/ info' \in BoundedSeq(Interfaces, MaxCount) /\ UNCHANGED <<failed, undefined>>
     \/ info' = <<>> /\ failed' = TRUE /\ undefined' \in BOOLEAN
  /\ i' = Len(info')
  /\ buf' = NoText
  /\ wanted' = wanted \o Addresses(info', FamilyOf(pc))
  /\ UNCHANGED <<threadVars, starts, out_list>>

(* Mutant of NextAddress: the text of an address stays in buf. *)
NextAddress_KeepsText ==
  /\ ~undefined /\ pc \in {"while4", "while6"} /\ i > 0
  /\ i' = i - 1
  /\ LET interface == info[i]
         text == IF interface.sin_family = FamilyOf(pc) THEN interface ELSE buf
         item == [m_name |-> interface.name, m_value |-> text]
     IN /\ out_list' = IF text = NoText THEN out_list ELSE Append(out_list, item)
        /\ buf' = text
  /\ UNCHANGED <<threadVars, starts, pc, info, failed, undefined, wanted>>

(* One round of while (i--): the address of the family goes to the list. *)
NextAddress ==
  /\ ~undefined /\ pc \in {"while4", "while6"} /\ i > 0
  /\ i' = i - 1
  /\ LET interface == info[i]
         text == IF interface.sin_family = FamilyOf(pc) THEN interface ELSE buf
         item == [m_name |-> interface.name, m_value |-> text]
     IN /\ out_list' = IF text = NoText THEN out_list ELSE Append(out_list, item)
        /\ buf' = NoText
  /\ UNCHANGED <<threadVars, starts, pc, info, failed, undefined, wanted>>

LastAddress ==
  /\ ~undefined /\ pc \in {"while4", "while6"} /\ i = 0
  /\ pc' = IF pc = "while4" THEN "IPV6" ELSE "ended"
  /\ UNCHANGED <<threadVars, starts, listVars, failed, undefined>>

IPAll == UvInterfaceAddresses \/ NextAddress \/ LastAddress

KitsNext == Start \/ Stop \/ Destroy \/ IPAll

KitsSpec == KitsInit /\ [][KitsNext]_kitsVars

-----------------------------------------------------------------------------
(* A CUVThread joins each thread it created, once, before it creates the    *)
(* next or is destroyed, unless libuv failed (Start, Stop, ~CUVThread).     *)
JoinsItsThread ==
  ~failed => ~undefined /\ (~isrunning_ => joined = 1 .. starts /\ pc = "ended")

(* While no thread runs the list holds, for each query made, every address  *)
(* of its family under the name of its interface, the last interface first: *)
(* nothing twice and nothing left over from the round before (IPV4, IPV6).  *)
ListComplete == ~isrunning_ /\ ~undefined => out_list = wanted
=============================================================================
