----------------------------- MODULE Kits_proofs -----------------------------
(***************************************************************************)
(* Theorems about modules Kits and Storage, for every number of threads,   *)
(* any interfaces, every size of the pool and whichever mallocs fail.      *)
(***************************************************************************)
EXTENDS Kits, Storage, SequenceTheorems, FiniteSetTheorems, TLAPS

(* Until a call of libuv fails, the threads created are those joined and,   *)
(* while the flag is set, one more: the one to join.                       *)
Running == isrunning_ => starts > 0 /\ thread_ = starts /\ joined = 1 .. starts - 1
Stopped == ~isrunning_ => joined = 1 .. starts /\ pc = "ended"

ThreadInv ==
  /\ starts \in Nat
  /\ isrunning_ \in BOOLEAN
  /\ ~failed => ~undefined /\ Running /\ Stopped

-----------------------------------------------------------------------------
(* Joining the thread that runs is joining the one not joined before. *)
LEMMA JoinIsLast ==
  ASSUME ThreadInv, ~failed, isrunning_, UvThreadJoin
  PROVE  joined' = 1 .. starts /\ ~undefined' /\ pc = "ended"
  <1>1. starts \in Nat /\ starts > 0 /\ thread_ = starts /\ joined = 1 .. starts - 1
    BY DEF ThreadInv, Running
  <1>2. thread_ # 0 /\ thread_ \notin joined /\ joined \cup {thread_} = 1 .. starts
    BY <1>1
  <1>3. pc = "ended" /\ joined' = joined \cup {thread_}
        /\ undefined' = (thread_ = 0 \/ thread_ \in joined)
    BY <1>1, Zenon DEF UvThreadJoin
  <1>. QED  BY <1>2, <1>3, Zenon

(* A thread is joined once, and before the next is created or the object is *)
(* gone, unless libuv failed (Start, Stop, ~CUVThread).                     *)
THEOREM ThreadJoined == KitsSpec => []JoinsItsThread
<1>1. KitsInit => ThreadInv
  <2> SUFFICES ASSUME KitsInit PROVE ThreadInv
    OBVIOUS
  <2>1. starts \in Nat /\ isrunning_ = FALSE /\ joined = 1 .. starts /\ pc = "ended"
    BY DEF KitsInit
  <2>2. undefined = FALSE
    BY DEF KitsInit
  <2>. QED  BY <2>1, <2>2, Zenon DEF ThreadInv, Running, Stopped
<1>2. ThreadInv /\ [KitsNext]_kitsVars => ThreadInv'
  <2> SUFFICES ASSUME ThreadInv, [KitsNext]_kitsVars PROVE ThreadInv'
    OBVIOUS
  <2> USE DEF ThreadInv
  <2>1. CASE Start
    <3>1. CASE failed'
      <4>1. starts' \in Nat
        BY <2>1 DEF Start
      <4>2. isrunning_' \in BOOLEAN
        BY <2>1, Zenon DEF Start
      <4>. QED  BY <3>1, <4>1, <4>2
    <3>2. CASE ~failed'
      <4>1. ~failed /\ ~undefined' /\ starts' = starts + 1 /\ thread_' = starts + 1
            /\ isrunning_' = TRUE /\ joined' = 1 .. starts
        BY <2>1, <3>2 DEF Start, Stopped, listVars
      <4>. QED  BY <4>1 DEF Running, Stopped
    <3>. QED  BY <3>1, <3>2
  <2>2. CASE Stop \/ Destroy
    <3>1. starts' = starts /\ failed' = failed /\ pc' = pc /\ isrunning_' = FALSE
      BY <2>2 DEF Stop, Destroy
    <3>2. ASSUME ~failed PROVE ~undefined' /\ joined' = 1 .. starts /\ pc = "ended"
      <4>1. CASE isrunning_ /\ UvThreadJoin
        BY <3>2, <4>1, JoinIsLast
      <4>2. CASE ~isrunning_ /\ UNCHANGED <<joined, undefined>>
        BY <3>2, <4>2 DEF Stopped
      <4>. QED  BY <2>2, <4>1, <4>2 DEF Stop, Destroy
    <3>. QED  BY <3>1, <3>2 DEF Running, Stopped
  <2>3. CASE IPAll
    <3>1. UNCHANGED <<isrunning_, thread_, joined, starts>>
      BY <2>3 DEF IPAll, UvInterfaceAddresses, NextAddress, LastAddress, threadVars
    <3>2. pc # "ended"
      BY <2>3 DEF IPAll, UvInterfaceAddresses, NextAddress, LastAddress
    <3>3. ~failed' => ~failed /\ undefined' = undefined
      BY <2>3 DEF IPAll, UvInterfaceAddresses, NextAddress, LastAddress
    <3>. QED  BY <3>1, <3>2, <3>3 DEF Running, Stopped
  <2>4. CASE UNCHANGED kitsVars
    BY <2>4 DEF kitsVars, threadVars, Running, Stopped
  <2>. QED  BY <2>1, <2>2, <2>3, <2>4 DEF KitsNext
<1>3. ThreadInv => JoinsItsThread
  BY DEF ThreadInv, Stopped, JoinsItsThread
<1>. QED  BY <1>1, <1>2, <1>3, PTL DEF KitsSpec

-----------------------------------------------------------------------------
(* The reference list, one position more at its end.                        *)

Rank(T, k) == Cardinality({m \in T : m >= k})

LEMMA RankOf ==
  ASSUME NEW n \in Nat, NEW T \in SUBSET (1 .. n), NEW k \in T
  PROVE  /\ Cardinality(T) \in Nat
         /\ Rank(T, k) \in 0 .. Cardinality(T)
  <1>1. IsFiniteSet(T)
    <2>1. IsFiniteSet(1 .. n)
      BY FS_Interval
    <2>. QED  BY <2>1, FS_Subset
  <1>2. {m \in T : m >= k} \subseteq T
    OBVIOUS
  <1>. QED  BY <1>1, <1>2, FS_Subset, FS_CardinalityType DEF Rank

(* A position before all of T comes last in the list. *)
LEMMA LastFirstExtends ==
  ASSUME NEW table, NEW n \in Nat, NEW T \in SUBSET (1 .. n), NEW p \in 1 .. n,
         \A k \in T : p < k
  PROVE  LastFirst(table, T \cup {p}) = Append(LastFirst(table, T), Item(table[p]))
  <1> DEFINE U == T \cup {p}
             c == Cardinality(T)
             Old(m) == CHOOSE k \in T : Rank(T, k) = m
             New(m) == CHOOSE k \in U : Rank(U, k) = m
  <1>1. c \in Nat /\ IsFiniteSet(T) /\ p \notin T
    <2>1. IsFiniteSet(1 .. n)
      BY FS_Interval
    <2>2. IsFiniteSet(T)
      BY <2>1, FS_Subset
    <2>. QED  BY <2>2, FS_CardinalityType
  <1>2. Cardinality(U) = c + 1
    BY <1>1, FS_AddElement
  <1>3. \A k \in T : Rank(U, k) = Rank(T, k) /\ Rank(T, k) \in 0 .. c
    <2>1. ASSUME NEW k \in T PROVE {m \in U : m >= k} = {m \in T : m >= k}
      OBVIOUS
    <2>. QED  BY <2>1, RankOf DEF Rank
  <1>4. Rank(U, p) = c + 1
    <2>1. {m \in U : m >= p} = U
      <3>1. \A m \in U : m >= p
        OBVIOUS
      <3>. QED  BY <3>1, Zenon
    <2>. QED  BY <2>1, <1>2 DEF Rank
  <1>5. ASSUME NEW m \in 1 .. c PROVE New(m) = Old(m)
    <2>1. \A k \in U : Rank(U, k) = m <=> k \in T /\ Rank(T, k) = m
      BY <1>1, <1>3, <1>4
    <2>2. {k \in U : Rank(U, k) = m} = {k \in T : Rank(T, k) = m}
      BY <2>1
    <2>. QED  BY <2>1
  <1>6. New(c + 1) = p
    <2>1. \A k \in U : Rank(U, k) = c + 1 <=> k = p
      BY <1>1, <1>3, <1>4
    <2>. QED  BY <2>1
  <1>7. LastFirst(table, T) = [m \in 1 .. c |-> Item(table[Old(m)])]
    BY DEF LastFirst, Rank
  <1>8. LastFirst(table, U) = [m \in 1 .. c + 1 |-> Item(table[New(m)])]
    BY <1>2 DEF LastFirst, Rank
  <1> HIDE DEF U, Old, New, c
  <1> DEFINE S == {Item(table[Old(m)]) : m \in 1 .. c} \cup {Item(table[p])}
             old == LastFirst(table, T)
             new == LastFirst(table, U)
  <1>9. old \in Seq(S) /\ Len(old) = c /\ Item(table[p]) \in S
    BY <1>1, <1>7
  <1>10. \A m \in 1 .. c + 1 : new[m] = IF m <= c THEN old[m] ELSE Item(table[p])
    BY <1>1, <1>5, <1>6, <1>7, <1>8
  <1>11. new \in Seq(S) /\ Len(new) = c + 1
    <2>1. \A m \in 1 .. c + 1 : Item(table[New(m)]) \in S
      BY <1>1, <1>5, <1>6
    <2> HIDE DEF S
    <2>. QED  BY <1>1, <1>8, <2>1
  <1> HIDE DEF S, old, new
  <1>12. new = Append(old, Item(table[p]))
    <2>1. /\ Append(old, Item(table[p])) \in Seq(S) /\ Len(Append(old, Item(table[p]))) = c + 1
          /\ \A m \in 1 .. c : Append(old, Item(table[p]))[m] = old[m]
          /\ Append(old, Item(table[p]))[c + 1] = Item(table[p])
      BY <1>9, AppendProperties
    <2>. QED  BY <1>1, <1>10, <1>11, <2>1, SeqEqual
  <1>. QED  BY <1>12 DEF U, old, new

-----------------------------------------------------------------------------
(* While IPV4 or IPV6 goes through its table, the list is what it was       *)
(* before and the addresses of the interfaces done, the last ones.          *)
While == {"while4", "while6"}
Found(table, family, n) == {k \in DOMAIN table : table[k].sin_family = family /\ k > n}

ListSoFar ==
  /\ buf = NoText
  /\ info \in Seq(Interfaces)
  /\ i \in 0 .. Len(info)
  /\ \E before \in Seq({Item(a) : a \in Interfaces}) :
       /\ wanted = before \o Addresses(info, FamilyOf(pc))
       /\ out_list = before \o LastFirst(info, Found(info, FamilyOf(pc), i))

ListInv ==
  /\ thread_ = starts
  /\ ~isrunning_ => pc = "ended"
  /\ out_list \in Seq({Item(a) : a \in Interfaces})
  /\ ~undefined => IF pc \in While THEN ListSoFar ELSE out_list = wanted

LEMMA FoundStep ==
  ASSUME NEW table \in Seq(Interfaces), NEW family, NEW n \in 1 .. Len(table)
  PROVE  LastFirst(table, Found(table, family, n - 1)) =
           IF table[n].sin_family = family
             THEN Append(LastFirst(table, Found(table, family, n)), Item(table[n]))
             ELSE LastFirst(table, Found(table, family, n))
  <1>1. Len(table) \in Nat /\ DOMAIN table = 1 .. Len(table)
    OBVIOUS
  <1>2. CASE table[n].sin_family = family
    <2>1. Found(table, family, n - 1) = Found(table, family, n) \cup {n}
      BY <1>1, <1>2 DEF Found
    <2>2. Found(table, family, n) \in SUBSET (1 .. Len(table)) /\ \A k \in Found(table, family, n) : n < k
      BY <1>1 DEF Found
    <2>3. LastFirst(table, Found(table, family, n) \cup {n}) =
            Append(LastFirst(table, Found(table, family, n)), Item(table[n]))
      BY <1>1, <2>2, LastFirstExtends
    <2>. QED  BY <1>2, <2>1, <2>3
  <1>3. CASE table[n].sin_family # family
    <2>1. Found(table, family, n - 1) = Found(table, family, n)
      BY <1>1, <1>3 DEF Found
    <2>. QED  BY <2>1, <1>3
  <1>. QED  BY <1>2, <1>3

LEMMA FoundType ==
  ASSUME NEW table \in Seq(Interfaces), NEW family, NEW n, NEW Items
  PROVE  \E S : LastFirst(table, Found(table, family, n)) \in Seq(S) /\ Items \subseteq S
  <1> DEFINE T == Found(table, family, n)
             Value(m) == Item(table[CHOOSE k \in T : Cardinality({l \in T : l >= k}) = m])
             S == {Value(m) : m \in 1 .. Cardinality(T)} \cup Items
  <1>1. Cardinality(T) \in Nat
    <2>1. Len(table) \in Nat /\ T \in SUBSET (1 .. Len(table))
      BY DEF Found
    <2>2. IsFiniteSet(1 .. Len(table))
      BY <2>1, FS_Interval
    <2>. QED  BY <2>1, <2>2, FS_Subset, FS_CardinalityType
  <1>2. LastFirst(table, T) = [m \in 1 .. Cardinality(T) |-> Value(m)]
    BY DEF LastFirst
  <1>3. \A m \in 1 .. Cardinality(T) : Value(m) \in S
    OBVIOUS
  <1>4. Items \subseteq S
    OBVIOUS
  <1> HIDE DEF T, Value, S
  <1>5. LastFirst(table, T) \in Seq(S)
    BY <1>1, <1>2, <1>3
  <1>. QED  BY <1>4, <1>5 DEF T

LEMMA FoundEnds ==
  ASSUME NEW table \in Seq(Interfaces), NEW family
  PROVE  /\ LastFirst(table, Found(table, family, 0)) = Addresses(table, family)
         /\ LastFirst(table, Found(table, family, Len(table))) = <<>>
  <1>1. Len(table) \in Nat /\ DOMAIN table = 1 .. Len(table)
    OBVIOUS
  <1>2. Found(table, family, 0) = {k \in DOMAIN table : table[k].sin_family = family}
    BY <1>1 DEF Found
  <1>3. Found(table, family, Len(table)) = {}
    BY <1>1 DEF Found
  <1>4. LastFirst(table, {}) = <<>>
    BY FS_EmptySet DEF LastFirst
  <1>. QED  BY <1>2, <1>3, <1>4 DEF Addresses

LEMMA ListInvInit == KitsInit => ListInv
  BY DEF KitsInit, ListInv, While

LEMMA ListInvStep == ListInv /\ [KitsNext]_kitsVars => ListInv'
  <1> SUFFICES ASSUME ListInv, [KitsNext]_kitsVars PROVE ListInv'
    OBVIOUS
  <1> USE DEF threadVars, listVars
  <1> DEFINE Items == {Item(a) : a \in Interfaces}
  <1>1. CASE Start
    BY <1>1 DEF Start, ListInv, While, Live
  <1>2. CASE Stop \/ Destroy
    <2>1. ~undefined /\ pc = "ended" /\ pc' = "ended" /\ UNCHANGED <<thread_, starts, listVars>>
      BY <1>2 DEF Stop, Destroy, ListInv, Live, UvThreadJoin
    <2>. QED  BY <2>1 DEF ListInv, While
  <1>3. CASE UvInterfaceAddresses
    <2>1. /\ ~undefined /\ pc \notin While /\ pc # "ended" /\ pc' \in While
          /\ FamilyOf(pc') = FamilyOf(pc)
          /\ UNCHANGED <<thread_, starts, isrunning_, out_list>>
      BY <1>3 DEF UvInterfaceAddresses, While, FamilyOf
    <2>2. info' \in Seq(Interfaces) /\ i' = Len(info') /\ buf' = NoText
          /\ wanted' = wanted \o Addresses(info', FamilyOf(pc))
      <3>1. info' \in BoundedSeq(Interfaces, MaxCount) \/ info' = <<>>
        BY <1>3 DEF UvInterfaceAddresses
      <3>2. info' \in Seq(Interfaces)
        <4>1. CASE info' \in BoundedSeq(Interfaces, MaxCount)
          <5>1. PICK m \in 0 .. MaxCount : info' \in [1 .. m -> Interfaces]
            BY <4>1 DEF BoundedSeq, SeqOf
          <5>. QED  BY <5>1, KitsAssumption
        <4>2. CASE info' = <<>>
          BY <4>2
        <4>. QED  BY <3>1, <4>1, <4>2
      <3>. QED  BY <3>2, <1>3 DEF UvInterfaceAddresses
    <2>3. out_list = wanted /\ out_list \in Seq(Items) /\ isrunning_ /\ thread_ = starts
      BY <2>1 DEF ListInv
    <2>4. wanted' = out_list \o Addresses(info', FamilyOf(pc'))
      BY <2>1, <2>2, <2>3
    <2>5. out_list' = out_list \o LastFirst(info', Found(info', FamilyOf(pc'), i'))
      BY <2>1, <2>2, <2>3, FoundEnds
    <2>6. i' \in 0 .. Len(info')
      BY <2>2
    <2>7. ListSoFar'
      BY <2>2, <2>3, <2>4, <2>5, <2>6 DEF ListSoFar
    <2>. QED  BY <2>1, <2>3, <2>7 DEF ListInv
  <1>4. CASE NextAddress
    <2>1. /\ ~undefined /\ pc \in While /\ pc # "ended" /\ i > 0 /\ i' = i - 1 /\ buf' = NoText
          /\ UNCHANGED <<thread_, starts, isrunning_, pc, info, undefined, wanted>>
      BY <1>4 DEF NextAddress, While
    <2>2. ListSoFar /\ isrunning_ /\ thread_ = starts /\ out_list \in Seq(Items)
      BY <2>1 DEF ListInv
    <2>3. buf = NoText /\ info \in Seq(Interfaces) /\ i \in 1 .. Len(info) /\ info[i] \in Interfaces
      BY <2>1, <2>2 DEF ListSoFar
    <2>4. PICK before \in Seq(Items) :
            /\ wanted = before \o Addresses(info, FamilyOf(pc))
            /\ out_list = before \o LastFirst(info, Found(info, FamilyOf(pc), i))
      BY <2>2 DEF ListSoFar
    <2>5. out_list' = IF info[i].sin_family = FamilyOf(pc)
                        THEN Append(out_list, Item(info[i]))
                        ELSE out_list
      <3>1. info[i] # NoText
        <4>1. info[i].sin_family # "none"
          BY <2>3, KitsAssumption
        <4>2. NoText.sin_family = "none"
          BY DEF NoText
        <4>. QED  BY <4>1, <4>2
      <3>2. CASE info[i].sin_family = FamilyOf(pc)
        BY <1>4, <2>3, <3>1, <3>2 DEF NextAddress, Item
      <3>3. CASE info[i].sin_family # FamilyOf(pc)
        BY <1>4, <2>3, <3>3 DEF NextAddress
      <3>. QED  BY <3>2, <3>3
    <2> DEFINE list == LastFirst(info, Found(info, FamilyOf(pc), i))
               next == LastFirst(info, Found(info, FamilyOf(pc), i - 1))
    <2>6. next = IF info[i].sin_family = FamilyOf(pc) THEN Append(list, Item(info[i])) ELSE list
      BY <2>3, FoundStep
    <2>7. Item(info[i]) \in Items
      BY <2>3
    <2>8. out_list' = before \o next
      <3>1. PICK S : list \in Seq(S) /\ Items \subseteq S
        <4>1. \E S : LastFirst(info, Found(info, FamilyOf(pc), i)) \in Seq(S) /\ Items \subseteq S
          <5> HIDE DEF Items
          <5>1. info \in Seq(Interfaces)
            BY <2>3
          <5>. QED  BY <5>1, FoundType
        <4>. QED  BY <4>1
      <3>2. before \in Seq(S) /\ Item(info[i]) \in S
        BY <3>1, <2>7
      <3> HIDE DEF list, next
      <3>3. Append(before \o list, Item(info[i])) = before \o Append(list, Item(info[i]))
        <4> DEFINE x == Item(info[i])
        <4>1. x \in S /\ <<x>> \in Seq(S)
          BY <3>2
        <4> HIDE DEF x
        <4>2. before \o list \in Seq(S)
          BY <3>1, <3>2, ConcatProperties
        <4>3. Append(before \o list, x) = (before \o list) \o <<x>>
          BY <4>1, <4>2, AppendIsConcat
        <4>4. Append(list, x) = list \o <<x>>
          BY <3>1, <4>1, AppendIsConcat
        <4>5. (before \o list) \o <<x>> = before \o (list \o <<x>>)
          BY <3>1, <3>2, <4>1, ConcatAssociative
        <4>. QED  BY <4>3, <4>4, <4>5 DEF x
      <3>. QED  BY <2>4, <2>5, <2>6, <3>3 DEF list
    <2>9. out_list' \in Seq(Items)
      BY <2>2, <2>5, <2>7
    <2>10. ListSoFar'
      <3>1. i' \in 0 .. Len(info')
        BY <2>1, <2>3
      <3>2. out_list' = before \o LastFirst(info', Found(info', FamilyOf(pc'), i'))
        BY <2>1, <2>8
      <3>3. wanted' = before \o Addresses(info', FamilyOf(pc'))
        BY <2>1, <2>4
      <3>4. buf' = NoText /\ info' \in Seq(Interfaces)
        BY <2>1, <2>3
      <3>. QED  BY <3>1, <3>2, <3>3, <3>4 DEF ListSoFar
    <2>. QED  BY <2>1, <2>2, <2>9, <2>10 DEF ListInv
  <1>5. CASE LastAddress
    <2>1. /\ ~undefined /\ pc \in While /\ i = 0 /\ pc' \notin While /\ pc # "ended"
          /\ UNCHANGED <<thread_, starts, isrunning_, undefined, listVars>>
      BY <1>5 DEF LastAddress, While
    <2>2. ListSoFar /\ isrunning_ /\ thread_ = starts /\ out_list \in Seq(Items)
      BY <2>1 DEF ListInv
    <2>3. out_list = wanted
      BY <2>1, <2>2, FoundEnds DEF ListSoFar
    <2>. QED  BY <2>1, <2>2, <2>3 DEF ListInv
  <1>6. CASE UNCHANGED kitsVars
    BY <1>6 DEF kitsVars, ListInv, ListSoFar
  <1>. QED  BY <1>1, <1>2, <1>3, <1>4, <1>5, <1>6 DEF KitsNext, IPAll

(* When no thread runs, the list holds what the queries made should have    *)
(* put in it, whatever the interfaces were at each (IPV4, IPV6).            *)
THEOREM AddressesListed == KitsSpec => []ListComplete
  <1>1. ListInv => ListComplete
    BY DEF ListInv, ListComplete, While
  <1>. QED  BY <1>1, ListInvInit, ListInvStep, PTL DEF KitsSpec

-----------------------------------------------------------------------------
(* Of an object that is gone nothing points anywhere; of one there is, each *)
(* pointer but _data is one malloc returned.                                *)
StorageInv ==
  /\ pointer \in [Member -> {"none", "null", "block", "handle"}]
  /\ blocks \in [Member -> Int]
  /\ \A m \in Member : m[1] \notin live => pointer[m] = "none"
  /\ \A m \in Member \ Datas : m[1] \in live => pointer[m] \in {"null", "block"}
  /\ OnlyDataLost
  /\ FreesOnlyBlocks

(* The members of each object. *)
LEMMA MembersOf ==
  /\ \A m \in Member \ (Buffs \cup Datas) : m[1] # "SendEventPlus"
  /\ \A m \in Buffs \cup Datas : m \in Member /\ m[1] = "SendEventPlus"
  /\ \A m \in Member : m[1] = "UvEvent" => m = M("UvEvent", "_buff")
  /\ \A m \in Member : m[1] = "write_param" => m \in {M("write_param", "self"), M("write_param", "base")}
  /\ \A m \in Member : m[1] = "send_param" => m \in {M("send_param", "self"), M("send_param", "base")}
  /\ \A m \in Member : m[1] = "PacketSync" => m = M("PacketSync", "base")
  /\ \A m \in Member : m[1] = "UDPCTX" =>
       m \in {M("UDPCTX", "self"), M("UDPCTX", "read_buf_"), M("UDPCTX", "send_buf_")}
  /\ \A m \in Member : m[1] = "Format" => m = M("Format", "pbuf")
  /\ Buffs \cap Datas = {}
  BY DEF Member, M, Buffs, Datas, Buff, Data

(* Making an object keeps the books, whichever of its calls fail. *)
LEMMA MakeKeeps ==
  ASSUME StorageInv, ~crashed, NEW o, NEW got \in SUBSET Member,
         \A m \in got : m[1] = o, Make(o, got)
  PROVE  StorageInv'
  <1>1. /\ o \notin live /\ live' = live \cup {o}
        /\ pointer' = [m \in Member |-> IF m \in got THEN "block"
                                        ELSE IF m[1] = o THEN "null" ELSE pointer[m]]
        /\ blocks' = [m \in Member |-> IF m \in got THEN blocks[m] + 1 ELSE blocks[m]]
        /\ badFree' = badFree
    BY DEF Make
  <1>2. \A m \in Member : m[1] = o => pointer[m] = "none"
    BY <1>1 DEF StorageInv
  <1>3. /\ pointer' \in [Member -> {"none", "null", "block", "handle"}]
        /\ blocks' \in [Member -> Int]
    BY <1>1 DEF StorageInv
  <1>4. \A m \in Member : m[1] \notin live' => pointer'[m] = "none"
    BY <1>1 DEF StorageInv
  <1>5. \A m \in Member \ Datas : m[1] \in live' => pointer'[m] \in {"null", "block"}
    BY <1>1 DEF StorageInv
  <1>6. \A m \in Member \ Datas : blocks'[m] = IF pointer'[m] = "block" THEN 1 ELSE 0
    <2> TAKE m \in Member \ Datas
    <2>1. blocks[m] = IF pointer[m] = "block" THEN 1 ELSE 0
      BY DEF StorageInv, OnlyDataLost
    <2>2. CASE m \in got
      BY <1>1, <1>2, <2>1, <2>2
    <2>3. CASE m \notin got
      BY <1>1, <1>2, <2>1, <2>3
    <2>. QED  BY <2>2, <2>3
  <1>. QED  BY <1>1, <1>3, <1>4, <1>5, <1>6 DEF StorageInv, OnlyDataLost, FreesOnlyBlocks

(* So does deleting one whose blocks, but for those of _data, are freed. *)
LEMMA DeleteKeeps ==
  ASSUME StorageInv, ~crashed, NEW o, NEW ms \in SUBSET (Member \ Datas),
         \A m \in ms : m[1] = o,
         \A m \in Member \ Datas : m[1] = o /\ pointer[m] # "null" => m \in ms,
         Delete(o), Free(ms)
  PROVE  StorageInv'
  <1>1. /\ o \in live /\ live' = live \ {o}
        /\ pointer' = [m \in Member |-> IF m[1] = o THEN "none" ELSE pointer[m]]
    BY DEF Delete
  <1>2. /\ blocks' = [m \in Member |-> IF m \in ms /\ pointer[m] = "block"
                                         THEN blocks[m] - 1 ELSE blocks[m]]
        /\ badFree' = (\E m \in ms : pointer[m] \notin {"null", "block"})
    BY DEF Free
  <1>3. /\ pointer' \in [Member -> {"none", "null", "block", "handle"}]
        /\ blocks' \in [Member -> Int]
    BY <1>1, <1>2 DEF StorageInv
  <1>4. \A m \in Member : m[1] \notin live' => pointer'[m] = "none"
    BY <1>1 DEF StorageInv
  <1>5. \A m \in Member \ Datas : m[1] \in live' => pointer'[m] \in {"null", "block"}
    BY <1>1 DEF StorageInv
  <1>6. \A m \in Member \ Datas : blocks'[m] = IF pointer'[m] = "block" THEN 1 ELSE 0
    <2> TAKE m \in Member \ Datas
    <2>1. blocks[m] = IF pointer[m] = "block" THEN 1 ELSE 0
      BY DEF StorageInv, OnlyDataLost
    <2>2. CASE m[1] = o
      <3>1. pointer[m] = "null" \/ (pointer[m] = "block" /\ m \in ms)
        BY <1>1, <2>2 DEF StorageInv
      <3>. QED  BY <1>1, <1>2, <2>1, <2>2, <3>1
    <2>3. CASE m[1] # o
      BY <1>1, <1>2, <2>1, <2>3
    <2>. QED  BY <2>2, <2>3
  <1>7. ~badFree'
    BY <1>1, <1>2 DEF StorageInv
  <1>. QED  BY <1>3, <1>4, <1>5, <1>6, <1>7 DEF StorageInv, OnlyDataLost, FreesOnlyBlocks

(* A realloc that fails loses the block and the program crashes. *)
LEMMA CopyKeeps ==
  ASSUME StorageInv, ~crashed, OnRecvDataCopies
  PROVE  StorageInv'
  <1> DEFINE base == M("PacketSync", "base")
  <1>0. base \in Member \ Datas /\ base[1] = "PacketSync"
    BY DEF M, Member, Datas, Data
  <1>1. "PacketSync" \in live /\ live' = live /\ badFree' = badFree
    BY DEF OnRecvDataCopies
  <1>2. /\ \/ pointer' = pointer /\ blocks' = blocks
           \/ pointer' = [pointer EXCEPT ![base] = "block"] /\ blocks' = [blocks EXCEPT ![base] = 1]
           \/ pointer' = [pointer EXCEPT ![base] = "null"] /\ blocks' = blocks
        /\ crashed' = (pointer'[base] = "null")
    BY DEF OnRecvDataCopies
  <1> HIDE DEF base
  <1>3. /\ pointer' \in [Member -> {"none", "null", "block", "handle"}]
        /\ blocks' \in [Member -> Int]
    BY <1>0, <1>2 DEF StorageInv
  <1>4. \A m \in Member : m[1] \notin live' => pointer'[m] = "none"
    BY <1>0, <1>1, <1>2 DEF StorageInv
  <1>5. \A m \in Member \ Datas : m[1] \in live' => pointer'[m] \in {"null", "block"}
    BY <1>0, <1>1, <1>2 DEF StorageInv
  <1>6. OnlyDataLost'
    BY <1>0, <1>2 DEF StorageInv, OnlyDataLost
  <1>. QED  BY <1>1, <1>3, <1>4, <1>5, <1>6 DEF StorageInv, FreesOnlyBlocks

(* The handle goes only where the byte of _data was. *)
LEMMA SendKeeps ==
  ASSUME StorageInv, SendSetsData
  PROVE  StorageInv'
  <1>1. PICK k \in Events : pointer' = [pointer EXCEPT ![Data(k)] = "handle"]
    BY DEF SendSetsData
  <1>2. "SendEventPlus" \in live /\ live' = live /\ blocks' = blocks
        /\ badFree' = badFree /\ crashed' = crashed
    BY DEF SendSetsData
  <1>3. Data(k) \in Datas /\ Data(k) \in Member /\ Data(k)[1] = "SendEventPlus"
    BY DEF Datas, Member, Data
  <1>. QED  BY <1>1, <1>2, <1>3 DEF StorageInv, OnlyDataLost, FreesOnlyBlocks

LEMMA StorageInvariant == StorageSpec => []StorageInv
<1>1. StorageInit => StorageInv
  BY DEF StorageInit, StorageInv, OnlyDataLost, FreesOnlyBlocks
<1>2. StorageInv /\ [StorageNext]_storageVars => StorageInv'
  <2> SUFFICES ASSUME StorageInv, [StorageNext]_storageVars PROVE StorageInv'
    OBVIOUS
  <2>1. CASE UNCHANGED storageVars
    BY <2>1 DEF storageVars, StorageInv, OnlyDataLost, FreesOnlyBlocks
  <2>2. CASE StorageNext
    <3>1. ~crashed
      BY <2>2 DEF StorageNext
    <3>2. CASE CreateUvEvent
      <4>1. M("UvEvent", "_buff") \in Member /\ M("UvEvent", "_buff")[1] = "UvEvent"
        BY DEF M, Member
      <4>2. PICK got \in {{}, {M("UvEvent", "_buff")}} : Make("UvEvent", got)
        BY <3>2 DEF CreateUvEvent
      <4>. QED  BY <3>1, <4>1, <4>2, MakeKeeps
    <3>3. CASE FreeUvEvent
      <4> DEFINE ms == NotNull({M("UvEvent", "_buff")})
      <4>1. /\ ms \in SUBSET (Member \ Datas) /\ \A m \in ms : m[1] = "UvEvent"
            /\ \A m \in Member \ Datas : m[1] = "UvEvent" /\ pointer[m] # "null" => m \in ms
        BY MembersOf DEF NotNull, M, Member, Datas, Data
      <4>2. Delete("UvEvent") /\ Free(ms)
        BY <3>3 DEF FreeUvEvent
      <4> HIDE DEF ms
      <4>. QED  BY <3>1, <4>1, <4>2, DeleteKeeps
    <3>4. ASSUME NEW o \in {"write_param", "send_param"}, AllocParam(o) PROVE StorageInv'
      <4>1. \A m \in {M(o, "self"), M(o, "base")} : m \in Member /\ m[1] = o
        BY DEF M, Member
      <4>2. PICK got \in SUBSET {M(o, "self"), M(o, "base")} : Make(o, got)
        BY <3>4 DEF AllocParam
      <4>. QED  BY <3>1, <4>1, <4>2, MakeKeeps
    <3>5. ASSUME NEW o \in {"write_param", "send_param"}, FreeParam(o) PROVE StorageInv'
      <4> DEFINE ms == {M(o, "base"), M(o, "self")}
      <4>1. /\ ms \in SUBSET (Member \ Datas) /\ \A m \in ms : m[1] = o
            /\ \A m \in Member \ Datas : m[1] = o /\ pointer[m] # "null" => m \in ms
        <5>1. \A m \in ms : m \in Member /\ m[1] = o
          BY DEF M, Member
        <5>2. \A m \in Datas : m[1] # o
          BY MembersOf
        <5>3. \A m \in Member : m[1] = o => m \in ms
          BY MembersOf
        <5> HIDE DEF ms
        <5>. QED  BY <5>1, <5>2, <5>3
      <4>2. Delete(o) /\ Free(ms)
        BY <3>5 DEF FreeParam
      <4> HIDE DEF ms
      <4>. QED  BY <3>1, <4>1, <4>2, DeleteKeeps
    <3>6. CASE NewPacketSync
      <4>1. M("PacketSync", "base") \in Member /\ M("PacketSync", "base")[1] = "PacketSync"
        BY DEF M, Member
      <4>2. PICK got \in SUBSET {M("PacketSync", "base")} : Make("PacketSync", got)
        BY <3>6 DEF NewPacketSync
      <4>. QED  BY <3>1, <4>1, <4>2, MakeKeeps
    <3>7. CASE DeletePacketSync
      <4> DEFINE ms == {M("PacketSync", "base")}
      <4>1. /\ ms \in SUBSET (Member \ Datas) /\ \A m \in ms : m[1] = "PacketSync"
            /\ \A m \in Member \ Datas : m[1] = "PacketSync" /\ pointer[m] # "null" => m \in ms
        BY MembersOf DEF M, Member, Datas, Data
      <4>2. Delete("PacketSync") /\ Free(ms)
        BY <3>7 DEF DeletePacketSync
      <4> HIDE DEF ms
      <4>. QED  BY <3>1, <4>1, <4>2, DeleteKeeps
    <3>8. CASE SetCount
      <4>1. PICK got \in SUBSET (Buffs \cup Datas) : Make("SendEventPlus", got)
        BY <3>8 DEF SetCount
      <4>. QED  BY <3>1, <4>1, MembersOf, MakeKeeps
    <3>9. CASE PoolUnInit
      <4> DEFINE ms == NotNull(Buffs)
      <4>1. /\ ms \in SUBSET (Member \ Datas) /\ \A m \in ms : m[1] = "SendEventPlus"
            /\ \A m \in Member \ Datas : m[1] = "SendEventPlus" /\ pointer[m] # "null" => m \in ms
        BY MembersOf DEF NotNull
      <4>2. Delete("SendEventPlus") /\ Free(ms)
        BY <3>9 DEF PoolUnInit
      <4> HIDE DEF ms
      <4>. QED  BY <3>1, <4>1, <4>2, DeleteKeeps
    <3>10. CASE NewUDPCTX
      <4> DEFINE all == {M("UDPCTX", "self"), M("UDPCTX", "read_buf_"), M("UDPCTX", "send_buf_")}
      <4>1. \A m \in all : m \in Member /\ m[1] = "UDPCTX"
        BY DEF M, Member
      <4>2. PICK got \in SUBSET all : Make("UDPCTX", got)
        BY <3>10 DEF NewUDPCTX
      <4> HIDE DEF all
      <4>. QED  BY <3>1, <4>1, <4>2, MakeKeeps
    <3>11. CASE DelUDPCTX
      <4> DEFINE bufs == {M("UDPCTX", "read_buf_"), M("UDPCTX", "send_buf_")}
                 ms == NotNull(bufs) \cup {M("UDPCTX", "self")}
      <4>1. /\ ms \in SUBSET (Member \ Datas) /\ \A m \in ms : m[1] = "UDPCTX"
            /\ \A m \in Member \ Datas : m[1] = "UDPCTX" /\ pointer[m] # "null" => m \in ms
        <5>1. \A m \in ms : m \in Member /\ m[1] = "UDPCTX"
          BY DEF NotNull, M, Member
        <5>2. \A m \in Datas : m[1] # "UDPCTX"
          BY MembersOf
        <5>3. \A m \in Member : m[1] = "UDPCTX" /\ pointer[m] # "null" => m \in ms
          BY MembersOf DEF NotNull
        <5> HIDE DEF ms
        <5>. QED  BY <5>1, <5>2, <5>3
      <4>2. Delete("UDPCTX") /\ Free(ms)
        BY <3>11 DEF DelUDPCTX
      <4> HIDE DEF ms
      <4>. QED  BY <3>1, <4>1, <4>2, DeleteKeeps
    <3>12. CASE FormatBegin
      <4>1. M("Format", "pbuf") \in Member /\ M("Format", "pbuf")[1] = "Format"
        BY DEF M, Member
      <4>2. PICK got \in SUBSET {M("Format", "pbuf")} : Make("Format", got)
        BY <3>12 DEF FormatBegin
      <4>. QED  BY <3>1, <4>1, <4>2, MakeKeeps
    <3>13. CASE FormatEnd
      <4>1. CASE /\ crashed' = TRUE
                 /\ UNCHANGED <<live, pointer, blocks, pools, badFree>>
        BY <4>1 DEF StorageInv, OnlyDataLost, FreesOnlyBlocks
      <4>2. CASE Delete("Format") /\ Free(NotNull({M("Format", "pbuf")}))
        <5> DEFINE ms == NotNull({M("Format", "pbuf")})
        <5>1. /\ ms \in SUBSET (Member \ Datas) /\ \A m \in ms : m[1] = "Format"
              /\ \A m \in Member \ Datas : m[1] = "Format" /\ pointer[m] # "null" => m \in ms
          BY MembersOf DEF NotNull, M, Member, Datas, Data
        <5>2. Delete("Format") /\ Free(ms)
          BY <4>2
        <5> HIDE DEF ms
        <5>. QED  BY <3>1, <5>1, <5>2, DeleteKeeps
      <4>. QED  BY <3>13, <4>1, <4>2 DEF FormatEnd
    <3>. QED  BY <2>2, <3>1, <3>2, <3>3, <3>4, <3>5, <3>6, <3>7, <3>8, <3>9, <3>10, <3>11,
                 <3>12, <3>13, CopyKeeps, SendKeeps DEF StorageNext
  <2>. QED  BY <2>1, <2>2
<1>. QED  BY <1>1, <1>2, PTL DEF StorageSpec

(* Whatever the size of the pool and whichever mallocs fail, free is never  *)
(* given what malloc did not give: the handle that Send put in _data.       *)
THEOREM FreesAreSound == StorageSpec => []FreesOnlyBlocks
<1>1. StorageInv => FreesOnlyBlocks
  BY DEF StorageInv
<1>. QED  BY <1>1, StorageInvariant, PTL

(* And as long as the program runs it loses no block but those of _data.    *)
THEOREM NothingElseLost == StorageSpec => []OnlyDataLost
<1>1. StorageInv => OnlyDataLost
  BY DEF StorageInv
<1>. QED  BY <1>1, StorageInvariant, PTL
=============================================================================
